SPECIFICATION Spec
CONSTANTS
  B1 = B1
  B2 = B2
  B3 = B3
  B4 = B4
  company = company
  Account <- MCAccount
  Vessel = {}
  Tx <- OneTransfer
  GenesisTxs <- Balance2
  MaxBlockTxs = 1
  Validators <- TwoValidators
  Quorum = 2
  Entry <- AtB2
  LateStarters = {B1}
  MaxTicks = 1
  Faulty = {B1, B2}
  MaxCrashes = 2
  MaxDrops = 1
INVARIANTS
  ForkNeedsForgetting
  ProposersPrevail
PROPERTY
  OneLedger
CHECK_DEADLOCK FALSE
