SPECIFICATION Spec
CONSTANTS
  B1 = B1
  B2 = B2
  B3 = B3
  B4 = B4
  company = company
  Account <- MCAccount
  Vessel = {}
  Tx <- OneTransfer
  GenesisTxs <- Balance2
  MaxBlockTxs = 1
  Validators <- ThreeValidators
  Quorum = 2
  Entry <- AtB2
  LateStarters = {B3}
  MaxTicks = 1
  Faulty = {B2}
  MaxCrashes = 1
  MaxDrops = 0
INVARIANT
  NoForks
CHECK_DEADLOCK FALSE
