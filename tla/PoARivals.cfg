SPECIFICATION DisjointSpec
CONSTANTS
  B1 = B1
  B2 = B2
  B3 = B3
  B4 = B4
  company = company
  Account <- MCAccount
  Vessel = {}
  Tx <- TwoAndCharge
  GenesisTxs <- Balance2
  MaxBlockTxs = 2
  Validators <- TwoValidators
  Quorum = 2
  Entry <- ByNonce
  LateStarters = {}
  MaxTicks = 1
  Faulty = {B1}
  MaxCrashes = 1
  MaxDrops = 0
INVARIANTS
  NoOverdraft
  CommittedOnce
  NothingTwice
CHECK_DEADLOCK FALSE
