SPECIFICATION FairSpec
CONSTANTS
  B1 = B1
  B2 = B2
  B3 = B3
  B4 = B4
  company = company
  Account <- MCAccount
  Vessel = {}
  Tx <- OneTransfer
  GenesisTxs <- Balance2
  MaxBlockTxs = 1
  Validators <- FourValidators
  Quorum = 3
  Entry <- AtB2
  LateStarters = {B4}
  MaxTicks = 1
  Faulty = {}
  MaxCrashes = 0
  MaxDrops = 0
INVARIANTS
  TypeOK
  CommittedByQuorum
  QuorumBehindEveryBlock
PROPERTY
  EveryoneCommits
CHECK_DEADLOCK FALSE
