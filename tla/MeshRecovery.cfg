\* Three brokers, of which any one crashes and comes back.
SPECIFICATION FairSpec
CONSTANTS
  Broker = {1, 2, 3}
  Seed = 1
  Faulty = {1, 2, 3}
  MaxCrashes = 1
  MaxBreaks = 0
  MaxRestarts = 1
  Punctual = TRUE
PROPERTIES ServedAgain
CHECK_DEADLOCK FALSE
