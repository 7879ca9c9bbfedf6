\* Three brokers, of which two may crash at any point, the leader first or
\* last, and a connection that breaks and is made again.
SPECIFICATION FairSpec
CONSTANTS
  Broker = {1, 2, 3}
  Seed = 1
  Faulty = {1, 2, 3}
  MaxCrashes = 2
  MaxBreaks = 1
  Punctual = TRUE
INVARIANTS TypeOK RingSound Exclusive
PROPERTIES SectorsServed LeaderAgreed
\* The broker that is left may have nothing to send and nobody to wait for.
CHECK_DEADLOCK FALSE
