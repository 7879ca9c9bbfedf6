SPECIFICATION FairSpec
CONSTANTS
  B1 = B1
  B2 = B2
  D1 = D1
  D2 = D2
  o1 = o1
  o2 = o2
  Broker = {B1}
  Drone = {D1, D2}
  Occurrence = {o1}
  Unowned = {}
  Responsible <- AtB1
  Rank <- Urgency
  Addrs <- AllToB1
  Punctual = TRUE
  MaxPayments = 1
  MaxAdoptions = 0
  MaxDials = 2
  MaxBreaks = 0
  MaxShots = 1
  MaxKeepalives = 1
PROPERTIES
  QueuedIsLogged
  DronesFreed
CHECK_DEADLOCK FALSE
