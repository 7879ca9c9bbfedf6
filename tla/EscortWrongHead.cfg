SPECIFICATION FairSpec
CONSTANTS
  B1 = B1
  B2 = B2
  D1 = D1
  D2 = D2
  o1 = o1
  o2 = o2
  Broker = {B1}
  Drone = {D1, D2}
  Occurrence = {o1, o2}
  Unowned = {}
  Responsible <- AtB1
  Rank <- Urgency
  Addrs <- AllToB1
  Punctual = TRUE
  MaxPayments = 1
  MaxAdoptions = 0
  MaxDials = 1
  MaxBreaks = 0
  MaxShots = 0
  MaxKeepalives = 0
PROPERTY
  QueuedIsLogged
CHECK_DEADLOCK FALSE
