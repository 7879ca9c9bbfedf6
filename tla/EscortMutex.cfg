SPECIFICATION Spec
CONSTANTS
  B1 = B1
  B2 = B2
  D1 = D1
  D2 = D2
  o1 = o1
  o2 = o2
  Broker = {B1, B2}
  Drone = {D1, D2}
  Occurrence = {o1}
  Unowned = {}
  Responsible <- AtB1
  Rank <- Urgency
  Addrs <- Addresses
  Punctual = FALSE
  MaxPayments = 1
  MaxAdoptions = 0
  MaxDials = 1
  MaxBreaks = 0
  MaxShots = 0
  MaxKeepalives = 0
INVARIANT
  OneDronePerOccurrence
CHECK_DEADLOCK FALSE
