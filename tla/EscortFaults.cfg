SPECIFICATION Spec
CONSTANTS
  B1 = B1
  B2 = B2
  D1 = D1
  D2 = D2
  o1 = o1
  o2 = o2
  Broker = {B1, B2}
  Drone = {D1}
  Occurrence = {o1}
  Unowned = {}
  Responsible <- AtB2
  Rank <- Urgency
  Addrs <- AllToB1
  Punctual = FALSE
  MaxPayments = 1
  MaxAdoptions = 1
  MaxDials = 2
  MaxBreaks = 1
  MaxShots = 1
  MaxKeepalives = 0
INVARIANTS
  TypeOK
  PaidBeforeEscort
  LogFollowsPayment
  OnlyEntitled
CONSTRAINTS
  FewMessages
  BreaksAlone
  LogEnds
CHECK_DEADLOCK FALSE
