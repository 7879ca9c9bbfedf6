------------------------------ MODULE MCEscort ------------------------------
(***************************************************************************)
(* Instances of Escort for TLC.                                            *)
(***************************************************************************)
EXTENDS Escort

CONSTANTS B1, B2, D1, D2, o1, o2

\* One broker is responsible for all occurrences.
AtB1 == [o \in Occurrence |-> {B1}]
AtB2 == [o \in Occurrence |-> {B2}]

\* o1 is the more urgent occurrence.
Urgency == [o \in Occurrence |-> IF o = o1 THEN 1 ELSE 2]

\* D1 belongs to B1 and D2 to B2, and each falls back on the other.
Addresses == [d \in Drone |-> IF d = D1 THEN <<B1, B2>> ELSE <<B2, B1>>]
\* Both belong to B1.
AllToB1 == [d \in Drone |-> <<B1>>]

\* State constraint: when a step is taken, at most two messages between brokers
\* are in flight, one of them about the view of a drone.
FewMessages ==
  /\ Cardinality(net) <= 2
  /\ Cardinality({m \in net : m.msg.tipo = "SINC_DRONE"}) <= 1

\* State constraint: a behaviour has a broken connection, or a drone shot down,
\* an adopted chain and a second dispatcher, that of the broker with no drone.
BreaksAlone ==
  faults.breaks > 0 => faults.shots + adoptions = 0 /\ dispatch[B2] = Idle

\* State constraint: nothing follows a committed log of a mission.
LogEnds == Len(chain) <= 1
=============================================================================
