---------------------------- MODULE PriorityQueue ----------------------------
(***************************************************************************)
(* What the package fila promises: a set of occurrences, of which the one  *)
(* to serve next is always at hand.  It is of the highest priority, and    *)
(* among those the one with the lowest Lamport time.  How the occurrences  *)
(* are stored does not appear.                                             *)
(***************************************************************************)
EXTENDS Integers, SequencesExt

CONSTANTS
  Ocorrencia,    \* the IDs of occurrences; one is used again when it has left
  Criticidade,   \* Criticidade[o]: 1 (baixa) or 2 (alta)
  Extras,        \* levels that an occurrence may have aged when it comes
  MaxAtrasos     \* bound on the occurrences that come with an earlier time

Nula == 0        \* CriticidadeNula, which no occurrence has that is queued
Alta == 2        \* CriticidadeAlta

VARIABLES
  proxima,      \* {o} when o is to be served next, {} when nothing waits
  ordem,        \* those that wait, by LamportTime and then by Timestamp
  prioridade,   \* prioridade[o]: the priority o was given last
  nivelExtra,   \* nivelExtra[o]: 30 s intervals since the Timestamp of o
  atrasos       \* occurrences so far that came with an earlier time

vars == <<proxima, ordem, prioridade, nivelExtra, atrasos>>

Init ==
  /\ proxima = {}
  /\ ordem = <<>>
  /\ prioridade = [o \in Ocorrencia |-> Nula]
  /\ nivelExtra = [o \in Ocorrencia |-> 0]
  /\ atrasos = 0

\* The place of x in the order of times.
Place(ord, x) == CHOOSE i \in DOMAIN ord : ord[i] = x

\* Less: x is served before y, under the priorities p and in the order ord.
\* Lamport time goes before Timestamp, as in Less (the package comment names
\* the timestamp only).  No two of ord are equal in both, which Less would
\* leave to the heap: the Timestamp counts nanoseconds.
Before(p, ord, x, y) ==
  \/ p[x] > p[y]
  \/ p[x] = p[y] /\ Place(ord, x) < Place(ord, y)

\* Those that nothing comes before.
First(p, ord) ==
  {x \in ToSet(ord) : \A y \in ToSet(ord) : ~ Before(p, ord, y, x)}

\* Mutant: whether o waits already is not looked at.
ArrivesAgain(o, i, e) ==
  /\ ordem' = InsertAt(ordem, i, o)
  /\ IF i <= Len(ordem)
     THEN atrasos < MaxAtrasos /\ atrasos' = atrasos + 1
     ELSE UNCHANGED atrasos
  /\ prioridade' = [prioridade EXCEPT ![o] = Criticidade[o]]
  /\ nivelExtra' = [nivelExtra EXCEPT ![o] = e]

\* o comes as the i-th by its time, e levels old.
Arrives(o, i, e) ==
  /\ o \notin ToSet(ordem)
  /\ ordem' = InsertAt(ordem, i, o)
  /\ IF i <= Len(ordem)
     THEN atrasos < MaxAtrasos /\ atrasos' = atrasos + 1
     ELSE UNCHANGED atrasos
  /\ prioridade' = [prioridade EXCEPT ![o] = Criticidade[o]]
  /\ nivelExtra' = [nivelExtra EXCEPT ![o] = e]

\* o leaves, and nothing is kept of it.
Leaves(o) ==
  /\ o \in ToSet(ordem)
  /\ ordem' = RemoveAt(ordem, Place(ordem, o))
  /\ prioridade' = [prioridade EXCEPT ![o] = Nula]
  /\ nivelExtra' = [nivelExtra EXCEPT ![o] = 0]
  /\ UNCHANGED atrasos

\* 30 s more since the Timestamp of o; from Alta on this changes nothing.
Passes(o) ==
  /\ o \in ToSet(ordem)
  /\ Criticidade[o] + nivelExtra[o] < Alta
  /\ nivelExtra' = [nivelExtra EXCEPT ![o] = @ + 1]
  /\ UNCHANGED <<ordem, prioridade, atrasos>>

\* Mutant: only occurrences of high criticality age.
AgedHigh(o) ==
  IF Criticidade[o] < Alta \/ nivelExtra[o] > 0
  THEN Criticidade[o] ELSE Criticidade[o] + nivelExtra[o]

\* The priority of o at its age.
Aged(o) ==
  IF Criticidade[o] + nivelExtra[o] > Alta
  THEN Alta ELSE Criticidade[o] + nivelExtra[o]

\* Every occurrence gets the priority of its age.
Ages ==
  /\ prioridade' = [o \in Ocorrencia |->
                      IF o \in ToSet(ordem) THEN Aged(o) ELSE prioridade[o]]
  /\ prioridade' # prioridade
  /\ UNCHANGED <<ordem, nivelExtra, atrasos>>

Next ==
  /\ \/ \E o \in Ocorrencia, i \in 1..Len(ordem) + 1, e \in Extras :
          Arrives(o, i, e)
     \/ \E o \in Ocorrencia : Leaves(o)
     \/ \E o \in Ocorrencia : Passes(o)
     \/ Ages
  /\ proxima' = First(prioridade', ordem')

Spec == Init /\ [][Next]_vars
=============================================================================
