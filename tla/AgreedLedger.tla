----------------------------- MODULE AgreedLedger -----------------------------
(***************************************************************************)
(* What the consensus promises its users: one ledger, a line of histories  *)
(* each of which extends the one before by a block, and at every node a    *)
(* history of that line.  A node may fall back on an earlier one, after a  *)
(* restart or when an old answer to CHAIN_SYNC is adopted late; the ledger *)
(* does not.                                                               *)
(*                                                                         *)
(* The promise ends when a proposer forgets a block of its own.            *)
(***************************************************************************)
EXTENDS SequencesExt

CONSTANT Node

VARIABLES
  ledger,   \* the histories agreed so far
  held,     \* held[n]: the history that n has
  broken    \* a proposer has forgotten a block of its own

vars == <<ledger, held, broken>>

Init ==
  /\ ledger = {<<>>}
  /\ held = [n \in Node |-> <<>>]
  /\ broken = FALSE

\* n extends the longest history, which it has, by a block.
Commit(n) ==
  /\ ~ broken
  /\ \A h \in ledger : Len(h) <= Len(held[n])
  /\ held'[n] # <<>> /\ Front(held'[n]) = held[n]
  /\ held' = [held EXCEPT ![n] = held'[n]]
  /\ ledger' = ledger \cup {held'[n]}
  /\ UNCHANGED broken

\* n takes an agreed history, longer or shorter than the one it has.
Take(n) ==
  /\ ~ broken
  /\ \E h \in ledger : held' = [held EXCEPT ![n] = h]
  /\ UNCHANGED <<ledger, broken>>

\* Nothing is said of what comes after.
Forget ==
  /\ broken' = TRUE
  /\ ledger' = {<<>>}
  /\ held' = [n \in Node |-> <<>>]

Next ==
  \/ \E n \in Node : Commit(n)
  \/ \E n \in Node : Take(n)
  \/ Forget

Spec == Init /\ [][Next]_vars
=============================================================================
