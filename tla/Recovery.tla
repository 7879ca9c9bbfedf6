------------------------------- MODULE Recovery -------------------------------
(***************************************************************************)
(* The mesh of Membership when a broker that crashed comes back, with an   *)
(* empty memory, and the other brokers hear of it (FAILOVER_RECUPERADO).   *)
(*                                                                         *)
(* Nothing is in flight when the first connection closes, since no broker  *)
(* was held for dead before, and with one crash none closes later with     *)
(* something left to write: messages are lost (LoseWrite) in Election only.*)
(*                                                                         *)
(* The steps that take at most some seconds are prompt here: a timeout of  *)
(* 15 s expires only when none of them would change anything.  What goes   *)
(* wrong in this module therefore does so with every message delivered in  *)
(* time.                                                                   *)
(***************************************************************************)
EXTENDS Membership

CONSTANT MaxRestarts    \* bound on the restarts in a behaviour

ASSUME RecoveryAssumption == MaxRestarts \in Nat

VARIABLE restarts

vars == <<meshVars, restarts>>

Init == MeshInit /\ restarts = 0

\* Heartbeats every 2.5 s, messages, goroutines, and connections, which are
\* dialled again after 2 s.
Prompt ==
  \/ \E b, c \in Broker : Heartbeat(b, c)
  \/ \E b, c \in Broker : Receive(b, c)
  \/ \E b, d \in Broker : VerificarEAtivarFailover(b, d)
  \/ \E b, c \in Broker : EndOfStream(b, c)
  \/ \E b \in Broker : ConectarLider(b)
  \/ \E b, c \in Broker : ConectarVizinho(b, c)

Settled == ~ ENABLED <<Prompt>>_meshVars

Timeout(b, c) == Settled /\ (Detect(b, c) \/ ReadDeadline(b, c))

\* The new process of b knows nothing, not even its own part in the ring.
Restart(b) ==
  /\ ~ up[b] /\ restarts < MaxRestarts
  /\ restarts' = restarts + 1
  /\ up' = [up EXCEPT ![b] = TRUE]
  /\ UNCHANGED <<readers, viewVars, verificar, chan, boundVars>>

Next ==
  \/ Prompt /\ UNCHANGED restarts
  \/ \E b, c \in Broker : Timeout(b, c) /\ UNCHANGED restarts
  \/ \E b \in Broker : Crash(b) /\ UNCHANGED restarts
  \/ \E b \in Broker : Restart(b)

\* Loops and goroutines of a running broker go on, dials are repeated for
\* ever, and a process that ends is started again.
Fairness ==
  /\ \A b, c \in Broker :
       /\ WF_vars(Heartbeat(b, c) /\ UNCHANGED restarts)
       /\ WF_vars(Receive(b, c) /\ UNCHANGED restarts)
       /\ WF_vars(VerificarEAtivarFailover(b, c) /\ UNCHANGED restarts)
       /\ WF_vars(EndOfStream(b, c) /\ UNCHANGED restarts)
       /\ WF_vars(ConectarVizinho(b, c) /\ UNCHANGED restarts)
       /\ WF_vars(Timeout(b, c) /\ UNCHANGED restarts)
  /\ \A b \in Broker : /\ WF_vars(ConectarLider(b) /\ UNCHANGED restarts)
                       /\ WF_vars(Restart(b))

FairSpec == Init /\ [][Next]_vars /\ Fairness

-----------------------------------------------------------------------------
(***************************************************************************)
(* Every sector is answered for by exactly one broker again and again: no  *)
(* crash and return of a broker leaves it without one, or with two, for    *)
(* good (the head of processarMensagemBroker).                             *)
(***************************************************************************)
ServedAgain == \A s \in Broker : []<>Served(s)
=============================================================================
