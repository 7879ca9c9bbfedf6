------------------------------- MODULE Election -------------------------------
(***************************************************************************)
(* The election of a discovery leader (Bully) of cmd/broker/               *)
(* broker_main.go, on top of Membership: loopDetectarFalhas starts it when *)
(* the leader is presumed dead, and its messages travel on the             *)
(* connections of the mesh and count as signs of life like any other.      *)
(***************************************************************************)
EXTENDS Membership

VARIABLES
  lider,       \* lider[b]: liderID
  emEleicao,   \* emEleicao[b]: statusEleicao is EM_ELEICAO and not ESTAVEL
  okRecebido,  \* okRecebido[b]: a higher broker has answered
  tarefas      \* tarefas[b][t]: goroutines of b that have yet to do t

\* iniciarEleicao, its call of declararLider, and its two timers.
Tarefa == {"iniciar", "declarar", "esperaOK", "esperaCoordenador"}

electionVars == <<lider, emEleicao, okRecebido, tarefas>>
vars == <<meshVars, electionVars>>

Init ==
  /\ MeshInit
  /\ lider = [b \in Broker |-> Seed]
  /\ emEleicao = [b \in Broker |-> FALSE]
  /\ okRecebido = [b \in Broker |-> FALSE]
  /\ tarefas = [b \in Broker |-> [t \in Tarefa |-> 0]]

-----------------------------------------------------------------------------
\* The goroutine t of b ends and starts those in S.
Done(b, t, S) ==
  tarefas' = [tarefas EXCEPT ![b] = [u \in Tarefa |->
                @[u] - (IF u = t THEN 1 ELSE 0) + (IF u \in S THEN 1 ELSE 0)]]

Start(b, t) == tarefas' = [tarefas EXCEPT ![b][t] = @ + 1]

\* declararLider: b is the leader, and says so.
Declare(b) ==
  /\ lider' = [lider EXCEPT ![b] = b]
  /\ emEleicao' = [emEleicao EXCEPT ![b] = FALSE]
  /\ chan' = Broadcast(chan, b, vizinhos[b], readers, Msg("COORDENADOR", b, None))

\* The keys of higher brokers under which b has a connection.
Higher(b) == {k \in Broker : k > b /\ vizinhos[b][k] # None}

(***************************************************************************)
(* iniciarEleicao: ELEICAO to all, and once more to the higher brokers.    *)
(***************************************************************************)
IniciarEleicao(b) ==
  LET m == Msg("ELEICAO", b, None)
      again == {vizinhos[b][k] : k \in Higher(b)}
      q == Broadcast(chan, b, vizinhos[b], readers, m)
  IN  /\ tarefas[b]["iniciar"] > 0
      /\ IF emEleicao[b]
         THEN /\ Done(b, "iniciar", {})
              /\ UNCHANGED <<emEleicao, okRecebido, chan>>
         ELSE /\ emEleicao' = [emEleicao EXCEPT ![b] = TRUE]
              /\ okRecebido' = [okRecebido EXCEPT ![b] = FALSE]
              /\ chan' = [q EXCEPT ![b] = [c \in Broker |->
                            IF c \in again /\ b \in readers[c]
                            THEN With(@[c], m) ELSE @[c]]]
              /\ Done(b, "iniciar", IF Higher(b) = {} THEN {"declarar"}
                                    ELSE {"esperaOK"})
      /\ UNCHANGED <<up, readers, viewVars, verificar, boundVars, lider>>

DeclararLider(b) ==
  /\ tarefas[b]["declarar"] > 0
  /\ Done(b, "declarar", {})
  /\ Declare(b)
  /\ UNCHANGED <<up, readers, viewVars, verificar, boundVars, okRecebido>>

\* Nobody is about to answer: no election message is in flight between
\* running brokers, and none of them is about to send one.
Answered ==
  \A b \in Broker :
    /\ tarefas[b]["iniciar"] = 0 /\ tarefas[b]["declarar"] = 0
    /\ \A c \in Broker : chan[b][c] = EmptyBag

\* 2 s after the ELEICAO.
EsperaOK(b) ==
  /\ tarefas[b]["esperaOK"] > 0
  /\ Punctual => Answered
  /\ \/ /\ emEleicao[b] /\ ~ okRecebido[b]
        /\ Declare(b)
        /\ Done(b, "esperaOK", {})
     \/ /\ emEleicao[b] /\ okRecebido[b]
        /\ Done(b, "esperaOK", {"esperaCoordenador"})
        /\ UNCHANGED <<lider, emEleicao, chan>>
     \/ /\ ~ emEleicao[b]
        /\ Done(b, "esperaOK", {})
        /\ UNCHANGED <<lider, emEleicao, chan>>
  /\ UNCHANGED <<up, readers, viewVars, verificar, boundVars, okRecebido>>

\* Mutant: the election is not started again.
EsperaEDesiste(b) ==
  /\ tarefas[b]["esperaCoordenador"] > 0
  /\ Punctual => Answered /\ \A c \in Broker : tarefas[c]["esperaOK"] = 0
  /\ Done(b, "esperaCoordenador", {})
  /\ emEleicao' = [emEleicao EXCEPT ![b] = FALSE]
  /\ UNCHANGED <<meshVars, lider, okRecebido>>

\* 4 s after that.
EsperaCoordenador(b) ==
  /\ tarefas[b]["esperaCoordenador"] > 0
  /\ Punctual => Answered /\ \A c \in Broker : tarefas[c]["esperaOK"] = 0
  /\ Done(b, "esperaCoordenador", IF emEleicao[b] THEN {"iniciar"} ELSE {})
  /\ emEleicao' = [emEleicao EXCEPT ![b] = FALSE]
  /\ UNCHANGED <<meshVars, lider, okRecebido>>

-----------------------------------------------------------------------------
\* What is in flight when c has read an election message of b.
Taken(b, c, type) == Removed(b, c, Msg(type, b, None))

\* c reads it, and q is in flight then.
Take(b, c, type, q) ==
  /\ Msg(type, b, None) \in Unread(b, c)
  /\ Processed(c, b, b, None, Rekeyed(c, b, b), q)
  /\ UNCHANGED <<up, readers, verificar, boundVars>>

\* A higher broker answers on the same connection and runs itself.
ReceiveEleicao(b, c) ==
  /\ IF c > b
     THEN /\ Take(b, c, "ELEICAO",
                  IF c \in readers[b]
                  THEN [Taken(b, c, "ELEICAO") EXCEPT ![c][b] =
                          With(@, Msg("ELEICAO_OK", c, None))]
                  ELSE Taken(b, c, "ELEICAO"))
          /\ Start(c, "iniciar")
     ELSE /\ Take(b, c, "ELEICAO", Taken(b, c, "ELEICAO"))
          /\ UNCHANGED tarefas
  /\ UNCHANGED <<lider, emEleicao, okRecebido>>

ReceiveEleicaoOk(b, c) ==
  /\ Take(b, c, "ELEICAO_OK", Taken(b, c, "ELEICAO_OK"))
  /\ okRecebido' = [okRecebido EXCEPT ![c] = TRUE]
  /\ UNCHANGED <<lider, emEleicao, tarefas>>

ReceiveCoordenador(b, c) ==
  /\ Take(b, c, "COORDENADOR", Taken(b, c, "COORDENADOR"))
  /\ lider' = [lider EXCEPT ![c] = b]
  /\ emEleicao' = [emEleicao EXCEPT ![c] = FALSE]
  /\ UNCHANGED <<okRecebido, tarefas>>

\* loopDetectarFalhas, for the leader and for the others.
DetectAny(b, c) ==
  /\ Detect(b, c)
  /\ IF c = lider[b] THEN Start(b, "iniciar") ELSE UNCHANGED tarefas
  /\ UNCHANGED <<lider, emEleicao, okRecebido>>

CrashAny(b) ==
  /\ Crash(b)
  /\ tarefas' = [tarefas EXCEPT ![b] = [t \in Tarefa |-> 0]]
  /\ UNCHANGED <<lider, emEleicao, okRecebido>>

\* The steps of the mesh that an election does not notice.
MeshStep ==
  /\ \/ \E b, c \in Broker : Heartbeat(b, c)
     \/ \E b, c \in Broker : Receive(b, c)
     \/ \E b, d \in Broker : VerificarEAtivarFailover(b, d)
     \/ \E b, c \in Broker : EndOfStream(b, c)
     \/ \E b, c \in Broker : ReadDeadline(b, c)
     \/ \E b, c \in Broker : Break(b, c)
     \/ \E b, c \in Broker : LoseWrite(b, c)
     \/ \E b \in Broker : ConectarLider(b)
     \/ \E b, c \in Broker : ConectarVizinho(b, c)
  /\ UNCHANGED electionVars

Next ==
  \/ MeshStep
  \/ \E b, c \in Broker : DetectAny(b, c)
  \/ \E b \in Broker : CrashAny(b)
  \/ \E b \in Broker : IniciarEleicao(b)
  \/ \E b \in Broker : DeclararLider(b)
  \/ \E b \in Broker : EsperaOK(b)
  \/ \E b \in Broker : EsperaCoordenador(b)
  \/ \E b, c \in Broker : ReceiveEleicao(b, c)
  \/ \E b, c \in Broker : ReceiveEleicaoOk(b, c)
  \/ \E b, c \in Broker : ReceiveCoordenador(b, c)

Fairness ==
  /\ \A b, c \in Broker :
       /\ WF_vars(Heartbeat(b, c) /\ UNCHANGED electionVars)
       /\ WF_vars(Receive(b, c) /\ UNCHANGED electionVars)
       /\ WF_vars(DetectAny(b, c))
       /\ WF_vars(VerificarEAtivarFailover(b, c) /\ UNCHANGED electionVars)
       /\ WF_vars(EndOfStream(b, c) /\ UNCHANGED electionVars)
       /\ WF_vars(ReadDeadline(b, c) /\ UNCHANGED electionVars)
       /\ WF_vars(ConectarLider(b) /\ UNCHANGED electionVars)
       /\ WF_vars(ConectarVizinho(b, c) /\ UNCHANGED electionVars)
       /\ WF_vars(ReceiveEleicao(b, c)) /\ WF_vars(ReceiveEleicaoOk(b, c))
       /\ WF_vars(ReceiveCoordenador(b, c))
  /\ \A b \in Broker :
       /\ WF_vars(IniciarEleicao(b)) /\ WF_vars(DeclararLider(b))
       /\ WF_vars(EsperaOK(b)) /\ WF_vars(EsperaCoordenador(b))

Spec == Init /\ [][Next]_vars

FairSpec == Spec /\ Fairness

-----------------------------------------------------------------------------
\* Every variable keeps to its type.
TypeOK ==
  /\ MeshTypeOK
  /\ lider \in [Broker -> Broker]
  /\ emEleicao \in [Broker -> BOOLEAN]
  /\ okRecebido \in [Broker -> BOOLEAN]
  /\ tarefas \in [Broker -> [Tarefa -> Nat]]

(***************************************************************************)
(* The running brokers end up with one leader that runs, whoever crashes   *)
(* in the middle of an election, as long as no connection breaks           *)
(* (iniciarEleicao and its timers).  Two brokers that are cut off from     *)
(* each other when the leader is presumed dead each elect themselves, and  *)
(* nothing reconciles them after they connect again.                       *)
(***************************************************************************)
LeaderAgreed ==
  <>[](breaks = 0) =>
    <>[](\E l \in Running : \A b \in Running : lider[b] = l)
=============================================================================
