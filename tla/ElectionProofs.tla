---------------------------- MODULE ElectionProofs ----------------------------
(***************************************************************************)
(* Proofs about Election, for any number of brokers: the messages and the  *)
(* goroutines of an election leave the ring as sound as Membership alone.  *)
(***************************************************************************)
EXTENDS Election, MembershipProofs

\* The goroutines of a broker end with it.
TasksRun == \A b \in Broker : \A t \in Tarefa : tarefas[b][t] > 0 => up[b]

ElectionTypeOK ==
  /\ lider \in [Broker -> Broker]
  /\ emEleicao \in [Broker -> BOOLEAN]
  /\ okRecebido \in [Broker -> BOOLEAN]
  /\ tarefas \in [Broker -> [Tarefa -> Nat]]

MeshSoundNow == MeshTypeOK /\ RingSound

IInv == MeshSoundNow /\ ElectionTypeOK /\ TasksRun

-----------------------------------------------------------------------------
(***************************************************************************)
(* Goroutines.                                                             *)
(***************************************************************************)

LEMMA DoneTyped ==
  ASSUME ElectionTypeOK, TasksRun, NEW b \in Broker, NEW t \in Tarefa, NEW S,
         tarefas[b][t] > 0, Done(b, t, S), up' = up
  PROVE  tarefas' \in [Broker -> [Tarefa -> Nat]] /\ TasksRun'
<1>. DEFINE n(u) == tarefas[b][u] - (IF u = t THEN 1 ELSE 0)
                                  + (IF u \in S THEN 1 ELSE 0)
<1>1. tarefas' = [tarefas EXCEPT ![b] = [u \in Tarefa |-> n(u)]]
  BY DEF Done
<1>2. \A u \in Tarefa : n(u) \in Nat
  BY DEF ElectionTypeOK
<1>3. up[b]
  BY DEF TasksRun
<1>. HIDE DEF n
<1>4. tarefas' \in [Broker -> [Tarefa -> Nat]]
  BY <1>1, <1>2 DEF ElectionTypeOK
<1>5. \A x \in Broker : x # b => tarefas'[x] = tarefas[x]
  BY <1>1 DEF ElectionTypeOK
<1>. QED  BY <1>3, <1>4, <1>5 DEF TasksRun

LEMMA StartTyped ==
  ASSUME ElectionTypeOK, TasksRun, NEW b \in Broker, up[b],
         Start(b, "iniciar"), up' = up
  PROVE  tarefas' \in [Broker -> [Tarefa -> Nat]] /\ TasksRun'
<1>1. "iniciar" \in Tarefa
  BY DEF Tarefa
<1>2. tarefas' = [tarefas EXCEPT ![b]["iniciar"] = @ + 1]
  BY DEF Start
<1>3. tarefas' \in [Broker -> [Tarefa -> Nat]]
  BY <1>1, <1>2 DEF ElectionTypeOK
<1>4. \A x \in Broker : x # b => tarefas'[x] = tarefas[x]
  BY <1>2 DEF ElectionTypeOK
<1>. QED  BY <1>3, <1>4 DEF TasksRun

\* A message of an election is about no sector.
LEMMA ElectionMsg ==
  ASSUME NEW type \in {"ELEICAO", "ELEICAO_OK", "COORDENADOR"},
         NEW b \in Broker
  PROVE  /\ Msg(type, b, None) \in Message
         /\ Msg(type, b, None).id = b /\ Msg(type, b, None).setor = None
BY DEF Msg, Message

\* A step of an election that leaves the mesh, but for the channels.
LEMMA SendStep ==
  ASSUME MeshSoundNow, UNCHANGED <<up, readers, viewVars, verificar, boundVars>>,
         chan' \in Channels, AllCredible(chan')
  PROVE  MeshSoundNow'
<1>1. /\ UNCHANGED <<up, readers, viewVars>>
      /\ verificar' \in [Broker -> SUBSET Broker]
      /\ \A b \in Broker : verificar'[b] \subseteq verificar[b]
      /\ {crashes', breaks'} \subseteq Nat
  BY DEF MeshSoundNow, MeshTypeOK, boundVars
<1>. QED  BY <1>1, ChanStep DEF MeshSoundNow

LEMMA DeclareStep ==
  ASSUME MeshSoundNow, ElectionTypeOK, NEW b \in Broker, up[b], Declare(b)
  PROVE  /\ chan' \in Channels /\ AllCredible(chan')
         /\ lider' \in [Broker -> Broker] /\ emEleicao' \in [Broker -> BOOLEAN]
<1>. DEFINE m == Msg("COORDENADOR", b, None)
<1>1. b \in Running /\ chan \in Channels /\ AllCredible(chan)
  BY InFlight DEF MeshSoundNow, Running
<1>2. m \in Message /\ m.id = b /\ m.setor = None
  BY ElectionMsg
<1>3. chan' = Broadcast(chan, b, vizinhos[b], readers, m)
  BY DEF Declare
<1>. HIDE DEF m
<1>4. chan' \in Channels /\ AllCredible(chan')
  BY <1>1, <1>2, <1>3, BroadcastCredible DEF MeshSoundNow
<1>5. lider' \in [Broker -> Broker] /\ emEleicao' \in [Broker -> BOOLEAN]
  BY DEF Declare, ElectionTypeOK
<1>. QED  BY <1>4, <1>5

-----------------------------------------------------------------------------
(***************************************************************************)
(* The actions.                                                            *)
(***************************************************************************)

LEMMA IniciarStep ==
  ASSUME IInv, NEW b \in Broker, IniciarEleicao(b)
  PROVE  IInv'
<1>. DEFINE m == Msg("ELEICAO", b, None)
            again == {vizinhos[b][k] : k \in Higher(b)}
            S == {c \in again : b \in readers[c]}
            q == Broadcast(chan, b, vizinhos[b], readers, m)
<1>1. /\ MeshSoundNow /\ ElectionTypeOK /\ TasksRun /\ "iniciar" \in Tarefa
      /\ tarefas[b]["iniciar"] > 0
  BY DEF IInv, IniciarEleicao, Tarefa
<1>2. up[b] /\ b \in Running /\ chan \in Channels /\ AllCredible(chan)
  BY <1>1, InFlight DEF MeshSoundNow, Running, TasksRun
<1>3. /\ UNCHANGED <<up, readers, viewVars, verificar, boundVars>>
      /\ lider' = lider
  BY DEF IniciarEleicao
<1>4. \E T : Done(b, "iniciar", T)
  BY DEF IniciarEleicao
<1>5. tarefas' \in [Broker -> [Tarefa -> Nat]] /\ TasksRun'
  BY <1>1, <1>3, <1>4, DoneTyped
<1>6. /\ emEleicao' \in [Broker -> BOOLEAN] /\ okRecebido' \in [Broker -> BOOLEAN]
  BY <1>1 DEF IniciarEleicao, ElectionTypeOK
<1>7. chan' \in Channels /\ AllCredible(chan')
  <2>1. CASE emEleicao[b]
    BY <2>1, <1>2 DEF IniciarEleicao
  <2>2. CASE ~ emEleicao[b]
    <3>1. m \in Message /\ m.id = b /\ m.setor = None
      BY ElectionMsg
    <3>2. chan' = [q EXCEPT ![b] = [c \in Broker |->
                     IF c \in again /\ b \in readers[c]
                     THEN With(@[c], m) ELSE @[c]]]
      BY <2>2 DEF IniciarEleicao
    <3>3. chan' = Written(q, b, S, m)
      BY <3>2 DEF Written
    <3>4. \A c \in S : c \in Broker => b \in readers[c]
      OBVIOUS
    <3>. HIDE DEF m, S
    <3>5. q \in Channels /\ AllCredible(q)
      BY <3>1, <1>1, <1>2, BroadcastCredible DEF MeshSoundNow
    <3>. HIDE DEF q
    <3>. QED  BY <3>1, <3>3, <3>4, <3>5, <1>1, <1>2, WrittenCredible
              DEF MeshSoundNow
  <2>. QED  BY <2>1, <2>2
<1>8. MeshSoundNow'
  BY <1>1, <1>3, <1>7, SendStep
<1>. QED  BY <1>1, <1>3, <1>5, <1>6, <1>8 DEF IInv, ElectionTypeOK

LEMMA DeclararStep ==
  ASSUME IInv, NEW b \in Broker, DeclararLider(b)
  PROVE  IInv'
<1>1. /\ MeshSoundNow /\ ElectionTypeOK /\ TasksRun /\ "declarar" \in Tarefa
      /\ tarefas[b]["declarar"] > 0 /\ Done(b, "declarar", {}) /\ Declare(b)
      /\ UNCHANGED <<up, readers, viewVars, verificar, boundVars>>
      /\ okRecebido' = okRecebido
  BY DEF IInv, DeclararLider, Tarefa
<1>2. up[b]
  BY <1>1 DEF TasksRun
<1>3. tarefas' \in [Broker -> [Tarefa -> Nat]] /\ TasksRun'
  BY <1>1, DoneTyped
<1>4. /\ chan' \in Channels /\ AllCredible(chan')
      /\ lider' \in [Broker -> Broker] /\ emEleicao' \in [Broker -> BOOLEAN]
  BY <1>1, <1>2, DeclareStep
<1>5. MeshSoundNow'
  BY <1>1, <1>4, SendStep
<1>. QED  BY <1>1, <1>3, <1>4, <1>5 DEF IInv, ElectionTypeOK

LEMMA EsperaOKStep ==
  ASSUME IInv, NEW b \in Broker, EsperaOK(b)
  PROVE  IInv'
<1>1. /\ MeshSoundNow /\ ElectionTypeOK /\ TasksRun /\ "esperaOK" \in Tarefa
      /\ tarefas[b]["esperaOK"] > 0 /\ \E T : Done(b, "esperaOK", T)
      /\ UNCHANGED <<up, readers, viewVars, verificar, boundVars>>
      /\ okRecebido' = okRecebido
  BY DEF IInv, EsperaOK, Tarefa
<1>2. up[b]
  BY <1>1 DEF TasksRun
<1>3. tarefas' \in [Broker -> [Tarefa -> Nat]] /\ TasksRun'
  BY <1>1, DoneTyped
<1>4. /\ chan' \in Channels /\ AllCredible(chan')
      /\ lider' \in [Broker -> Broker] /\ emEleicao' \in [Broker -> BOOLEAN]
  <2>1. CASE Declare(b)
    BY <2>1, <1>1, <1>2, DeclareStep
  <2>2. CASE UNCHANGED <<lider, emEleicao, chan>>
    BY <2>2, <1>1, InFlight DEF MeshSoundNow, ElectionTypeOK
  <2>. QED  BY <2>1, <2>2 DEF EsperaOK
<1>5. MeshSoundNow'
  BY <1>1, <1>4, SendStep
<1>. QED  BY <1>1, <1>3, <1>4, <1>5 DEF IInv, ElectionTypeOK

LEMMA EsperaCoordenadorStep ==
  ASSUME IInv, NEW b \in Broker, EsperaCoordenador(b)
  PROVE  IInv'
<1>1. /\ MeshSoundNow /\ ElectionTypeOK /\ TasksRun
      /\ "esperaCoordenador" \in Tarefa /\ tarefas[b]["esperaCoordenador"] > 0
      /\ \E T : Done(b, "esperaCoordenador", T)
      /\ emEleicao' = [emEleicao EXCEPT ![b] = FALSE]
      /\ UNCHANGED <<up, readers, viewVars, verificar, boundVars>>
      /\ chan' = chan /\ lider' = lider /\ okRecebido' = okRecebido
  BY DEF IInv, EsperaCoordenador, Tarefa, meshVars
<1>2. tarefas' \in [Broker -> [Tarefa -> Nat]] /\ TasksRun'
  BY <1>1, DoneTyped
<1>3. chan' \in Channels /\ AllCredible(chan')
  BY <1>1, InFlight DEF MeshSoundNow
<1>4. MeshSoundNow'
  BY <1>1, <1>3, SendStep
<1>. QED  BY <1>1, <1>2, <1>4 DEF IInv, ElectionTypeOK

\* What c reads, and what it writes in return, leaves the ring sound.
LEMMA TakeStep ==
  ASSUME MeshSoundNow, NEW b \in Broker, NEW c \in Broker, NEW type,
         NEW q \in Channels, AllCredible(q), Take(b, c, type, q)
  PROVE  MeshSoundNow' /\ up' = up
<1>1. /\ Unread(b, c) # {}
      /\ Processed(c, b, b, None, Rekeyed(c, b, b), q)
      /\ UNCHANGED <<up, readers, verificar, boundVars>>
  BY DEF Take
<1>2. \A m \in Unread(b, c) : Credible(b, c, m)
  BY InFlight DEF MeshSoundNow, AllCredible, Unread
<1>3. b \in readers[c] /\ b \notin mortos[c]
  BY <1>1, <1>2 DEF Credible
<1>4. MeshTypeOK' /\ RingSound'
  BY <1>1, <1>3, ProcessedStep DEF MeshSoundNow
<1>. QED  BY <1>1, <1>4 DEF MeshSoundNow

\* The channels once a message of b that c reads is taken off.
LEMMA TakenTyped ==
  ASSUME MeshSoundNow, NEW b \in Broker, NEW c \in Broker, NEW type,
         Unread(b, c) # {}
  PROVE  /\ Taken(b, c, type) \in Channels /\ AllCredible(Taken(b, c, type))
         /\ b \in readers[c] /\ up[c]
<1>1. \A m \in Unread(b, c) : Credible(b, c, m)
  BY InFlight DEF MeshSoundNow, AllCredible, Unread
<1>2. b \in readers[c]
  BY <1>1 DEF Credible
<1>3. up[c]
  BY <1>2 DEF MeshSoundNow, RingSound, OnlyDownAreDead
<1>. QED  BY <1>2, <1>3, RemovedCredible DEF MeshSoundNow, Taken

LEMMA ReceiveEleicaoStep ==
  ASSUME IInv, NEW b \in Broker, NEW c \in Broker, ReceiveEleicao(b, c)
  PROVE  IInv'
<1>. DEFINE m == Msg("ELEICAO_OK", c, None)
            p == Taken(b, c, "ELEICAO")
<1>1. /\ MeshSoundNow /\ ElectionTypeOK /\ TasksRun /\ Unread(b, c) # {}
      /\ lider' = lider /\ emEleicao' = emEleicao /\ okRecebido' = okRecebido
  BY DEF IInv, ReceiveEleicao, Take
<1>2. p \in Channels /\ AllCredible(p) /\ c \in Running
  BY <1>1, TakenTyped DEF Running
<1>3. CASE c > b /\ c \in readers[b]
  <2>1. m \in Message /\ m.id = c /\ m.setor = None
    BY ElectionMsg
  <2>2. [p EXCEPT ![c][b] = With(@, m)] = Written(p, c, {b}, m)
    <3>1. [d \in Broker |-> IF d \in {b} THEN With(p[c][d], m) ELSE p[c][d]]
            = [p[c] EXCEPT ![b] = With(@, m)]
      BY <1>2 DEF Channels
    <3>. QED  BY <3>1, <1>2 DEF Written, Channels
  <2>3. Take(b, c, "ELEICAO", [p EXCEPT ![c][b] = With(@, m)])
    BY <1>3 DEF ReceiveEleicao
  <2>4. Start(c, "iniciar")
    BY <1>3 DEF ReceiveEleicao
  <2>5. \A d \in {b} : d \in Broker => c \in readers[d]
    BY <1>3
  <2>. HIDE DEF m, p
  <2>6. Written(p, c, {b}, m) \in Channels /\ AllCredible(Written(p, c, {b}, m))
    BY <2>1, <2>5, <1>1, <1>2, WrittenCredible DEF MeshSoundNow
  <2>7. MeshSoundNow' /\ up' = up
    BY <2>2, <2>3, <2>6, <1>1, TakeStep
  <2>8. tarefas' \in [Broker -> [Tarefa -> Nat]] /\ TasksRun'
    BY <2>4, <2>7, <1>1, <1>2, StartTyped DEF Running
  <2>. QED  BY <2>7, <2>8, <1>1 DEF IInv, ElectionTypeOK
<1>4. CASE c > b /\ c \notin readers[b]
  <2>1. Take(b, c, "ELEICAO", p) /\ Start(c, "iniciar")
    BY <1>4 DEF ReceiveEleicao
  <2>. HIDE DEF p
  <2>2. MeshSoundNow' /\ up' = up
    BY <2>1, <1>1, <1>2, TakeStep
  <2>3. tarefas' \in [Broker -> [Tarefa -> Nat]] /\ TasksRun'
    BY <2>1, <2>2, <1>1, <1>2, StartTyped DEF Running
  <2>. QED  BY <2>2, <2>3, <1>1 DEF IInv, ElectionTypeOK
<1>5. CASE ~ (c > b)
  <2>1. Take(b, c, "ELEICAO", p) /\ tarefas' = tarefas
    BY <1>5 DEF ReceiveEleicao
  <2>. HIDE DEF p
  <2>2. MeshSoundNow' /\ up' = up
    BY <2>1, <1>1, <1>2, TakeStep
  <2>. QED  BY <2>1, <2>2, <1>1 DEF IInv, ElectionTypeOK, TasksRun
<1>. QED  BY <1>3, <1>4, <1>5

LEMMA ReceiveOtherStep ==
  ASSUME IInv, NEW b \in Broker, NEW c \in Broker,
         ReceiveEleicaoOk(b, c) \/ ReceiveCoordenador(b, c)
  PROVE  IInv'
<1>1. \E type : Take(b, c, type, Taken(b, c, type))
  BY DEF ReceiveEleicaoOk, ReceiveCoordenador
<1>2. /\ MeshSoundNow /\ ElectionTypeOK /\ TasksRun /\ Unread(b, c) # {}
      /\ tarefas' = tarefas
  BY <1>1 DEF IInv, ReceiveEleicaoOk, ReceiveCoordenador, Take
<1>3. \A type : /\ Taken(b, c, type) \in Channels
               /\ AllCredible(Taken(b, c, type))
  BY <1>2, TakenTyped
<1>4. MeshSoundNow' /\ up' = up
  BY <1>1, <1>2, <1>3, TakeStep
<1>5. ElectionTypeOK'
  <2>1. CASE ReceiveEleicaoOk(b, c)
    BY <2>1, <1>2 DEF ReceiveEleicaoOk, ElectionTypeOK
  <2>2. CASE ReceiveCoordenador(b, c)
    BY <2>2, <1>2 DEF ReceiveCoordenador, ElectionTypeOK
  <2>. QED  BY <2>1, <2>2
<1>. QED  BY <1>2, <1>4, <1>5 DEF IInv, TasksRun

LEMMA DetectAnyStep ==
  ASSUME Punctual, IInv, NEW b \in Broker, NEW c \in Broker, DetectAny(b, c)
  PROVE  IInv'
<1>1. /\ MeshSoundNow /\ ElectionTypeOK /\ TasksRun
      /\ Detect(b, c) /\ up[b] /\ up' = up
      /\ Start(b, "iniciar") \/ tarefas' = tarefas
      /\ lider' = lider /\ emEleicao' = emEleicao /\ okRecebido' = okRecebido
  BY DEF IInv, DetectAny, Detect
<1>2. MeshSoundNow'
  BY <1>1, DetectStep DEF MeshSoundNow
<1>3. tarefas' \in [Broker -> [Tarefa -> Nat]] /\ TasksRun'
  <2>1. CASE Start(b, "iniciar")
    BY <2>1, <1>1, StartTyped
  <2>2. CASE tarefas' = tarefas
    BY <2>2, <1>1 DEF ElectionTypeOK, TasksRun
  <2>. QED  BY <2>1, <2>2, <1>1
<1>. QED  BY <1>1, <1>2, <1>3 DEF IInv, ElectionTypeOK

LEMMA CrashAnyStep ==
  ASSUME IInv, NEW b \in Broker, CrashAny(b)
  PROVE  IInv'
<1>1. /\ MeshSoundNow /\ ElectionTypeOK /\ TasksRun /\ MeshTypeOK
      /\ Crash(b) /\ up' = [up EXCEPT ![b] = FALSE]
      /\ tarefas' = [tarefas EXCEPT ![b] = [t \in Tarefa |-> 0]]
      /\ lider' = lider /\ emEleicao' = emEleicao /\ okRecebido' = okRecebido
  BY DEF IInv, CrashAny, Crash, MeshSoundNow
<1>2. MeshSoundNow'
  BY <1>1, CrashStep DEF MeshSoundNow
<1>3. ElectionTypeOK'
  BY <1>1 DEF ElectionTypeOK
<1>4. TasksRun'
  <2>. SUFFICES ASSUME NEW x \in Broker, NEW t \in Tarefa, tarefas'[x][t] > 0
                PROVE  up'[x]
    BY DEF TasksRun
  <2>1. x # b
    BY <1>1 DEF ElectionTypeOK
  <2>2. tarefas'[x] = tarefas[x] /\ up'[x] = up[x]
    BY <2>1, <1>1 DEF ElectionTypeOK, MeshTypeOK
  <2>. QED  BY <2>2, <1>1 DEF TasksRun
<1>. QED  BY <1>2, <1>3, <1>4 DEF IInv

LEMMA MeshStepStep ==
  ASSUME IInv, MeshStep
  PROVE  IInv'
<1>1. /\ MeshTypeOK /\ RingSound /\ ElectionTypeOK /\ TasksRun
      /\ lider' = lider /\ emEleicao' = emEleicao /\ okRecebido' = okRecebido
      /\ tarefas' = tarefas
  BY DEF IInv, MeshSoundNow, MeshStep, electionVars
<1>2. \E b, c \in Broker :
        \/ Heartbeat(b, c) \/ Receive(b, c)
        \/ VerificarEAtivarFailover(b, c) \/ EndOfStream(b, c)
        \/ ReadDeadline(b, c) \/ Break(b, c) \/ LoseWrite(b, c)
        \/ ConectarLider(b) \/ ConectarVizinho(b, c)
  BY DEF MeshStep
<1>3. MeshTypeOK' /\ RingSound' /\ up' = up
  BY <1>1, <1>2, QuietStep
<1>. QED  BY <1>1, <1>3 DEF IInv, MeshSoundNow, ElectionTypeOK, TasksRun

-----------------------------------------------------------------------------
LEMMA Inductive ==
  ASSUME Punctual
  PROVE  Spec => []IInv
<1>1. Init => IInv
  <2>. SUFFICES ASSUME Init PROVE IInv
    OBVIOUS
  <2>1. MeshSoundNow
    BY MeshInitSound DEF Init, MeshSoundNow
  <2>2. ElectionTypeOK /\ TasksRun
    BY MembershipAssumption
       DEF Init, ElectionTypeOK, TasksRun, MembershipAssumption
  <2>. QED  BY <2>1, <2>2 DEF IInv
<1>2. IInv /\ [Next]_vars => IInv'
  <2>. SUFFICES ASSUME IInv, [Next]_vars PROVE IInv'
    OBVIOUS
  <2>1. CASE MeshStep
    BY <2>1, MeshStepStep
  <2>2. CASE \E b, c \in Broker : DetectAny(b, c)
    BY <2>2, DetectAnyStep
  <2>3. CASE \E b \in Broker : CrashAny(b)
    BY <2>3, CrashAnyStep
  <2>4. CASE \E b \in Broker : IniciarEleicao(b)
    BY <2>4, IniciarStep
  <2>5. CASE \E b \in Broker : DeclararLider(b)
    BY <2>5, DeclararStep
  <2>6. CASE \E b \in Broker : EsperaOK(b)
    BY <2>6, EsperaOKStep
  <2>7. CASE \E b \in Broker : EsperaCoordenador(b)
    BY <2>7, EsperaCoordenadorStep
  <2>8. CASE \E b, c \in Broker : ReceiveEleicao(b, c)
    BY <2>8, ReceiveEleicaoStep
  <2>9. CASE \E b, c \in Broker : ReceiveEleicaoOk(b, c) \/ ReceiveCoordenador(b, c)
    BY <2>9, ReceiveOtherStep
  <2>10. CASE UNCHANGED vars
    <3>1. /\ up' = up /\ tarefas' = tarefas /\ lider' = lider
          /\ emEleicao' = emEleicao /\ okRecebido' = okRecebido
          /\ chan' = chan
          /\ UNCHANGED <<up, readers, viewVars, verificar, boundVars>>
      BY <2>10 DEF vars, meshVars, electionVars
    <3>2. MeshSoundNow'
      BY <3>1, SendStep, InFlight DEF IInv, MeshSoundNow
    <3>. QED  BY <3>1, <3>2 DEF IInv, ElectionTypeOK, TasksRun
  <2>. QED  BY <2>1, <2>2, <2>3, <2>4, <2>5, <2>6, <2>7, <2>8, <2>9, <2>10
            DEF Next
<1>. QED  BY <1>1, <1>2, PTL DEF Spec

(***************************************************************************)
(* Every variable keeps to its type while brokers crash, connections break *)
(* and elections run.                                                      *)
(***************************************************************************)
THEOREM TypeCorrect == ASSUME Punctual PROVE Spec => []TypeOK
<1>1. IInv => TypeOK
  BY DEF IInv, MeshSoundNow, ElectionTypeOK, TypeOK
<1>. QED  BY <1>1, Inductive, PTL

(***************************************************************************)
(* No broker that runs is held for dead, and a broker is known by its own  *)
(* sector or by one that it is the heir of, during elections too           *)
(* (loopDetectarFalhas, verificarEAtivarFailover).                         *)
(***************************************************************************)
THEOREM RingStaysSound == ASSUME Punctual PROVE Spec => []RingSound
<1>1. IInv => RingSound
  BY DEF IInv, MeshSoundNow
<1>. QED  BY <1>1, Inductive, PTL

(***************************************************************************)
(* No two running brokers answer for one sector (responsavelPorSetor),     *)
(* whatever the number of brokers and of those that crash.                 *)
(***************************************************************************)
THEOREM OneAnswers == ASSUME Punctual PROVE Spec => []Exclusive
<1>1. IInv => Exclusive
  BY SoundIsExclusive DEF IInv, MeshSoundNow
<1>. QED  BY <1>1, Inductive, PTL
=============================================================================
