------------------------- MODULE EscortPaymentProofs -------------------------
(***************************************************************************)
(* That drones fly, and missions are logged, only for what is paid:        *)
(* OnlyEntitled is inductive together with TypeOK.  What a step leaves     *)
(* alone stays entitled because the chain only grows; one lemma per        *)
(* container says so of what it adds, and one lemma per action puts them   *)
(* together.                                                               *)
(***************************************************************************)
EXTENDS EscortProofs

\* What is entitled stays so, and what a step leaves alone, or takes away
\* from, names nothing new.
LEMMA Unmoved ==
  ASSUME OnlyEntitled, chain' = chain
  PROVE  /\ \A o : Entitled(o) => Entitled(o)'
         /\ \A i : EntitledView(i) => EntitledView(i)'
         /\ \A x : EntitledReport(x) => EntitledReport(x)'
         /\ \A m : EntitledMsg(m) => EntitledMsg(m)'
         /\ \A c : EntitledConn(c) => EntitledConn(c)'
         /\ fila' = fila => QueuesEntitled'
         /\ dispatch' = dispatch => DispatchEntitled'
         /\ drones' = drones => ViewsEntitled'
         /\ voo' = voo => FlightsEntitled'
         /\ avisos' \subseteq avisos => NoticesEntitled'
         /\ cmds' \subseteq cmds => CommandsEntitled'
         /\ net' \subseteq net => MessagesEntitled'
         /\ conns' \subseteq conns => ReportsEntitled'
         /\ pending' \subseteq pending => LogsEntitled'
<1>1. \A o : Entitled(o) => Entitled(o)'
  BY DEF Entitled, Paid
<1>2. \A i : EntitledView(i) => EntitledView(i)'
  BY <1>1 DEF EntitledView
<1>3. \A x : EntitledReport(x) => EntitledReport(x)'
  BY <1>1, <1>2 DEF EntitledReport
<1>4. \A m : EntitledMsg(m) => EntitledMsg(m)'
  BY <1>2 DEF EntitledMsg
<1>5. \A c : EntitledConn(c) => EntitledConn(c)'
  BY <1>3 DEF EntitledConn
<1>6. fila' = fila => QueuesEntitled'
  BY <1>1 DEF OnlyEntitled, QueuesEntitled
<1>7. dispatch' = dispatch => DispatchEntitled'
  BY <1>1 DEF OnlyEntitled, DispatchEntitled
<1>8. drones' = drones => ViewsEntitled'
  BY <1>2 DEF OnlyEntitled, ViewsEntitled
<1>9. voo' = voo => FlightsEntitled'
  BY <1>2 DEF OnlyEntitled, FlightsEntitled
<1>10. cmds' \subseteq cmds => CommandsEntitled'
  BY <1>1 DEF OnlyEntitled, CommandsEntitled
<1>14. avisos' \subseteq avisos => NoticesEntitled'
  BY <1>1 DEF OnlyEntitled, NoticesEntitled
<1>11. net' \subseteq net => MessagesEntitled'
  BY <1>4 DEF OnlyEntitled, MessagesEntitled
<1>12. conns' \subseteq conns => ReportsEntitled'
  BY <1>5 DEF OnlyEntitled, ReportsEntitled
<1>13. pending' \subseteq pending => LogsEntitled'
  BY <1>1 DEF OnlyEntitled, LogsEntitled
<1>. QED
  BY <1>1, <1>2, <1>3, <1>4, <1>5, <1>6, <1>7, <1>8, <1>9, <1>10, <1>11, <1>12, <1>13,
     <1>14

\* The views after one of them is replaced, and after a drone is taken for
\* shot down.
LEMMA ViewsAfter ==
  ASSUME TypeOK, OnlyEntitled, chain' = chain,
         NEW b \in Broker, NEW d \in Drone
  PROVE  /\ \A v : EntitledView(v) /\ drones' = [drones EXCEPT ![b][d] = v]
                   => ViewsEntitled'
         /\ \A n : drones' = [drones EXCEPT ![b][d].estado = "ABATIDO", ![b][d].stamp = n]
                   => ViewsEntitled'
<1>1. drones \in [Broker -> [Drone -> View]]
  BY DEF TypeOK
<1>2. \A i : EntitledView(i) => EntitledView(i)'
  BY Unmoved
<1>3. \A a \in Broker, e \in Drone : EntitledView(drones[a][e])
  BY DEF OnlyEntitled, ViewsEntitled
<1>4. ASSUME NEW v, EntitledView(v), drones' = [drones EXCEPT ![b][d] = v]
      PROVE  ViewsEntitled'
  <2>1. \A a \in Broker, e \in Drone :
          drones'[a][e] = IF a = b /\ e = d THEN v ELSE drones[a][e]
    BY <1>1, <1>4
  <2>. QED  BY <1>2, <1>3, <1>4, <2>1 DEF ViewsEntitled
<1>5. ASSUME NEW n,
             drones' = [drones EXCEPT ![b][d].estado = "ABATIDO", ![b][d].stamp = n]
      PROVE  ViewsEntitled'
  <2>1. drones[b][d] \in View
    BY <1>1
  <2>2. \A a \in Broker, e \in Drone : drones'[a][e].occ = drones[a][e].occ
    BY <1>1, <1>5, <2>1 DEF View
  <2>3. \A a \in Broker, e \in Drone : EntitledView(drones'[a][e])
    BY <1>3, <2>2 DEF EntitledView
  <2>. QED  BY <1>2, <2>3 DEF ViewsEntitled
<1>. QED  BY <1>4, <1>5

\* The queues after an entitled occurrence is added, one is removed, or one
\* is given back by tratarDronePerdido.
LEMMA QueuesAfter ==
  ASSUME TypeOK, OnlyEntitled, chain' = chain, NEW b \in Broker
  PROVE  /\ \A o : Entitled(o) /\ fila' = [fila EXCEPT ![b] = @ \cup {o}]
                   => QueuesEntitled'
         /\ \A o : fila' = [fila EXCEPT ![b] = @ \ {o}] => QueuesEntitled'
         /\ \A i : EntitledView(i) /\ fila' = Requeued(b, i.occ) => QueuesEntitled'
<1>1. fila \in [Broker -> SUBSET Occurrence]
  BY DEF TypeOK
<1>2. \A o : Entitled(o) => Entitled(o)'
  BY Unmoved
<1>3. \A a \in Broker : \A p \in fila[a] : Entitled(p)
  BY DEF OnlyEntitled, QueuesEntitled
<1>4. ASSUME NEW o, Entitled(o), fila' = [fila EXCEPT ![b] = @ \cup {o}]
      PROVE  QueuesEntitled'
  BY <1>1, <1>2, <1>3, <1>4 DEF QueuesEntitled
<1>5. ASSUME NEW o, fila' = [fila EXCEPT ![b] = @ \ {o}]
      PROVE  QueuesEntitled'
  BY <1>1, <1>2, <1>3, <1>5 DEF QueuesEntitled
<1>6. ASSUME NEW i, EntitledView(i), fila' = Requeued(b, i.occ)
      PROVE  QueuesEntitled'
  <2>1. CASE i.occ # "" /\ status[b][i.occ] # ""
    <3>1. fila' = [fila EXCEPT ![b] = @ \cup {i.occ}]
      BY <1>6, <2>1 DEF Requeued
    <3>2. Entitled(i.occ)
      BY <1>6, <2>1 DEF EntitledView
    <3>. QED  BY <1>4, <3>1, <3>2
  <2>2. CASE ~ (i.occ # "" /\ status[b][i.occ] # "")
    <3>1. fila' = fila
      BY <1>1, <1>6, <2>2 DEF Requeued
    <3>. QED  BY <3>1, Unmoved
  <2>. QED  BY <2>1, <2>2
<1>. QED  BY <1>4, <1>5, <1>6

\* The messages between brokers after a broadcast.
LEMMA MessagesAfter ==
  ASSUME OnlyEntitled, chain' = chain, NEW b, NEW x,
         x.tipo \in {"DRONE_DESPACHADO", "SINC_DRONE"} => EntitledView(x.info),
         net' \subseteq net \cup ToNeighbours(b, x)
  PROVE  MessagesEntitled'
<1>1. \A m : EntitledMsg(m) => EntitledMsg(m)'
  BY Unmoved
<1>2. \A m \in ToNeighbours(b, x) : EntitledMsg(m)
  BY DEF ToNeighbours, EntitledMsg
<1>. QED  BY <1>1, <1>2 DEF OnlyEntitled, MessagesEntitled

\* A connection that stands for c afterwards reports nothing new.
LEMMA ReportsAfter ==
  ASSUME OnlyEntitled, chain' = chain, NEW c \in conns, NEW e, e.msgs = c.msgs,
         conns' \subseteq conns \cup {e}
  PROVE  ReportsEntitled'
<1>1. \A a : EntitledConn(a) => EntitledConn(a)'
  BY Unmoved
<1>2. EntitledConn(e)
  BY DEF OnlyEntitled, ReportsEntitled, EntitledConn
<1>. QED  BY <1>1, <1>2 DEF OnlyEntitled, ReportsEntitled

\* Nor does one whose first message has been read.
LEMMA ReportsAfterRead ==
  ASSUME TypeOK, OnlyEntitled, chain' = chain, NEW c \in conns, c.msgs # <<>>,
         conns' = (conns \ {c}) \cup {Rest(c)}
  PROVE  ReportsEntitled' /\ EntitledReport(Head(c.msgs))
<1>1. \A a : EntitledConn(a) => EntitledConn(a)'
  BY Unmoved
<1>2. c \in Conn /\ c.msgs \in Seq(DroneMsg)
  BY ConnFields DEF TypeOK
<1>3. EntitledConn(c)
  BY DEF OnlyEntitled, ReportsEntitled
<1>4. /\ Head(c.msgs) = c.msgs[1] /\ 1 \in DOMAIN c.msgs
      /\ \A i \in DOMAIN Tail(c.msgs) :
           i + 1 \in DOMAIN c.msgs /\ Tail(c.msgs)[i] = c.msgs[i + 1]
  BY <1>2, HeadTailProperties
<1>5. Rest(c).msgs = Tail(c.msgs)
  BY <1>2 DEF Rest, Conn
<1>6. EntitledConn(Rest(c)) /\ EntitledReport(Head(c.msgs))
  BY <1>3, <1>4, <1>5 DEF EntitledConn
<1>. QED  BY <1>1, <1>6 DEF OnlyEntitled, ReportsEntitled

\* A connection with an entitled message more.
LEMMA AppendedReport ==
  ASSUME NEW c \in Conn, NEW x, EntitledReport(x), EntitledConn(c), NEW e,
         e.msgs = Append(c.msgs, x)
  PROVE  EntitledConn(e)
<1>1. c.msgs \in Seq(DroneMsg)
  BY ConnFields
<1>2. \A i \in DOMAIN Append(c.msgs, x) :
        \/ i \in DOMAIN c.msgs /\ Append(c.msgs, x)[i] = c.msgs[i]
        \/ Append(c.msgs, x)[i] = x
  BY <1>1
<1>. QED  BY <1>2 DEF EntitledConn

\* Connections name nothing new when a drone sends an entitled message.
LEMMA ReportsAfterSent ==
  ASSUME TypeOK, OnlyEntitled, NEW d, NEW x, EntitledReport(x)
  PROVE  \A c \in Sent(d, x) : EntitledConn(c)
<1>1. ASSUME NEW c \in conns
      PROVE  EntitledConn([c EXCEPT !.msgs = Append(@, x)])
  <2>1. c \in Conn
    BY DEF TypeOK
  <2>2. EntitledConn(c)
    BY DEF OnlyEntitled, ReportsEntitled
  <2>3. [c EXCEPT !.msgs = Append(@, x)].msgs = Append(c.msgs, x)
    BY <2>1 DEF Conn
  <2>. QED  BY <2>1, <2>2, <2>3, AppendedReport
<1>2. \A c \in conns : EntitledConn(c)
  BY DEF OnlyEntitled, ReportsEntitled
<1>. QED  BY <1>1, <1>2 DEF Sent

\* processarLeitura queues only what needs no payment.
LEMMA StepReading ==
  ASSUME TypeOK, OnlyEntitled, NEW b \in Broker, NEW o \in Occurrence,
         ProcessarLeitura(b, o)
  PROVE  OnlyEntitled'
<1>1. /\ avisos' = avisos
      /\ chain' = chain /\ dispatch' = dispatch /\ drones' = drones /\ voo' = voo
      /\ cmds' = cmds /\ conns' = conns /\ pending' = pending
  BY DEF ProcessarLeitura, viewVars, ledgerVars, droneVars
<1>2. QueuesEntitled'
  <2>1. CASE o \in Unowned
    BY <1>1, <2>1, QueuesAfter DEF ProcessarLeitura, Entitled
  <2>2. CASE o \notin Unowned
    BY <1>1, <2>2, Unmoved DEF ProcessarLeitura
  <2>. QED  BY <2>1, <2>2
<1>3. MessagesEntitled'
  <2>. DEFINE x == [tipo |-> "REQUISICAO_DRONE", occ |-> o,
                    status |-> IF o \in Unowned THEN "ABERTA" ELSE "AGUARDANDO_PAGAMENTO"]
  <2>1. net' = net \cup ToNeighbours(b, x) /\ x.tipo = "REQUISICAO_DRONE"
    BY DEF ProcessarLeitura
  <2>. HIDE DEF x
  <2>. QED  BY <1>1, <2>1, MessagesAfter
<1>. QED  BY <1>1, <1>2, <1>3, Unmoved DEF OnlyEntitled

\* REQUISICAO_DRONE and MISSAO_CONCLUIDA queue nothing.
LEMMA StepRequisicao ==
  ASSUME TypeOK, OnlyEntitled, NEW m \in net, ReceiveRequisicao(m) \/ ReceiveConcluida(m)
  PROVE  OnlyEntitled'
<1>1. /\ avisos' = avisos
      /\ chain' = chain /\ fila' = fila /\ dispatch' = dispatch /\ drones' = drones
      /\ voo' = voo /\ cmds' = cmds /\ net' \subseteq net /\ conns' = conns
      /\ pending' = pending
  BY DEF ReceiveRequisicao, ReceiveConcluida, QueueAfterRequest, viewVars, ledgerVars,
         droneVars
<1>. QED  BY <1>1, Unmoved DEF OnlyEntitled

\* A payment is no log.
LEMMA StepPagar ==
  ASSUME OnlyEntitled, NEW b \in Broker, NEW o \in Occurrence, PagarOcorrencia(b, o)
  PROVE  OnlyEntitled'
<1>1. /\ avisos' = avisos
      /\ chain' = chain /\ fila' = fila /\ dispatch' = dispatch /\ drones' = drones
      /\ voo' = voo /\ cmds' = cmds /\ net' = net /\ conns' = conns
  BY DEF PagarOcorrencia, brokerVars, viewVars, droneVars
<1>2. \A tx \in pending' : tx.type = "MISSION_LOG" => tx \in pending
  <2>1. PICK n : pending' = pending \cup {[type |-> "TRANSFER", occ |-> o, nonce |-> n]}
    BY DEF PagarOcorrencia
  <2>2. [type |-> "TRANSFER", occ |-> o, nonce |-> n].type = "TRANSFER"
    OBVIOUS
  <2>. QED  BY <2>1, <2>2
<1>3. LogsEntitled'
  BY <1>1, <1>2, Unmoved DEF OnlyEntitled, LogsEntitled
<1>. QED  BY <1>1, <1>3, Unmoved DEF OnlyEntitled

\* The chain only grows, so what is entitled stays entitled.
LEMMA StepCommit ==
  ASSUME TypeOK, OnlyEntitled, NEW tx \in pending, CommitTx(tx)
  PROVE  OnlyEntitled' /\ \A o : Entitled(o) => Entitled(o)'
<1>1. /\ avisos' = avisos
      /\ fila' = fila /\ dispatch' = dispatch /\ drones' = drones
      /\ voo' = voo /\ cmds' = cmds /\ net' = net /\ conns' = conns
      /\ pending' \subseteq pending
  BY DEF CommitTx, brokerVars, viewVars, droneVars
<1>2. \A o : Entitled(o) => Entitled(o)'
  <2>1. chain \in Seq(Tx) /\ tx \in Tx /\ chain' = Append(chain, tx)
    BY DEF CommitTx, TypeOK
  <2>2. \A i \in DOMAIN chain : i \in DOMAIN chain' /\ chain'[i] = chain[i]
    BY <2>1
  <2>. QED  BY <2>2 DEF Entitled, Paid
<1>3. \A i : EntitledView(i) => EntitledView(i)'
  BY <1>2 DEF EntitledView
<1>4. \A x : EntitledReport(x) => EntitledReport(x)'
  BY <1>2, <1>3 DEF EntitledReport
<1>5. /\ QueuesEntitled' /\ DispatchEntitled' /\ NoticesEntitled'
      /\ CommandsEntitled' /\ LogsEntitled'
  BY <1>1, <1>2 DEF OnlyEntitled, QueuesEntitled, DispatchEntitled, NoticesEntitled,
                    CommandsEntitled, LogsEntitled
<1>6. ViewsEntitled' /\ FlightsEntitled' /\ MessagesEntitled'
  BY <1>1, <1>3 DEF OnlyEntitled, ViewsEntitled, FlightsEntitled, MessagesEntitled,
                    EntitledMsg
<1>7. ReportsEntitled'
  BY <1>1, <1>4 DEF OnlyEntitled, ReportsEntitled, EntitledConn
<1>. QED  BY <1>2, <1>5, <1>6, <1>7 DEF OnlyEntitled

\* What processarTransacoesBloco queues is paid in the chain.
LEMMA StepBloco ==
  ASSUME TypeOK, OnlyEntitled, NEW b \in Broker, ProcessarTransacoesBloco(b)
  PROVE  OnlyEntitled'
<1>. DEFINE tx == chain[height[b] + 1]
<1>1. /\ avisos' = avisos
      /\ chain' = chain /\ dispatch' = dispatch /\ drones' = drones /\ voo' = voo
      /\ cmds' = cmds /\ net' = net /\ conns' = conns /\ pending' = pending
  BY DEF ProcessarTransacoesBloco, viewVars, droneVars
<1>2. QueuesEntitled'
  <2>1. CASE tx.type = "TRANSFER" /\ status[b][tx.occ] # ""
    <3>1. fila' = [fila EXCEPT ![b] = @ \cup {tx.occ}]
      BY <2>1 DEF ProcessarTransacoesBloco
    <3>2. height[b] + 1 \in DOMAIN chain
      BY NextTx DEF ProcessarTransacoesBloco
    <3>3. Entitled(tx.occ)
      BY <2>1, <3>2 DEF Entitled, Paid
    <3>. QED  BY <1>1, <3>1, <3>3, QueuesAfter
  <2>2. CASE ~ (tx.type = "TRANSFER" /\ status[b][tx.occ] # "")
    BY <1>1, <2>2, Unmoved DEF ProcessarTransacoesBloco
  <2>. QED  BY <2>1, <2>2
<1>. QED  BY <1>1, <1>2, Unmoved DEF OnlyEntitled

\* An adopted chain queues nothing.
LEMMA StepAdopt ==
  ASSUME OnlyEntitled, NEW b \in Broker, AdoptChain(b)
  PROVE  OnlyEntitled'
BY Unmoved DEF AdoptChain, brokerVars, viewVars, droneVars, OnlyEntitled

\* What is peeked comes from the queue.
LEMMA StepPeek ==
  ASSUME TypeOK, OnlyEntitled, NEW b \in Broker, Peek(b)
  PROVE  OnlyEntitled'
<1>1. /\ avisos' = avisos
      /\ chain' = chain /\ fila' = fila /\ drones' = drones
      /\ voo' = voo /\ cmds' = cmds /\ net' = net /\ conns' = conns
      /\ pending' = pending
  BY DEF Peek, viewVars, ledgerVars, droneVars
<1>2. PICK o \in Heads(b) :
        dispatch' = [dispatch EXCEPT ![b] = [step |-> "peeked", occ |-> o]]
  BY DEF Peek
<1>3. Entitled(o)
  BY <1>2 DEF OnlyEntitled, QueuesEntitled, Heads
<1>4. dispatch \in [Broker -> Dispatch]
  BY DEF TypeOK
<1>5. DispatchEntitled'
  BY <1>1, <1>2, <1>3, <1>4, Unmoved DEF OnlyEntitled, DispatchEntitled
<1>. QED  BY <1>1, <1>5, Unmoved DEF OnlyEntitled

\* Where a dispatch moves on, for the same occurrence, or ends.
LEMMA DispatchAfter ==
  ASSUME TypeOK, OnlyEntitled, chain' = chain, NEW b \in Broker
  PROVE  /\ dispatch' = [dispatch EXCEPT ![b] = Idle] => DispatchEntitled'
         /\ \A s : dispatch[b].step \in {"peeked", "chosen", "popped", "marked"}
                   /\ dispatch' = [dispatch EXCEPT ![b].step = s] => DispatchEntitled'
<1>1. dispatch \in [Broker -> Dispatch] /\ dispatch[b] \in Dispatch
  BY DEF TypeOK
<1>2. \A o : Entitled(o) => Entitled(o)'
  BY Unmoved
<1>3. \A a \in Broker : dispatch[a] # Idle => Entitled(dispatch[a].occ)
  BY DEF OnlyEntitled, DispatchEntitled
<1>4. ASSUME dispatch' = [dispatch EXCEPT ![b] = Idle]
      PROVE  DispatchEntitled'
  BY <1>1, <1>2, <1>3, <1>4 DEF DispatchEntitled
<1>5. ASSUME NEW s, dispatch[b].step \in {"peeked", "chosen", "popped", "marked"},
             dispatch' = [dispatch EXCEPT ![b].step = s]
      PROVE  DispatchEntitled'
  <2>1. dispatch[b] # Idle
    BY <1>5 DEF Idle
  <2>2. [dispatch[b] EXCEPT !.step = s].occ = dispatch[b].occ
    BY <1>1, <1>5, <2>1 DEF Dispatch
  <2>3. \A a \in Broker : dispatch'[a] = IF a = b THEN [dispatch[b] EXCEPT !.step = s]
                                                 ELSE dispatch[a]
    BY <1>1, <1>5
  <2>. QED  BY <1>2, <1>3, <2>1, <2>2, <2>3 DEF DispatchEntitled
<1>. QED  BY <1>4, <1>5

\* Remover takes away what need not be flown for.
LEMMA StepRemoveAttended ==
  ASSUME TypeOK, OnlyEntitled, NEW b \in Broker, RemoveAttended(b)
  PROVE  OnlyEntitled'
<1>1. /\ avisos' = avisos
      /\ chain' = chain /\ drones' = drones /\ voo' = voo /\ cmds' = cmds
      /\ net' = net /\ conns' = conns /\ pending' = pending
  BY DEF RemoveAttended, viewVars, ledgerVars, droneVars
<1>2. QueuesEntitled' /\ DispatchEntitled'
  BY <1>1, QueuesAfter, DispatchAfter DEF RemoveAttended
<1>. QED  BY <1>1, <1>2, Unmoved DEF OnlyEntitled

\* What was peeked is looked up, and the attempt may end there.
LEMMA StepCheck ==
  ASSUME TypeOK, OnlyEntitled, NEW b \in Broker, CheckAttended(b) \/ NoDrone(b)
  PROVE  OnlyEntitled'
<1>1. /\ avisos' = avisos
      /\ chain' = chain /\ fila' = fila /\ drones' = drones /\ voo' = voo
      /\ cmds' = cmds /\ net' = net /\ conns' = conns /\ pending' = pending
  BY DEF CheckAttended, NoDrone, viewVars, ledgerVars, droneVars
<1>2. DispatchEntitled'
  BY <1>1, DispatchAfter DEF CheckAttended, NoDrone
<1>. QED  BY <1>1, <1>2, Unmoved DEF OnlyEntitled

\* The drone that is chosen is to fly for what was peeked.
LEMMA StepChoose ==
  ASSUME TypeOK, OnlyEntitled, NEW b \in Broker, NEW d \in Drone, ChooseDrone(b, d)
  PROVE  OnlyEntitled'
<1>. DEFINE p == [step |-> "chosen", occ |-> dispatch[b].occ, drone |-> d,
                  conn |-> dronesLocais[b][d]]
<1>1. /\ avisos' = avisos
      /\ chain' = chain /\ fila' = fila /\ drones' = drones /\ voo' = voo
      /\ cmds' = cmds /\ net' = net /\ conns' = conns /\ pending' = pending
  BY DEF ChooseDrone, viewVars, ledgerVars, droneVars
<1>2. dispatch[b] # Idle
  BY DEF ChooseDrone, Idle
<1>3. /\ dispatch' = [dispatch EXCEPT ![b] = p] /\ Entitled(p.occ)
      /\ dispatch \in [Broker -> Dispatch]
  BY <1>2 DEF ChooseDrone, OnlyEntitled, DispatchEntitled, TypeOK
<1>. HIDE DEF p
<1>4. DispatchEntitled'
  BY <1>1, <1>3, Unmoved DEF OnlyEntitled, DispatchEntitled
<1>. QED  BY <1>1, <1>4, Unmoved DEF OnlyEntitled

\* What is popped leaves the queue.
LEMMA StepPop ==
  ASSUME TypeOK, OnlyEntitled, NEW b \in Broker, Pop(b)
  PROVE  OnlyEntitled'
<1>1. /\ avisos' = avisos
      /\ chain' = chain /\ voo' = voo /\ cmds' = cmds /\ drones' = drones
      /\ net' = net /\ conns' = conns /\ pending' = pending
  BY DEF Pop, viewVars, ledgerVars, droneVars
<1>2. DispatchEntitled'
  BY <1>1, DispatchAfter DEF Pop
<1>3. QueuesEntitled'
  BY <1>1, QueuesAfter, Unmoved DEF Pop
<1>. QED  BY <1>1, <1>2, <1>3, Unmoved DEF OnlyEntitled

\* The drone is marked with what was peeked, whatever was popped.
LEMMA StepMarcar ==
  ASSUME TypeOK, OnlyEntitled, NEW b \in Broker, MarcarOcupado(b)
  PROVE  OnlyEntitled'
<1>. DEFINE v == Busy(dispatch[b].drone, "DESPACHADO", dispatch[b].occ)
<1>1. /\ avisos' = avisos
      /\ chain' = chain /\ voo' = voo /\ cmds' = cmds /\ fila' = fila
      /\ net' = net /\ conns' = conns /\ pending' = pending
  BY DEF MarcarOcupado, ledgerVars, droneVars
<1>2. dispatch[b].step = "popped" /\ dispatch' = [dispatch EXCEPT ![b].step = "marked"]
  BY DEF MarcarOcupado
<1>3. dispatch[b].drone \in Drone /\ Entitled(dispatch[b].occ)
  <2>1. dispatch[b].drone \in Drone
    BY <1>2, DispatchUnderWay
  <2>2. dispatch[b] # Idle
    BY <1>2 DEF Idle
  <2>. QED  BY <2>1, <2>2 DEF OnlyEntitled, DispatchEntitled
<1>4. DispatchEntitled'
  BY <1>1, <1>2, DispatchAfter
<1>5. ViewsEntitled'
  <2>1. EntitledView(v)
    BY <1>3 DEF EntitledView, Busy
  <2>2. drones' = [drones EXCEPT ![b][dispatch[b].drone] = v]
    BY DEF MarcarOcupado
  <2>. HIDE DEF v
  <2>. QED  BY <1>1, <1>3, <2>1, <2>2, ViewsAfter
<1>. QED  BY <1>1, <1>4, <1>5, Unmoved DEF OnlyEntitled

\* The command names what was peeked.
LEMMA StepSend ==
  ASSUME TypeOK, OnlyEntitled, NEW b \in Broker, SendCommand(b)
  PROVE  OnlyEntitled'
<1>1. /\ avisos' = avisos
      /\ chain' = chain /\ voo' = voo /\ fila' = fila /\ drones' = drones
      /\ net' = net /\ conns' = conns /\ pending' = pending
  BY DEF SendCommand, ledgerVars, viewVars
<1>2. dispatch[b].step = "marked" /\ dispatch' = [dispatch EXCEPT ![b].step = "sent"]
  BY DEF SendCommand
<1>3. Entitled(dispatch[b].occ)
  BY <1>2 DEF OnlyEntitled, DispatchEntitled, Idle
<1>4. DispatchEntitled'
  BY <1>1, <1>2, DispatchAfter
<1>5. \A k \in cmds' : k \in cmds \/ k.occ = dispatch[b].occ
  BY DEF SendCommand
<1>6. CommandsEntitled'
  BY <1>1, <1>3, <1>5, Unmoved DEF OnlyEntitled, CommandsEntitled
<1>. QED  BY <1>1, <1>4, <1>6, Unmoved DEF OnlyEntitled

\* What could not be sent goes back to the queue.
LEMMA StepSendFails ==
  ASSUME TypeOK, OnlyEntitled, NEW b \in Broker, SendFails(b)
  PROVE  OnlyEntitled'
<1>1. /\ avisos' = avisos
      /\ chain' = chain /\ voo' = voo /\ drones' = drones /\ cmds' = cmds
      /\ net' = net /\ conns' = conns /\ pending' = pending
  BY DEF SendFails, ledgerVars, viewVars, droneVars
<1>2. Entitled(dispatch[b].occ)
  BY DEF SendFails, OnlyEntitled, DispatchEntitled, Idle
<1>3. QueuesEntitled' /\ DispatchEntitled'
  BY <1>1, <1>2, QueuesAfter, DispatchAfter DEF SendFails
<1>. QED  BY <1>1, <1>3, Unmoved DEF OnlyEntitled

\* DRONE_DESPACHADO passes on the broker's view.
LEMMA StepAnnounce ==
  ASSUME TypeOK, OnlyEntitled, NEW b \in Broker, AnnounceDispatch(b)
  PROVE  OnlyEntitled'
<1>. DEFINE x == [tipo |-> "DRONE_DESPACHADO", occ |-> dispatch[b].occ,
                  drone |-> dispatch[b].drone, info |-> drones[b][dispatch[b].drone]]
<1>1. /\ avisos' = avisos
      /\ chain' = chain /\ voo' = voo /\ drones' = drones /\ cmds' = cmds
      /\ fila' = fila /\ conns' = conns /\ pending' = pending
  BY DEF AnnounceDispatch, ledgerVars, viewVars, droneVars
<1>2. dispatch[b].drone \in Drone
  BY DispatchUnderWay DEF AnnounceDispatch
<1>3. DispatchEntitled'
  BY <1>1, DispatchAfter DEF AnnounceDispatch
<1>4. MessagesEntitled'
  <2>1. net' = net \cup ToNeighbours(b, x) /\ EntitledView(x.info)
    BY <1>2 DEF AnnounceDispatch, OnlyEntitled, ViewsEntitled
  <2>. HIDE DEF x
  <2>. QED  BY <1>1, <2>1, MessagesAfter
<1>. QED  BY <1>1, <1>3, <1>4, Unmoved DEF OnlyEntitled

\* DRONE_DESPACHADO brings an entitled view.
LEMMA StepDespachado ==
  ASSUME TypeOK, OnlyEntitled, NEW m \in net, ReceiveDespachado(m)
  PROVE  OnlyEntitled'
<1>1. /\ avisos' = avisos
      /\ chain' = chain /\ voo' = voo /\ dispatch' = dispatch /\ cmds' = cmds
      /\ net' \subseteq net /\ conns' = conns /\ pending' = pending
  BY DEF ReceiveDespachado, ledgerVars, droneVars
<1>2. m \in NetMsg
  BY DEF TypeOK, NetMsg
<1>3. m.to \in Broker /\ m.msg.drone \in Drone
  BY <1>2, MessageFields DEF ReceiveDespachado
<1>4. EntitledView(m.msg.info)
  BY DEF ReceiveDespachado, OnlyEntitled, MessagesEntitled, EntitledMsg
<1>5. QueuesEntitled' /\ ViewsEntitled'
  BY <1>1, <1>3, <1>4, QueuesAfter, ViewsAfter DEF ReceiveDespachado
<1>. QED  BY <1>1, <1>5, Unmoved DEF OnlyEntitled

\* So does SINC_DRONE.
LEMMA StepSincDrone ==
  ASSUME TypeOK, OnlyEntitled, NEW m \in net, ReceiveSincDrone(m)
  PROVE  OnlyEntitled'
<1>1. /\ avisos' = avisos
      /\ chain' = chain /\ voo' = voo /\ dispatch' = dispatch /\ cmds' = cmds
      /\ net' \subseteq net /\ conns' = conns /\ pending' = pending /\ fila' = fila
  BY DEF ReceiveSincDrone, ledgerVars, droneVars, brokerVars
<1>2. m \in NetMsg
  BY DEF TypeOK, NetMsg
<1>3. m.to \in Broker /\ m.msg.drone \in Drone
  BY <1>2, MessageFields DEF ReceiveSincDrone
<1>4. EntitledView(m.msg.info)
  BY DEF ReceiveSincDrone, OnlyEntitled, MessagesEntitled, EntitledMsg
<1>5. ViewsEntitled'
  BY <1>1, <1>3, <1>4, ViewsAfter, Unmoved DEF ReceiveSincDrone
<1>. QED  BY <1>1, <1>5, Unmoved DEF OnlyEntitled

\* DRONE_PERDIDO queues what the receiver's view names.
LEMMA StepDronePerdido ==
  ASSUME TypeOK, OnlyEntitled, NEW m \in net, ReceiveDronePerdido(m)
  PROVE  OnlyEntitled'
<1>. DEFINE d == m.msg.drone
<1>1. /\ avisos' = avisos
      /\ chain' = chain /\ voo' = voo /\ dispatch' = dispatch /\ cmds' = cmds
      /\ net' \subseteq net /\ conns' = conns /\ pending' = pending
  BY DEF ReceiveDronePerdido, ledgerVars, droneVars
<1>2. m \in NetMsg
  BY DEF TypeOK, NetMsg
<1>3. m.to \in Broker /\ d \in Drone
  BY <1>2, MessageFields DEF ReceiveDronePerdido
<1>4. CASE drones[m.to][d] = Unknown
  <2>1. fila' = fila /\ drones' = drones
    BY <1>4 DEF ReceiveDronePerdido
  <2>. QED  BY <1>1, <2>1, Unmoved DEF OnlyEntitled
<1>5. CASE drones[m.to][d] # Unknown
  <2>1. EntitledView(drones[m.to][d])
    BY <1>3 DEF OnlyEntitled, ViewsEntitled
  <2>2. fila' = Requeued(m.to, drones[m.to][d].occ)
    BY <1>5 DEF ReceiveDronePerdido
  <2>3. drones' = [drones EXCEPT ![m.to][d].estado = "ABATIDO",
                                 ![m.to][d].stamp = relogio[d] + 1]
    BY <1>5 DEF ReceiveDronePerdido
  <2>. HIDE DEF d
  <2>4. QueuesEntitled'
    BY <1>1, <1>3, <2>1, <2>2, QueuesAfter
  <2>5. ViewsEntitled'
    BY <1>1, <1>3, <2>3, ViewsAfter
  <2>. QED  BY <1>1, <2>4, <2>5, Unmoved DEF OnlyEntitled
<1>. QED  BY <1>4, <1>5

\* A registration in hand is unchanged.
LEMMA StepIdentificar ==
  ASSUME TypeOK, OnlyEntitled, NEW c \in conns, IdentificarConexao(c)
  PROVE  OnlyEntitled'
<1>1. /\ avisos' = avisos
      /\ chain' = chain /\ voo' = voo /\ dispatch' = dispatch /\ cmds' = cmds
      /\ net' = net /\ drones' = drones /\ pending' = pending /\ fila' = fila
  BY DEF IdentificarConexao, ledgerVars, droneVars, brokerVars
<1>2. [c EXCEPT !.reader = "registering"].msgs = c.msgs
  BY DEF TypeOK, Conn
<1>3. ReportsEntitled'
  BY <1>1, <1>2, ReportsAfter DEF IdentificarConexao
<1>. QED  BY <1>1, <1>3, Unmoved DEF OnlyEntitled

\* A registration brings an entitled view.
LEMMA StepRegistrar ==
  ASSUME TypeOK, OnlyEntitled, NEW c \in conns, RegistrarDroneLocal(c)
  PROVE  OnlyEntitled'
<1>. DEFINE v == Head(c.msgs).info
            x == [tipo |-> "SINC_DRONE", drone |-> c.drone, info |-> v]
<1>1. /\ avisos' = avisos
      /\ chain' = chain /\ voo' = voo /\ dispatch' = dispatch /\ cmds' = cmds
      /\ pending' = pending /\ fila' = fila
  BY DEF RegistrarDroneLocal, ledgerVars, droneVars, brokerVars
<1>2. c \in Conn /\ c.broker \in Broker /\ c.drone \in Drone
  BY ConnOf
<1>3. c.msgs # <<>> /\ Head(c.msgs).tipo = "REGISTRO"
  BY <1>2, ConnFields DEF RegistrarDroneLocal
<1>4. ReportsEntitled' /\ EntitledReport(Head(c.msgs))
  BY <1>1, <1>3, ReportsAfterRead DEF RegistrarDroneLocal
<1>5. EntitledView(v)
  BY <1>3, <1>4 DEF EntitledReport
<1>6. /\ drones' = [drones EXCEPT ![c.broker][c.drone] = v]
      /\ net' = net \cup ToNeighbours(c.broker, x)
      /\ EntitledView(x.info)
  BY <1>5 DEF RegistrarDroneLocal
<1>. HIDE DEF v, x
<1>7. ViewsEntitled' /\ MessagesEntitled'
  BY <1>1, <1>2, <1>5, <1>6, ViewsAfter, MessagesAfter
<1>. QED  BY <1>1, <1>4, <1>7, Unmoved DEF OnlyEntitled

\* A connection that is dropped names nothing.
LEMMA StepReject ==
  ASSUME OnlyEntitled, NEW c \in conns, RejectConnection(c) \/ OldConnectionEnds(c)
  PROVE  OnlyEntitled'
<1>1. /\ avisos' = avisos
      /\ chain' = chain /\ voo' = voo /\ dispatch' = dispatch /\ cmds' \subseteq cmds
      /\ net' = net /\ drones' = drones /\ pending' = pending /\ fila' = fila
      /\ conns' \subseteq conns
  BY DEF RejectConnection, OldConnectionEnds, ledgerVars, droneVars, brokerVars, viewVars
<1>. QED  BY <1>1, Unmoved DEF OnlyEntitled

\* A keepalive leaves the occurrence of the view alone.
LEMMA StepReceiveKeepalive ==
  ASSUME TypeOK, OnlyEntitled, NEW c \in conns, ReceiveKeepalive(c)
  PROVE  OnlyEntitled'
<1>. DEFINE v == [drones[c.broker][c.drone] EXCEPT !.stamp = relogio[c.drone] + 1]
            x == [tipo |-> "SINC_DRONE", drone |-> c.drone, info |-> v]
<1>1. /\ avisos' = avisos
      /\ chain' = chain /\ voo' = voo /\ dispatch' = dispatch /\ cmds' = cmds
      /\ pending' = pending /\ fila' = fila
  BY DEF ReceiveKeepalive, ledgerVars, droneVars, brokerVars
<1>2. c.broker \in Broker /\ c.drone \in Drone
  BY ConnOf
<1>3. ReportsEntitled'
  BY <1>1, ReportsAfterRead DEF ReceiveKeepalive
<1>4. EntitledView(v)
  <2>1. drones[c.broker][c.drone] \in View
    BY <1>2 DEF TypeOK
  <2>2. v.occ = drones[c.broker][c.drone].occ
    BY <2>1 DEF View
  <2>3. EntitledView(drones[c.broker][c.drone])
    BY <1>2 DEF OnlyEntitled, ViewsEntitled
  <2>. QED  BY <2>2, <2>3 DEF EntitledView
<1>5. /\ drones' = [drones EXCEPT ![c.broker][c.drone] = v]
      /\ net' = net \cup ToNeighbours(c.broker, x)
      /\ EntitledView(x.info)
  BY <1>4 DEF ReceiveKeepalive
<1>. HIDE DEF v, x
<1>6. ViewsEntitled' /\ MessagesEntitled'
  BY <1>1, <1>2, <1>4, <1>5, ViewsAfter, MessagesAfter
<1>. QED  BY <1>1, <1>3, <1>6, Unmoved DEF OnlyEntitled

\* A report names an entitled occurrence, or leaves the one of the view.
LEMMA StepEstado ==
  ASSUME TypeOK, OnlyEntitled, NEW c \in conns, ReceiveEstado(c)
  PROVE  OnlyEntitled'
<1>. DEFINE b == c.broker
            d == c.drone
            msg == Head(c.msgs)
            v == Reported(b, d, msg)
            x == [tipo |-> "SINC_DRONE", drone |-> d, info |-> v]
            y == [tipo |-> "MISSAO_CONCLUIDA", occ |-> msg.occ]
<1>1. /\ avisos' = avisos
      /\ chain' = chain /\ voo' = voo /\ dispatch' = dispatch /\ cmds' = cmds
  BY DEF ReceiveEstado, droneVars
<1>2. b \in Broker /\ d \in Drone
  BY ConnOf
<1>3. ReportsEntitled' /\ Entitled(msg.occ)
  BY <1>1, ReportsAfterRead DEF ReceiveEstado, EntitledReport
<1>4. EntitledView(v)
  <2>1. v.occ \in {"", msg.occ, drones[b][d].occ}
    BY DEF Reported
  <2>2. EntitledView(drones[b][d])
    BY <1>2 DEF OnlyEntitled, ViewsEntitled
  <2>. HIDE DEF v
  <2>. QED  BY <1>3, <2>1, <2>2 DEF EntitledView
<1>5. ViewsEntitled'
  <2>1. drones' = [drones EXCEPT ![b][d] = v]
    BY DEF ReceiveEstado
  <2>. HIDE DEF v
  <2>. QED  BY <1>1, <1>2, <1>4, <2>1, ViewsAfter
<1>6. MessagesEntitled'
  <2>1. net' \subseteq net \cup ToNeighbours(b, x) \cup ToNeighbours(b, y)
    BY DEF ReceiveEstado
  <2>2. EntitledView(x.info) /\ y.tipo = "MISSAO_CONCLUIDA"
    BY <1>4
  <2>. HIDE DEF x, y
  <2>3. \A m \in ToNeighbours(b, x) \cup ToNeighbours(b, y) : EntitledMsg(m)
    BY <2>2 DEF ToNeighbours, EntitledMsg
  <2>. QED  BY <1>1, <2>1, <2>3, Unmoved DEF OnlyEntitled, MessagesEntitled
<1>7. LogsEntitled'
  <2>1. pending' = pending \cup MissionLog(b, d, msg)
    BY DEF ReceiveEstado
  <2>2. \A tx \in MissionLog(b, d, msg) : tx.occ = msg.occ
    <3>. DEFINE log == [type |-> "MISSION_LOG", occ |-> msg.occ, drone |-> d,
                        nonce |-> relogio[d] + 1]
    <3>1. MissionLog(b, d, msg) \subseteq {log}
      BY DEF MissionLog
    <3>2. log.occ = msg.occ
      OBVIOUS
    <3>. HIDE DEF log
    <3>. QED  BY <3>1, <3>2
  <2>. QED  BY <1>1, <1>3, <2>1, <2>2, Unmoved DEF OnlyEntitled, LogsEntitled
<1>8. QueuesEntitled'
  <2>1. CASE msg.estado = "ABATIDO"
    <3>1. fila' = Requeued(b, v.occ)
      BY <2>1 DEF ReceiveEstado
    <3>. HIDE DEF v
    <3>. QED  BY <1>1, <1>2, <1>4, <3>1, QueuesAfter
  <2>2. CASE msg.estado # "ABATIDO"
    BY <1>1, <2>2, Unmoved DEF ReceiveEstado
  <2>. QED  BY <2>1, <2>2
<1>. QED  BY <1>1, <1>3, <1>5, <1>6, <1>7, <1>8, Unmoved DEF OnlyEntitled

\* The end of a connection names nothing.
LEMMA StepEnds ==
  ASSUME TypeOK, OnlyEntitled, NEW c \in conns, ConnectionEnds(c)
  PROVE  OnlyEntitled'
<1>1. /\ avisos' = avisos
      /\ chain' = chain /\ voo' = voo /\ dispatch' = dispatch /\ cmds' = cmds
      /\ net' = net /\ drones' = drones /\ pending' = pending /\ fila' = fila
  BY DEF ConnectionEnds, ledgerVars, droneVars, brokerVars
<1>2. [c EXCEPT !.reader = "ending"].msgs = c.msgs
  BY DEF TypeOK, Conn
<1>3. ReportsEntitled'
  BY <1>1, <1>2, ReportsAfter DEF ConnectionEnds
<1>. QED  BY <1>1, <1>3, Unmoved DEF OnlyEntitled

\* A lost drone's occurrence is the one of the view.
LEMMA StepLose ==
  ASSUME TypeOK, OnlyEntitled, NEW c \in conns, LoseDrone(c)
  PROVE  OnlyEntitled'
<1>. DEFINE b == c.broker
            d == c.drone
            x == [tipo |-> "DRONE_PERDIDO", drone |-> d, conn |-> c.conn]
<1>1. /\ avisos' = avisos
      /\ chain' = chain /\ voo' = voo /\ dispatch' = dispatch /\ cmds' = cmds
      /\ pending' = pending /\ conns' \subseteq conns
  BY DEF LoseDrone, ledgerVars, droneVars
<1>2. b \in Broker /\ d \in Drone
  BY ConnOf
<1>3. EntitledView(drones[b][d])
  BY <1>2 DEF OnlyEntitled, ViewsEntitled
<1>4. /\ fila' = Requeued(b, drones[b][d].occ)
      /\ drones' = [drones EXCEPT ![b][d].estado = "ABATIDO",
                                  ![b][d].stamp = relogio[d] + 1]
      /\ net' = net \cup ToNeighbours(b, x)
      /\ x.tipo = "DRONE_PERDIDO"
  BY DEF LoseDrone
<1>. HIDE DEF b, d, x
<1>5. QueuesEntitled'
  BY <1>1, <1>2, <1>3, <1>4, QueuesAfter
<1>6. ViewsEntitled' /\ MessagesEntitled'
  BY <1>1, <1>2, <1>4, ViewsAfter, MessagesAfter
<1>. QED  BY <1>1, <1>5, <1>6, Unmoved DEF OnlyEntitled

\* A new connection has no messages.
LEMMA StepDial ==
  ASSUME OnlyEntitled, NEW d \in Drone, Dial(d)
  PROVE  OnlyEntitled'
<1>1. /\ avisos' = avisos
      /\ chain' = chain /\ voo' = voo /\ dispatch' = dispatch /\ cmds' = cmds
      /\ net' = net /\ drones' = drones /\ pending' = pending /\ fila' = fila
  BY DEF Dial, ledgerVars, brokerVars, viewVars
<1>2. PICK e : conns' = conns \cup {e} /\ e.msgs = <<>>
  <2>. DEFINE e == [drone |-> d, conn |-> dials[d] + 1,
                    broker |-> Addrs[d][idx[d] + 1],
                    open |-> TRUE, enrolled |-> FALSE,
                    reader |-> "identifying", msgs |-> <<>>]
  <2>1. conns' = conns \cup {e} /\ e.msgs = <<>>
    BY DEF Dial
  <2>. HIDE DEF e
  <2>. QED  BY <2>1
<1>3. EntitledConn(e)
  BY <1>2 DEF EntitledConn
<1>4. ReportsEntitled'
  BY <1>1, <1>2, <1>3, Unmoved DEF OnlyEntitled, ReportsEntitled
<1>. QED  BY <1>1, <1>4, Unmoved DEF OnlyEntitled

\* A drone registers with its own, entitled, state.
LEMMA StepEnviarRegistro ==
  ASSUME TypeOK, OnlyEntitled, NEW c \in conns, EnviarRegistro(c)
  PROVE  OnlyEntitled'
<1>. DEFINE x == [tipo |-> "REGISTRO", info |-> voo[c.drone]]
            e == [c EXCEPT !.enrolled = TRUE, !.msgs = Append(@, x)]
<1>1. /\ avisos' = avisos
      /\ chain' = chain /\ voo' = voo /\ dispatch' = dispatch /\ cmds' = cmds
      /\ net' = net /\ drones' = drones /\ pending' = pending /\ fila' = fila
  BY DEF EnviarRegistro, ledgerVars, droneVars, brokerVars, viewVars
<1>2. c \in Conn /\ c.drone \in Drone
  BY ConnOf
<1>3. EntitledReport(x)
  BY <1>2 DEF EntitledReport, OnlyEntitled, FlightsEntitled
<1>4. e.msgs = Append(c.msgs, x)
  BY <1>2 DEF Conn
<1>5. conns' = (conns \ {c}) \cup {e}
  BY DEF EnviarRegistro
<1>6. EntitledConn(e)
  <2>1. EntitledConn(c)
    BY DEF OnlyEntitled, ReportsEntitled
  <2>. HIDE DEF e, x
  <2>. QED  BY <1>2, <1>3, <1>4, <2>1, AppendedReport
<1>. HIDE DEF e
<1>7. ReportsEntitled'
  BY <1>1, <1>5, <1>6, Unmoved DEF OnlyEntitled, ReportsEntitled
<1>. QED  BY <1>1, <1>7, Unmoved DEF OnlyEntitled

\* A keepalive names nothing.
LEMMA StepSendKeepalive ==
  ASSUME TypeOK, OnlyEntitled, NEW c \in conns, SendKeepalive(c)
  PROVE  OnlyEntitled'
<1>1. /\ avisos' = avisos
      /\ chain' = chain /\ voo' = voo /\ dispatch' = dispatch /\ cmds' = cmds
      /\ net' = net /\ drones' = drones /\ pending' = pending /\ fila' = fila
  BY DEF SendKeepalive, ledgerVars, brokerVars, viewVars
<1>2. EntitledReport([tipo |-> "KEEPALIVE"])
  BY DEF EntitledReport
<1>3. \A e \in conns' : EntitledConn(e)
  BY <1>2, ReportsAfterSent DEF SendKeepalive
<1>4. ReportsEntitled'
  BY <1>1, <1>3, Unmoved DEF ReportsEntitled
<1>. QED  BY <1>1, <1>4, Unmoved DEF OnlyEntitled

\* A drone changes its state.
LEMMA FlightAfter ==
  ASSUME TypeOK, OnlyEntitled, chain' = chain, NEW d \in Drone, NEW v,
         EntitledView(v), voo' = [voo EXCEPT ![d] = v]
  PROVE  FlightsEntitled'
<1>1. voo \in [Drone -> Info]
  BY DEF TypeOK
<1>2. \A e \in Drone : voo'[e] = IF e = d THEN v ELSE voo[e]
  BY <1>1
<1>. QED  BY <1>2, Unmoved DEF OnlyEntitled, FlightsEntitled

\* What a drone has yet to send, with one state more.
LEMMA NoticesAfter ==
  ASSUME OnlyEntitled, chain' = chain, NEW d, NEW e, NEW o, Entitled(o), ToNotify(d, e, o)
  PROVE  NoticesEntitled'
<1>1. \A p : Entitled(p) => Entitled(p)'
  BY Unmoved
<1>2. [drone |-> d, estado |-> e, occ |-> o].occ = o
  OBVIOUS
<1>. QED  BY <1>1, <1>2 DEF OnlyEntitled, NoticesEntitled, ToNotify

\* A mission starts for the occurrence of an entitled command.
LEMMA StepIniciar ==
  ASSUME TypeOK, OnlyEntitled, NEW k \in cmds, IniciarMissao(k)
  PROVE  OnlyEntitled'
<1>. DEFINE d == k.drone
            v == Busy(d, "DESPACHADO", k.occ)
<1>1. /\ chain' = chain /\ dispatch' = dispatch /\ cmds' \subseteq cmds
      /\ net' = net /\ drones' = drones /\ pending' = pending /\ fila' = fila
      /\ conns' = conns
  BY DEF IniciarMissao, ledgerVars, brokerVars, viewVars
<1>2. d \in Drone /\ Entitled(k.occ)
  BY DEF TypeOK, Command, OnlyEntitled, CommandsEntitled
<1>3. CASE voo[d].estado = "DISPONIVEL"
  <2>1. /\ EntitledView(v) /\ voo' = [voo EXCEPT ![d] = v]
        /\ ToNotify(d, "DESPACHADO", k.occ)
    BY <1>2, <1>3 DEF IniciarMissao, EntitledView, Busy
  <2>. HIDE DEF d, v
  <2>2. FlightsEntitled'
    BY <1>1, <1>2, <2>1, FlightAfter
  <2>3. NoticesEntitled'
    BY <1>1, <1>2, <2>1, NoticesAfter
  <2>. QED  BY <1>1, <2>2, <2>3, Unmoved DEF OnlyEntitled
<1>4. CASE voo[d].estado # "DISPONIVEL"
  <2>1. voo' = voo /\ avisos' = avisos
    BY <1>4 DEF IniciarMissao
  <2>. QED  BY <1>1, <2>1, Unmoved DEF OnlyEntitled
<1>. QED  BY <1>3, <1>4

\* What a drone sends is what it has had to send.
LEMMA StepNotificar ==
  ASSUME TypeOK, OnlyEntitled, NEW a \in avisos, NotificarEstado(a)
  PROVE  OnlyEntitled'
<1>. DEFINE x == [tipo |-> "ESTADO", estado |-> a.estado, occ |-> a.occ]
<1>1. /\ chain' = chain /\ dispatch' = dispatch /\ cmds' = cmds /\ voo' = voo
      /\ net' = net /\ drones' = drones /\ pending' = pending /\ fila' = fila
      /\ avisos' \subseteq avisos
  BY DEF NotificarEstado, ledgerVars, brokerVars, viewVars
<1>2. EntitledReport(x) /\ conns' = Sent(a.drone, x)
  BY DEF NotificarEstado, EntitledReport, OnlyEntitled, NoticesEntitled
<1>. HIDE DEF x
<1>3. ReportsEntitled'
  BY <1>1, <1>2, ReportsAfterSent, Unmoved DEF ReportsEntitled
<1>. QED  BY <1>1, <1>3, Unmoved DEF OnlyEntitled

\* A drone on a mission has to report the occurrence it flies for.
LEMMA StepFly ==
  ASSUME TypeOK, OnlyEntitled, NEW d \in Drone,
         NEW from \in {"DESPACHADO", "EM_MISSAO", "RETORNANDO"}, NEW to,
         Fly(d, from, to)
  PROVE  OnlyEntitled'
<1>. DEFINE v == [voo[d] EXCEPT !.estado = to,
                                !.occ = IF to = "DISPONIVEL" THEN "" ELSE @]
<1>1. /\ chain' = chain /\ dispatch' = dispatch /\ cmds' = cmds /\ conns' = conns
      /\ net' = net /\ drones' = drones /\ pending' = pending /\ fila' = fila
  BY DEF Fly, ledgerVars, brokerVars, viewVars
<1>2. voo \in [Drone -> Info] /\ voo[d] \in Info /\ voo[d].occ \in Occurrence
  BY DEF TypeOK, Fly
<1>3. Entitled(voo[d].occ)
  BY <1>2, EscortAssumption DEF OnlyEntitled, FlightsEntitled, EntitledView,
                                EscortAssumption
<1>4. v.occ \in {"", voo[d].occ}
  BY <1>2 DEF Info
<1>5. /\ EntitledView(v) /\ voo' = [voo EXCEPT ![d] = v]
      /\ ToNotify(d, to, voo[d].occ)
  BY <1>2, <1>3, <1>4 DEF Fly, EntitledView
<1>. HIDE DEF v
<1>6. FlightsEntitled'
  BY <1>1, <1>5, FlightAfter
<1>7. NoticesEntitled'
  BY <1>1, <1>3, <1>5, NoticesAfter
<1>. QED  BY <1>1, <1>6, <1>7, Unmoved DEF OnlyEntitled

\* So does a drone that is shot down; it says so when it exits.
LEMMA StepExit ==
  ASSUME TypeOK, OnlyEntitled, NEW d \in Drone, Exit(d)
  PROVE  OnlyEntitled'
<1>1. /\ chain' = chain /\ dispatch' = dispatch /\ cmds' \subseteq cmds /\ voo' = voo
      /\ net' = net /\ drones' = drones /\ pending' = pending /\ fila' = fila
      /\ avisos' \subseteq avisos
  BY DEF Exit, ledgerVars, brokerVars, viewVars
<1>2. PICK a \in avisos :
        conns' = {[c EXCEPT !.open = c.drone # d /\ @] :
                    c \in Sent(d, [tipo |-> "ESTADO", estado |-> "ABATIDO",
                                   occ |-> a.occ])}
  BY DEF Exit
<1>. DEFINE x == [tipo |-> "ESTADO", estado |-> "ABATIDO", occ |-> a.occ]
<1>3. EntitledReport(x)
  BY DEF EntitledReport, OnlyEntitled, NoticesEntitled
<1>4. x \in DroneMsg
  <2>1. a.occ \in Occurrence
    BY DEF TypeOK, Aviso
  <2>. QED  BY <2>1, DroneMsgType DEF Estado
<1>5. conns' = {[c EXCEPT !.open = c.drone # d /\ @] : c \in Sent(d, x)}
  BY <1>2
<1>. HIDE DEF x
<1>6. ASSUME NEW c \in Sent(d, x)
      PROVE  EntitledConn([c EXCEPT !.open = c.drone # d /\ @])
  <2>1. c \in Conn /\ EntitledConn(c)
    BY <1>3, <1>4, SentType, ReportsAfterSent DEF TypeOK
  <2>2. [c EXCEPT !.open = c.drone # d /\ @].msgs = c.msgs
    BY <2>1 DEF Conn
  <2>. QED  BY <2>1, <2>2 DEF EntitledConn
<1>7. ReportsEntitled'
  BY <1>1, <1>5, <1>6, Unmoved DEF ReportsEntitled
<1>. QED  BY <1>1, <1>7, Unmoved DEF OnlyEntitled

\* A drone that starts again names nothing.
LEMMA StepReboot ==
  ASSUME TypeOK, OnlyEntitled, NEW d \in Drone, Reboot(d)
  PROVE  OnlyEntitled'
<1>. DEFINE v == [estado |-> "DISPONIVEL", occ |-> "", stamp |-> relogio[d] + 1]
<1>1. /\ avisos' = avisos
      /\ chain' = chain /\ dispatch' = dispatch /\ cmds' = cmds /\ conns' = conns
      /\ net' = net /\ drones' = drones /\ pending' = pending /\ fila' = fila
  BY DEF Reboot, ledgerVars, brokerVars, viewVars
<1>2. voo' = [voo EXCEPT ![d] = v] /\ EntitledView(v)
  BY DEF Reboot, EntitledView
<1>. HIDE DEF v
<1>3. FlightsEntitled'
  BY <1>1, <1>2, FlightAfter
<1>. QED  BY <1>1, <1>3, Unmoved DEF OnlyEntitled

\* A broken connection has a part of its messages.
LEMMA StepBreak ==
  ASSUME TypeOK, OnlyEntitled, NEW c \in conns, Break(c)
  PROVE  OnlyEntitled'
<1>1. /\ avisos' = avisos
      /\ chain' = chain /\ voo' = voo /\ dispatch' = dispatch /\ cmds' \subseteq cmds
      /\ net' = net /\ drones' = drones /\ pending' = pending /\ fila' = fila
  BY DEF Break, ledgerVars, brokerVars, viewVars
<1>2. c \in Conn /\ c.msgs \in Seq(DroneMsg) /\ EntitledConn(c)
  BY ConnOf, ConnFields DEF OnlyEntitled, ReportsEntitled
<1>3. PICK n \in 0..Len(c.msgs) :
        conns' = (conns \ {c}) \cup {[c EXCEPT !.open = FALSE, !.msgs = SubSeq(@, 1, n)]}
  BY DEF Break
<1>. DEFINE e == [c EXCEPT !.open = FALSE, !.msgs = SubSeq(@, 1, n)]
<1>4. e.msgs = SubSeq(c.msgs, 1, n)
  BY <1>2 DEF Conn
<1>5. \A i \in DOMAIN SubSeq(c.msgs, 1, n) :
        i \in DOMAIN c.msgs /\ SubSeq(c.msgs, 1, n)[i] = c.msgs[i]
  BY <1>2, SubSeqProperties
<1>6. EntitledConn(e)
  <2>. HIDE DEF e
  <2>. QED  BY <1>2, <1>4, <1>5 DEF EntitledConn
<1>. HIDE DEF e
<1>7. ReportsEntitled'
  BY <1>1, <1>3, <1>6, Unmoved DEF OnlyEntitled, ReportsEntitled, e
<1>. QED  BY <1>1, <1>7, Unmoved DEF OnlyEntitled

\* At first nothing is named at all.
LEMMA EntitledInit ==
  ASSUME Init
  PROVE  OnlyEntitled
<1>1. QueuesEntitled /\ DispatchEntitled /\ CommandsEntitled /\ LogsEntitled
  BY DEF Init, QueuesEntitled, DispatchEntitled, CommandsEntitled, LogsEntitled
<1>2. ViewsEntitled /\ FlightsEntitled /\ NoticesEntitled
  BY DEF Init, ViewsEntitled, FlightsEntitled, NoticesEntitled, EntitledView, Unknown
<1>3. MessagesEntitled /\ ReportsEntitled
  BY DEF Init, MessagesEntitled, ReportsEntitled
<1>. QED  BY <1>1, <1>2, <1>3 DEF OnlyEntitled

\* No step names an occurrence that is not entitled.
LEMMA EntitledStep ==
  ASSUME TypeOK, OnlyEntitled, [Next]_vars
  PROVE  OnlyEntitled'
<1>1. ASSUME NEW b \in Broker, NEW o \in Occurrence,
             ProcessarLeitura(b, o) \/ PagarOcorrencia(b, o)
      PROVE  OnlyEntitled'
  BY <1>1, StepReading, StepPagar
<1>2. ASSUME NEW tx \in pending, CommitTx(tx)
      PROVE  OnlyEntitled'
  BY <1>2, StepCommit
<1>3. ASSUME NEW b \in Broker,
             \/ ProcessarTransacoesBloco(b) \/ AdoptChain(b)
             \/ Peek(b) \/ CheckAttended(b) \/ RemoveAttended(b)
             \/ \E d \in Drone : ChooseDrone(b, d)
             \/ NoDrone(b) \/ Pop(b) \/ MarcarOcupado(b)
             \/ SendCommand(b) \/ SendFails(b) \/ AnnounceDispatch(b)
      PROVE  OnlyEntitled'
  BY <1>3, StepBloco, StepAdopt, StepPeek, StepCheck, StepRemoveAttended,
     StepChoose, StepPop, StepMarcar, StepSend, StepSendFails, StepAnnounce
<1>4. ASSUME NEW m \in net,
             \/ ReceiveRequisicao(m) \/ ReceiveDespachado(m) \/ ReceiveSincDrone(m)
             \/ ReceiveDronePerdido(m) \/ ReceiveConcluida(m)
      PROVE  OnlyEntitled'
  BY <1>4, StepRequisicao, StepDespachado, StepSincDrone, StepDronePerdido
<1>5. ASSUME NEW c \in conns,
             \/ IdentificarConexao(c) \/ RegistrarDroneLocal(c) \/ RejectConnection(c)
             \/ ReceiveKeepalive(c) \/ ReceiveEstado(c) \/ OldConnectionEnds(c)
             \/ ConnectionEnds(c) \/ LoseDrone(c) \/ EnviarRegistro(c)
             \/ SendKeepalive(c) \/ Break(c)
      PROVE  OnlyEntitled'
  BY <1>5, StepIdentificar, StepRegistrar, StepReject, StepReceiveKeepalive, StepEstado,
     StepEnds, StepLose, StepEnviarRegistro, StepSendKeepalive, StepBreak
<1>6. ASSUME NEW k \in cmds, IniciarMissao(k)
      PROVE  OnlyEntitled'
  BY <1>6, StepIniciar
<1>9. ASSUME NEW a \in avisos, NotificarEstado(a)
      PROVE  OnlyEntitled'
  BY <1>9, StepNotificar
<1>7. ASSUME NEW d \in Drone,
             \/ Dial(d) \/ Arrive(d) \/ Finish(d) \/ Return(d)
             \/ ShotDown(d) \/ Exit(d) \/ Reboot(d)
      PROVE  OnlyEntitled'
  <2>1. CASE Arrive(d) \/ Finish(d) \/ Return(d) \/ ShotDown(d)
    BY <2>1, StepFly DEF Arrive, Finish, Return, ShotDown
  <2>. QED  BY <1>7, <2>1, StepDial, StepExit, StepReboot
<1>8. CASE UNCHANGED vars
  BY <1>8, Unmoved DEF vars, brokerVars, viewVars, ledgerVars, droneVars, OnlyEntitled
<1>. QED
  BY <1>1, <1>2, <1>3, <1>4, <1>5, <1>6, <1>7, <1>8, <1>9 DEF Next

\* Only a block changes the chain.
LEMMA ChainStep ==
  ASSUME [Next]_vars
  PROVE  chain' = chain \/ \E tx \in pending : CommitTx(tx)
<1>1. ASSUME NEW b \in Broker, NEW o \in Occurrence,
             ProcessarLeitura(b, o) \/ PagarOcorrencia(b, o)
      PROVE  chain' = chain
  BY <1>1 DEF ProcessarLeitura, PagarOcorrencia, ledgerVars
<1>2. ASSUME NEW b \in Broker,
             \/ ProcessarTransacoesBloco(b) \/ AdoptChain(b)
             \/ Peek(b) \/ CheckAttended(b) \/ RemoveAttended(b)
             \/ \E d \in Drone : ChooseDrone(b, d)
             \/ NoDrone(b) \/ Pop(b) \/ MarcarOcupado(b)
             \/ SendCommand(b) \/ SendFails(b) \/ AnnounceDispatch(b)
      PROVE  chain' = chain
  BY <1>2 DEF ProcessarTransacoesBloco, AdoptChain, Peek, CheckAttended, RemoveAttended,
              ChooseDrone, NoDrone, Pop, MarcarOcupado, SendCommand, SendFails,
              AnnounceDispatch, ledgerVars
<1>3. ASSUME NEW m \in net,
             \/ ReceiveRequisicao(m) \/ ReceiveDespachado(m) \/ ReceiveSincDrone(m)
             \/ ReceiveDronePerdido(m) \/ ReceiveConcluida(m)
      PROVE  chain' = chain
  BY <1>3 DEF ReceiveRequisicao, ReceiveDespachado, ReceiveSincDrone,
              ReceiveDronePerdido, ReceiveConcluida, ledgerVars
<1>4. ASSUME NEW c \in conns,
             \/ IdentificarConexao(c) \/ RegistrarDroneLocal(c) \/ RejectConnection(c)
             \/ ReceiveKeepalive(c) \/ ReceiveEstado(c) \/ OldConnectionEnds(c)
             \/ ConnectionEnds(c) \/ LoseDrone(c) \/ EnviarRegistro(c)
             \/ SendKeepalive(c) \/ Break(c)
      PROVE  chain' = chain
  BY <1>4 DEF IdentificarConexao, RegistrarDroneLocal, RejectConnection, ReceiveKeepalive,
              ReceiveEstado, OldConnectionEnds, ConnectionEnds, LoseDrone, EnviarRegistro,
              SendKeepalive, Break, ledgerVars
<1>5. ASSUME NEW k \in cmds, IniciarMissao(k)
      PROVE  chain' = chain
  BY <1>5 DEF IniciarMissao, ledgerVars
<1>8. ASSUME NEW a \in avisos, NotificarEstado(a)
      PROVE  chain' = chain
  BY <1>8 DEF NotificarEstado, ledgerVars
<1>6. ASSUME NEW d \in Drone,
             \/ Dial(d) \/ Arrive(d) \/ Finish(d) \/ Return(d)
             \/ ShotDown(d) \/ Exit(d) \/ Reboot(d)
      PROVE  chain' = chain
  BY <1>6 DEF Dial, Arrive, Finish, Return, Fly, ShotDown, Exit, Reboot, ledgerVars
<1>7. CASE UNCHANGED vars
  BY <1>7 DEF vars, ledgerVars
<1>. QED
  BY <1>1, <1>2, <1>3, <1>4, <1>5, <1>6, <1>7, <1>8 DEF Next

\* A log is committed when its occurrence has been paid, or needs no payment.
LEMMA LogStep ==
  ASSUME TypeOK, OnlyEntitled, LogFollowsPayment, [Next]_vars
  PROVE  LogFollowsPayment'
<1>1. CASE chain' = chain
  BY <1>1 DEF LogFollowsPayment
<1>2. ASSUME NEW tx \in pending, CommitTx(tx)
      PROVE  LogFollowsPayment'
  <2>1. chain \in Seq(Tx) /\ tx \in Tx /\ chain' = Append(chain, tx)
    BY <1>2 DEF CommitTx, TypeOK
  <2>2. /\ DOMAIN chain = 1..Len(chain) /\ Len(chain) \in Nat
        /\ DOMAIN chain' = 1..(Len(chain) + 1)
        /\ chain'[Len(chain) + 1] = tx
        /\ \A j \in 1..Len(chain) : chain'[j] = chain[j]
    BY <2>1
  <2>3. ASSUME NEW i \in DOMAIN chain',
               chain'[i].type = "MISSION_LOG", chain'[i].occ \notin Unowned
        PROVE  \E j \in 1..(i-1) : /\ chain'[j].type = "TRANSFER"
                                   /\ chain'[j].occ = chain'[i].occ
    <3>1. CASE i = Len(chain) + 1
      <4>1. tx.type = "MISSION_LOG" /\ tx.occ \notin Unowned
        BY <2>2, <2>3, <3>1
      <4>2. Entitled(tx.occ)
        BY <4>1 DEF OnlyEntitled, LogsEntitled
      <4>3. PICK j \in DOMAIN chain : chain[j].type = "TRANSFER" /\ chain[j].occ = tx.occ
        BY <4>1, <4>2 DEF Entitled, Paid
      <4>4. j \in 1..(i-1) /\ chain'[j] = chain[j] /\ chain'[i] = tx
        BY <2>2, <3>1, <4>3
      <4>. QED  BY <4>3, <4>4
    <3>2. CASE i # Len(chain) + 1
      <4>1. i \in DOMAIN chain /\ chain'[i] = chain[i]
        BY <2>2, <3>2
      <4>2. PICK j \in 1..(i-1) : chain[j].type = "TRANSFER" /\ chain[j].occ = chain[i].occ
        BY <2>3, <4>1 DEF LogFollowsPayment
      <4>3. chain'[j] = chain[j]
        BY <2>2, <4>1, <4>2
      <4>. QED  BY <4>1, <4>2, <4>3
    <3>. QED  BY <3>1, <3>2
  <2>. QED  BY <2>3 DEF LogFollowsPayment
<1>. QED  BY <1>1, <1>2, ChainStep

(***************************************************************************)
(* Whatever is queued, dispatched, flown for or passed on is paid or needs *)
(* no payment: tentarDespachar, tratarDronePerdido and the messages about  *)
(* drones hand on no occurrence that processarTransacoesBloco or           *)
(* processarLeitura has not let into a queue.                              *)
(***************************************************************************)
THEOREM EntitledCorrect == Spec => []OnlyEntitled
<1>1. Init => OnlyEntitled
  BY EntitledInit
<1>2. TypeOK /\ OnlyEntitled /\ [Next]_vars => OnlyEntitled'
  BY EntitledStep
<1>. QED  BY <1>1, <1>2, TypeCorrect, PTL DEF Spec

(***************************************************************************)
(* No drone takes off before the payment is in the chain: not after a      *)
(* loss, a broken connection, an adopted chain or a late message of        *)
(* another broker.                                                         *)
(***************************************************************************)
THEOREM EscortIsPaid == Spec => []PaidBeforeEscort
<1>1. TypeOK /\ OnlyEntitled => PaidBeforeEscort
  <2>. SUFFICES ASSUME TypeOK, OnlyEntitled, NEW d \in Drone, NEW o \in Occurrence,
                       OnMission(d, o)
                PROVE  Entitled(o)
    BY DEF PaidBeforeEscort
  <2>1. voo[d].occ = o /\ o # ""
    BY EscortAssumption DEF OnMission, EscortAssumption
  <2>. QED  BY <2>1 DEF OnlyEntitled, FlightsEntitled, EntitledView
<1>. QED  BY <1>1, TypeCorrect, EntitledCorrect, PTL

(***************************************************************************)
(* In the chain, the log of a mission follows a payment of its occurrence, *)
(* whatever the order in which mempools are committed.                     *)
(***************************************************************************)
THEOREM LogIsPaid == Spec => []LogFollowsPayment
<1>1. Init => LogFollowsPayment
  <2>1. ASSUME Init
        PROVE  \A i \in DOMAIN chain : FALSE
    <3>1. chain = <<>>
      BY <2>1 DEF Init
    <3>2. chain \in Seq(Tx) /\ Len(chain) = 0
      BY <3>1, EmptySeq
    <3>3. DOMAIN chain = 1..0
      BY <3>2
    <3>. QED  BY <3>3
  <2>. QED  BY <2>1 DEF LogFollowsPayment
<1>2. TypeOK /\ OnlyEntitled /\ LogFollowsPayment /\ [Next]_vars => LogFollowsPayment'
  BY LogStep
<1>. QED  BY <1>1, <1>2, TypeCorrect, EntitledCorrect, PTL DEF Spec
==============================================================================
