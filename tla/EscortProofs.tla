---------------------------- MODULE EscortProofs ----------------------------
(***************************************************************************)
(* Type correctness of Escort, for any number of brokers, drones and       *)
(* occurrences and any bounds: one lemma per action, over facts about the  *)
(* records that the actions build.                                         *)
(***************************************************************************)
EXTENDS Escort, FiniteSetTheorems, SequenceTheorems, TLAPS

NetMsg == [to : Broker, msg : BrokerMsg]

\* The fields of a message between brokers.
LEMMA MessageFields ==
  ASSUME NEW m \in NetMsg
  PROVE  /\ m.to \in Broker
         /\ m.msg.tipo = "REQUISICAO_DRONE"
              => /\ m.msg.occ \in Occurrence
                 /\ m.msg.status \in {"ABERTA", "AGUARDANDO_PAGAMENTO"}
         /\ m.msg.tipo = "DRONE_DESPACHADO"
              => m.msg.occ \in Occurrence /\ m.msg.drone \in Drone /\ m.msg.info \in View
         /\ m.msg.tipo = "SINC_DRONE" => m.msg.drone \in Drone /\ m.msg.info \in View
         /\ m.msg.tipo = "DRONE_PERDIDO" => m.msg.drone \in Drone
         /\ m.msg.tipo = "MISSAO_CONCLUIDA" => m.msg.occ \in Occurrence
BY DEF NetMsg, BrokerMsg

\* A broadcast consists of messages between brokers.
LEMMA NeighboursType ==
  ASSUME NEW b \in Broker, NEW x \in BrokerMsg
  PROVE  ToNeighbours(b, x) \subseteq NetMsg
BY DEF ToNeighbours, NetMsg

\* The messages that brokers build are of their type.
LEMMA MessageType ==
  /\ \A o \in Occurrence, s \in {"ABERTA", "AGUARDANDO_PAGAMENTO"} :
       [tipo |-> "REQUISICAO_DRONE", occ |-> o, status |-> s] \in BrokerMsg
  /\ \A o \in Occurrence, d \in Drone, i \in View :
       [tipo |-> "DRONE_DESPACHADO", occ |-> o, drone |-> d, info |-> i] \in BrokerMsg
  /\ \A d \in Drone, i \in View :
       [tipo |-> "SINC_DRONE", drone |-> d, info |-> i] \in BrokerMsg
  /\ \A d \in Drone, n \in Nat :
       [tipo |-> "DRONE_PERDIDO", drone |-> d, conn |-> n] \in BrokerMsg
  /\ \A o \in Occurrence : [tipo |-> "MISSAO_CONCLUIDA", occ |-> o] \in BrokerMsg
BY DEF BrokerMsg

\* The fields of a connection, and the connections it may turn into.
LEMMA ConnFields ==
  ASSUME NEW c \in Conn
  PROVE  /\ c.drone \in Drone /\ c.conn \in Nat /\ c.broker \in Broker
         /\ c.open \in BOOLEAN /\ c.enrolled \in BOOLEAN /\ c.reader \in Reader
         /\ c.msgs \in Seq(DroneMsg)
         /\ c.reader = "registering"
              => c.msgs # <<>> /\ Head(c.msgs).tipo = "REGISTRO"
         /\ \A r \in Reader \ {"registering"} : [c EXCEPT !.reader = r] \in Conn
         /\ c.msgs # <<>> /\ Head(c.msgs).tipo = "REGISTRO"
              => [c EXCEPT !.reader = "registering"] \in Conn
         /\ [c EXCEPT !.open = FALSE] \in Conn
BY DEF Conn, Reader

\* A message more on a connection is still a connection.
LEMMA AppendedConn ==
  ASSUME NEW c \in Conn, NEW x \in DroneMsg
  PROVE  /\ [c EXCEPT !.msgs = Append(@, x)] \in Conn
         /\ [c EXCEPT !.enrolled = TRUE, !.msgs = Append(@, x)] \in Conn
<1>1. c.msgs \in Seq(DroneMsg)
  BY ConnFields
<1>2. /\ Append(c.msgs, x) \in Seq(DroneMsg)
      /\ Append(c.msgs, x) # <<>>
      /\ c.msgs # <<>> => Head(Append(c.msgs, x)) = Head(c.msgs)
  BY <1>1, AppendProperties
<1>. QED  BY <1>2 DEF Conn

\* The fields of a message of a drone.
LEMMA DroneMsgFields ==
  ASSUME NEW x \in DroneMsg
  PROVE  /\ x.tipo = "REGISTRO" => x.info \in Info
         /\ x.tipo = "ESTADO" => x.estado \in Estado /\ x.occ \in Occurrence
BY DEF DroneMsg

\* The messages that drones build are of their type.
LEMMA DroneMsgType ==
  /\ \A i \in Info : [tipo |-> "REGISTRO", info |-> i] \in DroneMsg
  /\ \A e \in Estado, o \in Occurrence :
       [tipo |-> "ESTADO", estado |-> e, occ |-> o] \in DroneMsg
  /\ [tipo |-> "KEEPALIVE"] \in DroneMsg
BY DEF DroneMsg

\* The first message of a connection, and the connection without it.
LEMMA FirstMessage ==
  ASSUME NEW c \in Conn, c.msgs # <<>>
  PROVE  Head(c.msgs) \in DroneMsg /\ Rest(c) \in Conn
<1>1. c.msgs \in Seq(DroneMsg)
  BY ConnFields
<1>2. Head(c.msgs) \in DroneMsg /\ Tail(c.msgs) \in Seq(DroneMsg)
  BY <1>1, HeadTailProperties
<1>. QED  BY <1>2 DEF Rest, Conn, Reader

\* Connections stay connections when a drone sends a message.
LEMMA SentType ==
  ASSUME conns \subseteq Conn, NEW d, NEW x \in DroneMsg
  PROVE  Sent(d, x) \subseteq Conn
BY AppendedConn DEF Sent

\* The fields of a dispatch under way.
LEMMA DispatchFields ==
  ASSUME NEW p \in Dispatch, p # Idle
  PROVE  /\ p.occ \in Occurrence
         /\ p.step \in {"peeked", "attended", "waiting"}
              => \A s \in {"attended", "waiting"} : [p EXCEPT !.step = s] \in Dispatch
         /\ p.step \in {"chosen", "popped", "marked", "sent"}
              => /\ p.drone \in Drone /\ p.conn \in Nat
                 /\ \A s \in {"popped", "marked", "sent"} :
                      [p EXCEPT !.step = s] \in Dispatch
BY DEF Dispatch

\* What a drone says of itself is a view of it.
LEMMA InfoIsView == Info \subseteq View
BY DEF Info, View

\* The fields of a view, and the views it may turn into.
LEMMA ViewFields ==
  ASSUME NEW i \in View
  PROVE  /\ i.occ \in Occurrence \cup {""} /\ i.stamp \in Nat
         /\ i.estado \in Estado \cup {""}
         /\ \A n \in Nat : [i EXCEPT !.stamp = n] \in View
         /\ \A n \in Nat : [i EXCEPT !.estado = "ABATIDO", !.stamp = n] \in View
BY DEF View, Estado

\* What is written of a drone on a mission is of its type.
LEMMA BusyType ==
  ASSUME NEW d \in Drone, NEW e \in Estado, NEW o \in Occurrence, relogio \in [Drone -> Nat]
  PROVE  Busy(d, e, o) \in Info /\ Busy(d, e, o) \in View /\ relogio[d] + 1 \in Nat
<1>1. relogio[d] + 1 \in Nat
  OBVIOUS
<1>2. o \in Occurrence \cup {""}
  OBVIOUS
<1>3. Busy(d, e, o) \in Info
  BY <1>1, <1>2 DEF Busy, Info
<1>. QED  BY <1>1, <1>3, InfoIsView

-----------------------------------------------------------------------------
\* One lemma per action.
\* ProcessarLeitura keeps every variable to its type.
LEMMA TypeReading ==
  ASSUME TypeOK, NEW b \in Broker, NEW o \in Occurrence, ProcessarLeitura(b, o)
  PROVE  TypeOK'
<1>. DEFINE st == IF o \in Unowned THEN "ABERTA" ELSE "AGUARDANDO_PAGAMENTO"
<1>1. net' \subseteq NetMsg
  BY MessageType, NeighboursType DEF TypeOK, ProcessarLeitura, NetMsg
<1>2. fila' \in [Broker -> SUBSET Occurrence]
  BY DEF TypeOK, ProcessarLeitura
<1>3. status' \in [Broker -> [Occurrence -> {"", "ABERTA", "AGUARDANDO_PAGAMENTO", "PAGO"}]]
  BY DEF TypeOK, ProcessarLeitura
<1>. QED  BY <1>1, <1>2, <1>3 DEF TypeOK, ProcessarLeitura, viewVars, ledgerVars, droneVars, NetMsg

\* So does REQUISICAO_DRONE, which only sets a status.
LEMMA TypeRequisicao ==
  ASSUME TypeOK, NEW m \in net, ReceiveRequisicao(m)
  PROVE  TypeOK'
<1>1. m \in NetMsg
  BY DEF TypeOK, NetMsg
<1>2. status' \in [Broker -> [Occurrence -> {"", "ABERTA", "AGUARDANDO_PAGAMENTO", "PAGO"}]]
  BY <1>1, MessageFields DEF TypeOK, ReceiveRequisicao
<1>. QED  BY <1>2 DEF TypeOK, ReceiveRequisicao, QueueAfterRequest, viewVars, ledgerVars, droneVars

\* A payment is numbered by the payments before it, which are finitely many.
LEMMA TypePagar ==
  ASSUME TypeOK, NEW b \in Broker, NEW o \in Occurrence, PagarOcorrencia(b, o)
  PROVE  TypeOK'
<1>1. IsFiniteSet(ToSet(chain))
  <2>1. chain \in Seq(Tx)
    BY DEF TypeOK
  <2>2. DOMAIN chain = 1..Len(chain) /\ Len(chain) \in Nat
    BY <2>1
  <2>3. IsFiniteSet(DOMAIN chain)
    BY <2>2, FS_Interval
  <2>4. chain \in Surjection(DOMAIN chain, ToSet(chain))
    BY <2>1 DEF ToSet, Surjection
  <2>. QED  BY <2>3, <2>4, FS_Surjection
<1>2. IsFiniteSet(Payments(o))
  <2>1. IsFiniteSet(pending \cup ToSet(chain))
    BY <1>1, FS_Union DEF TypeOK
  <2>. QED  BY <2>1, FS_Subset DEF Payments
<1>3. Cardinality(Payments(o)) \in Nat
  BY <1>2, FS_CardinalityType
<1>4. [type |-> "TRANSFER", occ |-> o, nonce |-> Cardinality(Payments(o))] \in Tx
  BY <1>3 DEF Tx
<1>5. IsFiniteSet(pending')
  BY FS_AddElement DEF TypeOK, PagarOcorrencia
<1>. QED  BY <1>4, <1>5 DEF TypeOK, PagarOcorrencia, brokerVars, viewVars, droneVars

\* A committed transaction moves from the mempool to the chain.
LEMMA TypeCommit ==
  ASSUME TypeOK, NEW tx \in pending, CommitTx(tx)
  PROVE  TypeOK'
<1>1. chain' \in Seq(Tx)
  BY AppendProperties DEF TypeOK, CommitTx
<1>2. IsFiniteSet(pending')
  BY FS_Subset DEF TypeOK, CommitTx
<1>. QED  BY <1>1, <1>2 DEF TypeOK, CommitTx, brokerVars, viewVars, droneVars

\* Transactions of blocks that a broker has still to append.
LEMMA NextTx ==
  ASSUME TypeOK, NEW b \in Broker, height[b] < Len(chain)
  PROVE  /\ height[b] + 1 \in DOMAIN chain
         /\ chain[height[b] + 1] \in Tx /\ chain[height[b] + 1].occ \in Occurrence
<1>1. height[b] \in Nat /\ chain \in Seq(Tx)
  BY DEF TypeOK
<1>2. height[b] + 1 \in DOMAIN chain
  BY <1>1
<1>3. chain[height[b] + 1] \in Tx
  BY <1>1, <1>2
<1>. QED  BY <1>2, <1>3 DEF Tx

\* The next transaction of a broker may name an occurrence to queue.
LEMMA TypeBloco ==
  ASSUME TypeOK, NEW b \in Broker, ProcessarTransacoesBloco(b)
  PROVE  TypeOK'
<1>1. PICK o \in Occurrence : o = chain[height[b] + 1].occ
  BY NextTx DEF ProcessarTransacoesBloco
<1>2. status \in [Broker -> [Occurrence -> {"", "ABERTA", "AGUARDANDO_PAGAMENTO", "PAGO"}]]
  BY DEF TypeOK
<1>3. /\ status' \in {status, [status EXCEPT ![b][o] = "PAGO"]}
      /\ atendidos' \in {atendidos, [atendidos EXCEPT ![b] = @ \ {o}]}
      /\ fila' \in {fila, [fila EXCEPT ![b] = @ \cup {o}]}
      /\ height' = [height EXCEPT ![b] = height[b] + 1]
  BY <1>1 DEF ProcessarTransacoesBloco
<1>4. status' \in [Broker -> [Occurrence -> {"", "ABERTA", "AGUARDANDO_PAGAMENTO", "PAGO"}]]
  <2>1. CASE status' = status
    BY <1>2, <2>1
  <2>2. CASE status' = [status EXCEPT ![b][o] = "PAGO"]
    BY <1>2, <2>2
  <2>. QED  BY <1>3, <2>1, <2>2
<1>5. atendidos' \in [Broker -> SUBSET Occurrence] /\ fila' \in [Broker -> SUBSET Occurrence]
  <2>1. atendidos \in [Broker -> SUBSET Occurrence] /\ fila \in [Broker -> SUBSET Occurrence]
    BY DEF TypeOK
  <2>2. [atendidos EXCEPT ![b] = @ \ {o}] \in [Broker -> SUBSET Occurrence]
    BY <2>1
  <2>3. [fila EXCEPT ![b] = @ \cup {o}] \in [Broker -> SUBSET Occurrence]
    BY <2>1
  <2>. QED  BY <1>3, <2>1, <2>2, <2>3
<1>6. height \in [Broker -> Nat]
  BY DEF TypeOK
<1>7. height' \in [Broker -> Nat]
  BY <1>3, <1>6
<1>. QED  BY <1>4, <1>5, <1>7 DEF TypeOK, ProcessarTransacoesBloco, viewVars, droneVars

\* An adopted chain only moves the height.
LEMMA TypeAdopt ==
  ASSUME TypeOK, NEW b \in Broker, AdoptChain(b)
  PROVE  TypeOK'
<1>1. height \in [Broker -> Nat] /\ adoptions \in Nat /\ chain \in Seq(Tx)
  BY DEF TypeOK
<1>2. PICK h \in (height[b] + 1)..Len(chain) : height' = [height EXCEPT ![b] = h]
  BY DEF AdoptChain
<1>3. h \in Nat
  BY <1>1
<1>4. height' \in [Broker -> Nat]
  BY <1>1, <1>2, <1>3
<1>5. adoptions' \in Nat
  BY <1>1 DEF AdoptChain
<1>. QED  BY <1>4, <1>5 DEF TypeOK, AdoptChain, brokerVars, viewVars, droneVars

\* The views of the brokers after one of them is replaced, and after a drone
\* is taken for shot down.
LEMMA ViewsType ==
  ASSUME drones \in [Broker -> [Drone -> View]],
         NEW b \in Broker, NEW d \in Drone, NEW v \in View, NEW n \in Nat
  PROVE  /\ [drones EXCEPT ![b][d] = v] \in [Broker -> [Drone -> View]]
         /\ [drones EXCEPT ![b][d].estado = "ABATIDO", ![b][d].stamp = n]
              \in [Broker -> [Drone -> View]]
         /\ drones[b][d] \in View
<1>1. drones[b][d] \in View
  OBVIOUS
<1>2. [drones[b][d] EXCEPT !.estado = "ABATIDO", !.stamp = n] \in View
  BY <1>1, ViewFields
<1>3. [drones EXCEPT ![b][d] = [drones[b][d] EXCEPT !.estado = "ABATIDO", !.stamp = n]]
        \in [Broker -> [Drone -> View]]
  BY <1>2
<1>4. [drones EXCEPT ![b][d].estado = "ABATIDO", ![b][d].stamp = n]
        = [drones EXCEPT ![b][d] = [drones[b][d] EXCEPT !.estado = "ABATIDO", !.stamp = n]]
  OBVIOUS
<1>. QED  BY <1>1, <1>3, <1>4

\* Sets of occurrences per broker.
LEMMA OccurrencesType ==
  ASSUME NEW f \in [Broker -> SUBSET Occurrence], NEW b \in Broker, NEW o
  PROVE  /\ [f EXCEPT ![b] = @ \ {o}] \in [Broker -> SUBSET Occurrence]
         /\ o \in Occurrence
              => [f EXCEPT ![b] = @ \cup {o}] \in [Broker -> SUBSET Occurrence]
OBVIOUS

\* What tratarDronePerdido leaves.
LEMMA LossType ==
  ASSUME TypeOK, NEW b \in Broker, NEW o \in Occurrence \cup {""}
  PROVE  /\ Unattended(b, o) \in [Broker -> SUBSET Occurrence]
         /\ Requeued(b, o) \in [Broker -> SUBSET Occurrence]
<1>1. atendidos \in [Broker -> SUBSET Occurrence] /\ fila \in [Broker -> SUBSET Occurrence]
  BY DEF TypeOK
<1>2. Requeued(b, o) = IF o # "" /\ status[b][o] # ""
                       THEN [fila EXCEPT ![b] = @ \cup {o}] ELSE fila
  BY <1>1 DEF Requeued
<1>3. [atendidos EXCEPT ![b] = @ \ {o}] \in [Broker -> SUBSET Occurrence]
  BY <1>1, OccurrencesType
<1>4. o # "" => [fila EXCEPT ![b] = @ \cup {o}] \in [Broker -> SUBSET Occurrence]
  BY <1>1, OccurrencesType
<1>. QED  BY <1>1, <1>2, <1>3, <1>4 DEF Unattended

\* The head of a queue is an occurrence.
LEMMA TypePeek ==
  ASSUME TypeOK, NEW b \in Broker, Peek(b)
  PROVE  TypeOK'
<1>1. PICK o \in Heads(b) :
        dispatch' = [dispatch EXCEPT ![b] = [step |-> "peeked", occ |-> o]]
  BY DEF Peek
<1>2. o \in Occurrence
  BY DEF Heads, TypeOK
<1>3. [step |-> "peeked", occ |-> o] \in Dispatch
  BY <1>2 DEF Dispatch
<1>. QED
  BY <1>1, <1>3 DEF TypeOK, Peek, viewVars, ledgerVars, droneVars

\* What was peeked is attended or waits.
LEMMA TypeCheck ==
  ASSUME TypeOK, NEW b \in Broker, CheckAttended(b)
  PROVE  TypeOK'
<1>1. dispatch \in [Broker -> Dispatch] /\ dispatch[b] \in Dispatch
  BY DEF TypeOK
<1>2. dispatch[b].step = "peeked" /\ dispatch[b] # Idle
  BY DEF CheckAttended, Idle
<1>3. PICK s \in {"attended", "waiting"} : dispatch' = [dispatch EXCEPT ![b].step = s]
  BY DEF CheckAttended
<1>4. [dispatch[b] EXCEPT !.step = s] \in Dispatch
  BY <1>1, <1>2, DispatchFields
<1>5. dispatch' \in [Broker -> Dispatch]
  BY <1>1, <1>3, <1>4
<1>. QED
  BY <1>5 DEF TypeOK, CheckAttended, viewVars, ledgerVars, droneVars

\* Remover takes an occurrence out of a queue.
LEMMA TypeRemoveAttended ==
  ASSUME TypeOK, NEW b \in Broker, RemoveAttended(b)
  PROVE  TypeOK'
<1>1. fila' \in [Broker -> SUBSET Occurrence]
  BY OccurrencesType DEF RemoveAttended, TypeOK
<1>2. dispatch' \in [Broker -> Dispatch]
  BY DEF RemoveAttended, TypeOK, Dispatch
<1>. QED
  BY <1>1, <1>2 DEF TypeOK, RemoveAttended, viewVars, ledgerVars, droneVars

\* The drone and the connection that are chosen are known.
LEMMA TypeChoose ==
  ASSUME TypeOK, NEW b \in Broker, NEW d \in Drone, ChooseDrone(b, d)
  PROVE  TypeOK'
<1>. DEFINE p == [step |-> "chosen", occ |-> dispatch[b].occ, drone |-> d,
                  conn |-> dronesLocais[b][d]]
<1>1. dispatch \in [Broker -> Dispatch] /\ dronesLocais[b][d] \in Nat
  BY DEF TypeOK
<1>2. dispatch[b] # Idle
  BY DEF ChooseDrone, Idle
<1>3. p \in Dispatch
  <2>1. dispatch[b].occ \in Occurrence
    BY <1>1, <1>2, DispatchFields
  <2>. QED  BY <1>1, <2>1 DEF Dispatch
<1>4. dispatch' \in [Broker -> Dispatch]
  <2>1. dispatch' = [dispatch EXCEPT ![b] = p]
    BY DEF ChooseDrone
  <2>. HIDE DEF p
  <2>. QED  BY <1>1, <1>3, <2>1
<1>. QED
  BY <1>4 DEF TypeOK, ChooseDrone, viewVars, ledgerVars, droneVars

\* An attempt may end without a drone.
LEMMA TypeNoDrone ==
  ASSUME TypeOK, NEW b \in Broker, NoDrone(b)
  PROVE  TypeOK'
<1>1. dispatch' \in [Broker -> Dispatch]
  BY DEF NoDrone, TypeOK, Dispatch
<1>. QED
  BY <1>1 DEF TypeOK, NoDrone, viewVars, ledgerVars, droneVars

\* A dispatch under way, and its next step.
LEMMA DispatchUnderWay ==
  ASSUME TypeOK, NEW b \in Broker,
         dispatch[b].step \in {"chosen", "popped", "marked", "sent"}
  PROVE  /\ dispatch[b].occ \in Occurrence /\ dispatch[b].drone \in Drone
         /\ dispatch[b].conn \in Nat
         /\ \A s \in {"popped", "marked", "sent"} :
              [dispatch EXCEPT ![b].step = s] \in [Broker -> Dispatch]
         /\ [dispatch EXCEPT ![b] = Idle] \in [Broker -> Dispatch]
<1>1. dispatch \in [Broker -> Dispatch] /\ dispatch[b] \in Dispatch
  BY DEF TypeOK
<1>2. dispatch[b] # Idle
  BY DEF Idle
<1>3. Idle \in Dispatch
  BY DEF Dispatch
<1>4. ASSUME NEW s \in {"popped", "marked", "sent"}
      PROVE  [dispatch EXCEPT ![b].step = s] \in [Broker -> Dispatch]
  <2>1. [dispatch[b] EXCEPT !.step = s] \in Dispatch
    BY <1>1, <1>2, DispatchFields
  <2>. QED  BY <1>1, <2>1
<1>. QED  BY <1>1, <1>2, <1>3, <1>4, DispatchFields

\* Whatever is popped, the queue keeps to its type.
LEMMA TypePop ==
  ASSUME TypeOK, NEW b \in Broker, Pop(b)
  PROVE  TypeOK'
<1>1. dispatch' \in [Broker -> Dispatch]
  BY DispatchUnderWay DEF Pop
<1>2. fila' \in [Broker -> SUBSET Occurrence]
  <2>1. fila \in [Broker -> SUBSET Occurrence]
    BY DEF TypeOK
  <2>2. fila' = fila \/ \E o \in Heads(b) : fila' = [fila EXCEPT ![b] = @ \ {o}]
    BY DEF Pop
  <2>. QED  BY <2>1, <2>2, OccurrencesType
<1>. QED
  BY <1>1, <1>2 DEF TypeOK, Pop, viewVars, ledgerVars, droneVars

\* The drone is marked with the occurrence peeked.
LEMMA TypeMarcar ==
  ASSUME TypeOK, NEW b \in Broker, MarcarOcupado(b)
  PROVE  TypeOK'
<1>1. dispatch[b].step = "popped"
  BY DEF MarcarOcupado
<1>2. dispatch[b].occ \in Occurrence /\ dispatch[b].drone \in Drone
  BY <1>1, DispatchUnderWay
<1>3. dispatch' \in [Broker -> Dispatch]
  BY <1>1, DispatchUnderWay DEF MarcarOcupado
<1>4. relogio \in [Drone -> Nat] /\ drones \in [Broker -> [Drone -> View]]
  BY DEF TypeOK
<1>5. Busy(dispatch[b].drone, "DESPACHADO", dispatch[b].occ) \in View
  BY <1>2, <1>4, BusyType DEF Estado
<1>6. drones' \in [Broker -> [Drone -> View]]
  BY <1>2, <1>4, <1>5, ViewsType DEF MarcarOcupado
<1>7. relogio' \in [Drone -> Nat]
  BY <1>2, <1>4 DEF MarcarOcupado
<1>. QED
  BY <1>3, <1>6, <1>7 DEF TypeOK, MarcarOcupado, ledgerVars, droneVars

\* The command carries what was chosen.
LEMMA TypeSend ==
  ASSUME TypeOK, NEW b \in Broker, SendCommand(b)
  PROVE  TypeOK'
<1>1. dispatch[b].step = "marked"
  BY DEF SendCommand
<1>2. /\ dispatch[b].occ \in Occurrence /\ dispatch[b].drone \in Drone
      /\ dispatch[b].conn \in Nat
  BY <1>1, DispatchUnderWay
<1>3. dispatch' \in [Broker -> Dispatch]
  BY <1>1, DispatchUnderWay DEF SendCommand
<1>4. cmds' \subseteq Command
  <2>1. [drone |-> dispatch[b].drone, conn |-> dispatch[b].conn,
         occ |-> dispatch[b].occ] \in Command
    BY <1>2 DEF Command
  <2>. QED  BY <2>1 DEF SendCommand, TypeOK
<1>. QED
  BY <1>3, <1>4 DEF TypeOK, SendCommand, viewVars, ledgerVars

\* The occurrence that was chosen is queued again.
LEMMA TypeSendFails ==
  ASSUME TypeOK, NEW b \in Broker, SendFails(b)
  PROVE  TypeOK'
<1>1. dispatch[b].step = "marked"
  BY DEF SendFails
<1>2. dispatch[b].occ \in Occurrence
  BY <1>1, DispatchUnderWay
<1>3. dispatch' \in [Broker -> Dispatch]
  BY <1>1, DispatchUnderWay DEF SendFails
<1>4. atendidos' \in [Broker -> SUBSET Occurrence] /\ fila' \in [Broker -> SUBSET Occurrence]
  BY <1>2, OccurrencesType DEF SendFails, TypeOK
<1>. QED
  BY <1>3, <1>4 DEF TypeOK, SendFails, viewVars, ledgerVars, droneVars

\* DRONE_DESPACHADO carries the broker's view of the drone.
LEMMA TypeAnnounce ==
  ASSUME TypeOK, NEW b \in Broker, AnnounceDispatch(b)
  PROVE  TypeOK'
<1>1. dispatch[b].step = "sent"
  BY DEF AnnounceDispatch
<1>2. dispatch[b].occ \in Occurrence /\ dispatch[b].drone \in Drone
  BY <1>1, DispatchUnderWay
<1>3. dispatch' \in [Broker -> Dispatch]
  BY <1>1, DispatchUnderWay DEF AnnounceDispatch
<1>4. atendidos' \in [Broker -> SUBSET Occurrence]
  BY <1>2, OccurrencesType DEF AnnounceDispatch, TypeOK
<1>5. drones[b][dispatch[b].drone] \in View
  BY <1>2 DEF TypeOK
<1>6. net' \subseteq NetMsg
  BY <1>2, <1>5, MessageType, NeighboursType DEF AnnounceDispatch, TypeOK, NetMsg
<1>. QED
  BY <1>3, <1>4, <1>6 DEF TypeOK, AnnounceDispatch, viewVars, ledgerVars, droneVars, NetMsg

\* The view that DRONE_DESPACHADO carries replaces the receiver's.
LEMMA TypeDespachado ==
  ASSUME TypeOK, NEW m \in net, ReceiveDespachado(m)
  PROVE  TypeOK'
<1>1. m \in NetMsg
  BY DEF TypeOK, NetMsg
<1>2. /\ m.to \in Broker /\ m.msg.occ \in Occurrence
      /\ m.msg.drone \in Drone /\ m.msg.info \in View
  BY <1>1, MessageFields DEF ReceiveDespachado
<1>3. atendidos' \in [Broker -> SUBSET Occurrence] /\ fila' \in [Broker -> SUBSET Occurrence]
  BY <1>2, OccurrencesType DEF ReceiveDespachado, TypeOK
<1>4. drones' \in [Broker -> [Drone -> View]]
  BY <1>2, ViewsType DEF ReceiveDespachado, TypeOK
<1>. QED
  BY <1>3, <1>4 DEF TypeOK, ReceiveDespachado, ledgerVars, droneVars

\* So does that of SINC_DRONE, if it is newer.
LEMMA TypeSincDrone ==
  ASSUME TypeOK, NEW m \in net, ReceiveSincDrone(m)
  PROVE  TypeOK'
<1>1. m \in NetMsg
  BY DEF TypeOK, NetMsg
<1>2. m.to \in Broker /\ m.msg.drone \in Drone /\ m.msg.info \in View
  BY <1>1, MessageFields DEF ReceiveSincDrone
<1>3. drones \in [Broker -> [Drone -> View]]
  BY DEF TypeOK
<1>4. drones' \in [Broker -> [Drone -> View]]
  BY <1>2, <1>3, ViewsType DEF ReceiveSincDrone
<1>. QED
  BY <1>4 DEF TypeOK, ReceiveSincDrone, brokerVars, ledgerVars, droneVars

\* DRONE_PERDIDO gives back the occurrence of the receiver's view, if any.
LEMMA TypeDronePerdido ==
  ASSUME TypeOK, NEW m \in net, ReceiveDronePerdido(m)
  PROVE  TypeOK'
<1>1. m \in NetMsg
  BY DEF TypeOK, NetMsg
<1>2. m.to \in Broker /\ m.msg.drone \in Drone
  BY <1>1, MessageFields DEF ReceiveDronePerdido
<1>3. CASE drones[m.to][m.msg.drone] = Unknown
  BY <1>3 DEF TypeOK, ReceiveDronePerdido, ledgerVars, droneVars
<1>4. CASE drones[m.to][m.msg.drone] # Unknown
  <2>1. drones \in [Broker -> [Drone -> View]] /\ relogio \in [Drone -> Nat]
    BY DEF TypeOK
  <2>2. relogio[m.msg.drone] + 1 \in Nat
    BY <1>2, <2>1
  <2>3. drones' \in [Broker -> [Drone -> View]]
    <3>. DEFINE d == m.msg.drone
                n == relogio[d] + 1
    <3>1. drones' = [drones EXCEPT ![m.to][d].estado = "ABATIDO", ![m.to][d].stamp = n]
      BY <1>4 DEF ReceiveDronePerdido
    <3>2. n \in Nat /\ d \in Drone
      BY <1>2, <2>2
    <3>. HIDE DEF n, d
    <3>3. Unknown \in View
      BY DEF Unknown, View
    <3>. QED  BY <1>2, <2>1, <3>1, <3>2, <3>3, ViewsType
  <2>4. relogio' \in [Drone -> Nat]
    BY <1>4, <2>1, <2>2 DEF ReceiveDronePerdido
  <2>5. drones[m.to][m.msg.drone].occ \in Occurrence \cup {""}
    BY <1>2, <2>1, ViewFields
  <2>6. atendidos' \in [Broker -> SUBSET Occurrence] /\ fila' \in [Broker -> SUBSET Occurrence]
    BY <1>2, <1>4, <2>5, LossType DEF ReceiveDronePerdido
  <2>. QED
    BY <2>3, <2>4, <2>6 DEF TypeOK, ReceiveDronePerdido, ledgerVars, droneVars
<1>. QED  BY <1>3, <1>4

\* MISSAO_CONCLUIDA deletes an occurrence.
LEMMA TypeConcluida ==
  ASSUME TypeOK, NEW m \in net, ReceiveConcluida(m)
  PROVE  TypeOK'
<1>1. m \in NetMsg
  BY DEF TypeOK, NetMsg
<1>2. status' \in [Broker -> [Occurrence -> {"", "ABERTA", "AGUARDANDO_PAGAMENTO", "PAGO"}]]
  BY <1>1, MessageFields DEF TypeOK, ReceiveConcluida
<1>. QED
  BY <1>2 DEF TypeOK, ReceiveConcluida, viewVars, ledgerVars, droneVars

\* A connection in the state, and whose it is.
LEMMA ConnOf ==
  ASSUME TypeOK, NEW c \in conns
  PROVE  c \in Conn /\ c.broker \in Broker /\ c.drone \in Drone /\ c.conn \in Nat
BY ConnFields DEF TypeOK

\* The next instant of a drone's clock.
LEMMA NextInstant ==
  ASSUME TypeOK, NEW d \in Drone
  PROVE  relogio \in [Drone -> Nat] /\ relogio[d] + 1 \in Nat
<1>1. relogio \in [Drone -> Nat]
  BY DEF TypeOK
<1>2. relogio[d] \in Nat
  BY <1>1
<1>. QED  BY <1>1, <1>2

\* A reader starts to register a drone with the registration in hand.
LEMMA TypeIdentificar ==
  ASSUME TypeOK, NEW c \in conns, IdentificarConexao(c)
  PROVE  TypeOK'
<1>1. c \in Conn /\ c.broker \in Broker /\ c.drone \in Drone /\ c.conn \in Nat
  BY ConnOf
<1>2. [c EXCEPT !.reader = "registering"] \in Conn
  BY <1>1, ConnFields DEF IdentificarConexao
<1>3. conns' \subseteq Conn
  BY <1>2 DEF IdentificarConexao, TypeOK
<1>4. dronesLocais' \in [Broker -> [Drone -> Nat]]
  BY <1>1 DEF IdentificarConexao, TypeOK
<1>. QED
  BY <1>3, <1>4 DEF TypeOK, IdentificarConexao, brokerVars, ledgerVars, droneVars

\* The registration in hand becomes the view of the drone.
LEMMA TypeRegistrar ==
  ASSUME TypeOK, NEW c \in conns, RegistrarDroneLocal(c)
  PROVE  TypeOK'
<1>1. c \in Conn /\ c.broker \in Broker /\ c.drone \in Drone /\ c.conn \in Nat
  BY ConnOf
<1>2. c.msgs # <<>> /\ Head(c.msgs).tipo = "REGISTRO"
  BY <1>1, ConnFields DEF RegistrarDroneLocal
<1>3. Head(c.msgs) \in DroneMsg /\ Rest(c) \in Conn
  BY <1>1, <1>2, FirstMessage
<1>4. Head(c.msgs).info \in View
  BY <1>2, <1>3, DroneMsgFields, InfoIsView
<1>5. conns' \subseteq Conn
  BY <1>3 DEF RegistrarDroneLocal, TypeOK
<1>6. drones' \in [Broker -> [Drone -> View]]
  BY <1>1, <1>4, ViewsType DEF RegistrarDroneLocal, TypeOK
<1>7. net' \subseteq NetMsg
  BY <1>1, <1>4, MessageType, NeighboursType DEF RegistrarDroneLocal, TypeOK, NetMsg
<1>. QED
  BY <1>5, <1>6, <1>7 DEF TypeOK, RegistrarDroneLocal, brokerVars, ledgerVars,
                          droneVars, NetMsg

\* A rejected connection is gone, with the commands on it.
LEMMA TypeReject ==
  ASSUME TypeOK, NEW c \in conns, RejectConnection(c)
  PROVE  TypeOK'
<1>1. conns' \subseteq Conn /\ cmds' \subseteq Command
  BY DEF RejectConnection, TypeOK
<1>. QED
  BY <1>1 DEF TypeOK, RejectConnection, brokerVars, viewVars, ledgerVars

\* A keepalive only changes the stamp of a view.
LEMMA TypeKeepalive ==
  ASSUME TypeOK, NEW c \in conns, ReceiveKeepalive(c)
  PROVE  TypeOK'
<1>. DEFINE d == c.drone
            view == [drones[c.broker][d] EXCEPT !.stamp = relogio[d] + 1]
<1>1. c \in Conn /\ c.broker \in Broker /\ d \in Drone
  BY ConnOf
<1>2. relogio \in [Drone -> Nat] /\ drones \in [Broker -> [Drone -> View]]
  BY DEF TypeOK
<1>3. relogio[d] + 1 \in Nat /\ drones[c.broker][d] \in View
  BY <1>1, <1>2, NextInstant
<1>4. view \in View
  BY <1>3, ViewFields
<1>5. Rest(c) \in Conn
  BY <1>1, FirstMessage DEF ReceiveKeepalive
<1>6. conns' \subseteq Conn
  BY <1>5 DEF ReceiveKeepalive, TypeOK
<1>7. drones' \in [Broker -> [Drone -> View]]
  <2>1. drones' = [drones EXCEPT ![c.broker][d] = view]
    BY DEF ReceiveKeepalive
  <2>. HIDE DEF view
  <2>. QED  BY <1>1, <1>2, <1>4, <2>1
<1>8. relogio' \in [Drone -> Nat]
  BY <1>2, <1>3 DEF ReceiveKeepalive
<1>9. net' \subseteq NetMsg
  <2>1. net' = net \cup ToNeighbours(c.broker, [tipo |-> "SINC_DRONE", drone |-> d,
                                               info |-> view])
    BY DEF ReceiveKeepalive
  <2>. HIDE DEF view
  <2>2. [tipo |-> "SINC_DRONE", drone |-> d, info |-> view] \in BrokerMsg
    BY <1>1, <1>4, MessageType
  <2>. QED  BY <1>1, <2>1, <2>2, NeighboursType DEF TypeOK, NetMsg
<1>. QED
  BY <1>6, <1>7, <1>8, <1>9 DEF TypeOK, ReceiveKeepalive, brokerVars, ledgerVars,
                                droneVars, NetMsg

\* What a report of a drone makes of the view of its broker.
LEMMA ReportedType ==
  ASSUME TypeOK, NEW b \in Broker, NEW d \in Drone, NEW x \in DroneMsg,
         x.tipo = "ESTADO"
  PROVE  /\ Reported(b, d, x) \in View
         /\ Reported(b, d, x).occ \in Occurrence \cup {""}
<1>1. drones[b][d] \in View
  BY DEF TypeOK
<1>2. relogio[d] + 1 \in Nat /\ drones[b][d].occ \in Occurrence \cup {""}
  BY <1>1, ViewFields, NextInstant
<1>3. x.estado \in Estado /\ x.occ \in Occurrence
  BY DroneMsgFields
<1>4. (CASE x.estado = "DISPONIVEL" -> ""
         [] x.estado \in {"DESPACHADO", "EM_MISSAO"} -> x.occ
         [] OTHER -> drones[b][d].occ) \in Occurrence \cup {""}
  BY <1>2, <1>3 DEF Estado
<1>. QED  BY <1>2, <1>3, <1>4 DEF Reported, View

\* A report changes the view, and may add a log or give back an occurrence.
LEMMA TypeEstado ==
  ASSUME TypeOK, NEW c \in conns, ReceiveEstado(c)
  PROVE  TypeOK'
<1>. DEFINE b == c.broker
            d == c.drone
            x == Head(c.msgs)
            view == Reported(b, d, x)
<1>1. c \in Conn /\ b \in Broker /\ d \in Drone
  BY ConnOf
<1>2. x \in DroneMsg /\ x.tipo = "ESTADO" /\ Rest(c) \in Conn
  BY <1>1, FirstMessage DEF ReceiveEstado
<1>3. x.occ \in Occurrence
  BY <1>2, DroneMsgFields
<1>4. view \in View /\ view.occ \in Occurrence \cup {""}
  BY <1>1, <1>2, ReportedType
<1>5. relogio \in [Drone -> Nat] /\ relogio[d] + 1 \in Nat
  BY <1>1, NextInstant
<1>6. conns' \subseteq Conn
  BY <1>2 DEF ReceiveEstado, TypeOK
<1>7. drones' \in [Broker -> [Drone -> View]]
  <2>1. drones' = [drones EXCEPT ![b][d] = view] /\ drones \in [Broker -> [Drone -> View]]
    BY DEF ReceiveEstado, TypeOK
  <2>. HIDE DEF view
  <2>. QED  BY <1>1, <1>4, <2>1
<1>8. relogio' \in [Drone -> Nat]
  BY <1>5 DEF ReceiveEstado
<1>9. net' \subseteq NetMsg
  <2>1. net' \subseteq net
          \cup ToNeighbours(b, [tipo |-> "SINC_DRONE", drone |-> d, info |-> view])
          \cup ToNeighbours(b, [tipo |-> "MISSAO_CONCLUIDA", occ |-> x.occ])
    BY DEF ReceiveEstado
  <2>. HIDE DEF view, x
  <2>2. /\ [tipo |-> "SINC_DRONE", drone |-> d, info |-> view] \in BrokerMsg
        /\ [tipo |-> "MISSAO_CONCLUIDA", occ |-> x.occ] \in BrokerMsg
    BY <1>1, <1>3, <1>4, MessageType
  <2>. QED  BY <1>1, <2>1, <2>2, NeighboursType DEF TypeOK, NetMsg
<1>10. pending' \subseteq Tx /\ IsFiniteSet(pending')
  <2>1. MissionLog(b, d, x) \subseteq {[type |-> "MISSION_LOG", occ |-> x.occ, drone |-> d,
                                      nonce |-> relogio[d] + 1]}
    BY DEF MissionLog
  <2>2. [type |-> "MISSION_LOG", occ |-> x.occ, drone |-> d, nonce |-> relogio[d] + 1] \in Tx
    BY <1>1, <1>3, <1>5 DEF Tx
  <2>3. IsFiniteSet(MissionLog(b, d, x))
    <3>. DEFINE log == [type |-> "MISSION_LOG", occ |-> x.occ, drone |-> d,
                        nonce |-> relogio[d] + 1]
    <3>1. MissionLog(b, d, x) \subseteq {log}
      BY <2>1
    <3>. HIDE DEF log
    <3>2. IsFiniteSet({log})
      BY FS_Singleton
    <3>. QED  BY <3>1, <3>2, FS_Subset
  <2>4. pending' = pending \cup MissionLog(b, d, x)
    BY DEF ReceiveEstado
  <2>5. pending \subseteq Tx /\ IsFiniteSet(pending)
    BY DEF TypeOK
  <2>. QED  BY <2>1, <2>2, <2>3, <2>4, <2>5, FS_Union
<1>11. atendidos' \in [Broker -> SUBSET Occurrence] /\ fila' \in [Broker -> SUBSET Occurrence]
  <2>1. CASE x.estado = "ABATIDO"
    BY <1>1, <1>4, <2>1, LossType DEF ReceiveEstado
  <2>2. CASE x.estado # "ABATIDO"
    BY <2>2 DEF ReceiveEstado, TypeOK
  <2>. QED  BY <2>1, <2>2
<1>. QED
  BY <1>6, <1>7, <1>8, <1>9, <1>10, <1>11 DEF TypeOK, ReceiveEstado, droneVars, NetMsg

\* The end of an old connection changes nothing else.
LEMMA TypeOldEnds ==
  ASSUME TypeOK, NEW c \in conns, OldConnectionEnds(c)
  PROVE  TypeOK'
<1>1. conns' \subseteq Conn
  BY DEF OldConnectionEnds, TypeOK
<1>. QED
  BY <1>1 DEF TypeOK, OldConnectionEnds, brokerVars, viewVars, ledgerVars, droneVars

\* The end of the drone's connection takes it from the broker's map.
LEMMA TypeEnds ==
  ASSUME TypeOK, NEW c \in conns, ConnectionEnds(c)
  PROVE  TypeOK'
<1>1. c \in Conn /\ c.broker \in Broker /\ c.drone \in Drone
  BY ConnOf
<1>2. [c EXCEPT !.reader = "ending"] \in Conn
  BY <1>1, ConnFields DEF Reader
<1>3. conns' \subseteq Conn
  BY <1>2 DEF ConnectionEnds, TypeOK
<1>4. dronesLocais' \in [Broker -> [Drone -> Nat]]
  BY <1>1 DEF ConnectionEnds, TypeOK
<1>. QED
  BY <1>3, <1>4 DEF TypeOK, ConnectionEnds, brokerVars, ledgerVars, droneVars

\* A lost drone stays in the view with its occurrence, which is given back.
LEMMA TypeLose ==
  ASSUME TypeOK, NEW c \in conns, LoseDrone(c)
  PROVE  TypeOK'
<1>. DEFINE b == c.broker
            d == c.drone
            n == relogio[d] + 1
<1>1. c \in Conn /\ b \in Broker /\ d \in Drone /\ c.conn \in Nat
  BY ConnOf
<1>2. relogio \in [Drone -> Nat] /\ drones \in [Broker -> [Drone -> View]]
  BY DEF TypeOK
<1>3. n \in Nat /\ drones[b][d].occ \in Occurrence \cup {""}
  <2>1. n \in Nat
    BY <1>1, NextInstant
  <2>2. drones[b][d] \in View
    BY <1>1, <1>2
  <2>. QED  BY <2>1, <2>2, ViewFields
<1>4. conns' \subseteq Conn
  BY DEF LoseDrone, TypeOK
<1>5. drones' \in [Broker -> [Drone -> View]]
  <2>1. drones' = [drones EXCEPT ![b][d].estado = "ABATIDO", ![b][d].stamp = n]
    BY DEF LoseDrone
  <2>2. Unknown \in View
    BY DEF Unknown, View
  <2>. HIDE DEF n, b, d
  <2>. QED  BY <1>1, <1>2, <1>3, <2>1, <2>2, ViewsType
<1>6. relogio' \in [Drone -> Nat]
  BY <1>2, <1>3 DEF LoseDrone
<1>7. net' \subseteq NetMsg
  BY <1>1, MessageType, NeighboursType DEF LoseDrone, TypeOK, NetMsg
<1>8. atendidos' \in [Broker -> SUBSET Occurrence] /\ fila' \in [Broker -> SUBSET Occurrence]
  BY <1>1, <1>3, LossType DEF LoseDrone
<1>. QED
  BY <1>4, <1>5, <1>6, <1>7, <1>8 DEF TypeOK, LoseDrone, ledgerVars, droneVars, NetMsg

\* The broker dialled is one of the list, which is not empty.
LEMMA TypeDial ==
  ASSUME TypeOK, EscortAssumption, NEW d \in Drone, Dial(d)
  PROVE  TypeOK'
<1>1. dials \in [Drone -> Nat] /\ idx \in [Drone -> Nat]
  BY DEF TypeOK
<1>2. dials[d] + 1 \in Nat /\ idx[d] \in Nat
  BY <1>1
<1>3. Addrs[d] \in Seq(Broker) /\ Addrs[d] # <<>>
  BY DEF EscortAssumption
<1>4. Len(Addrs[d]) \in Nat /\ Len(Addrs[d]) > 0
  BY <1>3, LenProperties
<1>5. idx[d] < Len(Addrs[d])
  BY DEF TypeOK
<1>6. idx[d] + 1 \in 1..Len(Addrs[d])
  BY <1>2, <1>4, <1>5
<1>. DEFINE p == Addrs[d][idx[d] + 1]
            n == (idx[d] + 1) % Len(Addrs[d])
<1>7. p \in Broker
  BY <1>3, <1>6, ElementOfSeq
<1>8. n \in Nat /\ n < Len(Addrs[d])
  BY <1>2, <1>4
<1>9. conns' \subseteq Conn
  <2>1. conns' = conns \cup {[drone |-> d, conn |-> dials[d] + 1, broker |-> p,
                              open |-> TRUE, enrolled |-> FALSE,
                              reader |-> "identifying", msgs |-> <<>>]}
    BY DEF Dial
  <2>. HIDE DEF p
  <2>2. [drone |-> d, conn |-> dials[d] + 1, broker |-> p, open |-> TRUE,
         enrolled |-> FALSE, reader |-> "identifying", msgs |-> <<>>] \in Conn
    <3>1. <<>> \in Seq(DroneMsg)
      BY EmptySeq
    <3>. QED  BY <1>2, <1>7, <3>1 DEF Conn, Reader
  <2>. QED  BY <2>1, <2>2 DEF TypeOK
<1>10. dials' \in [Drone -> Nat]
  BY <1>1, <1>2 DEF Dial
<1>11. idx' \in [Drone -> Nat] /\ \A e \in Drone : idx'[e] < Len(Addrs[e])
  <2>1. idx' = [idx EXCEPT ![d] = n]
    BY DEF Dial
  <2>. HIDE DEF n
  <2>. QED  BY <1>1, <1>8, <2>1 DEF TypeOK
<1>. QED
  BY <1>9, <1>10, <1>11 DEF TypeOK, Dial, brokerVars, viewVars, ledgerVars

\* A registration is appended to the connection.
LEMMA TypeEnviarRegistro ==
  ASSUME TypeOK, NEW c \in conns, EnviarRegistro(c)
  PROVE  TypeOK'
<1>1. c \in Conn /\ c.drone \in Drone
  BY ConnOf
<1>2. voo[c.drone] \in Info
  BY <1>1 DEF TypeOK
<1>3. [tipo |-> "REGISTRO", info |-> voo[c.drone]] \in DroneMsg
  BY <1>2, DroneMsgType
<1>4. conns' \subseteq Conn
  BY <1>1, <1>3, AppendedConn DEF EnviarRegistro, TypeOK
<1>. QED
  BY <1>4 DEF TypeOK, EnviarRegistro, brokerVars, viewVars, ledgerVars, droneVars

\* Counted faults.
LEMMA FaultsType ==
  ASSUME TypeOK
  PROVE  /\ [faults EXCEPT !.breaks = @ + 1] \in [breaks : Nat, shots : Nat, keepalives : Nat]
         /\ [faults EXCEPT !.shots = @ + 1] \in [breaks : Nat, shots : Nat, keepalives : Nat]
         /\ [faults EXCEPT !.keepalives = @ + 1]
              \in [breaks : Nat, shots : Nat, keepalives : Nat]
<1>1. faults \in [breaks : Nat, shots : Nat, keepalives : Nat]
  BY DEF TypeOK
<1>2. faults.breaks + 1 \in Nat /\ faults.shots + 1 \in Nat /\ faults.keepalives + 1 \in Nat
  BY <1>1
<1>. QED  BY <1>1, <1>2

\* A keepalive is sent, and counted.
LEMMA TypeSendKeepalive ==
  ASSUME TypeOK, NEW c \in conns, SendKeepalive(c)
  PROVE  TypeOK'
<1>1. conns' \subseteq Conn
  BY SentType, DroneMsgType DEF SendKeepalive, TypeOK
<1>2. faults' \in [breaks : Nat, shots : Nat, keepalives : Nat]
  BY FaultsType DEF SendKeepalive
<1>. QED
  BY <1>1, <1>2 DEF TypeOK, SendKeepalive, brokerVars, viewVars, ledgerVars

\* The fields of the state of a drone.
LEMMA InfoFields ==
  ASSUME NEW i \in Info, NEW e \in Estado
  PROVE  /\ i.occ \in Occurrence \cup {""}
         /\ [i EXCEPT !.estado = e] \in Info
         /\ [i EXCEPT !.estado = e, !.occ = ""] \in Info
BY DEF Info

\* The conjunct of TypeOK about drones on a mission, after the state of d changes.
LEMMA MissionsType ==
  ASSUME TypeOK, NEW d \in Drone, NEW v \in Info,
         v.estado \in {"DESPACHADO", "EM_MISSAO", "RETORNANDO"} => v.occ \in Occurrence,
         voo' = [voo EXCEPT ![d] = v]
  PROVE  /\ voo' \in [Drone -> Info]
         /\ \A e \in Drone : voo'[e].estado \in {"DESPACHADO", "EM_MISSAO", "RETORNANDO"}
                            => voo'[e].occ \in Occurrence
<1>1. voo \in [Drone -> Info]
  BY DEF TypeOK
<1>2. ASSUME NEW e \in Drone
      PROVE  voo'[e] = IF e = d THEN v ELSE voo[e]
  BY <1>1
<1>. QED  BY <1>1, <1>2 DEF TypeOK

\* The states that a drone has yet to send.
LEMMA NoticesType ==
  ASSUME TypeOK, NEW d \in Drone, NEW e \in Estado, NEW o \in Occurrence, ToNotify(d, e, o)
  PROVE  avisos' \subseteq Aviso
<1>1. [drone |-> d, estado |-> e, occ |-> o] \in Aviso
  BY DEF Aviso
<1>2. avisos \subseteq Aviso
  BY DEF TypeOK
<1>. QED  BY <1>1, <1>2 DEF ToNotify

\* A mission starts with the occurrence of the command.
LEMMA TypeIniciar ==
  ASSUME TypeOK, NEW k \in cmds, IniciarMissao(k)
  PROVE  TypeOK'
<1>. DEFINE d == k.drone
            v == Busy(d, "DESPACHADO", k.occ)
<1>1. d \in Drone /\ k.occ \in Occurrence
  BY DEF TypeOK, Command
<1>2. CASE voo[d].estado = "DISPONIVEL"
  <2>1. voo' = [voo EXCEPT ![d] = v]
    BY <1>2 DEF IniciarMissao
  <2>2. v \in Info
    BY <1>1, NextInstant, BusyType DEF Estado
  <2>3. v.occ \in Occurrence
    BY <1>1 DEF Busy
  <2>4. /\ voo' \in [Drone -> Info]
        /\ \A e \in Drone : voo'[e].estado \in {"DESPACHADO", "EM_MISSAO", "RETORNANDO"}
                           => voo'[e].occ \in Occurrence
    <3>. HIDE DEF v, d
    <3>. QED  BY <1>1, <2>1, <2>2, <2>3, MissionsType
  <2>5. relogio' \in [Drone -> Nat]
    BY <1>1, <1>2, NextInstant DEF IniciarMissao
  <2>6. avisos' \subseteq Aviso
    <3>1. ToNotify(d, "DESPACHADO", k.occ)
      BY <1>2 DEF IniciarMissao
    <3>. QED  BY <1>1, <3>1, NoticesType DEF Estado
  <2>. QED
    BY <2>4, <2>5, <2>6 DEF TypeOK, IniciarMissao, brokerVars, viewVars, ledgerVars
<1>3. CASE voo[d].estado # "DISPONIVEL"
  BY <1>3 DEF TypeOK, IniciarMissao, brokerVars, viewVars, ledgerVars
<1>. QED  BY <1>2, <1>3

\* What is sent is a state of the drone.
LEMMA TypeNotificar ==
  ASSUME TypeOK, NEW a \in avisos, NotificarEstado(a)
  PROVE  TypeOK'
<1>1. a \in Aviso
  BY DEF TypeOK
<1>2. [tipo |-> "ESTADO", estado |-> a.estado, occ |-> a.occ] \in DroneMsg
  BY <1>1, DroneMsgType DEF Aviso
<1>3. conns' \subseteq Conn
  BY <1>2, SentType DEF NotificarEstado, TypeOK
<1>4. avisos' \subseteq Aviso
  BY DEF NotificarEstado, TypeOK
<1>. QED
  BY <1>3, <1>4 DEF TypeOK, NotificarEstado, brokerVars, viewVars, ledgerVars

\* A drone on a mission has an occurrence until it is available.
LEMMA TypeFly ==
  ASSUME TypeOK, NEW d \in Drone,
         NEW from \in {"DESPACHADO", "EM_MISSAO", "RETORNANDO"},
         NEW to \in {"EM_MISSAO", "RETORNANDO", "DISPONIVEL", "ABATIDO"},
         Fly(d, from, to), faults' \in [breaks : Nat, shots : Nat, keepalives : Nat]
  PROVE  TypeOK'
<1>. DEFINE v == [voo[d] EXCEPT !.estado = to,
                                !.occ = IF to = "DISPONIVEL" THEN "" ELSE @]
<1>1. voo \in [Drone -> Info] /\ voo[d] \in Info /\ voo[d].occ \in Occurrence
  BY DEF TypeOK, Fly
<1>2. to \in Estado
  BY DEF Estado
<1>3. v \in Info
  BY <1>1, <1>2 DEF Info
<1>4. v.estado \in {"DESPACHADO", "EM_MISSAO", "RETORNANDO"} => v.occ \in Occurrence
  BY <1>1 DEF Info
<1>5. voo' = [voo EXCEPT ![d] = v]
  BY <1>1 DEF Fly
<1>6. /\ voo' \in [Drone -> Info]
      /\ \A e \in Drone : voo'[e].estado \in {"DESPACHADO", "EM_MISSAO", "RETORNANDO"}
                         => voo'[e].occ \in Occurrence
  <2>. HIDE DEF v
  <2>. QED  BY <1>3, <1>4, <1>5, MissionsType
<1>7. avisos' \subseteq Aviso
  BY <1>1, <1>2, NoticesType DEF Fly
<1>. QED
  BY <1>6, <1>7 DEF TypeOK, Fly, brokerVars, viewVars, ledgerVars

\* A drone that is shot down is counted.
LEMMA TypeShotDown ==
  ASSUME TypeOK, NEW d \in Drone, ShotDown(d)
  PROVE  TypeOK'
<1>1. faults' \in [breaks : Nat, shots : Nat, keepalives : Nat]
  BY FaultsType DEF ShotDown
<1>. QED  BY <1>1, TypeFly DEF ShotDown

\* Its last message names its occurrence.
LEMMA TypeExit ==
  ASSUME TypeOK, NEW d \in Drone, Exit(d)
  PROVE  TypeOK'
<1>1. PICK a \in avisos :
        conns' = {[c EXCEPT !.open = c.drone # d /\ @] :
                    c \in Sent(d, [tipo |-> "ESTADO", estado |-> "ABATIDO",
                                   occ |-> a.occ])}
  BY DEF Exit
<1>. DEFINE msg == [tipo |-> "ESTADO", estado |-> "ABATIDO", occ |-> a.occ]
<1>2. a.occ \in Occurrence
  BY DEF TypeOK, Aviso
<1>3. msg \in DroneMsg
  BY <1>2, DroneMsgType DEF Estado
<1>4. Sent(d, msg) \subseteq Conn
  <2>. HIDE DEF msg
  <2>. QED  BY <1>3, SentType DEF TypeOK
<1>5. ASSUME NEW c \in Conn
      PROVE  [c EXCEPT !.open = c.drone # d /\ @] \in Conn
  BY <1>5 DEF Conn
<1>6. conns' \subseteq Conn
  <2>1. conns' = {[c EXCEPT !.open = c.drone # d /\ @] : c \in Sent(d, msg)}
    BY <1>1
  <2>. HIDE DEF msg
  <2>. QED  BY <1>4, <1>5, <2>1
<1>7. cmds' \subseteq Command /\ avisos' \subseteq Aviso
  BY DEF Exit, TypeOK
<1>. QED
  BY <1>6, <1>7 DEF TypeOK, Exit, brokerVars, viewVars, ledgerVars

\* A drone starts again without an occurrence.
LEMMA TypeReboot ==
  ASSUME TypeOK, EscortAssumption, NEW d \in Drone, Reboot(d)
  PROVE  TypeOK'
<1>. DEFINE v == [estado |-> "DISPONIVEL", occ |-> "", stamp |-> relogio[d] + 1]
<1>1. v \in Info /\ v.estado = "DISPONIVEL"
  BY NextInstant DEF Info, Estado
<1>2. voo' = [voo EXCEPT ![d] = v]
  BY DEF Reboot
<1>3. /\ voo' \in [Drone -> Info]
      /\ \A e \in Drone : voo'[e].estado \in {"DESPACHADO", "EM_MISSAO", "RETORNANDO"}
                         => voo'[e].occ \in Occurrence
  <2>. HIDE DEF v
  <2>. QED  BY <1>1, <1>2, MissionsType
<1>4. relogio' \in [Drone -> Nat]
  BY NextInstant DEF Reboot
<1>5. idx' \in [Drone -> Nat] /\ \A e \in Drone : idx'[e] < Len(Addrs[e])
  <2>1. idx \in [Drone -> Nat] /\ idx' = [idx EXCEPT ![d] = 0]
    BY DEF TypeOK, Reboot
  <2>2. 0 < Len(Addrs[d])
    <3>1. Addrs[d] \in Seq(Broker) /\ Addrs[d] # <<>>
      BY DEF EscortAssumption
    <3>. QED  BY <3>1, LenProperties
  <2>. QED  BY <2>1, <2>2 DEF TypeOK
<1>. QED
  BY <1>3, <1>4, <1>5 DEF TypeOK, Reboot, brokerVars, viewVars, ledgerVars

\* What is left of a connection that breaks.
LEMMA BrokenConn ==
  ASSUME NEW c \in Conn,
         NEW n \in {k \in 0..Len(c.msgs) : c.reader = "registering" => k > 0}
  PROVE  [c EXCEPT !.open = FALSE, !.msgs = SubSeq(@, 1, n)] \in Conn
<1>1. c.msgs \in Seq(DroneMsg) /\ n \in 0..Len(c.msgs)
  BY ConnFields
<1>2. SubSeq(c.msgs, 1, n) \in Seq(DroneMsg)
  BY <1>1, SubSeqProperties
<1>3. ASSUME c.reader = "registering"
      PROVE  /\ SubSeq(c.msgs, 1, n) # <<>>
             /\ Head(SubSeq(c.msgs, 1, n)).tipo = "REGISTRO"
  <2>1. n \in 1..Len(c.msgs) /\ Head(c.msgs).tipo = "REGISTRO" /\ c.msgs # <<>>
    <3>1. Head(c.msgs).tipo = "REGISTRO" /\ c.msgs # <<>>
      BY <1>3, ConnFields
    <3>2. n > 0
      BY <1>3
    <3>3. Len(c.msgs) \in Nat
      BY <1>1, LenProperties
    <3>4. n \in 1..Len(c.msgs)
      BY <1>1, <3>2, <3>3
    <3>. QED  BY <3>1, <3>4
  <2>2. Len(SubSeq(c.msgs, 1, n)) = n /\ SubSeq(c.msgs, 1, n)[1] = c.msgs[1]
    BY <1>1, <2>1, SubSeqProperties
  <2>. QED  BY <1>1, <1>2, <2>1, <2>2, HeadTailProperties
<1>. QED  BY <1>2, <1>3 DEF Conn

\* A connection that breaks keeps the registration in hand.
LEMMA TypeBreak ==
  ASSUME TypeOK, NEW c \in conns, Break(c)
  PROVE  TypeOK'
<1>1. c \in Conn
  BY ConnOf
<1>2. PICK n \in {k \in 0..Len(c.msgs) : c.reader = "registering" => k > 0} :
        conns' = (conns \ {c}) \cup {[c EXCEPT !.open = FALSE, !.msgs = SubSeq(@, 1, n)]}
  BY DEF Break
<1>3. conns' \subseteq Conn
  BY <1>1, <1>2, BrokenConn DEF TypeOK
<1>4. cmds' \subseteq Command
  BY DEF Break, TypeOK
<1>5. faults' \in [breaks : Nat, shots : Nat, keepalives : Nat]
  BY FaultsType DEF Break
<1>. QED
  BY <1>3, <1>4, <1>5 DEF TypeOK, Break, brokerVars, viewVars, ledgerVars

\* The first state is of the type.
LEMMA TypeInit ==
  ASSUME Init, EscortAssumption
  PROVE  TypeOK
<1>1. /\ Unknown \in View /\ Idle \in Dispatch
      /\ \A d \in Drone : [estado |-> "DISPONIVEL", occ |-> "", stamp |-> 0] \in Info
  BY DEF Unknown, View, Dispatch, Info, Estado
<1>2. chain \in Seq(Tx)
  BY EmptySeq DEF Init
<1>3. IsFiniteSet(pending)
  BY FS_EmptySet DEF Init
<1>4. ASSUME NEW d \in Drone
      PROVE  0 < Len(Addrs[d])
  <2>1. Addrs[d] \in Seq(Broker) /\ Addrs[d] # <<>>
    BY DEF EscortAssumption
  <2>. QED  BY <2>1, LenProperties
<1>. QED  BY <1>1, <1>2, <1>3, <1>4 DEF Init, TypeOK

\* The steps of brokers, and those of connections and drones, keep the types.
LEMMA TypeStep ==
  ASSUME TypeOK, EscortAssumption, [Next]_vars
  PROVE  TypeOK'
<1>1. ASSUME NEW b \in Broker, NEW o \in Occurrence,
             ProcessarLeitura(b, o) \/ PagarOcorrencia(b, o)
      PROVE  TypeOK'
  BY <1>1, TypeReading, TypePagar
<1>2. ASSUME NEW tx \in pending, CommitTx(tx)
      PROVE  TypeOK'
  BY <1>2, TypeCommit
<1>3. ASSUME NEW b \in Broker,
             \/ ProcessarTransacoesBloco(b) \/ AdoptChain(b)
             \/ Peek(b) \/ CheckAttended(b) \/ RemoveAttended(b)
             \/ \E d \in Drone : ChooseDrone(b, d)
             \/ NoDrone(b) \/ Pop(b) \/ MarcarOcupado(b)
             \/ SendCommand(b) \/ SendFails(b) \/ AnnounceDispatch(b)
      PROVE  TypeOK'
  BY <1>3, TypeBloco, TypeAdopt, TypePeek, TypeCheck, TypeRemoveAttended,
     TypeChoose, TypeNoDrone, TypePop, TypeMarcar, TypeSend, TypeSendFails, TypeAnnounce
<1>4. ASSUME NEW m \in net,
             \/ ReceiveRequisicao(m) \/ ReceiveDespachado(m) \/ ReceiveSincDrone(m)
             \/ ReceiveDronePerdido(m) \/ ReceiveConcluida(m)
      PROVE  TypeOK'
  BY <1>4, TypeRequisicao, TypeDespachado, TypeSincDrone, TypeDronePerdido, TypeConcluida
<1>5. ASSUME NEW c \in conns,
             \/ IdentificarConexao(c) \/ RegistrarDroneLocal(c) \/ RejectConnection(c)
             \/ ReceiveKeepalive(c) \/ ReceiveEstado(c) \/ OldConnectionEnds(c)
             \/ ConnectionEnds(c) \/ LoseDrone(c) \/ EnviarRegistro(c)
             \/ SendKeepalive(c) \/ Break(c)
      PROVE  TypeOK'
  BY <1>5, TypeIdentificar, TypeRegistrar, TypeReject, TypeKeepalive, TypeEstado,
     TypeOldEnds, TypeEnds, TypeLose, TypeEnviarRegistro, TypeSendKeepalive, TypeBreak
<1>6. ASSUME NEW k \in cmds, IniciarMissao(k)
      PROVE  TypeOK'
  BY <1>6, TypeIniciar
<1>9. ASSUME NEW a \in avisos, NotificarEstado(a)
      PROVE  TypeOK'
  BY <1>9, TypeNotificar
<1>7. ASSUME NEW d \in Drone,
             \/ Dial(d) \/ Arrive(d) \/ Finish(d) \/ Return(d)
             \/ ShotDown(d) \/ Exit(d) \/ Reboot(d)
      PROVE  TypeOK'
  <2>1. CASE Arrive(d) \/ Finish(d) \/ Return(d)
    <3>1. faults' \in [breaks : Nat, shots : Nat, keepalives : Nat]
      BY <2>1 DEF TypeOK, Arrive, Finish, Return
    <3>. QED  BY <2>1, <3>1, TypeFly DEF Arrive, Finish, Return
  <2>. QED  BY <1>7, <2>1, TypeDial, TypeShotDown, TypeExit, TypeReboot
<1>8. CASE UNCHANGED vars
  BY <1>8 DEF vars, brokerVars, viewVars, ledgerVars, droneVars, TypeOK
<1>. QED
  BY <1>1, <1>2, <1>3, <1>4, <1>5, <1>6, <1>7, <1>8, <1>9 DEF Next

(***************************************************************************)
(* Every variable keeps to its type, for any number of brokers, drones and *)
(* occurrences; a reader that registers a drone holds its registration,    *)
(* and a drone in the air has an occurrence.                               *)
(***************************************************************************)
THEOREM TypeCorrect == Spec => []TypeOK
<1>1. Init => TypeOK
  BY TypeInit, EscortAssumption
<1>2. TypeOK /\ [Next]_vars => TypeOK'
  BY TypeStep, EscortAssumption
<1>. QED  BY <1>1, <1>2, PTL DEF Spec
=============================================================================
