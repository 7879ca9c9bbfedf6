------------------------------- MODULE Escort -------------------------------
(***************************************************************************)
(* Occurrences, their payment and the dispatch of drones                   *)
(* (cmd/broker/broker_main.go) with the drones themselves                  *)
(* (cmd/drone/drone_main.go).                                              *)
(*                                                                         *)
(* The consensus appears as one chain of transactions, of which every      *)
(* broker has seen a prefix: a broker processes the block of a proposal or *)
(* a COMMIT, and takes the blocks of an adopted chain unprocessed.         *)
(* Connections between brokers stay up.  A connection of a drone is a      *)
(* record with the messages the broker has still to read from it.          *)
(***************************************************************************)
EXTENDS Integers, FiniteSets, SequencesExt

CONSTANTS
  Broker,
  Drone,
  Occurrence,
  Unowned,        \* occurrences of vessels that no broker has registered
  Responsible,    \* Responsible[o]: brokers that find themselves in charge
  Rank,           \* Rank[o]: place of o in the order of the queue
  Addrs,          \* Addrs[d]: the brokers d connects to, in turn
  Punctual,       \* the seconds that drones sleep suffice for brokers
  MaxPayments,    \* bound on the payments of an occurrence
  MaxAdoptions,   \* bound on the adopted chains
  MaxDials,       \* bound on the connections a drone makes
  MaxBreaks,      \* bound on the connections that break
  MaxShots,       \* bound on the drones shot down
  MaxKeepalives   \* bound on the keepalives that drones send

EscortAssumption ==
  /\ Unowned \subseteq Occurrence
  /\ Responsible \in [Occurrence -> SUBSET Broker]
  /\ Rank \in [Occurrence -> Nat]
  /\ Addrs \in [Drone -> Seq(Broker) \ {<<>>}]
  /\ {MaxPayments, MaxAdoptions, MaxDials, MaxBreaks, MaxShots, MaxKeepalives}
       \subseteq Nat
  /\ Punctual \in BOOLEAN
  /\ "" \notin Occurrence

ASSUME EscortAssumption

VARIABLES
  readings,    \* <<b, o>>: sensor datagrams about o that b has to read
  status,      \* status[b][o]: ocorrencias[o].Status in b, "" when absent
  atendidos,   \* atendidos[b]: the occurrences b takes for served
  fila,        \* fila[b]: the occurrences in b's queue
  drones,      \* drones[b][d]: what b knows of d
  dronesLocais,\* dronesLocais[b][d]: the connection of d to b, 0 for none
  dispatch,    \* dispatch[b]: where b's tentarDespachar is
  net,         \* messages between brokers in flight
  pending,     \* transactions in mempools
  chain,       \* the transactions committed
  height,      \* height[b]: how many of them are in b's chain
  adoptions,   \* chains adopted so far
  voo,         \* voo[d]: the state of the drone itself
  avisos,      \* states that a mission has entered and has yet to send
  conns,       \* connections of drones
  cmds,        \* commands on their way to drones
  dials,       \* dials[d]: connections d has made
  idx,         \* idx[d]: the place in Addrs[d] that d dials next, from 0
  relogio,     \* relogio[d]: the last instant anyone wrote in d's UltimaVez
  faults       \* breaks, shots and keepalives so far

brokerVars == <<readings, status, atendidos, fila, dispatch>>
viewVars   == <<drones, dronesLocais>>
ledgerVars == <<pending, chain, height, adoptions>>
droneVars  == <<voo, avisos, cmds, dials, idx, faults>>
vars == <<brokerVars, viewVars, net, ledgerVars, droneVars, conns, relogio>>

-----------------------------------------------------------------------------
Estado == {"DISPONIVEL", "DESPACHADO", "EM_MISSAO", "RETORNANDO", "ABATIDO"}

\* An InfoDrone: its OcorrenciaID ("" for none) and UltimaVez.
Info == [estado : Estado, occ : Occurrence \cup {""}, stamp : Nat]

\* What a broker knows of a drone, and a drone not in its drones map.
View == [estado : Estado \cup {""}, occ : Occurrence \cup {""}, stamp : Nat]

Unknown == [estado |-> "", occ |-> "", stamp |-> 0]

Idle == [step |-> "idle"]

Tx == [type : {"TRANSFER"}, occ : Occurrence, nonce : Nat]
      \cup [type : {"MISSION_LOG"}, occ : Occurrence, drone : Drone, nonce : Nat]

Dispatch ==
  {Idle}
  \cup [step : {"peeked", "attended", "waiting"}, occ : Occurrence]
  \cup [step : {"chosen", "popped", "marked", "sent"}, occ : Occurrence,
        drone : Drone, conn : Nat]

BrokerMsg ==
  [tipo : {"REQUISICAO_DRONE"}, occ : Occurrence,
   status : {"ABERTA", "AGUARDANDO_PAGAMENTO"}]
  \cup [tipo : {"DRONE_DESPACHADO"}, occ : Occurrence, drone : Drone, info : View]
  \cup [tipo : {"SINC_DRONE"}, drone : Drone, info : View]
  \cup [tipo : {"DRONE_PERDIDO"}, drone : Drone, conn : Nat]
  \cup [tipo : {"MISSAO_CONCLUIDA"}, occ : Occurrence]

DroneMsg ==
  [tipo : {"REGISTRO"}, info : Info]
  \cup [tipo : {"ESTADO"}, estado : Estado, occ : Occurrence]
  \cup [tipo : {"KEEPALIVE"}]

\* Where the goroutine of the broker is that reads a connection.
Reader == {"identifying", "registering", "reading", "ending"}

\* A reader that registers a drone has a registration in hand.
Conn ==
  {c \in [drone : Drone, conn : Nat, broker : Broker, open : BOOLEAN,
          enrolled : BOOLEAN, reader : Reader, msgs : Seq(DroneMsg)] :
     c.reader = "registering"
       => c.msgs # <<>> /\ Head(c.msgs).tipo = "REGISTRO"}

Command == [drone : Drone, conn : Nat, occ : Occurrence]

\* A notificarEstado that a mission of the drone has come to.
Aviso == [drone : Drone, estado : Estado, occ : Occurrence]

\* The payments of o made so far.
Payments(o) ==
  {tx \in pending \cup ToSet(chain) : tx.type = "TRANSFER" /\ tx.occ = o}

Paid(o) == \E i \in DOMAIN chain : chain[i].type = "TRANSFER" /\ chain[i].occ = o

\* A drone may fly for o.
Entitled(o) == o \in Unowned \/ Paid(o)

\* The messages of a broadcastVizinhos of b.
ToNeighbours(b, content) == {[to |-> c, msg |-> content] : c \in Broker \ {b}}

Heads(b) == {o \in fila[b] : \A p \in fila[b] : Rank[o] <= Rank[p]}

(***************************************************************************)
(* tratarDronePerdido of b for a drone on a mission for occ ("" for none): *)
(* occ is no longer served, and it is queued if b still has it.            *)
(***************************************************************************)

\* Mutant: the occurrence stays marked as served.
StillAttended(b, occ) == atendidos

Unattended(b, occ) == [atendidos EXCEPT ![b] = @ \ {occ}]

\* Mutant: queued without a look at ocorrencias.
RequeuedUnseen(b, occ) == [fila EXCEPT ![b] = @ \cup {occ}]

Requeued(b, occ) ==
  [fila EXCEPT ![b] = IF occ # "" /\ status[b][occ] # "" THEN @ \cup {occ} ELSE @]

Init ==
  /\ readings = {r \in Broker \X Occurrence : r[1] \in Responsible[r[2]]}
  /\ status = [b \in Broker |-> [o \in Occurrence |-> ""]]
  /\ atendidos = [b \in Broker |-> {}]
  /\ fila = [b \in Broker |-> {}]
  /\ drones = [b \in Broker |-> [d \in Drone |-> Unknown]]
  /\ dronesLocais = [b \in Broker |-> [d \in Drone |-> 0]]
  /\ dispatch = [b \in Broker |-> Idle]
  /\ net = {}
  /\ pending = {}
  /\ chain = <<>>
  /\ height = [b \in Broker |-> 0]
  /\ adoptions = 0
  /\ voo = [d \in Drone |-> [estado |-> "DISPONIVEL", occ |-> "", stamp |-> 0]]
  /\ avisos = {}
  /\ conns = {}
  /\ cmds = {}
  /\ dials = [d \in Drone |-> 0]
  /\ idx = [d \in Drone |-> 0]
  /\ relogio = [d \in Drone |-> 0]
  /\ faults = [breaks |-> 0, shots |-> 0, keepalives |-> 0]

-----------------------------------------------------------------------------
(***************************************************************************)
(* Occurrences and payments.                                               *)
(***************************************************************************)

\* processarLeitura in a broker that is responsible for the sector.
ProcessarLeitura(b, o) ==
  LET st == IF o \in Unowned THEN "ABERTA" ELSE "AGUARDANDO_PAGAMENTO"
  IN  /\ <<b, o>> \in readings
      /\ readings' = readings \ {<<b, o>>}
      /\ status' = [status EXCEPT ![b][o] = st]
      /\ fila' = IF o \in Unowned THEN [fila EXCEPT ![b] = @ \cup {o}] ELSE fila
      /\ net' = net \cup ToNeighbours(b, [tipo |-> "REQUISICAO_DRONE",
                                          occ |-> o, status |-> st])
      /\ UNCHANGED <<atendidos, dispatch, viewVars, ledgerVars, droneVars,
                     conns, relogio>>

\* Mutant: the occurrence of a vessel is queued before it is paid.
QueuedOnRequest(b, o) == [fila EXCEPT ![b] = @ \cup {o}]

\* A receiver queues occurrences without a vessel, and processarLeitura lets
\* none of them through.
QueueAfterRequest(b, o) == fila

ReceiveRequisicao(m) ==
  /\ m.msg.tipo = "REQUISICAO_DRONE"
  /\ net' = net \ {m}
  /\ status' = [status EXCEPT ![m.to][m.msg.occ] = m.msg.status]
  /\ fila' = QueueAfterRequest(m.to, m.msg.occ)
  /\ UNCHANGED <<readings, atendidos, dispatch, viewVars, ledgerVars,
                 droneVars, conns, relogio>>

\* pagarOcorrencia in b: of its three transactions only the TRANSFER passes
\* the signature check of AddTxToMempool.  The status is not looked at.
PagarOcorrencia(b, o) ==
  LET n == Cardinality(Payments(o))
  IN  /\ status[b][o] # "" /\ o \notin Unowned
      /\ n < MaxPayments
      /\ pending' = pending \cup {[type |-> "TRANSFER", occ |-> o, nonce |-> n]}
      /\ UNCHANGED <<brokerVars, viewVars, net, chain, height, adoptions,
                     droneVars, conns, relogio>>

\* A block with tx is committed.
CommitTx(tx) ==
  /\ tx \in pending
  /\ pending' = pending \ {tx}
  /\ chain' = Append(chain, tx)
  /\ UNCHANGED <<brokerVars, viewVars, net, height, adoptions, droneVars,
                 conns, relogio>>

\* The next block that b appends in handleBlockVote or handleBlockCommit: a
\* payment queues its occurrence, if b has it.
ProcessarTransacoesBloco(b) ==
  LET tx == chain[height[b] + 1]
      o  == tx.occ
  IN  /\ height[b] < Len(chain)
      /\ height' = [height EXCEPT ![b] = @ + 1]
      /\ IF tx.type = "TRANSFER" /\ status[b][o] # ""
         THEN /\ status' = [status EXCEPT ![b][o] = "PAGO"]
              /\ atendidos' = [atendidos EXCEPT ![b] = @ \ {o}]
              /\ fila' = [fila EXCEPT ![b] = @ \cup {o}]
         ELSE UNCHANGED <<status, atendidos, fila>>
      /\ UNCHANGED <<readings, dispatch, viewVars, net, pending, chain,
                     adoptions, droneVars, conns, relogio>>

\* ReplaceChain with a longer chain, which is not processed.
AdoptChain(b) ==
  /\ adoptions < MaxAdoptions
  /\ height[b] < Len(chain)
  /\ adoptions' = adoptions + 1
  /\ \E h \in (height[b] + 1)..Len(chain) : height' = [height EXCEPT ![b] = h]
  /\ UNCHANGED <<brokerVars, viewVars, net, pending, chain, droneVars, conns,
                 relogio>>

-----------------------------------------------------------------------------
(***************************************************************************)
(* tentarDespachar, one step per critical section.                         *)
(***************************************************************************)

\* The head of the queue is read; it stays there.
Peek(b) ==
  /\ dispatch[b] = Idle
  /\ \E o \in Heads(b) :
       dispatch' = [dispatch EXCEPT ![b] = [step |-> "peeked", occ |-> o]]
  /\ UNCHANGED <<readings, status, atendidos, fila, viewVars, net, ledgerVars,
                 droneVars, conns, relogio>>

\* Has it been served?
CheckAttended(b) ==
  LET o == dispatch[b].occ
  IN  /\ dispatch[b].step = "peeked"
      /\ dispatch' = [dispatch EXCEPT ![b].step = IF o \in atendidos[b]
                                                  THEN "attended" ELSE "waiting"]
      /\ UNCHANGED <<readings, status, atendidos, fila, viewVars, net,
                     ledgerVars, droneVars, conns, relogio>>

\* It is removed, wherever it is by now and even if its drone has been lost.
RemoveAttended(b) ==
  /\ dispatch[b].step = "attended"
  /\ fila' = [fila EXCEPT ![b] = @ \ {dispatch[b].occ}]
  /\ dispatch' = [dispatch EXCEPT ![b] = Idle]
  /\ UNCHANGED <<readings, status, atendidos, viewVars, net, ledgerVars,
                 droneVars, conns, relogio>>

Available(b, d) == dronesLocais[b][d] # 0 /\ drones[b][d].estado = "DISPONIVEL"

\* It has not, and a drone on a connection of b is available.
ChooseDrone(b, d) ==
  LET o == dispatch[b].occ
  IN  /\ dispatch[b].step = "waiting"
      /\ Available(b, d)
      /\ dispatch' = [dispatch EXCEPT ![b] = [step |-> "chosen", occ |-> o,
                                              drone |-> d,
                                              conn |-> dronesLocais[b][d]]]
      /\ UNCHANGED <<readings, status, atendidos, fila, viewVars, net,
                     ledgerVars, droneVars, conns, relogio>>

\* No drone is: the occurrence waits for another attempt.
NoDrone(b) ==
  /\ dispatch[b].step = "waiting"
  /\ \A d \in Drone : ~ Available(b, d)
  /\ dispatch' = [dispatch EXCEPT ![b] = Idle]
  /\ UNCHANGED <<readings, status, atendidos, fila, viewVars, net, ledgerVars,
                 droneVars, conns, relogio>>

\* Desenfileirar takes whatever is the head by now.
Pop(b) ==
  /\ dispatch[b].step = "chosen"
  /\ IF fila[b] = {} THEN UNCHANGED fila
     ELSE \E o \in Heads(b) : fila' = [fila EXCEPT ![b] = @ \ {o}]
  /\ dispatch' = [dispatch EXCEPT ![b].step = "popped"]
  /\ UNCHANGED <<readings, status, atendidos, viewVars, net, ledgerVars,
                 droneVars, conns, relogio>>

\* What marcarOcupado, DESPACHADO notices and the drone itself write.
Busy(d, estado, o) == [estado |-> estado, occ |-> o, stamp |-> relogio[d] + 1]

MarcarOcupado(b) ==
  LET p == dispatch[b]
  IN  /\ p.step = "popped"
      /\ drones' = [drones EXCEPT ![b][p.drone] =
                      Busy(p.drone, "DESPACHADO", p.occ)]
      /\ relogio' = [relogio EXCEPT ![p.drone] = @ + 1]
      /\ dispatch' = [dispatch EXCEPT ![b].step = "marked"]
      /\ UNCHANGED <<readings, status, atendidos, fila, dronesLocais, net,
                     ledgerVars, droneVars, conns>>

\* The connection that b chose, if its reader in b has not closed it.
Chosen(b) == {c \in conns : /\ c.broker = b /\ c.drone = dispatch[b].drone
                            /\ c.conn = dispatch[b].conn}

\* The command is written; on a connection that is broken it is lost.
SendCommand(b) ==
  LET p == dispatch[b]
  IN  /\ p.step = "marked"
      /\ Chosen(b) # {}
      /\ cmds' = IF \E c \in Chosen(b) : c.open
                 THEN cmds \cup {[drone |-> p.drone, conn |-> p.conn,
                                  occ |-> p.occ]}
                 ELSE cmds
      /\ dispatch' = [dispatch EXCEPT ![b].step = "sent"]
      /\ UNCHANGED <<readings, status, atendidos, fila, viewVars, net,
                     ledgerVars, voo, avisos, dials, idx, faults, conns, relogio>>

\* The write fails: the occurrence is queued again, the drone stays marked.
SendFails(b) ==
  LET p == dispatch[b]
  IN  /\ p.step = "marked"
      /\ \A c \in Chosen(b) : ~ c.open
      /\ atendidos' = [atendidos EXCEPT ![b] = @ \ {p.occ}]
      /\ fila' = [fila EXCEPT ![b] = @ \cup {p.occ}]
      /\ dispatch' = [dispatch EXCEPT ![b] = Idle]
      /\ UNCHANGED <<readings, status, viewVars, net, ledgerVars, droneVars,
                     conns, relogio>>

\* The command was written: the occurrence is served, and all are told.
AnnounceDispatch(b) ==
  LET p == dispatch[b]
  IN  /\ p.step = "sent"
      /\ atendidos' = [atendidos EXCEPT ![b] = @ \cup {p.occ}]
      /\ net' = net \cup ToNeighbours(b, [tipo |-> "DRONE_DESPACHADO",
                          occ |-> p.occ, drone |-> p.drone,
                          info |-> drones[b][p.drone]])
      /\ dispatch' = [dispatch EXCEPT ![b] = Idle]
      /\ UNCHANGED <<readings, status, fila, viewVars, ledgerVars, droneVars,
                     conns, relogio>>

-----------------------------------------------------------------------------
(***************************************************************************)
(* The messages about drones between brokers (processarMensagemBroker).    *)
(***************************************************************************)
ReceiveDespachado(m) ==
  /\ m.msg.tipo = "DRONE_DESPACHADO"
  /\ net' = net \ {m}
  /\ atendidos' = [atendidos EXCEPT ![m.to] = @ \cup {m.msg.occ}]
  /\ fila' = [fila EXCEPT ![m.to] = @ \ {m.msg.occ}]
  /\ drones' = [drones EXCEPT ![m.to][m.msg.drone] = m.msg.info]
  /\ UNCHANGED <<readings, status, dispatch, dronesLocais, ledgerVars,
                 droneVars, conns, relogio>>

\* A view of a drone that is newer than one's own replaces it.
ReceiveSincDrone(m) ==
  LET known == drones[m.to][m.msg.drone]
  IN  /\ m.msg.tipo = "SINC_DRONE"
      /\ net' = net \ {m}
      /\ drones' = IF known = Unknown \/ m.msg.info.stamp > known.stamp
                   THEN [drones EXCEPT ![m.to][m.msg.drone] = m.msg.info]
                   ELSE drones
      /\ UNCHANGED <<brokerVars, dronesLocais, ledgerVars, droneVars, conns,
                     relogio>>

\* The drone is taken for shot down, also by the broker it has moved to.
ReceiveDronePerdido(m) ==
  LET d == m.msg.drone
  IN  /\ m.msg.tipo = "DRONE_PERDIDO"
      /\ net' = net \ {m}
      /\ IF drones[m.to][d] = Unknown
         THEN UNCHANGED <<atendidos, fila, drones, relogio>>
         ELSE /\ drones' = [drones EXCEPT ![m.to][d].estado = "ABATIDO",
                                          ![m.to][d].stamp = relogio[d] + 1]
              /\ relogio' = [relogio EXCEPT ![d] = @ + 1]
              /\ atendidos' = Unattended(m.to, drones[m.to][d].occ)
              /\ fila' = Requeued(m.to, drones[m.to][d].occ)
      /\ UNCHANGED <<readings, status, dispatch, dronesLocais, ledgerVars,
                     droneVars, conns>>

ReceiveConcluida(m) ==
  /\ m.msg.tipo = "MISSAO_CONCLUIDA"
  /\ net' = net \ {m}
  /\ status' = [status EXCEPT ![m.to][m.msg.occ] = ""]
  /\ UNCHANGED <<readings, atendidos, fila, dispatch, viewVars, ledgerVars,
                 droneVars, conns, relogio>>

-----------------------------------------------------------------------------
(***************************************************************************)
(* What a broker reads from the connection of a drone.                     *)
(***************************************************************************)

\* c after its first message is read.
Rest(c) == [c EXCEPT !.msgs = Tail(@), !.reader = "reading"]

\* identificarConexao: the first line is a registration, and
\* registrarDroneLocal makes the connection that of the drone.
IdentificarConexao(c) ==
  /\ c.reader = "identifying" /\ c.msgs # <<>> /\ Head(c.msgs).tipo = "REGISTRO"
  /\ conns' = (conns \ {c}) \cup {[c EXCEPT !.reader = "registering"]}
  /\ dronesLocais' = [dronesLocais EXCEPT ![c.broker][c.drone] = c.conn]
  /\ UNCHANGED <<brokerVars, drones, net, ledgerVars, droneVars, relogio>>

\* The rest of registrarDroneLocal: what the drone says of itself is what b
\* knows of it, with the UltimaVez of the drone.
RegistrarDroneLocal(c) ==
  LET b == c.broker
      d == c.drone
  IN  /\ c.reader = "registering"
      /\ conns' = (conns \ {c}) \cup {Rest(c)}
      /\ drones' = [drones EXCEPT ![b][d] = Head(c.msgs).info]
      /\ net' = net \cup ToNeighbours(b, [tipo |-> "SINC_DRONE", drone |-> d,
                                          info |-> Head(c.msgs).info])
      /\ UNCHANGED <<brokerVars, dronesLocais, ledgerVars, droneVars, relogio>>

\* Any other first line, or none within five seconds, closes the connection.
RejectConnection(c) ==
  /\ c.reader = "identifying"
  /\ IF c.msgs = <<>> THEN c.open => ~ Punctual ELSE Head(c.msgs).tipo # "REGISTRO"
  /\ conns' = conns \ {c}
  /\ cmds' = {k \in cmds : k.drone # c.drone \/ k.conn # c.conn}
  /\ UNCHANGED <<brokerVars, viewVars, net, ledgerVars, voo, avisos, dials, idx,
                 faults, relogio>>

\* A keepalive renews UltimaVez and tells the neighbours b's own view.
ReceiveKeepalive(c) ==
  LET b == c.broker
      d == c.drone
      view == [drones[b][d] EXCEPT !.stamp = relogio[d] + 1]
  IN  /\ c.reader = "reading" /\ c.msgs # <<>> /\ Head(c.msgs).tipo = "KEEPALIVE"
      /\ conns' = (conns \ {c}) \cup {Rest(c)}
      /\ drones' = [drones EXCEPT ![b][d] = view]
      /\ relogio' = [relogio EXCEPT ![d] = @ + 1]
      /\ net' = net \cup ToNeighbours(b, [tipo |-> "SINC_DRONE", drone |-> d,
                                          info |-> view])
      /\ UNCHANGED <<brokerVars, dronesLocais, ledgerVars, droneVars>>

\* Mutant: a drone on a mission keeps its state.
ReportedIfIdle(b, d, msg) ==
  [drones[b][d] EXCEPT !.estado = IF drones[b][d].occ = "" THEN msg.estado ELSE @,
                       !.stamp = relogio[d] + 1]

\* What processarMensagemDrone makes of b's view when d reports a state.
Reported(b, d, msg) ==
  [estado |-> msg.estado,
   occ    |-> CASE msg.estado = "DISPONIVEL" -> ""
                [] msg.estado \in {"DESPACHADO", "EM_MISSAO"} -> msg.occ
                [] OTHER -> drones[b][d].occ,
   stamp  |-> relogio[d] + 1]

\* The laudo that b puts in its mempool when a mission has ended.
MissionLog(b, d, msg) ==
  IF msg.estado = "DISPONIVEL" /\ status[b][msg.occ] # ""
  THEN {[type |-> "MISSION_LOG", occ |-> msg.occ, drone |-> d,
         nonce |-> relogio[d] + 1]}
  ELSE {}

ReceiveEstado(c) ==
  LET b == c.broker
      d == c.drone
      msg == Head(c.msgs)
      view == Reported(b, d, msg)
  IN  /\ c.reader = "reading" /\ c.msgs # <<>> /\ msg.tipo = "ESTADO"
      /\ conns' = (conns \ {c}) \cup {Rest(c)}
      /\ drones' = [drones EXCEPT ![b][d] = view]
      /\ relogio' = [relogio EXCEPT ![d] = @ + 1]
      /\ net' = net
           \cup ToNeighbours(b, [tipo |-> "SINC_DRONE", drone |-> d,
                                 info |-> view])
           \cup (IF msg.estado = "DISPONIVEL"
                 THEN ToNeighbours(b, [tipo |-> "MISSAO_CONCLUIDA",
                                       occ |-> msg.occ])
                 ELSE {})
      /\ pending' = pending \cup MissionLog(b, d, msg)
      /\ IF msg.estado = "ABATIDO"
         THEN /\ atendidos' = Unattended(b, view.occ)
              /\ fila' = Requeued(b, view.occ)
         ELSE UNCHANGED <<atendidos, fila>>
      /\ UNCHANGED <<readings, status, dispatch, dronesLocais, chain, height,
                     adoptions, droneVars>>

\* The reader reaches the end of a connection that is no longer the drone's.
OldConnectionEnds(c) ==
  /\ c.reader = "reading" /\ ~ c.open /\ c.msgs = <<>>
  /\ dronesLocais[c.broker][c.drone] # c.conn
  /\ conns' = conns \ {c}
  /\ UNCHANGED <<brokerVars, viewVars, net, ledgerVars, droneVars, relogio>>

\* It reaches the end of the drone's connection.
ConnectionEnds(c) ==
  /\ c.reader = "reading" /\ ~ c.open /\ c.msgs = <<>>
  /\ dronesLocais[c.broker][c.drone] = c.conn
  /\ dronesLocais' = [dronesLocais EXCEPT ![c.broker][c.drone] = 0]
  /\ conns' = (conns \ {c}) \cup {[c EXCEPT !.reader = "ending"]}
  /\ UNCHANGED <<brokerVars, drones, net, ledgerVars, droneVars, relogio>>

\* Under another lock, the drone counts as shot down, even if it has
\* registered on a new connection in between.
LoseDrone(c) ==
  LET b == c.broker
      d == c.drone
  IN  /\ c.reader = "ending"
      /\ conns' = conns \ {c}
      /\ drones' = [drones EXCEPT ![b][d].estado = "ABATIDO",
                                  ![b][d].stamp = relogio[d] + 1]
      /\ relogio' = [relogio EXCEPT ![d] = @ + 1]
      /\ net' = net \cup ToNeighbours(b, [tipo |-> "DRONE_PERDIDO",
                                          drone |-> d, conn |-> c.conn])
      /\ atendidos' = Unattended(b, drones[b][d].occ)
      /\ fila' = Requeued(b, drones[b][d].occ)
      /\ UNCHANGED <<readings, status, dispatch, dronesLocais, ledgerVars,
                     droneVars>>

-----------------------------------------------------------------------------
(***************************************************************************)
(* The drone.                                                              *)
(***************************************************************************)

\* Its process: one that is shot down has exited when it has said so.
Running(d) ==
  \/ voo[d].estado # "ABATIDO"
  \/ \E a \in avisos : a.drone = d /\ a.estado = "ABATIDO"

\* The connections after d has sent msg, if it has one.
Sent(d, msg) ==
  {IF c.drone = d /\ c.open THEN [c EXCEPT !.msgs = Append(@, msg)] ELSE c :
     c \in conns}

\* loopConexao: the next broker of the list, round and round.
Dial(d) ==
  /\ Running(d)
  /\ \A c \in conns : c.drone = d => ~ c.open
  /\ dials[d] < MaxDials
  /\ dials' = [dials EXCEPT ![d] = @ + 1]
  /\ idx' = [idx EXCEPT ![d] = (@ + 1) % Len(Addrs[d])]
  /\ conns' = conns \cup {[drone |-> d, conn |-> dials[d] + 1,
                           broker |-> Addrs[d][idx[d] + 1],
                           open |-> TRUE, enrolled |-> FALSE,
                           reader |-> "identifying", msgs |-> <<>>]}
  /\ UNCHANGED <<brokerVars, viewVars, net, ledgerVars, voo, avisos, cmds,
                 faults, relogio>>

\* enviarRegistro; a mission under way may have used the connection before.
EnviarRegistro(c) ==
  /\ c.open /\ ~ c.enrolled
  /\ conns' = (conns \ {c}) \cup
                {[c EXCEPT !.enrolled = TRUE,
                           !.msgs = Append(@, [tipo |-> "REGISTRO",
                                               info |-> voo[c.drone]])]}
  /\ UNCHANGED <<brokerVars, viewVars, net, ledgerVars, droneVars, relogio>>

SendKeepalive(c) ==
  /\ c.open /\ c.enrolled
  /\ faults.keepalives < MaxKeepalives
  /\ faults' = [faults EXCEPT !.keepalives = @ + 1]
  /\ conns' = Sent(c.drone, [tipo |-> "KEEPALIVE"])
  /\ UNCHANGED <<brokerVars, viewVars, net, ledgerVars, voo, avisos, cmds,
                 dials, idx, relogio>>

\* d has entered a state of its mission for o, and has yet to send it.
ToNotify(d, estado, o) ==
  avisos' = avisos \cup {[drone |-> d, estado |-> estado, occ |-> o]}

\* iniciarMissao: a drone that is not available ignores the command.
IniciarMissao(k) ==
  LET d == k.drone
  IN  /\ k \in cmds
      /\ cmds' = cmds \ {k}
      /\ IF voo[d].estado = "DISPONIVEL"
         THEN /\ voo' = [voo EXCEPT ![d] = Busy(d, "DESPACHADO", k.occ)]
              /\ relogio' = [relogio EXCEPT ![d] = @ + 1]
              /\ ToNotify(d, "DESPACHADO", k.occ)
         ELSE UNCHANGED <<voo, relogio, avisos>>
      /\ UNCHANGED <<brokerVars, viewVars, net, ledgerVars, dials, idx, faults,
                     conns>>

\* notificarEstado, on the connection of the moment, if there is one.  A
\* mission that has ended may be overtaken by the next one.
NotificarEstado(a) ==
  /\ a.estado # "ABATIDO"
  /\ avisos' = avisos \ {a}
  /\ conns' = Sent(a.drone, [tipo |-> "ESTADO", estado |-> a.estado,
                             occ |-> a.occ])
  /\ UNCHANGED <<brokerVars, viewVars, net, ledgerVars, voo, cmds, dials, idx,
                 faults, relogio>>

(***************************************************************************)
(* Seconds of sleep in the drone against steps of a broker.  A punctual    *)
(* broker leaves tentarDespachar before the drone has flown for the two    *)
(* seconds after which it may be shot down, and reads a connection that    *)
(* the drone's exit has closed before the drone's container has restarted. *)
(***************************************************************************)
TakeoffKnown(d) ==
  Punctual => \A b \in Broker : dispatch[b].step = "sent" => dispatch[b].drone # d

ExitKnown(d) == Punctual => \A c \in conns : c.drone # d

\* The mission goes on, once its last state has been sent: arrival, end of
\* the escort, return.
Fly(d, from, to) ==
  /\ voo[d].estado = from
  /\ [drone |-> d, estado |-> from, occ |-> voo[d].occ] \notin avisos
  /\ voo' = [voo EXCEPT ![d].estado = to,
                        ![d].occ = IF to = "DISPONIVEL" THEN "" ELSE @]
  /\ ToNotify(d, to, voo[d].occ)
  /\ UNCHANGED <<brokerVars, viewVars, net, ledgerVars, cmds, dials, idx, conns,
                 relogio>>

Arrive(d) ==
  TakeoffKnown(d) /\ Fly(d, "DESPACHADO", "EM_MISSAO") /\ UNCHANGED faults
Finish(d) == Fly(d, "EM_MISSAO", "RETORNANDO") /\ UNCHANGED faults
Return(d) == Fly(d, "RETORNANDO", "DISPONIVEL") /\ UNCHANGED faults

\* The drone is shot down on its way.
ShotDown(d) ==
  /\ faults.shots < MaxShots
  /\ TakeoffKnown(d)
  /\ Fly(d, "DESPACHADO", "ABATIDO")
  /\ faults' = [faults EXCEPT !.shots = @ + 1]

\* It says so, and its process exits.
Exit(d) ==
  \E a \in avisos :
    /\ a.drone = d /\ a.estado = "ABATIDO"
    /\ avisos' = {x \in avisos : x.drone # d}
    /\ conns' = {[c EXCEPT !.open = c.drone # d /\ @] :
                   c \in Sent(d, [tipo |-> "ESTADO", estado |-> "ABATIDO",
                                  occ |-> a.occ])}
    /\ cmds' = {k \in cmds : k.drone # d}
    /\ UNCHANGED <<brokerVars, viewVars, net, ledgerVars, voo, dials, idx,
                   faults, relogio>>

\* Its container is started again (restart: on-failure), with the first
\* broker of the list.
Reboot(d) ==
  /\ ~ Running(d)
  /\ ExitKnown(d)
  /\ voo' = [voo EXCEPT ![d] = [estado |-> "DISPONIVEL", occ |-> "",
                                stamp |-> relogio[d] + 1]]
  /\ relogio' = [relogio EXCEPT ![d] = @ + 1]
  /\ idx' = [idx EXCEPT ![d] = 0]
  /\ UNCHANGED <<brokerVars, viewVars, net, ledgerVars, avisos, cmds, dials,
                 faults, conns>>

\* A connection breaks; the broker has still to notice, and may read some
\* of what was sent; a registration under way is read.
Break(c) ==
  /\ c.open
  /\ faults.breaks < MaxBreaks
  /\ faults' = [faults EXCEPT !.breaks = @ + 1]
  /\ \E n \in {k \in 0..Len(c.msgs) : c.reader = "registering" => k > 0} :
       conns' = (conns \ {c})
                  \cup {[c EXCEPT !.open = FALSE, !.msgs = SubSeq(@, 1, n)]}
  /\ cmds' = {k \in cmds : k.drone # c.drone \/ k.conn # c.conn}
  /\ UNCHANGED <<brokerVars, viewVars, net, ledgerVars, voo, avisos, dials, idx,
                 relogio>>

-----------------------------------------------------------------------------
Next ==
  \/ \E b \in Broker, o \in Occurrence :
       \/ ProcessarLeitura(b, o)
       \/ PagarOcorrencia(b, o)
  \/ \E tx \in pending : CommitTx(tx)
  \/ \E b \in Broker :
       \/ ProcessarTransacoesBloco(b)
       \/ AdoptChain(b)
       \/ Peek(b)
       \/ CheckAttended(b)
       \/ RemoveAttended(b)
       \/ \E d \in Drone : ChooseDrone(b, d)
       \/ NoDrone(b)
       \/ Pop(b)
       \/ MarcarOcupado(b)
       \/ SendCommand(b)
       \/ SendFails(b)
       \/ AnnounceDispatch(b)
  \/ \E m \in net :
       \/ ReceiveRequisicao(m)
       \/ ReceiveDespachado(m)
       \/ ReceiveSincDrone(m)
       \/ ReceiveDronePerdido(m)
       \/ ReceiveConcluida(m)
  \/ \E c \in conns :
       \/ IdentificarConexao(c)
       \/ RegistrarDroneLocal(c)
       \/ RejectConnection(c)
       \/ ReceiveKeepalive(c)
       \/ ReceiveEstado(c)
       \/ OldConnectionEnds(c)
       \/ ConnectionEnds(c)
       \/ LoseDrone(c)
       \/ EnviarRegistro(c)
       \/ SendKeepalive(c)
       \/ Break(c)
  \/ \E k \in cmds : IniciarMissao(k)
  \/ \E a \in avisos : NotificarEstado(a)
  \/ \E d \in Drone :
       \/ Dial(d)
       \/ Arrive(d)
       \/ Finish(d)
       \/ Return(d)
       \/ ShotDown(d)
       \/ Exit(d)
       \/ Reboot(d)

Spec == Init /\ [][Next]_vars

-----------------------------------------------------------------------------
(***************************************************************************)
(* Invariants.                                                             *)
(***************************************************************************)

\* Every variable keeps to its type.
TypeOK ==
  /\ readings \subseteq Broker \X Occurrence
  /\ status \in [Broker -> [Occurrence -> {"", "ABERTA", "AGUARDANDO_PAGAMENTO",
                                           "PAGO"}]]
  /\ atendidos \in [Broker -> SUBSET Occurrence]
  /\ fila \in [Broker -> SUBSET Occurrence]
  /\ dispatch \in [Broker -> Dispatch]
  /\ drones \in [Broker -> [Drone -> View]]
  /\ dronesLocais \in [Broker -> [Drone -> Nat]]
  /\ net \subseteq [to : Broker, msg : BrokerMsg]
  /\ pending \subseteq Tx /\ IsFiniteSet(pending)
  /\ chain \in Seq(Tx)
  /\ height \in [Broker -> Nat]
  /\ adoptions \in Nat
  /\ voo \in [Drone -> Info]
  /\ \A d \in Drone :
       voo[d].estado \in {"DESPACHADO", "EM_MISSAO", "RETORNANDO"}
         => voo[d].occ \in Occurrence
  /\ avisos \subseteq Aviso
  /\ conns \subseteq Conn
  /\ cmds \subseteq Command
  /\ dials \in [Drone -> Nat]
  /\ idx \in [Drone -> Nat]
  /\ \A d \in Drone : idx[d] < Len(Addrs[d])
  /\ relogio \in [Drone -> Nat]
  /\ faults \in [breaks : Nat, shots : Nat, keepalives : Nat]

OnMission(d, o) ==
  voo[d].occ = o /\ voo[d].estado \in {"DESPACHADO", "EM_MISSAO", "RETORNANDO"}

(***************************************************************************)
(* A drone flies only for an occurrence whose payment is in the chain, or  *)
(* for one of a vessel nobody has registered: "the drone takes off only    *)
(* after the payment is confirmed on-chain".  Queues, dispatchers, lost    *)
(* drones, late messages and several brokers all pass occurrences on.      *)
(***************************************************************************)
PaidBeforeEscort ==
  \A d \in Drone, o \in Occurrence : OnMission(d, o) => Entitled(o)

(***************************************************************************)
(* In the chain, the log of a mission comes after a payment of its         *)
(* occurrence, although both are sent from different brokers and any       *)
(* mempool may be committed first.                                         *)
(***************************************************************************)
LogFollowsPayment ==
  \A i \in DOMAIN chain :
    chain[i].type = "MISSION_LOG" /\ chain[i].occ \notin Unowned
      => \E j \in 1..(i-1) : /\ chain[j].type = "TRANSFER"
                             /\ chain[j].occ = chain[i].occ

\* Views, messages between brokers and messages of drones that name no
\* occurrence but one that is entitled to a flight.
EntitledView(info) == info.occ # "" => Entitled(info.occ)

EntitledMsg(m) ==
  m.msg.tipo \in {"DRONE_DESPACHADO", "SINC_DRONE"} => EntitledView(m.msg.info)

EntitledReport(x) ==
  /\ x.tipo = "REGISTRO" => EntitledView(x.info)
  /\ x.tipo = "ESTADO" => Entitled(x.occ)

EntitledConn(c) == \A i \in DOMAIN c.msgs : EntitledReport(c.msgs[i])

QueuesEntitled   == \A b \in Broker : \A o \in fila[b] : Entitled(o)
DispatchEntitled == \A b \in Broker : dispatch[b] # Idle => Entitled(dispatch[b].occ)
ViewsEntitled    == \A b \in Broker, d \in Drone : EntitledView(drones[b][d])
FlightsEntitled  == \A d \in Drone : EntitledView(voo[d])
NoticesEntitled  == \A a \in avisos : Entitled(a.occ)
CommandsEntitled == \A k \in cmds : Entitled(k.occ)
MessagesEntitled == \A m \in net : EntitledMsg(m)
ReportsEntitled  == \A c \in conns : EntitledConn(c)
LogsEntitled     == \A tx \in pending : tx.type = "MISSION_LOG" => Entitled(tx.occ)

(***************************************************************************)
(* Why: wherever an occurrence is queued, dispatched, flown for, or named  *)
(* in a view, a command or a message that can lead to a flight or a log,   *)
(* it is entitled to one.  With TypeOK this is inductive.                  *)
(***************************************************************************)
OnlyEntitled ==
  /\ QueuesEntitled
  /\ DispatchEntitled
  /\ ViewsEntitled
  /\ FlightsEntitled
  /\ NoticesEntitled
  /\ CommandsEntitled
  /\ MessagesEntitled
  /\ ReportsEntitled
  /\ LogsEntitled

-----------------------------------------------------------------------------
(***************************************************************************)
(* What the repository's documents and comments say of the dispatch and    *)
(* its code does not do.                                                   *)
(***************************************************************************)

(***************************************************************************)
(* "Concurrency is handled so that two brokers do not dispatch drones for  *)
(* the same occurrence": two drones are never on one mission.              *)
(***************************************************************************)
OneDronePerOccurrence ==
  \A o \in Occurrence : \A d, e \in Drone :
    OnMission(d, o) /\ OnMission(e, o) => d = e

-----------------------------------------------------------------------------
(***************************************************************************)
(* Fairness.  Brokers and drones go on with what they have begun, what is  *)
(* sent on a live connection is delivered, a drone dials while it has no   *)
(* connection and is started again when it exits.  Nothing makes a vessel  *)
(* pay, a sensor report, a connection break or a chain be adopted.         *)
(***************************************************************************)
ReceiveMessage ==
  \E m \in net : \/ ReceiveRequisicao(m)
                 \/ ReceiveDespachado(m)
                 \/ ReceiveSincDrone(m)
                 \/ ReceiveDronePerdido(m)
                 \/ ReceiveConcluida(m)

ReadDrone(d) ==
  \E c \in conns : /\ c.drone = d
                   /\ \/ IdentificarConexao(c)
                      \/ RegistrarDroneLocal(c)
                      \/ RejectConnection(c)
                      \/ ReceiveKeepalive(c)
                      \/ ReceiveEstado(c)
                      \/ OldConnectionEnds(c)
                      \/ ConnectionEnds(c)
                      \/ LoseDrone(c)

DispatchFairness ==
  \A b \in Broker :
    /\ WF_vars(ProcessarTransacoesBloco(b))
    /\ WF_vars(Peek(b))
    /\ WF_vars(CheckAttended(b))
    /\ WF_vars(RemoveAttended(b))
    /\ WF_vars(NoDrone(b) \/ \E d \in Drone : ChooseDrone(b, d))
    /\ WF_vars(Pop(b))
    /\ WF_vars(MarcarOcupado(b))
    /\ WF_vars(SendCommand(b) \/ SendFails(b))
    /\ WF_vars(AnnounceDispatch(b))

DroneFairness ==
  \A d \in Drone :
    /\ WF_vars(ReadDrone(d))
    /\ WF_vars(Dial(d))
    /\ WF_vars(\E c \in conns : c.drone = d /\ EnviarRegistro(c))
    /\ WF_vars(\E k \in cmds : k.drone = d /\ IniciarMissao(k))
    /\ WF_vars(\E a \in avisos : a.drone = d /\ NotificarEstado(a))
    /\ WF_vars(Arrive(d) \/ ShotDown(d))
    /\ WF_vars(Exit(d))
    /\ WF_vars(Finish(d))
    /\ WF_vars(Return(d))
    /\ WF_vars(Reboot(d))

FairSpec ==
  /\ Spec
  /\ WF_vars(\E tx \in pending : CommitTx(tx))
  /\ WF_vars(ReceiveMessage)
  /\ DispatchFairness
  /\ DroneFairness

Logged(o) ==
  \E i \in DOMAIN chain : chain[i].type = "MISSION_LOG" /\ chain[i].occ = o

(***************************************************************************)
(* "Now it is queued for its physical dispatch": an occurrence in a queue  *)
(* is eventually escorted, and the log of its mission is in the chain,     *)
(* also when drones are shot down on their way and the broker treats the   *)
(* loss twice (the last message, then the end of the connection).  It      *)
(* holds for one occurrence and one shot; with two occurrences the         *)
(* dispatcher may take the wrong one from the queue (Pop), with two        *)
(* shots it may remove what has just been queued again (RemoveAttended).   *)
(***************************************************************************)
QueuedIsLogged ==
  \A o \in Occurrence : (\E b \in Broker : o \in fila[b]) ~> Logged(o)

(***************************************************************************)
(* A drone on a connection is eventually available to its broker, after    *)
(* missions and after a loss: no drone stays marked for ever.              *)
(***************************************************************************)
DronesFreed ==
  \A b \in Broker, d \in Drone :
    dronesLocais[b][d] # 0
      ~> (dronesLocais[b][d] = 0 \/ drones[b][d].estado = "DISPONIVEL")
=============================================================================
