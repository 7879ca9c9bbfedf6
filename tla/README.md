# A TLA+ model of HormuzChain

HormuzChain escorts vessels through a strait: sensors report occurrences to
four brokers, companies pay for escorts in a ledger that the brokers replicate,
and brokers dispatch drones. This directory holds TLA+ modules translated from
the Go code, TLC configurations that check small instances of them, and proofs
of the main safety properties for every instance.

Paths below are relative to `src/code/`; line numbers are those of the commit
the model was written from.

- [Inventory of the system](#inventory)
- [What is modelled](#modelled)
- [The runs](#runs)
- [The proofs](#proofs)
- [What the code does not do](#findings)
- [Abstractions and what is left out](#abstractions)
- [What is left](#plan)

<a name="inventory"></a>
## Inventory of the system

All broker state is in one process per broker (`cmd/broker/broker_main.go`,
struct `Broker`, lines 60-117), guarded by some ten mutexes; every connection,
ticker and HTTP request runs in a goroutine of its own. Brokers, sensors and
drones talk JSON over TCP; clients use HTTP.

### Ledger (`internal/blockchain/chain.go`, `block.go`, `internal/models/transaction.go`)
*State*: the blocks, the mempool, and three maps derived from the blocks
(balances, companies, vessels). *Operations*: `applyTx`, `RebuildState`,
`AddTxToMempool`, `validateBlockTransactionsNoLock`, `AddBlock`,
`ReplaceChain`, `Save`, `Load`, and read-only reports. *Interactions*: called
by the consensus handlers, the REST API and the dispatcher.
*Hard*: a mempool is admitted against balances that other brokers' blocks
change; `Save` marshals under the lock and writes without it; `handleBalance`
rebuilds the derived maps with no lock at all; `ReplaceChain` leaves the
mempool alone. *Correct when*: nobody spends what it has not got, nothing is
committed twice, the derived maps are those of the blocks, the file holds what
was announced.

### Consensus (`broker_main.go` 1042-1226, `internal/blockchain/consensus.go`)
*State*: proposed block and votes for it, set of voted blocks, the chain.
*Operations*: one tick of `loopConsensus`, `handleBlockProposal`,
`handleBlockVote`, `handleBlockCommit`, `CHAIN_SYNC`, `CHAIN_RESPONSE`,
`TX_BROADCAST`, `syncMempoolComVizinho`. *Interactions*: messages between
brokers, each sent by a goroutine of its own (`broadcastVizinhos`), so they
overtake each other. *Hard*: the proposer of an index proposes again until its
chain grows; validators vote for any number of blocks of one index; blocks are
handed out before they are on disk; adopted chains are not counted. *Correct
when*: chains agree, a quorum stands behind every block, what is admitted is
committed.

### Occurrences and escort payment (`broker_main.go` 403-498, 923-1039, 1204-1226; `internal/api/api.go` 178-251; `cmd/vessel/vessel_main.go`)
*State*: `ocorrencias[id].Status` in every broker (AGUARDANDO_PAGAMENTO,
PAGO, ...). *Operations*: `processarLeitura` opens an occurrence and asks
for payment; a company or a vessel pays; `processarTransacoesBloco` marks
it paid and queues it; `pagarOcorrencia` books drone usage and fee. *Hard*: the
request and the block that pays it may arrive in either order; a vessel pays
again while its first payment waits; blocks that arrive in an adopted chain are
never processed. *Correct when*: a paid occurrence is dispatched, and is paid once.

### Priority queue (`internal/fila/fila.go`)
*State*: a binary heap ordered by priority, Lamport time, timestamp, under one
mutex. *Operations*: `Enfileirar`, `Desenfileirar`, `Peek`, `Remover`,
`Snapshot`, `Envelhecer`. *Hard*: ageing rewrites the priorities under the heap
and stops at criticality 2; an occurrence is removed from the middle; ages are
differences of two machines' clocks. *Correct when*: the root is a least
element of the order whatever was done before, ids are unique, nothing waits
for ever.

### Dispatch of drones (`broker_main.go` 575-901, 1608-1658) and the drone process (`cmd/drone/drone_main.go`)
*State*: in each broker the state of every drone it knows, the missions and
the queue; in the drone, its mission, position and connection. *Operations*:
`tentarDespachar`, `marcarOcupado`, `tratarDronePerdido`,
`loopVerificarOciosidade`, mission start, completion and abort, and the
messages that replicate them. *Hard*: every broker queues a paid occurrence and
dispatches its own drone unless another's DRONE_DESPACHADO comes first; the
queue is peeked and popped under different locks; a drone declared lost flies
on. *Correct when*: an occurrence has at most one drone, a drone has at most one
mission, a lost drone's occurrence goes back to the queue.

### Leader election (`broker_main.go` 1519-1547, 1876-1969)
*State*: leader, election under way, whether a higher broker answered, and the
goroutines that sleep through the two timers. *Operations*: `iniciarEleicao`,
`declararLider`, ELEICAO, ELEICAO_OK, COORDENADOR. *Hard*: timers race late
answers, and whoever answered may crash before it declares itself. *Correct
when*: live, connected brokers end with one leader.

### Membership and failover of sectors (`broker_main.go` 325-401, 1228-1516, 1742-1865)
*State*: the map of neighbours by id, last heartbeats, dead brokers, the sector
every broker is known by. *Operations*: dialling and registration of
connections, heartbeats, failure detection, failover round the ring, the
announcement of a recovery. *Hard*: each broker decides from its own view of who
is dead; a FAILOVER overwrites the heir's sector with the dead broker's; a
FAILOVER_RECUPERADO carries the id of the broker that is back, so its receivers
rename the connection of the one that sent it. *Correct when*: a sector has
never two responsible brokers, and ends with one.

### Around them
REST API (`internal/api/api.go`), vessel, sensor, command line client, monitor
(mostly an embedded page), wallet (ECDSA) and pricing (a floating-point
formula). They feed the components above or render them.

<a name="modelled"></a>
## What is modelled

### `Ledger.tla`
The operators of the ledger. A chain is the sequence of blocks after the genesis
block; `RebuildState(chain)` is the state `applyTx` derives from it;
`Admissible(chain, pool, tx)` is `AddTxToMempool` returning no error;
`ValidTransactions(chain, txs)` is `validateBlockTransactionsNoLock`;
`WithoutTxs(pool, txs)` is the loop of `AddBlock` over the mempool. The loops
over transactions and blocks (`StatesAlong`, `RebuildState`, `AllTransactions`,
`WithoutTxs`) are recursive functions over the index of the loop, which can be
proved about. Amounts are integers: nothing in the code looks at the sign of
`Amount`, so a TRANSFER of a negative amount, or a MINT of one, is admitted,
committed, and takes from its recipient.

### `PoAConsensus.tla`
The consensus of all brokers over the ledger. State:

| variable | code |
|---|---|
| `chain`, `mempool` | `Blockchain.Blocks`, `Blockchain.Mempool` |
| `disk`, `saving` | `chain_<id>.json`; the snapshots `Save` marshalled and has not written |
| `votes`, `votedBlocks` | `consensus.votes`, `consensus.votedBlocks` |
| `synced` | the one CHAIN_SYNC, five seconds after the start, was sent |
| `adopting` | a CHAIN_RESPONSE between its length check and `ReplaceChain` |
| `up`, `links`, `net` | processes, connections, messages in flight |
| `requests` | what clients will post |
| `clock`, `crashes`, `drops` | bounds; `clock` is also the Timestamp of a block |
| `signed`, `forgot` | history variables, read by properties only |

One action per handler:

| action | code |
|---|---|
| `SubmitTx`, `ReceiveTx` | `handleTx`/`handlePay` of the API, TX_BROADCAST |
| `Propose` | one tick of `loopConsensus` |
| `HandleBlockProposal`, `HandleBlockVote`, `HandleBlockCommit` | the handlers of these names |
| `WriteFile` | the `os.WriteFile` of `Save` and what follows it in `handleBlockVote` (COMMIT, deletion of the votes) |
| `RequestChain`, `HandleChainSync` | CHAIN_SYNC and its answer |
| `HandleChainResponse`, `ReplaceChain` | the check and the act of CHAIN_RESPONSE, under two locks |
| `Crash`, `Restart` | the process dies; `Load` at the next start, which ends in `log.Fatalf` on a torn file |
| `Connect`, `Drop` | `conectarVizinho` with `syncMempoolComVizinho`; a failed write or read timeout |

Two definitions carry the argument. A block's Hash covers its content and its
PrevHash, so the model identifies a hash with the chain up to and including the
block (its *history*), and "PrevHash is the hash of my latest block" is
`Front(hist) = chain[b]`. A message stays in `net` until it is received, in any
order; since a handler that returns early changes nothing, receiving a message
that fails the checks is the same as never receiving it, and the model's
handlers receive only the ones that pass.

### `MCPoAConsensus.tla`
The brokers, transactions and entry points TLC uses.

### `Escort.tla`
Occurrences, their payment, the dispatchers of all brokers and the drones. The
consensus appears as one growing `chain` of which `height[b]` transactions are in
broker b's: `PoAConsensus` is where chains may differ. State:

| variable | code |
|---|---|
| `readings` | sensor datagrams that brokers have to read |
| `status`, `atendidos`, `fila` | `ocorrencias[id].Status`, `atendidos`, the queue (a set; `Rank` is its order) |
| `drones`, `dronesLocais` | `b.drones` and `b.dronesLocais`: what a broker knows of a drone, and the connection it has to it |
| `dispatch` | where `tentarDespachar` is; one goroutine calls it, again and again |
| `net` | messages between brokers in flight, in any order |
| `pending`, `chain`, `height`, `adoptions` | mempools, committed transactions, each broker's part of them |
| `voo`, `avisos` | the drone's own state; states of its mission that it has entered and has yet to send (`notificarEstado`, after the lock is released) |
| `dials`, `idx` | how often the drone has dialled; the place in its list of brokers, which starts at 0 in every process |
| `conns` | connections of drones, each with what the broker has still to read and where its reader goroutine is |
| `cmds` | commands on their way to drones |
| `relogio` | the last instant written to a drone's `UltimaVez`; the clocks of the machines agree |
| `faults` | bounds |

| action | code |
|---|---|
| `ProcessarLeitura`, `ReceiveRequisicao` | `processarLeitura`, REQUISICAO_DRONE |
| `PagarOcorrencia`, `CommitTx` | `pagarOcorrencia`; a block is committed |
| `ProcessarTransacoesBloco`, `AdoptChain` | the function of this name for a block appended; `ReplaceChain`, which calls no such function |
| `Peek`, `CheckAttended`, `RemoveAttended`, `ChooseDrone`, `NoDrone`, `Pop`, `MarcarOcupado`, `SendCommand`, `SendFails`, `AnnounceDispatch` | `tentarDespachar`, a step per critical section: peek, is it served, remove it if it is, choose a drone or give up, `Desenfileirar`, `marcarOcupado`, write, the two outcomes of the write |
| `ReceiveDespachado`, `ReceiveSincDrone`, `ReceiveDronePerdido`, `ReceiveConcluida` | DRONE_DESPACHADO, SINC_DRONE, DRONE_PERDIDO, MISSAO_CONCLUIDA |
| `IdentificarConexao`, `RegistrarDroneLocal`, `RejectConnection` | the first line of a connection, the two critical sections of `registrarDroneLocal`, and the end of a connection that begins with anything else or sends nothing for 5 s |
| `ReceiveKeepalive`, `ReceiveEstado` | `processarMensagemDrone`, with `tratarDronePerdido` for a drone that reports itself shot down |
| `OldConnectionEnds`, `ConnectionEnds`, `LoseDrone` | the end of `loopLeituraDrone`, and `tratarDronePerdido`, under another lock |
| `Dial`, `EnviarRegistro`, `SendKeepalive` | `loopConexao`, `enviarRegistro`, the keepalive ticker of the drone |
| `IniciarMissao`, `Arrive`, `Finish`, `Return`, `ShotDown` | the changes of state of `iniciarMissao`, each under the drone's lock |
| `NotificarEstado`, `Exit`, `Reboot` | the report of such a change, on the connection of the moment (that of a mission that has ended may come after the next one has begun); the report of a drone shot down and the `os.Exit` that follows it; the restart of its container |
| `Break` | a connection of a drone breaks |

`Punctual` says whether the seconds a drone sleeps are enough for a broker. With
FALSE any order of steps is possible. With TRUE a broker leaves
`tentarDespachar` before the drone it has just sent off has flown two
seconds, reads a closed connection before the drone's container has
restarted, and reads a registration within the five seconds it waits for one;
the liveness run needs this.

### `AgreedLedger.tla`
What the consensus promises: a line of histories, each one block longer than the
one before, and at every node a history of that line. `Commit` adds to it,
only at a node that has all of it; `Take` gives a node a history of it, later or
earlier than its own (an old CHAIN_RESPONSE that is adopted late, a file that is
loaded); `Forget` ends the promise. `PoAConsensus` implements it (`OneLedger`)
with the histories that the brokers' chains begin with as the line, and
"a proposer forgot a block of its own" as the end.

### `Membership.tla`
The mesh of brokers. A broker is the number of its id, a sector is named by the
broker it belongs to at the start; a connection is named by the broker at its
other end. State:

| variable | code |
|---|---|
| `readers` | the connections a broker reads, `loopLeituraBroker` or `conectarVizinho` |
| `vizinhos`, `idReal` | `b.vizinhos`; the key the reader of a connection uses, which is an address (`Addr`) or "LIDER" until it hears an id |
| `ultimoHB`, `mortos`, `setores` | the keys of `b.ultimoHB`, `brokersMortos`, `setoresConhecidos` |
| `verificar` | goroutines `verificarEAtivarFailover` that have yet to run |
| `chan` | messages on their way over a connection, a bag: `broadcastVizinhos` writes each in a goroutine of its own, so they overtake each other |

| action | code |
|---|---|
| `Heartbeat` | a tick of `loopHeartbeat` that reaches one neighbour: it is written and read in one step, and may overtake what was sent before |
| `Receive` | a FAILOVER or FAILOVER_RECUPERADO: the renaming in `loopLeituraBroker` and the head of `processarMensagemBroker` (`Processed`) |
| `Detect` | a tick of `loopDetectarFalhas` finds a broker silent for 15 s |
| `VerificarEAtivarFailover` | the goroutine, which announces the failover if this broker is first on the ring |
| `EndOfStream`, `ReadDeadline`, `Break` | a reader ends: the other end was closed, nothing came for 15 s, the connection broke |
| `LoseWrite` | a goroutine has yet to write to a connection that is closed on its side: the message is lost |
| `ConectarLider`, `ConectarVizinho` | a connection is dialled and registered at both ends (`Linked`) |
| `Crash` | the process dies with its memory |

`responsavelPorSetor` changes nothing and is the pair of predicates `MayAnswer`
and `Answers`: the loop over the map `setoresConhecidos` finds any of several
owners of one sector. Both it and `verificarEAtivarFailover` walk backwards
round the sorted ids; `Nearer(x, y, d)` says that x comes before y on the way
from d.

`Punctual` says that a timeout outlasts what it leaves time for: no broker is
held for dead while its connection is being made again, which takes some 2 s of
the 15, and (in `Election`) the 2 s and 4 s timers outlast the answers they
wait for.

### `Election.tla`
The election on top of the mesh: its messages travel on the mesh's connections
and count as signs of life. `lider`, `emEleicao`, `okRecebido` are `liderID`,
`statusEleicao` and `okRecebido`; `tarefas` counts the goroutines that have yet
to call `iniciarEleicao`, to declare themselves, or that sleep 2 s
(`EsperaOK`) or 4 s more (`EsperaCoordenador`). `statusEleicao` is guarded by
two different mutexes; every access is one word, so any interleaving of them is
one of the model's.

### `Recovery.tla`
The mesh with restarts: a new process knows nothing. Here timeouts expire only
when nothing prompt would change anything (`Settled`), so that what goes wrong
does so with every message in time.

### `PriorityQueue.tla`, `Fila.tla`
`PriorityQueue` is what the package promises: those that wait in the order of
their times, their priorities, and the one to serve next. `Fila` stores them in
a heap: `Up`, `Down`, `Heapify`, `HeapRemove` are those of the library
container/heap, each a loop (`Iterate`) whose rounds are functions (`Rise`,
`Sink`, `Settle`) of the heap and the place it has come to; `Enfileirar`, `Desenfileirar`, `Remover`, `Envelhecer`,
`Snapshot` are the operations. `Fila` implements `PriorityQueue` (`IsQueue`)
with the root of the heap as the next to serve. Lamport times and timestamps
appear as the order `ordem`: an occurrence comes as the i-th by its time, `e`
half minutes old. A negative `e` is a sender's clock that is ahead. The order is
that of `Less` (lines 36-45): priority, then Lamport time, then timestamp; the
comment of the package (line 5) speaks of the oldest timestamp only. `Less`
leaves two occurrences of equal priority, Lamport time and timestamp unordered,
and any of them may be served first; the model orders them as they came.

### `MCPoAConsensus.tla`, `MCEscort.tla`, `MCFila.tla`
The brokers, transactions, entry points, addresses, occurrences and queue order
TLC uses, and the state constraints of `EscortFaults`. `Election` and `Recovery` need
no definitions and are checked directly.

### The proof modules
`PoAConsensusProofs`, `LedgerProofs` (what the chains hold), `EscortProofs`,
`EscortPaymentProofs`, `MembershipProofs`, `ElectionProofs`, `FilaProofs`: the
theorems and their lemmas. `Iteration` has the lemmas about loops that
`PoAConsensusProofs`, `LedgerProofs` and `FilaProofs` rest on.

<a name="runs"></a>
## The runs

In the runs of the consensus TLC is given transfers of one company with a
balance of 2, in `PoARivals` also one of a negative amount that charges it. Bounds are named in the configurations: `MaxTicks` (proposals of one process for one index),
`MaxCrashes`, `MaxDrops`, the set `Tx` (each transaction is posted once),
`LateStarters` (brokers whose CHAIN_SYNC is still to be sent at the start); for
the escort `MaxPayments` (payments of one occurrence), `MaxAdoptions`,
`MaxDials`, `MaxBreaks`, `MaxShots`, `MaxKeepalives`; for the mesh `MaxCrashes`,
`MaxBreaks`, `MaxRestarts`; for the queue `MaxAtrasos` (occurrences that come
with an earlier time than one that waits).
Deadlock is not checked, because a system whose bounded inputs are used up
really stops.

| run | instance | shows |
|---|---|---|
| `PoALive` | 4 brokers, quorum 3, one transfer, one broker synchronising, `FairSpec` | `TypeOK`; every block of every chain was signed by a quorum (`CommittedByQuorum`), with the invariant that proves it (`QuorumBehindEveryBlock`), although adopted chains are taken without counting; what a broker admitted is eventually in every chain (`EveryoneCommits`) |
| `PoACrash` | 2 brokers, quorum 2, both may crash, 2 crashes, a broken connection, one broker synchronising | two chains differ at an index only after its proposer lost a block of its own (`ForkNeedsForgetting`), with its invariant (`ProposersPrevail`); until then the brokers implement `AgreedLedger` (`OneLedger`) |
| `PoARivals` | 2 brokers, quorum 2, two transfers that the balance covers until the company is charged by a third, of a negative amount, posted to different brokers; two per block, one broker that crashes, comes back and synchronises, `DisjointSpec` | whoever pays has what he pays, and only who was charged is below zero (`NoOverdraft`); nothing is committed twice (`CommittedOnce`), with its invariant (`NothingTwice`) |
| `EscortFaults` | 2 brokers, one responsible for the occurrence and the other with the drone; a payment, two connections; one of them breaks, or a drone is shot down and a chain adopted | `TypeOK`; a drone flies only for a paid occurrence (`PaidBeforeEscort`), the log of a mission follows the payment in the chain (`LogFollowsPayment`), with the invariant that proves both (`OnlyEntitled`) |
| `EscortLive` | 1 broker, 2 drones, one of which may be shot down, a keepalive, `Punctual`, `FairSpec` | what is queued is eventually escorted and logged (`QueuedIsLogged`); no drone stays marked for ever (`DronesFreed`) |
| `MeshElection` | 3 brokers, 2 crashes at any point, a connection that breaks, messages that overtake each other, `Punctual`, `FairSpec` | `TypeOK`; no two running brokers answer for one sector (`Exclusive`), with its invariant (`RingSound`); after at most one crash every sector ends with exactly one (`SectorsServed`); while no connection breaks the running brokers end with one leader (`LeaderAgreed`) |
| `MeshRecovery` | 3 brokers, one crashes and comes back, `FairSpec` | every sector has exactly one broker again and again (`ServedAgain`) |
| `FilaHeap` | six occurrences, two of low criticality, one late arrival, symmetry among occurrences of one criticality | `TypeOK`; the heap implements the queue (`IsQueue`), because nothing in it comes before its parent (`HeapOrdered`); `Snapshot` is in the order of service (`SnapshotOrdered`) |
| `FilaLive` | three occurrences, one of low criticality, that come again for ever, two late arrivals, clocks ahead, `FairSpec` | whatever waits is served in the end (`NothingStuck`) |

Why these are enough. A fork, a lost quorum and an overdraft each need two
brokers and one index, or two transactions and, since senders are checked, a
third that charges the sender in between. Four brokers with the code's quorum
of three are used where counting matters (`PoALive`); a quorum that needs both of two
brokers leaves every interleaving of crash, write, synchronisation and
proposal that a proposer and one other broker can have (`PoACrash`), and the
second block, of the other proposer, competes with the first for the balance
and for what waits in both mempools (`PoARivals`). Each property was also run against a mutant of the code that it
must refute - a vote counted twice, a quorum short by one, a block linked by
Index only, transactions checked one by one against the old state, a mempool
that keeps what was committed, votes deleted before the COMMIT, a block
appended when it is voted for - so the bounds
do reach the states where the property bites. What the bounds cut off is covered
by the proofs: every invariant of every passing run and both refinements
(`OneLedger`, `IsQueue`) are theorems.

`PoARivals` runs `DisjointSpec`, the behaviours of `Spec` in which no chain is
replaced by one that holds a transaction of the broker's mempool
(`ReplacesUnderMempool`): with that step `CommittedOnce` is false, which is the
first limit listed [below](#findings). Adopted chains, restarts and late
broadcasts stay.

`EscortFaults` has three state constraints. At most two broker messages are in
flight when a step is taken, at most one a SINC_DRONE (`FewMessages`): the
message of one handler and a late one, which is what it takes to deliver two
handlers' news out of order. A behaviour has a broken connection, or a drone
shot down, an adopted chain and a dispatcher at the broker that has no drone,
which then can only look at the queue and remove what was served
(`BreaksAlone`). Nothing follows the first
transaction in the chain but the step that commits the second (`LogEnds`), where
`LogFollowsPayment` is decided for one payment and one log. They keep it to a
million states; the theorems on the same invariants know no such bounds. A second payment is left out,
because it queues an occurrence again that was served (the code checks no
status), which multiplies the states and is no violation of these properties.
Two dials let a drone come back on a new connection while the old one is still
being read. In `EscortLive` both drones dial one broker and one of them is shot
down, so the occurrence must go back to the queue and out again. The mutants of
these runs queue an occurrence before it is paid, leave a lost drone's
occurrence marked as served, queue without a look at `ocorrencias`, and ignore the
reports of a drone on a mission.

Three brokers are the least of which one can crash while two are left to
disagree; two crashes let an heir fall in the middle of its failover and the
winner of an election fall before it declares itself. The mutants of these runs
walk the ring to its end only, look for owners among the living, announce a
failover without being the heir, enter the old key of a renamed connection, wait
for a COORDENADOR only once, and never take a broker back for living. Six
occurrences are the least for which what `heap.Remove` puts in the place of
another may have to rise (the sixth takes the place of the fourth, whose parent
is not its own); the mutants drain no copy, skip the repair after ageing, let what
takes the place of a removed occurrence only sink, let an id wait twice, and age
only what is urgent.

**Fairness** of the consensus (`FairSpec` of `PoAConsensus`, used by `PoALive`). Weak fairness of
each kind of delivery, of every broker's ticks, file writes, CHAIN_SYNC and
adoption, and of connections: the tickers and readers of a running process loop
for ever, `conectarVizinho` retries for ever. Weak fairness of `Restart`:
`docker-compose.yml` restarts a broker on failure. Nothing is assumed of
clients, crashes and broken connections. `PoALive` has no crash and no broken
connection, since with them liveness fails: only the proposer of the next index
may propose, so while it is down nothing is committed, and a broker that misses
a COMMIT after its only CHAIN_SYNC never catches up.

**Fairness** of the escort (`FairSpec` of `Escort`, used by `EscortLive` and
`EscortWrongHead`). Weak fairness of what a goroutine does by itself once it
may: commits, messages between brokers, each step of a broker's dispatcher (a
ticker calls it every half second), the reader of each drone, the drone's dialling
loop, its registration and each stage of its flight. `Reboot` is fair because
`docker-compose-all.yml` restarts a drone that exits with an error. Nothing makes
a vessel pay, a sensor report, a connection break or a chain be adopted.
`QueuedIsLogged` is checked for one occurrence, one broker and one shot. With two
occurrences it fails, which is what `EscortWrongHead` shows. With two shots
(`MaxShots = 2`, `MaxDials = 3`) it fails too: the dispatcher sees that the
occurrence is served, its drone is shot down and it is queued again, and then
the dispatcher removes it from the queue. `DronesFreed` fails
when a connection breaks under a command (the drone stays marked until it next
reports) and with a second broker whose late news overwrites the view.

**Fairness** of the mesh (`FairSpec` of `Election` and of `Recovery`). Weak
fairness of heartbeats, of what a reader reads, of detection, of goroutines that
were started, of timers, and of dialling, which `conectarLider` and
`conectarVizinho` repeat for ever; in `Recovery` also of the restart of a
process. Nothing makes a broker crash or a connection break. `SectorsServed` is
stated for at most one crash: a FAILOVER makes its receivers forget the sector
of the broker that sends it until its next heartbeat, and when that broker falls
before, nobody knows whose sector is vacant. `LeaderAgreed` is stated while no
connection breaks: two brokers that are cut off from each other when the leader
is presumed dead each elect themselves, and nothing reconciles them when they
connect again. A broker that restarts takes the seed for the leader again.

`ServedAgain` says again and again because for good would be false
(`<>[]Served(s)`, refuted by TLC in this instance): when a broker that was held
for dead is heard again, FAILOVER_RECUPERADO goes out under its id. Receivers
that get it on another connection rename that connection, so the sender is no
longer heard under its own id, is held for dead after 15 s and is announced as
recovered in turn; the broker that is back enters its own id in its last
heartbeats and may hold itself for dead. The announcements follow each other for
ever, and a sector changes hands each time.

**Fairness** of the queue (`FairSpec` of `Fila`). `Desenfileirar`: drones come
free again and again, and the dispatcher pops. `Passa` and `Envelhecer`: time
passes, and a ticker ages the queue. The bound on late arrivals is what the
Lamport clocks grant: a broker that has heard of an occurrence stamps its later
ones with a greater time, so only finitely many can come before it.

<a name="proofs"></a>
## The proofs

From `LedgerAssumption` (shape of the transactions, amounts that are
integers, blocks of at least one transaction, a genesis block of distinct mints
and registrations, as `chain.go:72-103` makes it) and `PoAAssumption` (finitely
many brokers, at least one), for any number of brokers, any quorum, any
transactions and any bounds:

- `TypeCorrect`: `Spec => []TypeOK`. The mempool needs that the loop of
  `AddBlock` over a mempool yields a mempool (`WithoutTxsType`) and that a
  proposal is part of a mempool.
- `NoForkWithoutForgetting`: `Spec => []ForkNeedsForgetting`. The statement is
  not inductive: a chain in a message, a file, a `Save` or a chain about to be
  adopted is not yet in a broker. `ProposersPrevail` therefore says of *every*
  chain that exists (`KnownHistories`) that it agrees with the chains of its
  proposers, up to proposers that forgot a block. A step adds to the known
  chains only a chain that was known, or the known chain of a proposer with one
  block of its own on top (`NewHistories`); and a proposer's chain keeps its own
  blocks unless the step puts it in `forgot` (`OwnBlocksKept`). The vote count
  plays no part: agreement rests on the proposer's chain alone.
- `QuorumCommits`: `Spec => []CommittedByQuorum`, by `QuorumBehindEveryBlock`,
  which says the same of every known chain, and that counted votes and votes in
  flight were signed.
- `ImplementsOneLedger`: `Spec => OneLedger`. With nothing forgotten,
  `ProposersPrevail` makes every chain that exists a beginning of its last
  proposer's chain, hence agreed (`KnownIsAgreed`); what is appended on a COMMIT,
  adopted or loaded is such a chain (`AgreedIsTaken`). A block that gathers its
  quorum is its proposer's, and no chain has that index yet, because it would
  have to agree there with the proposer (`CommitIsAgreed`). Nothing agreed is lost
  in a step that forgets nothing (`LedgerKept`).
- `NobodyOverdraws` of `LedgerProofs`: `Spec => []NoOverdraft`, for amounts of
  any sign. The invariant (`AllCovered`) says of every known chain that whoever
  pays in it has the amount at that place. A new chain is a known one or a known
  one with a block that `validateBlockTransactionsNoLock` accepted, which checked
  each debit against the state before it (`ValidKeepsCovered`, `CoveredBoth`).
  `RebuildState` is a replay of all transactions in turn (`RebuildReplays`), and
  in a replay that is covered only a negative amount can take an address below
  zero (`CoveredSolvent`), the addresses of `Charged`.
- `NothingRepeats`: `DisjointSpec => []NothingTwice`, and `CommitsOnce`:
  `DisjointSpec => []CommittedOnce`. A block takes its transactions from one
  mempool, which has each of them once and none that is in the chain, and
  `AddBlock` removes them from the mempools of all that append it. The invariant
  says it of files and pending writes too, of which a restart makes a chain and
  a mempool, and of the blocks under vote.

From `EscortAssumption` (each drone has at least one address, ranks are
numbers, `""` is no occurrence), for any number of brokers, drones and
occurrences, with and without `Punctual`, and any bounds:

- `TypeCorrect` of `EscortProofs`: `Spec => []TypeOK`, one lemma per action.
  Two of its parts are no mere types and are what makes it inductive: a reader
  between the two critical sections of `registrarDroneLocal` still has the
  registration in hand, even if the connection breaks or a mission report is
  appended, and a drone on a mission has an occurrence.
- `EntitledCorrect` of `EscortPaymentProofs`: `Spec => []OnlyEntitled`. That a
  drone in the air has been paid for is not inductive: the occurrence comes to
  it through queues, a dispatcher, a command, its own reports, the views of
  brokers, what is given back after a loss, and the messages that replicate
  views. `OnlyEntitled` says of each of these containers that what it names is
  entitled. What a step leaves alone stays entitled, because the chain only
  grows (`Unmoved`, and `StepCommit` for a block); one lemma per container says
  the same of what is added to it (`QueuesAfter`, `ViewsAfter`, `MessagesAfter`,
  `ReportsAfter`), and one per action puts these together.
- `EscortIsPaid`: `Spec => []PaidBeforeEscort`, and `LogIsPaid`:
  `Spec => []LogFollowsPayment`, which is inductive with the two above: when a
  log is committed its occurrence is entitled, so the payment is already there.

From `MembershipAssumption` (finitely many brokers with positive numbers) and
`Punctual`, for any number of brokers, crashes and broken connections:

- `TypeCorrect` of `ElectionProofs`: `Spec => []TypeOK`.
- `RingStaysSound`: `Spec => []RingSound`, the inductive invariant. That no two
  brokers answer for one sector needs that they hold only brokers for dead that
  are down (`OnlyDownAreDead`), and that a broker is known by the sector of
  another only if it is that one's heir: all between them on the ring are down
  (`SectorsTrue`). The second is carried by messages in flight (`Credible`), and
  the first needs that whoever is read is also written to (`ReadIsWritten`),
  since a connection missing from the map would fall silent. `MeshSound` of
  `MembershipProofs` proves it for the mesh alone, step by step, and the steps of
  the election are steps of the mesh or leave it alone.
- `OneAnswers`: `Spec => []Exclusive`. Of two brokers that answer for a sector,
  each comes before the other on the walk (`OneHeir`, `TakerIsHeir`).
  Without `Punctual` both are false: a slow heartbeat is a death.

From `FilaAssumption` (criticalities 1 and 2, ages that are integers), for any
set of occurrences and a queue of any length:

- `HoldsWhatWaits`: `Spec => []TypeOK`, and `KeepsOrder`:
  `Spec => []HeapOrdered`, inductive together (`HeapInv`). The lemmas are about
  the library's loops. `Down` keeps a heap in order but for one place, below
  which its children and above which its parent are right with each other
  (`Sinking`); it ends where nothing below comes first, or has not moved at all
  (`DownSettles`). `Up` is the mirror image (`Rising`, `UpSettles`). Hence
  `heap.Remove` yields a heap of the others (`RemoveSettles`: what takes the
  place has sunk, or it has stayed, and then may rise), `heap.Init` makes a heap
  of anything (`HeapifySettles`: after each round one more place has its
  subtree in order), and `heap.Push` keeps one (`PushSettles`). An occurrence
  that comes or leaves shifts the places of the others in the order of times
  and keeps their order (`WithOneOrder`).
- `SnapshotIsOrdered`: `Spec => []SnapshotOrdered`. After k rounds the result
  has k occurrences in order, all before what is left in the copy (`Drained`).
- `ImplementsQueue`: `Spec => IsQueue`. In a heap in order nothing comes before
  the root (`RootFirst`, along the path of parents), and the order is total, so
  the root is `First` (`PeekIsFirst`); every operation is one of the queue's.

How loops are proved about. The library's induction rules take an operator as
a parameter, which the provers cannot instantiate. `Iteration` states induction
over numbers for sets (`UpTo`, from the least number outside the set) and the
existence of a function that is defined by recursion for a step that is itself a
function (`IterationExists`), which are first order; a recursive definition of
the model is shown to be such a function (`StatesAlongRuns`, `RebuildRuns`,
`AllRuns`, `WithoutTxsRuns`, `IterateInto`), and its invariants follow.

Each of these invariants is also a property of a run. Only model-checked:
liveness - `EveryoneCommits`, `QueuedIsLogged`, `DronesFreed`, `SectorsServed`,
`LeaderAgreed`, `ServedAgain`, `NothingStuck` - because the provers know nothing of
fairness and ENABLED.

<a name="findings"></a>
## What the code does not do

Three statements of the documents and comments that TLC refutes; the quotations
are in `PROJECT.json`.

| run | property | what happens |
|---|---|---|
| `PoAFork` | `NoForks` | a proposer appends, hands its chain out, crashes before its file is written, and proposes another block |
| `EscortMutex` | `OneDronePerOccurrence` | two brokers process the block of one payment and each sends its own drone before it hears of the other |
| `EscortWrongHead` | `QueuedIsLogged` | a more urgent occurrence arrives between peek and pop; it is taken from the queue, and the drone flies for the other one |

Other limits of the code that the properties above are worded around:

- `CommittedOnce` holds while no chain is replaced by one with a payment that
  also waits in the mempool (`DisjointSpec`): `ReplaceChain` leaves the payment
  there, it is proposed again, and neither validators nor `AddBlock` look for it
  in earlier blocks (against the comment at
  `internal/blockchain/chain.go:269`). TLC shows it when `PoARivals` runs `Spec`
  with this invariant alone: a broker that was down admits a payment, adopts the
  chain that contains it, and the payment is committed twice.
- `NoOverdraft` lets an address be below zero that a negative amount was moved
  to: the sign of `Amount` is checked neither by the API nor by the ledger.
- While the proposer of the next index stays down, the others commit nothing
  (against `README.md:53`).
- A CHAIN_RESPONSE that was longer when it was compared may replace a chain that
  has grown since, without a crash; `AgreedLedger` allows the earlier history.
- The recovery storm, two leaders after a broken connection and the orphaned
  sector after two crashes: see the fairness of the mesh.
- `internal/fila/fila.go:8-10` says a priority rises to 5; the code stops at 2
  (line 184). `NothingStuck` holds with 2.

<a name="abstractions"></a>
## Abstractions and what is left out

- Keys and signatures are who signed what (`signed` field of a transaction,
  sender of a message). Amounts are integers, not floats.
- The genesis block is the same everywhere, so the comparison of genesis hashes
  in CHAIN_RESPONSE always succeeds.
- `AddBlock` and the marshalling of the `Save` that follows it are one step;
  the write to the file is another. `Propose` and `HandleBlockProposal` read the
  chain and mempool in one step: the code reads them one after the other, but a
  proposal or vote built from a stale pair is refused by the recheck in
  `AddBlock`.
- A vote is broadcast, and all but the proposer drop it; the model sends it to
  the proposer.
- A file that a crash truncates in the middle of `WriteFile` is `Torn`, and the
  broker cannot start again.
- `votedBlocks` and `votes` grow in the code without limit, here with `MaxTicks`.
- In `Escort` the connections between brokers stay up (so `enviarSincGlobal`
  is never called again) and brokers do not crash; the order of the queue is
  fixed, without ageing; committed transactions come one to a block; the vessels
  that are registered are given (`Unowned` is the rest). Of the three
  transactions of `pagarOcorrencia` only the TRANSFER passes the signature check
  of `AddTxToMempool`, and it alone appears. What one handler does to
  `ocorrencias`, `atendidos` and the queue is one step, what it
  does to the drones' maps another where another lock guards them.
  A drone that is shot down sends its last report and exits in one step.
  Receivers of REQUISICAO_DRONE never queue: the handler queues only
  occurrences without a vessel, and `processarLeitura` drops those before it
  broadcasts.
- In the mesh two brokers have at most one connection. Left out are the other
  ports that `conectarLider` tries when the leader's does not answer, second
  connections between the same brokers, and DISCOVERY and PEERLIST as messages:
  which brokers dial which (`Dials`) is what they amount to with the compose
  files: B1, started without `-lider`, dials nobody, and of the others each dials
  B1 and those with a higher port. A heartbeat is written and read in one step. The second ELEICAO that
  goes to each higher broker is sent in the same step as the first.
- `Message` of the mesh has the fields that are read; `Motivo`, `LiderID` and
  `StatusEleicao` of a message are only shown by the monitor.
- In `Fila` a tick of the ageing loop that changes no priority is no step. `indice`
  is written by `Swap`, `Push` and `Pop` and never read; `Tamanho` and `Snapshot`
  are not called by the broker.

<a name="notmodelled"></a>
### Not modelled

- `handleBalance` calls `RebuildState` without the lock
  (`internal/api/api.go:147`), concurrently with handlers that hold it. Two
  goroutines writing one Go map end the process when the runtime notices and
  leave anything in it when not; no property of the balances can be stated
  of that, except that it must not be.
- Monitor and command line client: they render what brokers send, or forward
  what a user types; no state of the brokers depends on them.
- Wallet (ECDSA) and the price formula: arithmetic, in the model who signed what
  and an amount.
- Registration and positions of vessels, the values sensors draw, logging.

<a name="plan"></a>
## What is left

Done: the ledger, the consensus and the ledger it implements, the escort with
dispatchers and drones, the mesh with failover, recovery and election, and the
queue. Worth adding, in order:

1. `Escort` over `AgreedLedger` instead of a chain of its own, and over
   `PriorityQueue` instead of a fixed order.
2. Crashes of brokers in `Escort`, whose occurrences and queue are in memory only.
3. Vessel positions and their replication, which decide which occurrences
   `processarLeitura` drops.
