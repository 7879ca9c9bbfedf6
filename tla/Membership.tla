------------------------------ MODULE Membership ------------------------------
(***************************************************************************)
(* Who is in the mesh of brokers, and who answers for the sector of a      *)
(* broker that is down: connections, heartbeats, failure detection,        *)
(* failover round the ring and the announcement of a recovery, of          *)
(* cmd/broker/broker_main.go.                                              *)
(*                                                                         *)
(* A broker is the number of its id (B1 is 1), and its sector is named by  *)
(* the broker it was given to at the start.  Two brokers have at most one  *)
(* connection, which each names by the broker at the other end.            *)
(***************************************************************************)
EXTENDS Integers, FiniteSets, Bags

CONSTANTS
  Broker,       \* the numbers of the brokers
  Seed,         \* the broker started without -lider, which dials nobody
  Faulty,       \* brokers that may crash
  MaxCrashes,   \* bound on the crashes in a behaviour
  MaxBreaks,    \* bound on the connections that break without a crash
  Punctual      \* TRUE: a timeout outlasts what it leaves time for

MembershipAssumption ==
  /\ Broker \subseteq Nat \ {0}
  /\ IsFiniteSet(Broker)
  /\ Seed \in Broker
  /\ Faulty \subseteq Broker
  /\ {MaxCrashes, MaxBreaks} \subseteq Nat
  /\ Punctual \in BOOLEAN

ASSUME MembershipAssumption

None == 0          \* no broker, no sector
Addr(c) == -c      \* the key of a dialled connection before c is heard on it
Key == Broker \cup {Addr(c) : c \in Broker}

VARIABLES
  up,          \* up[b]: b's process runs
  readers,     \* readers[b]: the brokers whose connection b reads
  vizinhos,    \* vizinhos[b][k]: the connection registered under the key k
  idReal,      \* idReal[b][c]: the key the reader of the connection to c uses
  ultimoHB,    \* ultimoHB[b]: the brokers b has ever heard of
  mortos,      \* mortos[b]: those that brokersMortos marks
  setores,     \* setores[b][c]: setoresConhecidos, the sector b knows c by
  verificar,   \* verificar[b]: verificarEAtivarFailover goroutines to run
  chan,        \* chan[b][c]: the bag of what b has sent to c and c has not read
  crashes, breaks

viewVars  == <<vizinhos, idReal, ultimoHB, mortos, setores>>
boundVars == <<crashes, breaks>>
meshVars == <<up, readers, viewVars, verificar, chan, boundVars>>

-----------------------------------------------------------------------------
(***************************************************************************)
(* The ring.                                                               *)
(***************************************************************************)

\* todos: the brokers whose sector b knows, and b.
Ring(b) == {c \in Broker : setores[b][c] # None} \cup {b}

\* The candidates that b holds for alive; it never doubts itself.
Alive(b) == {c \in Ring(b) : c = b \/ c \notin mortos[b]}

\* Mutant: the walk stops at the lowest broker.
NearerBelow(x, y, d) == y < x /\ x < d

\* On the walk backwards from d round the ring, x comes before y.
Nearer(x, y, d) == IF y < d THEN y < x /\ x < d ELSE x < d \/ y < x

\* b is the first candidate for what is d's.
TakesOver(b, d) ==
  /\ d \in Ring(b)
  /\ \A x \in Alive(b) : ~ Nearer(x, b, d)

\* Mutant: the sector of a dead broker is forgotten.
OwnersAlive(b, s) == {d \in Broker \ mortos[b] : setores[b][d] = s}

\* The brokers whose sector is s, of which the loop over setoresConhecidos
\* finds any one.
Owners(b, s) == {d \in Broker : setores[b][d] = s}

\* responsavelPorSetor(s) may answer TRUE.
MayAnswer(b, s) ==
  s = b \/ \E d \in Owners(b, s) \cap mortos[b] : TakesOver(b, d)

\* It answers TRUE whichever owner it finds.
Answers(b, s) ==
  \/ s = b
  \/ /\ Owners(b, s) # {}
     /\ \A d \in Owners(b, s) : d \in mortos[b] /\ TakesOver(b, d)

-----------------------------------------------------------------------------
(***************************************************************************)
(* Messages.                                                               *)
(***************************************************************************)
\* id and setor are the BrokerID and SetorID of the message, which a
\* FAILOVER_RECUPERADO takes from the broker that is back and not from its
\* sender.
Message == [type : {"FAILOVER", "FAILOVER_RECUPERADO",
                    "ELEICAO", "ELEICAO_OK", "COORDENADOR"},
            id : Broker, setor : Broker \cup {None}]

Msg(type, id, s) == [type |-> type, id |-> id, setor |-> s]

\* The bag q of messages with one more m, and with one less.
With(q, m) == q (+) SetToBag({m})
Without(q, m) == q (-) SetToBag({m})

\* The brokers that read what broadcastVizinhos of b writes to the map viz,
\* when open are the ends that are read.
Reached(b, viz, open) == {c \in {viz[k] : k \in Key} \ {None} : b \in open[c]}

\* broadcastVizinhos: m goes to every connection in viz, each time in a
\* goroutine of its own, which later messages may overtake.
Broadcast(q, b, viz, open, m) ==
  [q EXCEPT ![b] = [c \in Broker |->
     IF c \in Reached(b, viz, open) THEN With(@[c], m) ELSE @[c]]]

\* Mutant: the old key is entered instead of the connection.
RekeyedToKey(b, c, id) ==
  IF idReal[b][c] = id THEN vizinhos[b]
  ELSE [vizinhos[b] EXCEPT ![idReal[b][c]] = None, ![id] = idReal[b][c]]

\* The map vizinhos after the reader of the connection to c has seen the
\* BrokerID id.
Rekeyed(b, c, id) ==
  IF idReal[b][c] = id THEN vizinhos[b]
  ELSE [vizinhos[b] EXCEPT ![idReal[b][c]] = None, ![id] = c]

\* The sector of id after a message that names s.
SectorTold(b, id, s) == IF s = None THEN setores[b][id] ELSE s

\* A broker that was held for dead is announced, under its own id.
Revival(q, b, id, s, viz, open) ==
  IF id \in mortos[b]
  THEN Broadcast(q, b, viz, open,
                 Msg("FAILOVER_RECUPERADO", id, SectorTold(b, id, s)))
  ELSE q

\* Mutant: nobody looks whether the broker was held for dead.
ProcessedStillDead(b, c, id, s, viz, q) ==
  /\ vizinhos' = [vizinhos EXCEPT ![b] = viz]
  /\ idReal' = [idReal EXCEPT ![b][c] = id]
  /\ ultimoHB' = [ultimoHB EXCEPT ![b] = @ \cup {id}]
  /\ setores' = [setores EXCEPT ![b][id] = SectorTold(b, id, s)]
  /\ chan' = q
  /\ UNCHANGED mortos

(***************************************************************************)
(* The head of processarMensagemBroker, for a message of id that names s,  *)
(* read from the connection to c when viz is the map and q in flight.      *)
(***************************************************************************)
Processed(b, c, id, s, viz, q) ==
  /\ vizinhos' = [vizinhos EXCEPT ![b] = viz]
  /\ idReal' = [idReal EXCEPT ![b][c] = id]
  /\ ultimoHB' = [ultimoHB EXCEPT ![b] = @ \cup {id}]
  /\ setores' = [setores EXCEPT ![b][id] = SectorTold(b, id, s)]
  /\ mortos' = [mortos EXCEPT ![b] = @ \ {id}]
  /\ chan' = Revival(q, b, id, s, viz, readers)

-----------------------------------------------------------------------------
(***************************************************************************)
(* The mesh is complete, and every broker has heard from every other.      *)
(***************************************************************************)
MeshInit ==
  /\ up = [b \in Broker |-> TRUE]
  /\ readers = [b \in Broker |-> Broker \ {b}]
  /\ vizinhos = [b \in Broker |->
                   [k \in Key |-> IF k \in Broker \ {b} THEN k ELSE None]]
  /\ idReal = [b \in Broker |-> [c \in Broker |-> c]]
  /\ ultimoHB = [b \in Broker |-> Broker \ {b}]
  /\ mortos = [b \in Broker |-> {}]
  /\ setores = [b \in Broker |->
                  [c \in Broker |-> IF c = b THEN None ELSE c]]
  /\ verificar = [b \in Broker |-> {}]
  /\ chan = [b \in Broker |-> [c \in Broker |-> EmptyBag]]
  /\ crashes = 0
  /\ breaks = 0

\* What b writes is read by c.
Heard(b, c) == up[b] /\ c \in Reached(b, vizinhos[b], readers)

\* A heartbeat of b to c.
Heartbeat(b, c) ==
  /\ Heard(b, c)
  /\ Processed(c, b, b, b, Rekeyed(c, b, b), chan)
  /\ UNCHANGED <<up, readers, verificar, boundVars>>

\* What c has yet to read of b, in no order.
Unread(b, c) == BagToSet(chan[b][c])

\* What is in flight without a message m of b to c.
Removed(b, c, m) == [chan EXCEPT ![b][c] = Without(@, m)]

\* FAILOVER and FAILOVER_RECUPERADO have no case of their own.
Receive(b, c) ==
  \E m \in Unread(b, c) :
    /\ m.type \in {"FAILOVER", "FAILOVER_RECUPERADO"}
    /\ Processed(c, b, m.id, m.setor, Rekeyed(c, b, m.id), Removed(b, c, m))
    /\ UNCHANGED <<up, readers, verificar, boundVars>>

-----------------------------------------------------------------------------
(***************************************************************************)
(* Failure detection.                                                      *)
(***************************************************************************)

\* b is reading nothing that carries the id of c.
Silent(b, c) ==
  /\ ~ Heard(c, b)
  /\ \A x \in Broker : \A m \in Unread(x, b) : m.id # c

\* The connection between b and c is being made again.
Reconnecting(b, c) ==
  up[c] /\ b # c /\ ~ (c \in readers[b] /\ b \in readers[c])

\* A tick of loopDetectarFalhas finds that 15 s went by since b heard of c.
Detect(b, c) ==
  /\ up[b] /\ c \in ultimoHB[b] \ mortos[b]
  /\ Silent(b, c)
  /\ Punctual => ~ Reconnecting(b, c)
  /\ mortos' = [mortos EXCEPT ![b] = @ \cup {c}]
  /\ verificar' = [verificar EXCEPT ![b] = @ \cup {c}]
  /\ UNCHANGED <<up, readers, vizinhos, idReal, ultimoHB, setores, chan,
                 boundVars>>

\* Mutant: whoever notices the death announces that it takes over.
AnunciarSempre(b, d) ==
  /\ d \in verificar[b]
  /\ verificar' = [verificar EXCEPT ![b] = @ \ {d}]
  /\ chan' = IF setores[b][d] # None
             THEN Broadcast(chan, b, vizinhos[b], readers,
                            Msg("FAILOVER", b, setores[b][d]))
             ELSE chan
  /\ UNCHANGED <<up, readers, viewVars, boundVars>>

\* The goroutine verificarEAtivarFailover(d), which only announces.
VerificarEAtivarFailover(b, d) ==
  /\ d \in verificar[b]
  /\ verificar' = [verificar EXCEPT ![b] = @ \ {d}]
  /\ chan' = IF setores[b][d] # None /\ TakesOver(b, d)
             THEN Broadcast(chan, b, vizinhos[b], readers,
                            Msg("FAILOVER", b, setores[b][d]))
             ELSE chan
  /\ UNCHANGED <<up, readers, viewVars, boundVars>>

-----------------------------------------------------------------------------
(***************************************************************************)
(* Connections and crashes.                                                *)
(***************************************************************************)

\* The reader of b's connection to c ends, and takes its entry with it.
ReaderEnds(b, c) ==
  /\ readers' = [readers EXCEPT ![b] = @ \ {c}]
  /\ vizinhos' = [vizinhos EXCEPT ![b][idReal[b][c]] =
                    IF @ = c THEN None ELSE @]
  /\ idReal' = [idReal EXCEPT ![b][c] = c]
  /\ chan' = [chan EXCEPT ![c][b] = EmptyBag]

\* The other end was closed.
EndOfStream(b, c) ==
  /\ c \in readers[b] /\ b \notin readers[c]
  /\ chan[c][b] = EmptyBag
  /\ ReaderEnds(b, c)
  /\ UNCHANGED <<up, ultimoHB, mortos, setores, verificar, boundVars>>

\* 15 s without a message: the read deadline of the connection.
ReadDeadline(b, c) ==
  /\ c \in readers[b] /\ b \in readers[c]
  /\ ~ Heard(c, b) /\ chan[c][b] = EmptyBag
  /\ ReaderEnds(b, c)
  /\ UNCHANGED <<up, ultimoHB, mortos, setores, verificar, boundVars>>

\* The connection breaks, and b is the first to notice.
Break(b, c) ==
  /\ breaks < MaxBreaks
  /\ c \in readers[b] /\ b \in readers[c]
  /\ ReaderEnds(b, c)
  /\ breaks' = breaks + 1
  /\ UNCHANGED <<up, ultimoHB, mortos, setores, verificar, crashes>>

(***************************************************************************)
(* A connection that b dials is made.  b registers it under its address; c *)
(* registers it under the BrokerID of the REGISTRO or DISCOVERY, which     *)
(* names the sector of b, and processes the message.                       *)
(***************************************************************************)
Linked(b, c) ==
  LET viz == [vizinhos[c] EXCEPT ![b] = b]
      open == [readers EXCEPT ![b] = @ \cup {c}, ![c] = @ \cup {b}]
  IN  /\ up[b] /\ up[c]
      /\ c \notin readers[b] /\ b \notin readers[c]
      /\ readers' = open
      /\ vizinhos' = [vizinhos EXCEPT ![b][Addr(c)] = c, ![c] = viz]
      /\ idReal' = [idReal EXCEPT ![b][c] = Addr(c), ![c][b] = b]
      /\ ultimoHB' = [ultimoHB EXCEPT ![c] = @ \cup {b}]
      /\ setores' = [setores EXCEPT ![c][b] = b]
      /\ mortos' = [mortos EXCEPT ![c] = @ \ {b}]
      /\ chan' = Revival(chan, c, b, b, viz, open)
      /\ UNCHANGED <<up, verificar, boundVars>>

\* conectarLider: all but the seed dial the seed, again and again.
ConectarLider(b) == b # Seed /\ Linked(b, Seed)

\* The brokers that b dials: of those that DISCOVERY and PEERLIST make
\* known, which is all but the seed, those with a higher port.
Dials(b) == {c \in Broker \ {Seed} : b # Seed /\ b < c}

\* conectarVizinho, likewise for ever.
ConectarVizinho(b, c) == c \in Dials(b) /\ Linked(b, c)

\* A goroutine of b has yet to write a message to a connection that is closed
\* on its side, or b is down: the message is lost.
LoseWrite(b, c) ==
  /\ c \notin readers[b]
  /\ \E m \in Unread(b, c) : chan' = Removed(b, c, m)
  /\ UNCHANGED <<up, readers, viewVars, verificar, boundVars>>

\* The process of b dies with all it keeps.  What it wrote may still be read.
Crash(b) ==
  /\ b \in Faulty /\ up[b] /\ crashes < MaxCrashes
  /\ crashes' = crashes + 1
  /\ up' = [up EXCEPT ![b] = FALSE]
  /\ readers' = [readers EXCEPT ![b] = {}]
  /\ vizinhos' = [vizinhos EXCEPT ![b] = [k \in Key |-> None]]
  /\ idReal' = [idReal EXCEPT ![b] = [c \in Broker |-> c]]
  /\ ultimoHB' = [ultimoHB EXCEPT ![b] = {}]
  /\ mortos' = [mortos EXCEPT ![b] = {}]
  /\ setores' = [setores EXCEPT ![b] = [c \in Broker |-> None]]
  /\ verificar' = [verificar EXCEPT ![b] = {}]
  /\ chan' = [c \in Broker |-> [chan[c] EXCEPT ![b] = EmptyBag]]
  /\ UNCHANGED breaks

-----------------------------------------------------------------------------
MeshNext ==
  \/ \E b, c \in Broker : Heartbeat(b, c)
  \/ \E b, c \in Broker : Receive(b, c)
  \/ \E b, c \in Broker : Detect(b, c)
  \/ \E b, d \in Broker : VerificarEAtivarFailover(b, d)
  \/ \E b, c \in Broker : EndOfStream(b, c)
  \/ \E b, c \in Broker : ReadDeadline(b, c)
  \/ \E b, c \in Broker : Break(b, c)
  \/ \E b, c \in Broker : LoseWrite(b, c)
  \/ \E b \in Broker : ConectarLider(b)
  \/ \E b, c \in Broker : ConectarVizinho(b, c)
  \/ \E b \in Broker : Crash(b)

MeshSpec == MeshInit /\ [][MeshNext]_meshVars

-----------------------------------------------------------------------------
(***************************************************************************)
(* Properties.                                                             *)
(***************************************************************************)

\* q[b][c] is a bag of messages for any two brokers.
BagsOfMessages(q) ==
  /\ q = [b \in Broker |-> [c \in Broker |-> q[b][c]]]
  /\ \A b, c \in Broker : IsABag(q[b][c]) /\ BagToSet(q[b][c]) \subseteq Message

\* Every variable keeps to its type.
MeshTypeOK ==
  /\ up \in [Broker -> BOOLEAN]
  /\ readers \in [Broker -> SUBSET Broker]
  /\ vizinhos \in [Broker -> [Key -> Broker \cup {None}]]
  /\ idReal \in [Broker -> [Broker -> Key]]
  /\ ultimoHB \in [Broker -> SUBSET Broker]
  /\ mortos \in [Broker -> SUBSET Broker]
  /\ setores \in [Broker -> [Broker -> Broker \cup {None}]]
  /\ verificar \in [Broker -> SUBSET Broker]
  /\ BagsOfMessages(chan)
  /\ {crashes, breaks} \subseteq Nat

Running == {b \in Broker : up[b]}

Down == Broker \ Running

\* d is, or was before it went down itself, the one to take over the sector
\* s: its broker is down, and so are all that come before d.
Heir(d, s) == s \in Down /\ \A x \in Running : ~ Nearer(x, d, s)

(***************************************************************************)
(* Why no two brokers answer for one sector, when no broker restarts and   *)
(* timeouts are punctual: nobody holds a running broker for dead, ...      *)
(***************************************************************************)
OnlyDownAreDead ==
  \A b \in Broker :
    /\ b \notin ultimoHB[b]
    /\ mortos[b] \cup verificar[b] \subseteq Down
    /\ up[b] \/ (readers[b] = {} /\ verificar[b] = {} /\ mortos[b] = {})

\* ... since a connection that is read is also in the map of neighbours ...
ReadIsWritten ==
  \A b \in Broker : \A c \in readers[b] :
    /\ c # b
    /\ idReal[b][c] \in {c, Addr(c)}
    /\ vizinhos[b][idReal[b][c]] = c

\* A message m from b that c has to read is b's own, before c holds b for
\* dead, and names no sector but one that b is the heir of.
Credible(b, c, m) ==
  /\ b \in readers[c] \ mortos[c]
  /\ m.id = b
  /\ m.setor = None \/ Heir(b, m.setor)

\* ... and a broker that is known by the sector of another is its heir.
SectorsTrue ==
  /\ \A b \in Running, c \in Broker :
       b # c => setores[b][c] = c \/ Heir(c, setores[b][c])
  /\ \A b, c \in Broker : \A m \in Unread(b, c) : Credible(b, c, m)

RingSound == OnlyDownAreDead /\ ReadIsWritten /\ SectorsTrue

(***************************************************************************)
(* No two running brokers answer for one sector, although each decides     *)
(* alone, from its own set of dead brokers and from a map of sectors that  *)
(* every FAILOVER overwrites (responsavelPorSetor).                        *)
(***************************************************************************)
Exclusive ==
  \A s \in Broker : \A b, c \in Running :
    MayAnswer(b, s) /\ MayAnswer(c, s) => b = c

\* Exactly one running broker answers for s, and does so every time.
Served(s) ==
  \E b \in Running :
    Answers(b, s) /\ \A c \in Running : MayAnswer(c, s) => c = b

(***************************************************************************)
(* Once a broker is down and no other fails, every sector ends up with     *)
(* exactly one broker that answers for it (verificarEAtivarFailover).  A   *)
(* second crash may leave one with none: a FAILOVER makes its receivers    *)
(* forget the sector of the broker that announces it until they hear its   *)
(* next heartbeat.                                                         *)
(***************************************************************************)
SectorsServed ==
  \A s \in Broker : <>[](crashes <= 1) => <>[]Served(s)
=============================================================================
