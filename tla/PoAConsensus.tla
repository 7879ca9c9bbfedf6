---------------------------- MODULE PoAConsensus ----------------------------
(***************************************************************************)
(* The proof-of-authority consensus of HormuzChain: the consensus handlers *)
(* of cmd/broker/broker_main.go over the Blockchain object of              *)
(* internal/blockchain/chain.go, for brokers that crash, restart from      *)
(* their chain file, lose connections and receive messages in any order.   *)
(*                                                                         *)
(* A block's Hash covers its content and its PrevHash, hence the whole     *)
(* chain up to it: a hash is identified with that chain (history).  A      *)
(* block message carries the history of its block, so that "PrevHash is    *)
(* the Hash of my latest block" reads Front(hist) = chain[b].              *)
(*                                                                         *)
(* A handler that returns early changes nothing, which is what losing the  *)
(* message does; the actions below therefore receive the messages that     *)
(* pass the handler's checks, and a message may stay in net for ever.      *)
(***************************************************************************)
EXTENDS Ledger, FiniteSets

CONSTANTS
  Validators,     \* the brokers, in the order of consensus.go
  Quorum,         \* votes that commit a block (3)
  Entry,          \* Entry[tx]: the brokers whose API the signer of tx calls
  LateStarters,   \* brokers whose first CHAIN_SYNC is still to be sent
  MaxTicks,       \* bound on the proposals of a process for one index
  Faulty,         \* brokers that may crash
  MaxCrashes,     \* bound on the crashes in a behaviour
  MaxDrops        \* bound on the connections that break without a crash

Broker == Range(Validators)

PoAAssumption ==
  /\ Validators \in Seq(Broker)
  /\ Validators # <<>>
  /\ IsFiniteSet(Broker)
  /\ Quorum \in Nat
  /\ Entry \in [Tx -> SUBSET Broker]
  /\ LateStarters \subseteq Broker
  /\ Faulty \subseteq Broker
  /\ {MaxTicks, MaxCrashes, MaxDrops} \subseteq Nat

ASSUME PoAAssumption

VARIABLES
  chain,      \* chain[b]: the blocks of b after genesis (of a crashed b: when it crashed)
  mempool,    \* mempool[b]: admitted transactions, oldest first
  disk,       \* disk[b]: the content of chain_b.json
  saving,     \* saving[b]: marshalled files whose WriteFile has not ended
  up,         \* up[b]: b's process runs
  votes,      \* votes[b]: <<history, voter>> counted by b for its proposals
  votedBlocks,\* votedBlocks[b]: the proposals b voted for
  synced,     \* synced[b]: this process of b has sent its CHAIN_SYNC
  adopting,   \* adopting[b]: CHAIN_RESPONSEs that b checked and will adopt
  links,      \* the pairs of brokers that are connected
  net,        \* the messages in flight
  requests,   \* transactions not yet handed to a broker
  clock,      \* proposals made so far, which is the Timestamp of the next
  crashes,    \* crashes so far
  drops,      \* broken connections so far
  signed,     \* history variable: every <<history, validator>> ever signed
  forgot      \* history variable: brokers that dropped a block of their own

nodeVars  == <<chain, mempool, disk, saving, up>>
roundVars == <<votes, votedBlocks>>
syncVars  == <<synced, adopting>>
netVars   == <<links, net, requests>>
boundVars == <<clock, crashes, drops>>
histVars  == <<signed, forgot>>
vars == <<nodeVars, roundVars, syncVars, netVars, boundVars, histVars>>

-----------------------------------------------------------------------------
(***************************************************************************)
(* Blocks, histories, files and messages.                                  *)
(***************************************************************************)

Block   == [txs : Seq(Tx), stamp : Nat]
History == Seq(Block)
File    == [blocks : History, mempool : Seq(Tx)]

\* A file that WriteFile truncated and did not finish: Load fails on it.
Torn == [blocks |-> <<>>, mempool |-> <<>>, torn |-> TRUE]

\* What a Save under way has marshalled; announce is the history of the
\* block whose COMMIT is sent after it, or <<>> when none is.
Save == [blocks : History, mempool : Seq(Tx), announce : History]

Message ==
  [type : {"TX_BROADCAST"}, from : Broker, to : Broker, tx : Tx]
  \cup [type : {"BLOCK_PROPOSAL", "BLOCK_VOTE", "CHAIN_RESPONSE"},
        from : Broker, to : Broker, hist : History]
  \cup [type : {"BLOCK_COMMIT"}, from : Broker, to : Broker,
        hist : History, voters : SUBSET Broker]
  \cup [type : {"CHAIN_SYNC"}, from : Broker, to : Broker]

TxMsg(b, c, tx)      == [type |-> "TX_BROADCAST", from |-> b, to |-> c, tx |-> tx]
BlockMsg(t, b, c, h) == [type |-> t, from |-> b, to |-> c, hist |-> h]
CommitMsg(b, c, h, vs) ==
  [type |-> "BLOCK_COMMIT", from |-> b, to |-> c, hist |-> h, voters |-> vs]
SyncMsg(b, c)        == [type |-> "CHAIN_SYNC", from |-> b, to |-> c]

Received(type) == {m \in net : m.type = type /\ up[m.to]}

\* The brokers whose connection broadcastVizinhos writes to.
Neighbours(b) == {c \in Broker : {b, c} \in links /\ c # b}

Proposer(n) == Validators[(n % Len(Validators)) + 1]

\* h and g have the same blocks at the indices 1 to n, and both have them.
SameUpTo(h, g, n) ==
  n <= Len(h) /\ n <= Len(g) /\ \A i \in 1..n : h[i] = g[i]

\* Replacing old by new drops a block that b itself proposed.
DropsOwn(b, old, new) ==
  \E n \in 1..Len(old) : Proposer(n) = b /\ ~ SameUpTo(old, new, n)

-----------------------------------------------------------------------------
(***************************************************************************)
(* All brokers start connected, on the genesis block, and those that are   *)
(* not LateStarters have sent their first CHAIN_SYNC.                      *)
(***************************************************************************)
Init ==
  /\ chain = [b \in Broker |-> <<>>]
  /\ mempool = [b \in Broker |-> <<>>]
  /\ disk = [b \in Broker |-> [blocks |-> <<>>, mempool |-> <<>>]]
  /\ saving = [b \in Broker |-> {}]
  /\ up = [b \in Broker |-> TRUE]
  /\ votes = [b \in Broker |-> {}]
  /\ votedBlocks = [b \in Broker |-> {}]
  /\ synced = [b \in Broker |-> b \notin LateStarters]
  /\ adopting = [b \in Broker |-> {}]
  /\ links = {l \in SUBSET Broker : Cardinality(l) = 2}
  /\ net = {}
  /\ requests = Tx
  /\ clock = 0
  /\ crashes = 0
  /\ drops = 0
  /\ signed = {}
  /\ forgot = {}

(***************************************************************************)
(* A client posts tx to b, or b signs it: AddTxToMempool, then             *)
(* TX_BROADCAST to the neighbours.                                         *)
(***************************************************************************)
SubmitTx(b, tx) ==
  /\ up[b]
  /\ tx \in requests /\ b \in Entry[tx]
  /\ Admissible(chain[b], mempool[b], tx)
  /\ mempool' = [mempool EXCEPT ![b] = Append(@, tx)]
  /\ net' = net \cup {TxMsg(b, c, tx) : c \in Neighbours(b)}
  /\ requests' = requests \ {tx}
  /\ UNCHANGED <<chain, disk, saving, up, roundVars, syncVars, links,
                 boundVars, histVars>>

\* A TX_BROADCAST is admitted and goes no further.
ReceiveTx(m) ==
  /\ Admissible(chain[m.to], mempool[m.to], m.tx)
  /\ mempool' = [mempool EXCEPT ![m.to] = Append(@, m.tx)]
  /\ net' = net \ {m}
  /\ UNCHANGED <<chain, disk, saving, up, roundVars, syncVars, links,
                 requests, boundVars, histVars>>

-----------------------------------------------------------------------------
(***************************************************************************)
(* One round: proposal, votes, commit.                                     *)
(***************************************************************************)

\* handleBlockVote keeps consensus.mu while it saves the block it commits.
ConsensusFree(b) == \A s \in saving[b] : s.announce = <<>>

\* The proposals this process of b has made for its next index.
OwnProposals(b) ==
  {v \in votes[b] : v[2] = b /\ Len(v[1]) = Len(chain[b]) + 1}

(***************************************************************************)
(* A tick of loopConsensus in the broker whose turn it is.  Each tick      *)
(* proposes again, with the mempool and the time of that tick.             *)
(***************************************************************************)
Propose(b) ==
  LET hist == Append(chain[b],
                     [txs |-> ProposedTxs(mempool[b]), stamp |-> clock])
  IN  /\ up[b]
      /\ Proposer(Len(chain[b]) + 1) = b
      /\ mempool[b] # <<>>
      /\ ConsensusFree(b)
      /\ Cardinality(OwnProposals(b)) < MaxTicks
      /\ clock' = clock + 1
      /\ votes' = [votes EXCEPT ![b] = @ \cup {<<hist, b>>}]
      /\ signed' = signed \cup {<<hist, b>>}
      /\ net' = net \cup {BlockMsg("BLOCK_PROPOSAL", b, c, hist) :
                            c \in Neighbours(b)}
      /\ UNCHANGED <<nodeVars, votedBlocks, syncVars, links, requests,
                     crashes, drops, forgot>>

\* Mutant: only the Index of the block is compared, not its PrevHash.
AppendableByIndex(b, hist) ==
  /\ Len(hist) = Len(chain[b]) + 1
  /\ ValidTransactions(chain[b], Last(hist).txs)

\* The block with history hist passes the checks of AddBlock in b.
Appendable(b, hist) ==
  /\ hist # <<>>
  /\ Front(hist) = chain[b]
  /\ ValidTransactions(chain[b], Last(hist).txs)

\* What AddBlock does to b, and the marshalling that begins Save.
AddBlock(b, hist, announce) ==
  LET blocks == Append(chain[b], Last(hist))
      pool   == WithoutTxs(mempool[b], Last(hist).txs)
  IN  /\ chain' = [chain EXCEPT ![b] = blocks]
      /\ mempool' = [mempool EXCEPT ![b] = pool]
      /\ saving' = [saving EXCEPT ![b] = @ \cup
                      {[blocks |-> blocks, mempool |-> pool,
                        announce |-> announce]}]

\* Mutant: the voter appends the block already when it votes for it.
AppendWhenVoting(m) ==
  LET b == m.to
  IN  /\ m.from = Proposer(Len(m.hist))
      /\ Appendable(b, m.hist)
      /\ ConsensusFree(b)
      /\ m.hist \notin votedBlocks[b]
      /\ AddBlock(b, m.hist, <<>>)
      /\ votedBlocks' = [votedBlocks EXCEPT ![b] = @ \cup {m.hist}]
      /\ signed' = signed \cup {<<m.hist, b>>}
      /\ net' = (net \ {m})
                  \cup {BlockMsg("BLOCK_VOTE", b, c, m.hist) :
                          c \in Neighbours(b) \cap {m.from}}
      /\ UNCHANGED <<disk, up, votes, syncVars, links, requests, boundVars,
                     forgot>>

(***************************************************************************)
(* handleBlockProposal: a vote for a valid block on top of the own chain,  *)
(* once per block.  The vote is broadcast; all but the proposer drop it.   *)
(***************************************************************************)
HandleBlockProposal(m) ==
  LET b == m.to
  IN  /\ m.from = Proposer(Len(m.hist))
      /\ Appendable(b, m.hist)
      /\ ConsensusFree(b)
      /\ m.hist \notin votedBlocks[b]
      /\ votedBlocks' = [votedBlocks EXCEPT ![b] = @ \cup {m.hist}]
      /\ signed' = signed \cup {<<m.hist, b>>}
      /\ net' = (net \ {m})
                  \cup {BlockMsg("BLOCK_VOTE", b, c, m.hist) :
                          c \in Neighbours(b) \cap {m.from}}
      /\ UNCHANGED <<nodeVars, votes, syncVars, links, requests, boundVars,
                     forgot>>

\* Mutant: the votes themselves, not the validators that cast them.
VotesFor(b, hist) == {v \in votes[b] : v[1] = hist}

VotersOf(b, hist) == {v \in Broker : <<hist, v>> \in votes[b]}

\* Mutant: off by one.
EnoughButOne(voters) == Cardinality(voters) >= Quorum - 1

EnoughVotes(voters) == Cardinality(voters) >= Quorum

\* handleBlockVote: a first vote of a voter is counted.
HandleBlockVote(m) ==
  LET b == m.to
  IN  /\ Proposer(Len(m.hist)) = b
      /\ ConsensusFree(b)
      /\ m.from \notin VotersOf(b, m.hist)
      /\ votes' = [votes EXCEPT ![b] = @ \cup {<<m.hist, m.from>>}]
      /\ net' = net \ {m}
      /\ IF /\ EnoughVotes(VotersOf(b, m.hist) \cup {m.from})
            /\ Appendable(b, m.hist)
         THEN AddBlock(b, m.hist, m.hist)
         ELSE UNCHANGED <<chain, mempool, saving>>
      /\ UNCHANGED <<disk, up, votedBlocks, syncVars, links, requests,
                     boundVars, histVars>>

\* handleBlockCommit, with the voters VerifyBlockVotes counts.
HandleBlockCommit(m) ==
  /\ EnoughVotes(m.voters)
  /\ Appendable(m.to, m.hist)
  /\ AddBlock(m.to, m.hist, <<>>)
  /\ net' = net \ {m}
  /\ UNCHANGED <<disk, up, roundVars, syncVars, links, requests, boundVars,
                 histVars>>

\* Mutant: the votes are read after they were deleted.
AnnounceNoVotes(b, hist) ==
  {CommitMsg(b, c, hist, {}) : c \in Neighbours(b)}

\* The COMMIT of a block goes out with the votes that were counted for it.
Announcement(b, hist) ==
  {CommitMsg(b, c, hist, VotersOf(b, hist)) : c \in Neighbours(b)}

(***************************************************************************)
(* The WriteFile of a Save ends.  Saves of different handlers write in any *)
(* order.  A proposer broadcasts its COMMIT after the file is written.     *)
(***************************************************************************)
WriteFile(b, s) ==
  /\ up[b]
  /\ disk' = [disk EXCEPT ![b] = [blocks |-> s.blocks, mempool |-> s.mempool]]
  /\ saving' = [saving EXCEPT ![b] = @ \ {s}]
  /\ IF s.announce = <<>>
     THEN UNCHANGED <<net, votes>>
     ELSE /\ net' = net \cup Announcement(b, s.announce)
          /\ votes' = [votes EXCEPT ![b] = {v \in @ : v[1] # s.announce}]
  /\ UNCHANGED <<chain, mempool, up, votedBlocks, syncVars, links, requests,
                 boundVars, histVars>>

-----------------------------------------------------------------------------
(***************************************************************************)
(* Chain synchronisation.  A process asks once, five seconds after it      *)
(* starts; every neighbour answers with its whole chain.                   *)
(***************************************************************************)
RequestChain(b) ==
  /\ up[b] /\ ~ synced[b]
  /\ synced' = [synced EXCEPT ![b] = TRUE]
  /\ net' = net \cup {SyncMsg(b, c) : c \in Neighbours(b)}
  /\ UNCHANGED <<nodeVars, roundVars, adopting, links, requests, boundVars,
                 histVars>>

HandleChainSync(m) ==
  /\ m.from \in Neighbours(m.to)
  /\ net' = (net \ {m})
              \cup {BlockMsg("CHAIN_RESPONSE", m.to, m.from, chain[m.to])}
  /\ UNCHANGED <<nodeVars, roundVars, syncVars, links, requests, boundVars,
                 histVars>>

\* The length (and the genesis block, which all share) is checked under one
\* lock ...
HandleChainResponse(m) ==
  /\ Len(m.hist) > Len(chain[m.to])
  /\ adopting' = [adopting EXCEPT ![m.to] = @ \cup {m}]
  /\ net' = net \ {m}
  /\ UNCHANGED <<nodeVars, roundVars, synced, links, requests, boundVars,
                 histVars>>

\* ... and the chain replaced under a later one, whatever it has become.
ReplaceChain(m) ==
  LET b == m.to
  IN  /\ chain' = [chain EXCEPT ![b] = m.hist]
      /\ saving' = [saving EXCEPT ![b] = @ \cup
                      {[blocks |-> m.hist, mempool |-> mempool[b],
                        announce |-> <<>>]}]
      /\ adopting' = [adopting EXCEPT ![b] = @ \ {m}]
      /\ forgot' = IF DropsOwn(b, chain[b], m.hist)
                   THEN forgot \cup {b} ELSE forgot
      /\ UNCHANGED <<mempool, disk, up, roundVars, synced, netVars,
                     boundVars, signed>>

-----------------------------------------------------------------------------
(***************************************************************************)
(* Crashes, restarts and connections.                                      *)
(***************************************************************************)

\* The process dies with all it keeps in memory; a WriteFile under way may
\* leave the file truncated, and nothing is received on its connections.
Crash(b) ==
  /\ b \in Faulty /\ up[b] /\ crashes < MaxCrashes
  /\ crashes' = crashes + 1
  /\ up' = [up EXCEPT ![b] = FALSE]
  /\ \/ UNCHANGED disk
     \/ saving[b] # {} /\ disk' = [disk EXCEPT ![b] = Torn]
  /\ mempool' = [mempool EXCEPT ![b] = <<>>]
  /\ saving' = [saving EXCEPT ![b] = {}]
  /\ votes' = [votes EXCEPT ![b] = {}]
  /\ votedBlocks' = [votedBlocks EXCEPT ![b] = {}]
  /\ adopting' = [adopting EXCEPT ![b] = {}]
  /\ links' = {l \in links : b \notin l}
  /\ net' = {m \in net : m.to # b}
  /\ UNCHANGED <<chain, synced, requests, clock, drops, histVars>>

\* A new process loads the file; log.Fatalf ends it when Load fails.
Restart(b) ==
  /\ ~ up[b] /\ disk[b] # Torn
  /\ up' = [up EXCEPT ![b] = TRUE]
  /\ chain' = [chain EXCEPT ![b] = disk[b].blocks]
  /\ mempool' = [mempool EXCEPT ![b] = disk[b].mempool]
  /\ synced' = [synced EXCEPT ![b] = FALSE]
  /\ forgot' = IF DropsOwn(b, chain[b], disk[b].blocks)
               THEN forgot \cup {b} ELSE forgot
  /\ UNCHANGED <<disk, saving, roundVars, adopting, netVars, boundVars,
                 signed>>

\* A connection between two processes is made (again), and each sends its
\* mempool over it (syncMempoolComVizinho).
Connect(b, c) ==
  /\ b # c /\ up[b] /\ up[c] /\ {b, c} \notin links
  /\ links' = links \cup {{b, c}}
  /\ net' = net \cup {TxMsg(b, c, tx) : tx \in ToSet(mempool[b])}
                \cup {TxMsg(c, b, tx) : tx \in ToSet(mempool[c])}
  /\ UNCHANGED <<nodeVars, roundVars, syncVars, requests, boundVars,
                 histVars>>

\* A connection is closed after a failed write or a read timeout, and what
\* was in flight on it is lost.
Drop(b, c) ==
  /\ drops < MaxDrops
  /\ b # c /\ {b, c} \in links
  /\ drops' = drops + 1
  /\ links' = links \ {{b, c}}
  /\ net' = {m \in net : {m.from, m.to} # {b, c}}
  /\ UNCHANGED <<nodeVars, roundVars, syncVars, requests, clock, crashes,
                 histVars>>

-----------------------------------------------------------------------------
Next ==
  \/ \E b \in Broker, tx \in Tx : SubmitTx(b, tx)
  \/ \E m \in Received("TX_BROADCAST") : ReceiveTx(m)
  \/ \E b \in Broker : Propose(b)
  \/ \E m \in Received("BLOCK_PROPOSAL") : HandleBlockProposal(m)
  \/ \E m \in Received("BLOCK_VOTE") : HandleBlockVote(m)
  \/ \E m \in Received("BLOCK_COMMIT") : HandleBlockCommit(m)
  \/ \E b \in Broker : \E s \in saving[b] : WriteFile(b, s)
  \/ \E b \in Broker : RequestChain(b)
  \/ \E m \in Received("CHAIN_SYNC") : HandleChainSync(m)
  \/ \E m \in Received("CHAIN_RESPONSE") : HandleChainResponse(m)
  \/ \E b \in Broker : \E m \in adopting[b] : ReplaceChain(m)
  \/ \E b \in Broker : Crash(b)
  \/ \E b \in Broker : Restart(b)
  \/ \E b, c \in Broker : Connect(b, c)
  \/ \E b, c \in Broker : Drop(b, c)

Spec == Init /\ [][Next]_vars

-----------------------------------------------------------------------------
(***************************************************************************)
(* Invariants.                                                             *)
(***************************************************************************)

\* Every variable keeps to its type.
TypeOK ==
  /\ chain \in [Broker -> History]
  /\ mempool \in [Broker -> Seq(Tx)]
  /\ disk \in [Broker -> File \cup {Torn}]
  /\ saving \in [Broker -> SUBSET Save]
  /\ up \in [Broker -> BOOLEAN]
  /\ votes \in [Broker -> SUBSET (History \X Broker)]
  /\ votedBlocks \in [Broker -> SUBSET History]
  /\ synced \in [Broker -> BOOLEAN]
  /\ adopting \in [Broker -> SUBSET Message]
  /\ \A b \in Broker : \A m \in adopting[b] :
       m.type = "CHAIN_RESPONSE" /\ m.to = b
  /\ links \subseteq SUBSET Broker
  /\ net \subseteq Message
  /\ requests \subseteq Tx
  /\ {clock, crashes, drops} \subseteq Nat
  /\ signed \subseteq History \X Broker
  /\ forgot \subseteq Broker

\* The chains that exist somewhere: in a broker, in its file, in a Save that
\* is being written, in a chain about to be adopted, or in a message.
KnownHistories ==
  {chain[b] : b \in Broker}
    \cup {disk[b].blocks : b \in Broker}
    \cup (UNION {{s.blocks : s \in saving[b]} : b \in Broker})
    \cup (UNION {{m.hist : m \in adopting[b]} : b \in Broker})
    \cup {m.hist : m \in {k \in net : k.type \in {"BLOCK_COMMIT",
                                                  "CHAIN_RESPONSE"}}}

(***************************************************************************)
(* Two brokers have the same chain up to index n unless the proposer of n  *)
(* dropped a block it had appended as proposer: whatever messages are lost *)
(* or late, whoever crashes and whichever chains are adopted, that is the  *)
(* only way to a fork.  Voters may vote for several blocks of one index,   *)
(* so agreement rests on the proposer's own chain only (handleBlockVote).  *)
(***************************************************************************)
ForkNeedsForgetting ==
  \A b, c \in Broker : \A n \in 1..Len(chain[b]) :
    n <= Len(chain[c]) /\ Proposer(n) \notin forgot
      => SameUpTo(chain[b], chain[c], n)

\* Up to any index whose proposer has forgotten nothing, h is the chain of
\* that proposer.
AgreesWithProposers(h) ==
  \A n \in 1..Len(h) :
    Proposer(n) \notin forgot => SameUpTo(h, chain[Proposer(n)], n)

\* The COMMIT sent after a file is written is that of the file's last block.
AnnouncesItsFile ==
  \A b \in Broker : \A s \in saving[b] : s.announce \in {<<>>, s.blocks}

(***************************************************************************)
(* Why: every chain that exists agrees with the proposers of its blocks.   *)
(* With TypeOK this is inductive.                                          *)
(***************************************************************************)
ProposersPrevail ==
  /\ \A h \in KnownHistories : AgreesWithProposers(h)
  /\ AnnouncesItsFile

\* The validators that signed the block of index n of h.
Signers(h, n) == {v \in Broker : <<SubSeq(h, 1, n), v>> \in signed}

(***************************************************************************)
(* Every block of every chain was signed by a quorum of validators, and    *)
(* still is after restarts and adopted chains, which are taken without     *)
(* counting votes (ReplaceChain, Load).                                    *)
(***************************************************************************)
CommittedByQuorum ==
  \A b \in Broker : \A n \in 1..Len(chain[b]) :
    Cardinality(Signers(chain[b], n)) >= Quorum

\* Why: it holds of every chain that exists, counted votes and votes in
\* flight were signed.
QuorumBehindEveryBlock ==
  /\ \A h \in KnownHistories : \A n \in 1..Len(h) :
       Cardinality(Signers(h, n)) >= Quorum
  /\ \A b \in Broker : votes[b] \subseteq signed
  /\ \A m \in net : m.type = "BLOCK_VOTE" => <<m.hist, m.from>> \in signed

\* The histories that some chain begins with.
AgreedHistories == UNION {Prefixes(chain[b]) : b \in Broker}

(***************************************************************************)
(* The ledger of the brokers, as long as no proposer has forgotten a block *)
(* of its own.                                                             *)
(***************************************************************************)
Agreed == INSTANCE AgreedLedger WITH
  Node   <- Broker,
  ledger <- IF forgot = {} THEN AgreedHistories ELSE {<<>>},
  held   <- IF forgot = {} THEN chain ELSE [b \in Broker |-> <<>>],
  broken <- forgot # {}

(***************************************************************************)
(* The consensus implements one agreed ledger: no step lengthens it but    *)
(* the commit of a proposer that has all of it, nothing in it is ever      *)
(* replaced, and whatever a broker adopts, loads or is handed is part of   *)
(* it (AddBlock, ReplaceChain, Load).                                      *)
(***************************************************************************)
OneLedger == Agreed!Spec

\* Whoever pays in the list txs, which begins with block 0, has the amount
\* when the transactions before have been applied one by one.
Covered(txs) ==
  LET state == StatesAlong(EmptyState, txs)
  IN  \A i \in DOMAIN txs :
        txs[i].type \in DebitType =>
          state[i-1].balances[txs[i].from] >= txs[i].amount

\* The addresses that a transaction of txs brings a negative amount.
Charged(txs) ==
  {tx.to : tx \in {t \in ToSet(txs) : /\ t.type \in DebitType \cup {"MINT"}
                                     /\ t.amount < 0}}

(***************************************************************************)
(* No address ever spends more than it has, in any broker's chain: blocks  *)
(* built from mempools that admitted more than the balance together, or    *)
(* before another broker's block took it, are refused (AddBlock).  So an   *)
(* address ends below zero only where somebody was let charge it: a        *)
(* TRANSFER or a MINT of a negative Amount is checked against its sender,  *)
(* or not at all, and takes the Amount from its recipient.                 *)
(***************************************************************************)
NoOverdraft ==
  \A b \in Broker :
    LET txs == AllTransactions(chain[b])
    IN  /\ Covered(txs)
        /\ \A a \in Account \ Charged(txs) :
             RebuildState(chain[b]).balances[a] >= 0

\* A chain is replaced by one that holds what the broker's mempool holds too.
ReplacesUnderMempool ==
  \E b \in Broker : \E m \in adopting[b] :
    /\ \E tx \in ToSet(mempool[b]) : Contains(AllTransactions(m.hist), tx)
    /\ ReplaceChain(m)

\* The behaviours in which that does not happen.
DisjointSpec == Init /\ [][Next /\ ~ ReplacesUnderMempool]_vars

(***************************************************************************)
(* No transaction is in a chain twice, although it waits in several        *)
(* mempools and blocks are not checked for repeated IDs: a block removes   *)
(* its transactions from the mempool before the broker can propose again,  *)
(* and a file holds a chain and the mempool that goes with it.  It is a    *)
(* property of DisjointSpec: ReplaceChain does not remove what the new     *)
(* chain contains, against the comment in AddTxToMempool, "Prevent         *)
(* duplicate txs in mempool or blocks".                                    *)
(***************************************************************************)
CommittedOnce ==
  \A b \in Broker : IsInjective(AllTransactions(chain[b]))

\* The histories of the blocks that are proposed and voted for.
RoundHistories ==
  {m.hist : m \in {k \in net : k.type \in {"BLOCK_PROPOSAL", "BLOCK_VOTE"}}}

\* Nothing waits in pool twice, or waits there and is in the chain h.
Apart(h, pool) ==
  /\ IsInjective(pool)
  /\ \A tx \in ToSet(pool) : ~ Contains(AllTransactions(h), tx)

(***************************************************************************)
(* Why: it holds of every chain that exists and of every block on its way  *)
(* to a vote, and a mempool is kept apart from its chain, in a broker and  *)
(* in a file (AddTxToMempool, AddBlock, Save).  With TypeOK and            *)
(* AnnouncesItsFile this is inductive for DisjointSpec.                    *)
(***************************************************************************)
NothingTwice ==
  /\ \A h \in KnownHistories \cup RoundHistories :
       IsInjective(AllTransactions(h))
  /\ \A b \in Broker :
       /\ Apart(chain[b], mempool[b])
       /\ Apart(disk[b].blocks, disk[b].mempool)
       /\ \A s \in saving[b] : Apart(s.blocks, s.mempool)

-----------------------------------------------------------------------------
(***************************************************************************)
(* What the repository's documents and comments say of the consensus and   *)
(* its code does not do.                                                   *)
(***************************************************************************)

(***************************************************************************)
(* "Eliminating forks": two chains hold the same block at every index both *)
(* have.                                                                   *)
(***************************************************************************)
NoForks ==
  \A b, c \in Broker : \A n \in 1..Len(chain[b]) :
    n <= Len(chain[c]) => chain[b][n] = chain[c][n]

-----------------------------------------------------------------------------
(***************************************************************************)
(* Fairness.  Tickers, handlers and file writes of a running process go    *)
(* on, what can be delivered on a live connection is, connections are      *)
(* retried for ever and a crashed process is restarted; nothing makes a    *)
(* client submit, a broker crash or a connection break.                    *)
(***************************************************************************)
DeliverTx       == \E m \in Received("TX_BROADCAST") : ReceiveTx(m)
DeliverProposal == \E m \in Received("BLOCK_PROPOSAL") : HandleBlockProposal(m)
DeliverVote     == \E m \in Received("BLOCK_VOTE") : HandleBlockVote(m)
DeliverCommit   == \E m \in Received("BLOCK_COMMIT") : HandleBlockCommit(m)
DeliverSync     == \E m \in Received("CHAIN_SYNC") : HandleChainSync(m)
DeliverResponse == \E m \in Received("CHAIN_RESPONSE") : HandleChainResponse(m)

RunningFairness ==
  /\ WF_vars(DeliverTx) /\ WF_vars(DeliverProposal) /\ WF_vars(DeliverVote)
  /\ WF_vars(DeliverCommit) /\ WF_vars(DeliverSync)
  /\ WF_vars(DeliverResponse)
  /\ \A b \in Broker :
       /\ WF_vars(Propose(b))
       /\ WF_vars(\E s \in saving[b] : WriteFile(b, s))
       /\ WF_vars(RequestChain(b))
       /\ WF_vars(\E m \in adopting[b] : ReplaceChain(m))
  /\ \A b, c \in Broker : WF_vars(Connect(b, c))

RestartFairness == \A b \in Broker : WF_vars(Restart(b))

FairSpec == Spec /\ RunningFairness /\ RestartFairness

Committed(b, tx) == Contains(AllTransactions(chain[b]), tx)

(***************************************************************************)
(* A transaction that a broker admitted is eventually in the chain of      *)
(* every broker (loopConsensus and the handlers of a round).               *)
(***************************************************************************)
EveryoneCommits ==
  \A tx \in Tx : (tx \notin requests) ~> (\A b \in Broker : Committed(b, tx))
=============================================================================
