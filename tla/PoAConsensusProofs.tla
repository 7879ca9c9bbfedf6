-------------------------- MODULE PoAConsensusProofs --------------------------
(***************************************************************************)
(* Proofs about PoAConsensus, for every number of brokers, quorum, set of  *)
(* transactions, and number of crashes and broken connections: type        *)
(* correctness, that two chains can differ at an index only after the      *)
(* proposer of that index dropped a block of its own, that a quorum signed *)
(* every block of every chain, and that the chains implement AgreedLedger. *)
(*                                                                         *)
(* The last rests on this: while no proposer has forgotten a block of its  *)
(* own, a history that exists anywhere is a beginning of its last          *)
(* proposer's chain (ProposersPrevail); what a step puts into a chain is   *)
(* therefore agreed already, or the next block of a proposer that has all  *)
(* of the ledger.                                                          *)
(***************************************************************************)
EXTENDS PoAConsensus, Iteration, FiniteSetTheorems, SequenceTheorems

-----------------------------------------------------------------------------
(***************************************************************************)
(* What the mempool is after a block, and what a proposer takes from it.   *)
(* WithoutTxs is a recursive function: a function that satisfies the       *)
(* recursion exists (IterationExists), hence the chosen one does, and it   *)
(* goes through lists of transactions only (RunsByStep).                   *)
(***************************************************************************)

\* The loop of AddBlock over the mempool, step by step.
LEMMA WithoutTxsRuns ==
  ASSUME NEW pool \in Seq(Tx), NEW txs
  PROVE  \E kept \in [0..Len(pool) -> Seq(Tx)] :
           /\ WithoutTxs(pool, txs) = kept[Len(pool)]
           /\ kept[0] = <<>>
           /\ \A i \in 1..Len(pool) :
                kept[i] = IF Contains(txs, pool[i]) THEN kept[i-1]
                          ELSE Append(kept[i-1], pool[i])
<1>. DEFINE n == Len(pool)
            T == Seq(Tx)
            step == [p \in T \X (1..n) |->
                       IF Contains(txs, pool[p[2]]) THEN p[1]
                       ELSE Append(p[1], pool[p[2]])]
            Run(g) == [i \in 0..n |->
                         IF i = 0 THEN <<>>
                         ELSE IF Contains(txs, pool[i]) THEN g[i-1]
                         ELSE Append(g[i-1], pool[i])]
            kept == CHOOSE g : g = Run(g)
<1>1. WithoutTxs(pool, txs) = kept[n]
  BY DEF WithoutTxs
<1>2. n \in Nat /\ <<>> \in T /\ step \in [T \X (1..n) -> T]
  OBVIOUS
<1>3. PICK f : Runs(f, T, n, <<>>, step)
  <2>. HIDE DEF step, T, n
  <2>. QED  BY <1>2, IterationExists
<1>4. f = Run(f)
  <2>1. ASSUME NEW i \in 0..n
        PROVE  f[i] = Run(f)[i]
    <3>1. CASE i = 0
      BY <1>3, <3>1 DEF Runs
    <3>2. CASE i # 0
      <4>1. i-1 \in 0..n /\ i \in 1..n /\ f[i-1] \in T
        BY <1>3, <3>2 DEF Runs
      <4>2. f[i] = step[<<f[i-1], i>>]
        BY <1>3, <4>1 DEF Runs
      <4>3. <<f[i-1], i>> \in T \X (1..n)
        BY <4>1
      <4>4. step[<<f[i-1], i>>] = IF Contains(txs, pool[i]) THEN f[i-1]
                                  ELSE Append(f[i-1], pool[i])
        BY <4>3
      <4>. QED  BY <4>2, <4>4, <3>2
    <3>. QED  BY <3>1, <3>2
  <2>. QED  BY <1>3, <2>1 DEF Runs
<1>5. kept = Run(kept)
  BY <1>4
<1>. HIDE DEF kept
<1>6. /\ kept[0] = <<>>
      /\ \A i \in 1..n :
           kept[i] = IF Contains(txs, pool[i]) THEN kept[i-1]
                     ELSE Append(kept[i-1], pool[i])
  <2>1. 0 \in 0..n /\ \A i \in 1..n : i \in 0..n /\ i # 0
    OBVIOUS
  <2>2. \A i \in 0..n : kept[i] = Run(kept)[i]
    BY <1>5
  <2>. QED  BY <2>1, <2>2
<1>7. kept = [i \in 0..n |-> kept[i]]
  BY <1>5
<1>8. Runs(kept, T, n, <<>>, step)
  <2>1. ASSUME NEW i \in 1..n, kept[i-1] \in T
        PROVE  kept[i] = step[<<kept[i-1], i>>]
    <3>1. <<kept[i-1], i>> \in T \X (1..n)
      BY <2>1
    <3>. QED  BY <1>6, <3>1
  <2>. HIDE DEF step, T, n
  <2>. QED  BY <1>2, <1>6, <1>7, <2>1, RunsByStep
<1>. QED  BY <1>1, <1>6, <1>8 DEF Runs

\* Removing a block's transactions from a mempool leaves a mempool.
LEMMA WithoutTxsType ==
  ASSUME NEW pool \in Seq(Tx), NEW txs
  PROVE  WithoutTxs(pool, txs) \in Seq(Tx)
BY WithoutTxsRuns

\* What is left was there, once if it was there once, and is not in the
\* block.
LEMMA WithoutTxsKeeps ==
  ASSUME NEW pool \in Seq(Tx), NEW txs, IsInjective(pool)
  PROVE  /\ IsInjective(WithoutTxs(pool, txs))
         /\ \A tx \in ToSet(WithoutTxs(pool, txs)) :
              tx \in ToSet(pool) /\ ~ Contains(txs, tx)
<1>1. PICK kept \in [0..Len(pool) -> Seq(Tx)] :
        /\ WithoutTxs(pool, txs) = kept[Len(pool)]
        /\ kept[0] = <<>>
        /\ \A i \in 1..Len(pool) :
             kept[i] = IF Contains(txs, pool[i]) THEN kept[i-1]
                       ELSE Append(kept[i-1], pool[i])
  BY WithoutTxsRuns
<1>. DEFINE Good(k, i) ==
              /\ \A x, y \in 1..Len(k) : k[x] = k[y] => x = y
              /\ \A x \in 1..Len(k) : /\ ~ Contains(txs, k[x])
                                       /\ \E j \in 1..i : k[x] = pool[j]
            S == {i \in 0..Len(pool) : Good(kept[i], i)}
<1>2. 0 \in S
  BY <1>1
<1>3. ASSUME NEW i \in 1..Len(pool), i-1 \in S
      PROVE  i \in S
  <2>1. i-1 \in 0..Len(pool) /\ kept[i-1] \in Seq(Tx)
    OBVIOUS
  <2>. DEFINE k == kept[i-1]
  <2>2. Good(k, i-1)
    BY <1>3
  <2>3. CASE Contains(txs, pool[i])
    <3>1. kept[i] = k
      BY <1>1, <2>3
    <3>2. \A x \in 1..Len(k) : (\E j \in 1..i-1 : k[x] = pool[j])
                                  => \E j \in 1..i : k[x] = pool[j]
      OBVIOUS
    <3>3. Good(k, i)
      BY <2>2, <3>2
    <3>4. Good(kept[i], i)
      BY <3>1, <3>3
    <3>. HIDE DEF Good
    <3>. QED  BY <3>4
  <2>4. CASE ~ Contains(txs, pool[i])
    <3>1. kept[i] = Append(k, pool[i])
      BY <1>1, <2>4
    <3>2. pool[i] \in Tx /\ k \in Seq(Tx) /\ Len(k) \in Nat
      BY <2>1
    <3>. DEFINE a == Append(k, pool[i])
    <3>3. /\ Len(a) = Len(k) + 1 /\ a[Len(k) + 1] = pool[i]
          /\ \A x \in 1..Len(k) : a[x] = k[x]
      BY <3>2
    <3>4. \A x \in 1..Len(k) : k[x] # pool[i]
      <4>1. ASSUME NEW x \in 1..Len(k), k[x] = pool[i]
            PROVE  FALSE
        <5>1. PICK j \in 1..i-1 : k[x] = pool[j]
          BY <2>2
        <5>2. \A u, v \in 1..Len(pool) : pool[u] = pool[v] => u = v
          BY DEF IsInjective
        <5>3. j \in 1..Len(pool) /\ j # i
          OBVIOUS
        <5>. QED  BY <4>1, <5>1, <5>2, <5>3
      <4>. QED  BY <4>1
    <3>. HIDE DEF a, k
    <3>5. ASSUME NEW x \in 1..Len(a), NEW y \in 1..Len(a), a[x] = a[y]
          PROVE  x = y
      BY <3>2, <3>3, <3>4, <3>5, <2>2
    <3>6. ASSUME NEW x \in 1..Len(a)
          PROVE  ~ Contains(txs, a[x]) /\ \E j \in 1..i : a[x] = pool[j]
      BY <3>2, <3>3, <2>2, <2>4
    <3>7. Good(a, i)
      BY <3>5, <3>6
    <3>8. Good(kept[i], i)
      BY <3>1, <3>7 DEF a
    <3>. HIDE DEF Good
    <3>. QED  BY <3>8
  <2>. QED  BY <2>3, <2>4
<1>4. Len(pool) \in S
  <2>. HIDE DEF S
  <2>1. Len(pool) \in Nat /\ Len(pool) \in 0..Len(pool)
    OBVIOUS
  <2>. QED  BY <1>2, <1>3, <2>1, UpTo
<1>. DEFINE k == WithoutTxs(pool, txs)
<1>5. Good(k, Len(pool)) /\ k \in Seq(Tx)
  BY <1>1, <1>4
<1>6. DOMAIN k = 1..Len(k) /\ DOMAIN pool = 1..Len(pool)
  BY <1>5
<1>. HIDE DEF k
<1>7. IsInjective(k)
  BY <1>5, <1>6 DEF IsInjective
<1>8. \A tx \in ToSet(k) : tx \in ToSet(pool) /\ ~ Contains(txs, tx)
  BY <1>5, <1>6 DEF ToSet
<1>. QED  BY <1>7, <1>8 DEF k

\* A proposer takes transactions of its mempool.
LEMMA ProposedTxsType ==
  ASSUME NEW pool \in Seq(Tx)
  PROVE  ProposedTxs(pool) \in Seq(Tx)
<1>1. MaxBlockTxs \in Nat
  BY LedgerAssumption DEF LedgerAssumption
<1>. DEFINE k == Min({Len(pool), MaxBlockTxs})
<1>2. k \in 0..Len(pool)
  <2>1. \E x \in {Len(pool), MaxBlockTxs} :
          \A y \in {Len(pool), MaxBlockTxs} : x <= y
    BY <1>1
  <2>. QED  BY <2>1, <1>1 DEF Min
<1>. HIDE DEF k
<1>3. SubSeq(pool, 1, k) \in Seq(Tx)
  BY <1>2
<1>. QED  BY <1>3 DEF ProposedTxs, k

-----------------------------------------------------------------------------
(***************************************************************************)
(* Facts about proposers, histories and messages.                          *)
(***************************************************************************)

\* The validator of every index is a broker.
LEMMA ProposerType ==
  ASSUME NEW n \in Nat
  PROVE  Proposer(n) \in Broker
BY PoAAssumption DEF Proposer, Broker, Range, PoAAssumption

\* A history that is not the genesis block is a history and a block.
LEMMA HistoryParts ==
  ASSUME NEW hist \in History, hist # <<>>
  PROVE  /\ Front(hist) \in History /\ Last(hist) \in Block
         /\ Len(hist) \in Nat \ {0} /\ Len(Front(hist)) = Len(hist) - 1
         /\ \A i \in 1..Len(Front(hist)) : Front(hist)[i] = hist[i]
         /\ Last(hist).txs \in Seq(Tx)
<1>1. /\ Front(hist) \in History /\ Last(hist) \in Block
      /\ Len(hist) \in Nat \ {0} /\ Len(Front(hist)) = Len(hist) - 1
      /\ \A i \in 1..Len(Front(hist)) : Front(hist)[i] = hist[i]
  BY DEF History, Front, Last
<1>. QED  BY <1>1 DEF Block

\* What a broker proposes is a history.
LEMMA ProposalType ==
  ASSUME NEW hist \in History, NEW pool \in Seq(Tx), NEW stamp \in Nat
  PROVE  Append(hist, [txs |-> ProposedTxs(pool), stamp |-> stamp]) \in History
<1>1. [txs |-> ProposedTxs(pool), stamp |-> stamp] \in Block
  BY ProposedTxsType DEF Block
<1>. QED  BY <1>1 DEF History

\* The constructors of messages make messages.
LEMMA MessageType ==
  ASSUME NEW b \in Broker, NEW c \in Broker
  PROVE  /\ \A tx \in Tx : TxMsg(b, c, tx) \in Message
         /\ \A h \in History :
              /\ BlockMsg("BLOCK_PROPOSAL", b, c, h) \in Message
              /\ BlockMsg("BLOCK_VOTE", b, c, h) \in Message
              /\ BlockMsg("CHAIN_RESPONSE", b, c, h) \in Message
              /\ \A vs \in SUBSET Broker : CommitMsg(b, c, h, vs) \in Message
         /\ SyncMsg(b, c) \in Message
BY DEF Message, TxMsg, BlockMsg, CommitMsg, SyncMsg

\* The fields a message of each type has.
LEMMA MessageFields ==
  ASSUME NEW m \in Message
  PROVE  /\ m.from \in Broker /\ m.to \in Broker
         /\ m.type = "TX_BROADCAST" => m.tx \in Tx
         /\ m.type \in {"BLOCK_PROPOSAL", "BLOCK_VOTE", "CHAIN_RESPONSE",
                        "BLOCK_COMMIT"} => m.hist \in History
BY DEF Message

-----------------------------------------------------------------------------
(***************************************************************************)
(* Type correctness.                                                       *)
(***************************************************************************)

\* The initial state is well typed.
LEMMA InitType == Init => TypeOK
<1>. SUFFICES ASSUME Init PROVE TypeOK
  OBVIOUS
<1>1. <<>> \in History /\ <<>> \in Seq(Tx)
  BY DEF History
<1>2. [blocks |-> <<>>, mempool |-> <<>>] \in File
  BY <1>1 DEF File
<1>. QED  BY <1>1, <1>2 DEF Init, TypeOK

\* AddBlock makes the chain of b the history of the block it appends.
LEMMA AddBlockMeans ==
  ASSUME TypeOK, NEW b \in Broker, NEW hist \in History, NEW announce,
         Appendable(b, hist), AddBlock(b, hist, announce)
  PROVE  /\ chain' = [chain EXCEPT ![b] = hist]
         /\ saving' = [saving EXCEPT ![b] = @ \cup
                         {[blocks |-> hist,
                           mempool |-> WithoutTxs(mempool[b], Last(hist).txs),
                           announce |-> announce]}]
         /\ \A p \in Broker : \A s \in saving'[p] :
              \/ s \in saving[p]
              \/ s.blocks = hist /\ s.announce = announce
<1>1. hist # <<>> /\ Front(hist) = chain[b]
  BY DEF Appendable
<1>2. /\ Len(hist) \in Nat \ {0} /\ Len(chain[b]) = Len(hist) - 1
      /\ \A i \in 1..Len(chain[b]) : chain[b][i] = hist[i]
      /\ chain[b] \in Seq(Block) /\ hist \in Seq(Block) /\ Last(hist) \in Block
  BY <1>1, HistoryParts DEF History
<1>3. Last(hist) = hist[Len(hist)]
  BY DEF Last
<1>4. /\ Append(chain[b], Last(hist)) \in Seq(Block)
      /\ Len(Append(chain[b], Last(hist))) = Len(hist)
      /\ \A i \in 1..Len(hist) : Append(chain[b], Last(hist))[i] = hist[i]
  BY <1>2, <1>3
<1>5. Append(chain[b], Last(hist)) = hist
  BY <1>2, <1>4, SeqEqual
<1>. DEFINE save == [blocks |-> hist,
                     mempool |-> WithoutTxs(mempool[b], Last(hist).txs),
                     announce |-> announce]
<1>6. /\ chain' = [chain EXCEPT ![b] = hist]
      /\ saving' = [saving EXCEPT ![b] = @ \cup {save}]
  BY <1>5 DEF AddBlock
<1>7. save.blocks = hist /\ save.announce = announce
  OBVIOUS
<1>. HIDE DEF save
<1>8. \A p \in Broker : \A s \in saving'[p] : s \in saving[p] \/ s = save
  BY <1>6 DEF TypeOK
<1>. QED  BY <1>6, <1>7, <1>8 DEF save

\* What AddBlock writes is well typed.
LEMMA AddBlockType ==
  ASSUME TypeOK, NEW b \in Broker, NEW hist \in History,
         Appendable(b, hist),
         NEW announce \in History, AddBlock(b, hist, announce)
  PROVE  /\ chain' \in [Broker -> History]
         /\ mempool' \in [Broker -> Seq(Tx)]
         /\ saving' \in [Broker -> SUBSET Save]
<1>. DEFINE pool == WithoutTxs(mempool[b], Last(hist).txs)
<1>1. pool \in Seq(Tx)
  BY WithoutTxsType DEF TypeOK
<1>. HIDE DEF pool
<1>2. [blocks |-> hist, mempool |-> pool, announce |-> announce] \in Save
  BY <1>1 DEF Save
<1>3. /\ chain' = [chain EXCEPT ![b] = hist]
      /\ mempool' = [mempool EXCEPT ![b] = pool]
      /\ saving' = [saving EXCEPT ![b] = @ \cup
                      {[blocks |-> hist, mempool |-> pool,
                        announce |-> announce]}]
  <2>1. mempool' = [mempool EXCEPT ![b] = pool]
    BY DEF AddBlock, pool
  <2>2. /\ chain' = [chain EXCEPT ![b] = hist]
        /\ saving' = [saving EXCEPT ![b] = @ \cup
                        {[blocks |-> hist, mempool |-> pool,
                          announce |-> announce]}]
    BY AddBlockMeans DEF pool
  <2>. QED  BY <2>1, <2>2
<1>. QED  BY <1>1, <1>2, <1>3 DEF TypeOK

\* Every step keeps the types.
LEMMA NextType == TypeOK /\ [Next]_vars => TypeOK'
<1>. SUFFICES ASSUME TypeOK, [Next]_vars PROVE TypeOK'
  OBVIOUS
<1>. USE DEF nodeVars, roundVars, syncVars, netVars, boundVars, histVars
<1>1. ASSUME NEW b \in Broker, NEW tx \in Tx, SubmitTx(b, tx)
      PROVE  TypeOK'
  <2>1. net' \subseteq Message
    <3>1. \A c \in Neighbours(b) : TxMsg(b, c, tx) \in Message
      BY MessageType DEF Neighbours
    <3>. QED  BY <1>1, <3>1 DEF SubmitTx, TypeOK
  <2>2. mempool' \in [Broker -> Seq(Tx)]
    BY <1>1 DEF SubmitTx, TypeOK
  <2>. QED  BY <1>1, <2>1, <2>2 DEF SubmitTx, TypeOK
<1>2. ASSUME NEW m \in Received("TX_BROADCAST"), ReceiveTx(m)
      PROVE  TypeOK'
  <2>1. m \in Message /\ m.to \in Broker /\ m.tx \in Tx
    BY MessageFields DEF Received, TypeOK
  <2>2. mempool' \in [Broker -> Seq(Tx)]
    BY <1>2, <2>1 DEF ReceiveTx, TypeOK
  <2>. QED  BY <1>2, <2>2 DEF ReceiveTx, TypeOK
<1>3. ASSUME NEW b \in Broker, Propose(b)
      PROVE  TypeOK'
  <2>. DEFINE hist == Append(chain[b], [txs |-> ProposedTxs(mempool[b]),
                                        stamp |-> clock])
  <2>1. hist \in History
    BY ProposalType DEF TypeOK
  <2>2. /\ clock' = clock + 1
        /\ votes' = [votes EXCEPT ![b] = @ \cup {<<hist, b>>}]
        /\ signed' = signed \cup {<<hist, b>>}
        /\ net' = net \cup {BlockMsg("BLOCK_PROPOSAL", b, c, hist) :
                              c \in Neighbours(b)}
        /\ UNCHANGED <<chain, mempool, disk, saving, up, votedBlocks, synced,
                       adopting, links, requests, crashes, drops, forgot>>
    BY <1>3 DEF Propose
  <2>. HIDE DEF hist
  <2>3. net' \subseteq Message
    <3>1. \A c \in Neighbours(b) :
            BlockMsg("BLOCK_PROPOSAL", b, c, hist) \in Message
      BY <2>1, MessageType DEF Neighbours
    <3>. QED  BY <2>2, <3>1 DEF TypeOK
  <2>4. votes' \in [Broker -> SUBSET (History \X Broker)]
    BY <2>1, <2>2 DEF TypeOK
  <2>. QED  BY <2>1, <2>2, <2>3, <2>4 DEF TypeOK
<1>4. ASSUME NEW m \in Received("BLOCK_PROPOSAL"), HandleBlockProposal(m)
      PROVE  TypeOK'
  <2>1. m \in Message /\ m.to \in Broker /\ m.from \in Broker
          /\ m.hist \in History
    BY MessageFields DEF Received, TypeOK
  <2>2. net' \subseteq Message
    BY <1>4, <2>1, MessageType DEF HandleBlockProposal, TypeOK
  <2>3. votedBlocks' \in [Broker -> SUBSET History]
          /\ signed' \subseteq History \X Broker
    BY <1>4, <2>1 DEF HandleBlockProposal, TypeOK
  <2>. QED  BY <1>4, <2>2, <2>3 DEF HandleBlockProposal, TypeOK
<1>5. ASSUME NEW m \in Received("BLOCK_VOTE"), HandleBlockVote(m)
      PROVE  TypeOK'
  <2>1. m \in Message /\ m.to \in Broker /\ m.from \in Broker
          /\ m.hist \in History
    BY MessageFields DEF Received, TypeOK
  <2>2. votes' \in [Broker -> SUBSET (History \X Broker)]
          /\ net' \subseteq Message
    BY <1>5, <2>1 DEF HandleBlockVote, TypeOK
  <2>3. /\ chain' \in [Broker -> History]
        /\ mempool' \in [Broker -> Seq(Tx)]
        /\ saving' \in [Broker -> SUBSET Save]
    <3>1. CASE UNCHANGED <<chain, mempool, saving>>
      BY <3>1 DEF TypeOK
    <3>2. CASE Appendable(m.to, m.hist) /\ AddBlock(m.to, m.hist, m.hist)
      BY <3>2, <2>1, AddBlockType
    <3>. QED  BY <1>5, <3>1, <3>2 DEF HandleBlockVote
  <2>. QED  BY <1>5, <2>2, <2>3 DEF HandleBlockVote, TypeOK
<1>6. ASSUME NEW m \in Received("BLOCK_COMMIT"), HandleBlockCommit(m)
      PROVE  TypeOK'
  <2>1. m \in Message /\ m.to \in Broker /\ m.hist \in History
    BY MessageFields DEF Received, TypeOK
  <2>2. /\ Appendable(m.to, m.hist) /\ AddBlock(m.to, m.hist, <<>>)
        /\ <<>> \in History
    BY <1>6 DEF HandleBlockCommit, History
  <2>3. /\ chain' \in [Broker -> History]
        /\ mempool' \in [Broker -> Seq(Tx)]
        /\ saving' \in [Broker -> SUBSET Save]
    BY <2>1, <2>2, AddBlockType
  <2>. QED  BY <1>6, <2>3 DEF HandleBlockCommit, TypeOK
<1>7. ASSUME NEW b \in Broker, NEW s \in saving[b], WriteFile(b, s)
      PROVE  TypeOK'
  <2>1. /\ s \in Save
        /\ s.blocks \in History /\ s.mempool \in Seq(Tx)
        /\ s.announce \in History
    BY DEF TypeOK, Save
  <2>2. disk' \in [Broker -> File \cup {Torn}]
    <3>1. [blocks |-> s.blocks, mempool |-> s.mempool] \in File
      BY <2>1 DEF File
    <3>. QED  BY <1>7, <3>1 DEF WriteFile, TypeOK
  <2>3. saving' \in [Broker -> SUBSET Save]
    BY <1>7 DEF WriteFile, TypeOK
  <2>4. net' \subseteq Message /\ votes' \in [Broker -> SUBSET (History \X Broker)]
    <3>1. CASE s.announce = <<>>
      BY <1>7, <3>1 DEF WriteFile, TypeOK
    <3>2. CASE s.announce # <<>>
      <4>1. VotersOf(b, s.announce) \subseteq Broker
        BY DEF VotersOf
      <4>2. /\ net' = net \cup Announcement(b, s.announce)
            /\ votes' = [votes EXCEPT ![b] = {v \in @ : v[1] # s.announce}]
        BY <1>7, <3>2 DEF WriteFile
      <4>3. net' \subseteq Message
        <5>1. \A c \in Neighbours(b) :
                CommitMsg(b, c, s.announce, VotersOf(b, s.announce))
                  \in Message
          BY <2>1, <4>1, MessageType DEF Neighbours
        <5>. QED  BY <4>2, <5>1 DEF TypeOK, Announcement
      <4>. QED  BY <4>2, <4>3 DEF TypeOK
    <3>. QED  BY <3>1, <3>2
  <2>. QED  BY <1>7, <2>2, <2>3, <2>4 DEF WriteFile, TypeOK
<1>8. ASSUME NEW b \in Broker, RequestChain(b)
      PROVE  TypeOK'
  <2>1. net' \subseteq Message
    <3>1. \A c \in Neighbours(b) : SyncMsg(b, c) \in Message
      BY MessageType DEF Neighbours
    <3>. QED  BY <1>8, <3>1 DEF RequestChain, TypeOK
  <2>. QED  BY <1>8, <2>1 DEF RequestChain, TypeOK
<1>9. ASSUME NEW m \in Received("CHAIN_SYNC"), HandleChainSync(m)
      PROVE  TypeOK'
  <2>1. m \in Message /\ m.to \in Broker /\ m.from \in Broker
    BY MessageFields DEF Received, TypeOK
  <2>2. net' \subseteq Message
    BY <1>9, <2>1, MessageType DEF HandleChainSync, TypeOK
  <2>. QED  BY <1>9, <2>2 DEF HandleChainSync, TypeOK
<1>10. ASSUME NEW m \in Received("CHAIN_RESPONSE"), HandleChainResponse(m)
       PROVE  TypeOK'
  <2>1. m \in Message /\ m.to \in Broker /\ m.type = "CHAIN_RESPONSE"
    BY MessageFields DEF Received, TypeOK
  <2>2. /\ adopting' = [adopting EXCEPT ![m.to] = @ \cup {m}]
        /\ adopting' \in [Broker -> SUBSET Message]
    BY <1>10, <2>1 DEF HandleChainResponse, TypeOK
  <2>3. \A b \in Broker : \A k \in adopting'[b] :
          k.type = "CHAIN_RESPONSE" /\ k.to = b
    BY <2>1, <2>2 DEF TypeOK
  <2>. QED  BY <1>10, <2>2, <2>3 DEF HandleChainResponse, TypeOK
<1>11. ASSUME NEW b \in Broker, NEW m \in adopting[b], ReplaceChain(m)
       PROVE  TypeOK'
  <2>1. m \in Message /\ m.type = "CHAIN_RESPONSE" /\ m.to = b
    BY DEF TypeOK
  <2>2. m.hist \in History
    BY <2>1, MessageFields
  <2>3. [blocks |-> m.hist, mempool |-> mempool[b], announce |-> <<>>] \in Save
    BY <2>2 DEF Save, TypeOK, History
  <2>4. chain' \in [Broker -> History] /\ saving' \in [Broker -> SUBSET Save]
    BY <1>11, <2>1, <2>2, <2>3 DEF ReplaceChain, TypeOK
  <2>5. /\ adopting' \in [Broker -> SUBSET Message]
        /\ \A c \in Broker : \A k \in adopting'[c] :
             k.type = "CHAIN_RESPONSE" /\ k.to = c
    BY <1>11, <2>1 DEF ReplaceChain, TypeOK
  <2>. QED  BY <1>11, <2>1, <2>4, <2>5 DEF ReplaceChain, TypeOK
<1>12. ASSUME NEW b \in Broker, Crash(b)
       PROVE  TypeOK'
  <2>1. <<>> \in Seq(Tx)
    OBVIOUS
  <2>2. disk' \in [Broker -> File \cup {Torn}]
    BY <1>12 DEF Crash, TypeOK
  <2>3. /\ saving' \in [Broker -> SUBSET Save]
        /\ votes' \in [Broker -> SUBSET (History \X Broker)]
        /\ votedBlocks' \in [Broker -> SUBSET History]
        /\ adopting' \in [Broker -> SUBSET Message]
        /\ \A c \in Broker : \A k \in adopting'[c] :
             k.type = "CHAIN_RESPONSE" /\ k.to = c
    BY <1>12 DEF Crash, TypeOK
  <2>4. links' \subseteq SUBSET Broker /\ net' \subseteq Message
    BY <1>12 DEF Crash, TypeOK
  <2>5. /\ mempool' \in [Broker -> Seq(Tx)] /\ up' \in [Broker -> BOOLEAN]
        /\ {clock, crashes, drops}' \subseteq Nat
    BY <1>12, <2>1 DEF Crash, TypeOK
  <2>. QED  BY <1>12, <2>2, <2>3, <2>4, <2>5 DEF Crash, TypeOK
<1>13. ASSUME NEW b \in Broker, Restart(b)
       PROVE  TypeOK'
  <2>1. disk[b] \in File
    BY <1>13 DEF Restart, TypeOK
  <2>2. disk[b].blocks \in History /\ disk[b].mempool \in Seq(Tx)
    BY <2>1 DEF File
  <2>. QED  BY <1>13, <2>2 DEF Restart, TypeOK
<1>14. ASSUME NEW b \in Broker, NEW c \in Broker, Connect(b, c)
       PROVE  TypeOK'
  <2>1. ToSet(mempool[b]) \subseteq Tx /\ ToSet(mempool[c]) \subseteq Tx
    BY DEF ToSet, TypeOK
  <2>2. net' \subseteq Message
    BY <1>14, <2>1, MessageType DEF Connect, TypeOK
  <2>. QED  BY <1>14, <2>2 DEF Connect, TypeOK
<1>15. ASSUME NEW b \in Broker, NEW c \in Broker, Drop(b, c)
       PROVE  TypeOK'
  BY <1>15 DEF Drop, TypeOK
<1>16. CASE UNCHANGED vars
  BY <1>16 DEF vars, TypeOK
<1>. QED
  BY <1>1, <1>2, <1>3, <1>4, <1>5, <1>6, <1>7, <1>8, <1>9, <1>10, <1>11,
     <1>12, <1>13, <1>14, <1>15, <1>16 DEF Next

(***************************************************************************)
(* Every variable keeps its type in every behaviour.                       *)
(***************************************************************************)
THEOREM TypeCorrect == Spec => []TypeOK
BY InitType, NextType, PTL DEF Spec

-----------------------------------------------------------------------------
(***************************************************************************)
(* Forks.  First, what a step may do to the chains: a broker keeps the     *)
(* blocks it proposed unless it is recorded in forgot.                     *)
(***************************************************************************)

LEMMA SameUpToTransitive ==
  ASSUME NEW h \in History, NEW g \in History, NEW k \in History,
         NEW n \in Nat, SameUpTo(h, g, n), SameUpTo(g, k, n)
  PROVE  SameUpTo(h, k, n)
BY DEF SameUpTo, History

OwnBlocksKept ==
  /\ forgot \subseteq forgot'
  /\ \A p \in Broker : \A n \in 1..Len(chain[p]) :
       p \notin forgot' /\ Proposer(n) = p
         => SameUpTo(chain[p], chain'[p], n)

\* Appending a block keeps all blocks.
LEMMA AppendKeepsBlocks ==
  ASSUME TypeOK, NEW b \in Broker, NEW hist \in History, NEW announce,
         Appendable(b, hist), AddBlock(b, hist, announce)
  PROVE  \A p \in Broker : \A n \in 1..Len(chain[p]) :
           SameUpTo(chain[p], chain'[p], n)
<1>1. /\ Front(hist) = chain[b] /\ Len(hist) = Len(chain[b]) + 1
      /\ \A i \in 1..Len(chain[b]) : chain[b][i] = hist[i]
      /\ Len(chain[b]) \in Nat
  BY HistoryParts DEF Appendable, TypeOK, History
<1>2. chain' = [chain EXCEPT ![b] = hist]
  BY AddBlockMeans
<1>. SUFFICES ASSUME NEW p \in Broker, NEW n \in 1..Len(chain[p])
              PROVE  SameUpTo(chain[p], chain'[p], n)
  OBVIOUS
<1>3. Len(chain[p]) \in Nat
  BY DEF TypeOK, History
<1>4. CASE p = b
  <2>1. chain'[p] = hist
    BY <1>2, <1>4 DEF TypeOK
  <2>. QED  BY <1>1, <1>4, <2>1 DEF SameUpTo
<1>5. CASE p # b
  <2>1. chain'[p] = chain[p]
    BY <1>2, <1>5 DEF TypeOK
  <2>. QED  BY <1>3, <2>1 DEF SameUpTo
<1>. QED  BY <1>4, <1>5

\* A chain that is replaced keeps the broker's own blocks, or the broker is
\* recorded.
LEMMA ReplacedChainIsRecorded ==
  ASSUME TypeOK, NEW b \in Broker, NEW new \in History,
         chain' = [chain EXCEPT ![b] = new],
         forgot' = IF DropsOwn(b, chain[b], new) THEN forgot \cup {b}
                   ELSE forgot
  PROVE  OwnBlocksKept
<1>1. forgot \subseteq forgot'
  OBVIOUS
<1>2. ASSUME NEW p \in Broker, NEW n \in 1..Len(chain[p]),
             p \notin forgot', Proposer(n) = p
      PROVE  SameUpTo(chain[p], chain'[p], n)
  <2>1. CASE p = b
    <3>1. chain'[p] = new
      BY <2>1 DEF TypeOK
    <3>2. ~ DropsOwn(b, chain[b], new)
      BY <1>2, <2>1
    <3>. QED  BY <1>2, <2>1, <3>1, <3>2 DEF DropsOwn
  <2>2. CASE p # b
    <3>1. chain'[p] = chain[p] /\ Len(chain[p]) \in Nat
      BY <2>2 DEF TypeOK, History
    <3>. QED  BY <3>1 DEF SameUpTo
  <2>. QED  BY <2>1, <2>2
<1>. QED  BY <1>1, <1>2 DEF OwnBlocksKept

\* A step that leaves the chains alone keeps everybody's blocks.
LEMMA SameChainsKept ==
  ASSUME TypeOK, chain' = chain, forgot' = forgot
  PROVE  OwnBlocksKept
<1>1. \A p \in Broker : Len(chain[p]) \in Nat
  BY DEF TypeOK, History
<1>. QED  BY <1>1 DEF OwnBlocksKept, SameUpTo

\* Every step keeps the blocks of the brokers it does not record.
LEMMA NextKeepsOwnBlocks == TypeOK /\ [Next]_vars => OwnBlocksKept
<1>. SUFFICES ASSUME TypeOK, [Next]_vars PROVE OwnBlocksKept
  OBVIOUS
<1>. USE DEF nodeVars, roundVars, syncVars, netVars, boundVars, histVars
<1>1. CASE chain' = chain /\ forgot' = forgot
  BY <1>1, SameChainsKept
<1>2. ASSUME NEW m \in Received("BLOCK_VOTE"), HandleBlockVote(m)
      PROVE  OwnBlocksKept
  <2>1. m \in Message /\ m.to \in Broker /\ m.hist \in History
    BY MessageFields DEF Received, TypeOK
  <2>2. CASE Appendable(m.to, m.hist) /\ AddBlock(m.to, m.hist, m.hist)
    BY <1>2, <2>1, <2>2, AppendKeepsBlocks DEF OwnBlocksKept, HandleBlockVote
  <2>. QED  BY <1>1, <1>2, <2>2 DEF HandleBlockVote
<1>3. ASSUME NEW m \in Received("BLOCK_COMMIT"), HandleBlockCommit(m)
      PROVE  OwnBlocksKept
  <2>1. m \in Message /\ m.to \in Broker /\ m.hist \in History
    BY MessageFields DEF Received, TypeOK
  <2>. QED  BY <1>3, <2>1, AppendKeepsBlocks DEF OwnBlocksKept, HandleBlockCommit
<1>4. ASSUME NEW b \in Broker, NEW m \in adopting[b], ReplaceChain(m)
      PROVE  OwnBlocksKept
  <2>1. m \in Message /\ m.to = b /\ m.hist \in History
    BY MessageFields DEF TypeOK
  <2>. QED  BY <1>4, <2>1, ReplacedChainIsRecorded DEF ReplaceChain
<1>5. ASSUME NEW b \in Broker, Restart(b)
      PROVE  OwnBlocksKept
  <2>1. disk[b].blocks \in History
    BY <1>5 DEF Restart, TypeOK, File
  <2>. QED  BY <1>5, <2>1, ReplacedChainIsRecorded DEF Restart
<1>6. CASE UNCHANGED vars
  BY <1>1, <1>6 DEF vars
<1>. QED
  BY <1>1, <1>2, <1>3, <1>4, <1>5, <1>6
     DEF Next, SubmitTx, ReceiveTx, Propose, HandleBlockProposal, WriteFile,
         RequestChain, HandleChainSync, HandleChainResponse, Crash, Connect,
         Drop
(***************************************************************************)
(* Which chains a step brings into being.                                  *)
(***************************************************************************)

\* Where a known chain is.
LEMMA KnownMeans ==
  ASSUME NEW h
  PROVE  h \in KnownHistories <=>
           \/ \E b \in Broker : h = chain[b]
           \/ \E b \in Broker : h = disk[b].blocks
           \/ \E b \in Broker : \E s \in saving[b] : h = s.blocks
           \/ \E b \in Broker : \E m \in adopting[b] : h = m.hist
           \/ \E m \in net : /\ m.type \in {"BLOCK_COMMIT", "CHAIN_RESPONSE"}
                             /\ h = m.hist
BY DEF KnownHistories

\* The same in the state after a step.
LEMMA KnownMeansNext ==
  ASSUME NEW h
  PROVE  h \in KnownHistories' <=>
           \/ \E b \in Broker : h = chain'[b]
           \/ \E b \in Broker : h = disk'[b].blocks
           \/ \E b \in Broker : \E s \in saving'[b] : h = s.blocks
           \/ \E b \in Broker : \E m \in adopting'[b] : h = m.hist
           \/ \E m \in net' : /\ m.type \in {"BLOCK_COMMIT", "CHAIN_RESPONSE"}
                              /\ h = m.hist
BY DEF KnownHistories

\* Known chains are histories.
LEMMA KnownType ==
  ASSUME TypeOK
  PROVE  KnownHistories \subseteq History
<1>. SUFFICES ASSUME NEW h \in KnownHistories PROVE h \in History
  OBVIOUS
<1>1. <<>> \in History
  BY DEF History
<1>2. CASE \E b \in Broker : h = chain[b]
  BY <1>2 DEF TypeOK
<1>3. CASE \E b \in Broker : h = disk[b].blocks
  BY <1>1, <1>3 DEF TypeOK, File, Torn
<1>4. CASE \E b \in Broker : \E s \in saving[b] : h = s.blocks
  BY <1>4 DEF TypeOK, Save
<1>5. CASE \E b \in Broker : \E m \in adopting[b] : h = m.hist
  <2>1. PICK b \in Broker : \E m \in adopting[b] : h = m.hist
    BY <1>5
  <2>2. PICK m \in adopting[b] : h = m.hist
    BY <2>1
  <2>3. m \in Message /\ m.type = "CHAIN_RESPONSE"
    BY DEF TypeOK
  <2>. QED  BY <2>2, <2>3, MessageFields
<1>6. CASE \E m \in net : /\ m.type \in {"BLOCK_COMMIT", "CHAIN_RESPONSE"}
                          /\ h = m.hist
  BY <1>6, MessageFields DEF TypeOK
<1>. QED  BY <1>2, <1>3, <1>4, <1>5, <1>6, KnownMeans

\* A proposer appends h, its own block with a quorum of counted votes.
Commits(h) ==
  \E m \in Received("BLOCK_VOTE") :
    /\ h = m.hist
    /\ Proposer(Len(h)) = m.to
    /\ EnoughVotes(VotersOf(m.to, h) \cup {m.from})
    /\ Appendable(m.to, h)
    /\ AddBlock(m.to, h, h)
    /\ forgot' = forgot /\ signed' = signed

\* A step that appends hist to a chain brings only hist into being.
LEMMA AddBlockKnown ==
  ASSUME TypeOK, NEW b \in Broker, NEW hist \in History, NEW announce,
         Appendable(b, hist), AddBlock(b, hist, announce),
         disk' = disk, adopting' = adopting,
         net' \subseteq net
  PROVE  \A h \in KnownHistories' : h \in KnownHistories \/ h = hist
<1>. SUFFICES ASSUME NEW h \in KnownHistories', h # hist
              PROVE  h \in KnownHistories
  OBVIOUS
<1>1. \A p \in Broker : chain'[p] = chain[p] \/ chain'[p] = hist
  BY AddBlockMeans DEF TypeOK
<1>2. \A p \in Broker : \A s \in saving'[p] :
        s \in saving[p] \/ s.blocks = hist
  BY AddBlockMeans
<1>. QED  BY <1>1, <1>2, KnownMeans, KnownMeansNext

\* A step that changes no chain, file or adopted message and sends neither
\* a COMMIT nor a CHAIN_RESPONSE brings no chain into being.
LEMMA NoNewHistory ==
  ASSUME chain' = chain, disk' = disk, saving' = saving,
         adopting' = adopting,
         \A m \in net' : \/ m \in net
                         \/ m.type \notin {"BLOCK_COMMIT", "CHAIN_RESPONSE"}
  PROVE  KnownHistories' \subseteq KnownHistories
BY KnownMeans, KnownMeansNext

\* Every chain of the next state existed before, is the genesis block, or is
\* the one a proposer has just committed.
LEMMA NewHistories ==
  TypeOK /\ AnnouncesItsFile /\ [Next]_vars
    => \A h \in KnownHistories' :
         h \in KnownHistories \/ h = <<>> \/ Commits(h)
<1>. SUFFICES ASSUME TypeOK, AnnouncesItsFile, [Next]_vars,
                     NEW h \in KnownHistories'
              PROVE  h \in KnownHistories \/ h = <<>> \/ Commits(h)
  OBVIOUS
<1>. USE DEF nodeVars, roundVars, syncVars, netVars, boundVars, histVars
<1>1. ASSUME NEW b \in Broker, NEW tx \in Tx, SubmitTx(b, tx)
      PROVE  h \in KnownHistories
  BY <1>1, NoNewHistory DEF SubmitTx, TxMsg
<1>2. ASSUME NEW m \in Received("TX_BROADCAST"), ReceiveTx(m)
      PROVE  h \in KnownHistories
  BY <1>2, NoNewHistory DEF ReceiveTx
<1>3. ASSUME NEW b \in Broker, Propose(b)
      PROVE  h \in KnownHistories
  BY <1>3, NoNewHistory DEF Propose, BlockMsg
<1>4. ASSUME NEW m \in Received("BLOCK_PROPOSAL"), HandleBlockProposal(m)
      PROVE  h \in KnownHistories
  BY <1>4, NoNewHistory DEF HandleBlockProposal, BlockMsg
<1>5. ASSUME NEW m \in Received("BLOCK_VOTE"), HandleBlockVote(m)
      PROVE  h \in KnownHistories \/ Commits(h)
  <2>1. m.to \in Broker /\ m.hist \in History
    BY MessageFields DEF Received, TypeOK
  <2>2. CASE UNCHANGED <<chain, mempool, saving>>
    BY <1>5, <2>2, NoNewHistory DEF HandleBlockVote
  <2>3. CASE /\ EnoughVotes(VotersOf(m.to, m.hist) \cup {m.from})
             /\ Appendable(m.to, m.hist)
             /\ AddBlock(m.to, m.hist, m.hist)
    <3>1. h \in KnownHistories \/ h = m.hist
      BY <1>5, <2>1, <2>3, AddBlockKnown DEF HandleBlockVote
    <3>. QED  BY <1>5, <2>3, <3>1 DEF HandleBlockVote, Commits
  <2>. QED  BY <1>5, <2>2, <2>3 DEF HandleBlockVote
<1>6. ASSUME NEW m \in Received("BLOCK_COMMIT"), HandleBlockCommit(m)
      PROVE  h \in KnownHistories
  <2>1. m \in net /\ m.type = "BLOCK_COMMIT" /\ m.to \in Broker
          /\ m.hist \in History
    BY MessageFields DEF Received, TypeOK
  <2>2. m.hist \in KnownHistories
    BY <2>1, KnownMeans
  <2>. QED  BY <1>6, <2>1, <2>2, AddBlockKnown DEF HandleBlockCommit
<1>7. ASSUME NEW b \in Broker, NEW s \in saving[b], WriteFile(b, s)
      PROVE  h \in KnownHistories \/ h = <<>>
  <2>1. s.blocks \in KnownHistories /\ s.announce \in {<<>>, s.blocks}
    BY KnownMeans DEF AnnouncesItsFile
  <2>2. \A p \in Broker : disk'[p] = disk[p] \/ disk'[p].blocks = s.blocks
    BY <1>7 DEF WriteFile, TypeOK
  <2>3. \A p \in Broker : saving'[p] \subseteq saving[p]
    BY <1>7 DEF WriteFile, TypeOK
  <2>4. \A m \in net' : m \in net \/ m.hist = s.announce
    BY <1>7 DEF WriteFile, Announcement, CommitMsg
  <2>5. chain' = chain /\ adopting' = adopting
    BY <1>7 DEF WriteFile
  <2>. QED  BY <2>1, <2>2, <2>3, <2>4, <2>5, KnownMeans, KnownMeansNext
<1>8. ASSUME NEW b \in Broker, RequestChain(b)
      PROVE  h \in KnownHistories
  BY <1>8, NoNewHistory DEF RequestChain, SyncMsg
<1>9. ASSUME NEW m \in Received("CHAIN_SYNC"), HandleChainSync(m)
      PROVE  h \in KnownHistories
  <2>1. m.to \in Broker
    BY MessageFields DEF Received, TypeOK
  <2>2. \A k \in net' : k \in net \/ k.hist = chain[m.to]
    BY <1>9 DEF HandleChainSync, BlockMsg
  <2>3. UNCHANGED <<chain, disk, saving, adopting>>
    BY <1>9 DEF HandleChainSync
  <2>. QED  BY <2>1, <2>2, <2>3, KnownMeans, KnownMeansNext
<1>10. ASSUME NEW m \in Received("CHAIN_RESPONSE"), HandleChainResponse(m)
       PROVE  h \in KnownHistories
  <2>1. m \in net /\ m.type = "CHAIN_RESPONSE"
    BY DEF Received
  <2>2. \A p \in Broker : adopting'[p] \subseteq adopting[p] \cup {m}
    BY <1>10 DEF HandleChainResponse, TypeOK
  <2>3. UNCHANGED <<chain, disk, saving>> /\ net' \subseteq net
    BY <1>10 DEF HandleChainResponse
  <2>. QED  BY <2>1, <2>2, <2>3, KnownMeans, KnownMeansNext
<1>11. ASSUME NEW b \in Broker, NEW m \in adopting[b], ReplaceChain(m)
       PROVE  h \in KnownHistories
  <2>1. m.hist \in KnownHistories /\ m.to = b
    BY KnownMeans DEF TypeOK
  <2>2. \A p \in Broker : chain'[p] = chain[p] \/ chain'[p] = m.hist
    BY <1>11, <2>1 DEF ReplaceChain, TypeOK
  <2>3. \A p \in Broker : \A s \in saving'[p] :
          s \in saving[p] \/ s.blocks = m.hist
    BY <1>11, <2>1 DEF ReplaceChain, TypeOK
  <2>4. \A p \in Broker : adopting'[p] \subseteq adopting[p]
    BY <1>11, <2>1 DEF ReplaceChain, TypeOK
  <2>5. disk' = disk /\ net' = net
    BY <1>11 DEF ReplaceChain
  <2>. QED  BY <2>1, <2>2, <2>3, <2>4, <2>5, KnownMeans, KnownMeansNext
<1>12. ASSUME NEW b \in Broker, Crash(b)
       PROVE  h \in KnownHistories \/ h = <<>>
  <2>1. \A p \in Broker : disk'[p] = disk[p] \/ disk'[p].blocks = <<>>
    BY <1>12 DEF Crash, TypeOK, Torn
  <2>2. \A p \in Broker : /\ saving'[p] \subseteq saving[p]
                          /\ adopting'[p] \subseteq adopting[p]
    BY <1>12 DEF Crash, TypeOK
  <2>3. chain' = chain /\ net' \subseteq net
    BY <1>12 DEF Crash
  <2>. QED  BY <2>1, <2>2, <2>3, KnownMeans, KnownMeansNext
<1>13. ASSUME NEW b \in Broker, Restart(b)
       PROVE  h \in KnownHistories
  <2>1. disk[b].blocks \in KnownHistories
    BY KnownMeans
  <2>2. \A p \in Broker : chain'[p] = chain[p] \/ chain'[p] = disk[b].blocks
    BY <1>13 DEF Restart, TypeOK
  <2>3. UNCHANGED <<disk, saving, adopting, net>>
    BY <1>13 DEF Restart
  <2>. QED  BY <2>1, <2>2, <2>3, KnownMeans, KnownMeansNext
<1>14. ASSUME NEW b \in Broker, NEW c \in Broker, Connect(b, c)
       PROVE  h \in KnownHistories
  BY <1>14, NoNewHistory DEF Connect, TxMsg
<1>15. ASSUME NEW b \in Broker, NEW c \in Broker, Drop(b, c)
       PROVE  h \in KnownHistories
  BY <1>15, NoNewHistory DEF Drop
<1>16. CASE UNCHANGED vars
  BY <1>16, NoNewHistory DEF vars
<1>. QED
  BY <1>1, <1>2, <1>3, <1>4, <1>5, <1>6, <1>7, <1>8, <1>9, <1>10, <1>11,
     <1>12, <1>13, <1>14, <1>15, <1>16 DEF Next

\* AddBlock starts a Save that announces the block it writes, or nothing.
LEMMA AddBlockAnnounces ==
  ASSUME TypeOK, AnnouncesItsFile, NEW b \in Broker,
         NEW hist \in History, NEW announce \in {<<>>, hist},
         Appendable(b, hist), AddBlock(b, hist, announce)
  PROVE  AnnouncesItsFile'
<1>1. \A p \in Broker : \A s \in saving'[p] :
        \/ s \in saving[p]
        \/ s.blocks = hist /\ s.announce = announce
  BY AddBlockMeans
<1>. QED  BY <1>1 DEF AnnouncesItsFile

\* No step makes a Save announce another block than the last of its file.
LEMMA AnnouncesKept ==
  TypeOK /\ AnnouncesItsFile /\ [Next]_vars => AnnouncesItsFile'
<1>. SUFFICES ASSUME TypeOK, AnnouncesItsFile, [Next]_vars
              PROVE  AnnouncesItsFile'
  OBVIOUS
<1>. USE DEF nodeVars, roundVars, syncVars, netVars, boundVars, histVars
<1>1. CASE \A b \in Broker : saving'[b] \subseteq saving[b]
  BY <1>1 DEF AnnouncesItsFile
<1>2. ASSUME NEW m \in Received("BLOCK_VOTE"), HandleBlockVote(m)
      PROVE  AnnouncesItsFile'
  <2>1. m.to \in Broker /\ m.hist \in History
    BY MessageFields DEF Received, TypeOK
  <2>2. CASE Appendable(m.to, m.hist) /\ AddBlock(m.to, m.hist, m.hist)
    BY <2>1, <2>2, AddBlockAnnounces
  <2>. QED  BY <1>1, <1>2, <2>2 DEF HandleBlockVote
<1>3. ASSUME NEW m \in Received("BLOCK_COMMIT"), HandleBlockCommit(m)
      PROVE  AnnouncesItsFile'
  <2>1. m.to \in Broker /\ m.hist \in History
    BY MessageFields DEF Received, TypeOK
  <2>. QED  BY <1>3, <2>1, AddBlockAnnounces DEF HandleBlockCommit
<1>4. ASSUME NEW b \in Broker, NEW s \in saving[b], WriteFile(b, s)
      PROVE  AnnouncesItsFile'
  <2>1. \A p \in Broker : saving'[p] \subseteq saving[p]
    BY <1>4 DEF WriteFile, TypeOK
  <2>. QED  BY <1>1, <2>1
<1>5. ASSUME NEW b \in Broker, NEW m \in adopting[b], ReplaceChain(m)
      PROVE  AnnouncesItsFile'
  <2>1. \A p \in Broker : \A s \in saving'[p] :
          s \in saving[p] \/ s.announce = <<>>
    BY <1>5 DEF ReplaceChain, TypeOK
  <2>. QED  BY <2>1 DEF AnnouncesItsFile
<1>6. ASSUME NEW b \in Broker, Crash(b)
      PROVE  AnnouncesItsFile'
  <2>1. \A p \in Broker : saving'[p] \subseteq saving[p]
    BY <1>6 DEF Crash, TypeOK
  <2>. QED  BY <1>1, <2>1
<1>7. CASE saving' = saving
  BY <1>1, <1>7
<1>8. CASE UNCHANGED vars
  BY <1>7, <1>8 DEF vars
<1>. QED
  BY <1>2, <1>3, <1>4, <1>5, <1>6, <1>7, <1>8
     DEF Next, SubmitTx, ReceiveTx, Propose, HandleBlockProposal,
         RequestChain, HandleChainSync, HandleChainResponse, Restart, Connect,
         Drop

-----------------------------------------------------------------------------
(***************************************************************************)
(* The inductive invariant, and that it excludes forks.                    *)
(***************************************************************************)

\* A chain that agrees with the proposers of its blocks goes on to do so.
LEMMA AgreementKept ==
  ASSUME TypeOK, TypeOK', OwnBlocksKept, NEW h \in History,
         AgreesWithProposers(h)
  PROVE  AgreesWithProposers(h)'
<1>. SUFFICES ASSUME NEW n \in 1..Len(h), Proposer(n) \notin forgot'
              PROVE  SameUpTo(h, chain'[Proposer(n)], n)
  BY DEF AgreesWithProposers
<1>. DEFINE p == Proposer(n)
<1>1. n \in Nat \ {0} /\ Len(h) \in Nat /\ p \in Broker
  BY ProposerType DEF History
<1>2. SameUpTo(h, chain[p], n)
  BY DEF AgreesWithProposers, OwnBlocksKept
<1>3. n \in 1..Len(chain[p])
  BY <1>1, <1>2 DEF SameUpTo
<1>4. SameUpTo(chain[p], chain'[p], n)
  BY <1>1, <1>3 DEF OwnBlocksKept
<1>5. chain[p] \in History /\ chain'[p] \in History
  BY <1>1 DEF TypeOK
<1>. QED  BY <1>1, <1>2, <1>4, <1>5, SameUpToTransitive

\* A chain that its proposer has just extended agrees with the proposers.
LEMMA CommittedAgrees ==
  ASSUME TypeOK, TypeOK', ProposersPrevail, OwnBlocksKept,
         NEW h, Commits(h)
  PROVE  AgreesWithProposers(h)'
<1>1. PICK m \in Received("BLOCK_VOTE") :
        /\ h = m.hist /\ Proposer(Len(h)) = m.to
        /\ Appendable(m.to, h) /\ AddBlock(m.to, h, h)
  BY DEF Commits
<1>2. m.to \in Broker /\ h \in History
  BY <1>1, MessageFields DEF Received, TypeOK
<1>3. h # <<>> /\ Front(h) = chain[m.to]
  BY <1>1 DEF Appendable
<1>4. PICK g \in History : g = chain[m.to]
  BY <1>2 DEF TypeOK
<1>5. /\ Len(h) \in Nat \ {0} /\ Len(g) = Len(h) - 1
      /\ \A i \in 1..Len(g) : g[i] = h[i]
  BY <1>2, <1>3, <1>4, HistoryParts
<1>6. chain'[m.to] = h
  BY <1>1, <1>2, AddBlockMeans DEF TypeOK
<1>7. AgreesWithProposers(g)'
  <2>1. AgreesWithProposers(g)
    BY <1>2, <1>4, KnownMeans DEF ProposersPrevail
  <2>. QED  BY <2>1, AgreementKept
<1>. SUFFICES ASSUME NEW n \in 1..Len(h), Proposer(n) \notin forgot'
              PROVE  SameUpTo(h, chain'[Proposer(n)], n)
  BY DEF AgreesWithProposers
<1>8. CASE n = Len(h)
  BY <1>1, <1>5, <1>6, <1>8 DEF SameUpTo
<1>9. CASE n < Len(h)
  <2>1. SameUpTo(g, chain'[Proposer(n)], n)
    BY <1>5, <1>7, <1>9 DEF AgreesWithProposers
  <2>. QED  BY <1>5, <1>9, <2>1 DEF SameUpTo
<1>. QED  BY <1>5, <1>8, <1>9

\* Initially only the genesis block is known.
LEMMA InitPrevails == Init => ProposersPrevail
<1>. SUFFICES ASSUME Init PROVE ProposersPrevail
  OBVIOUS
<1>1. \A h \in KnownHistories : h = <<>>
  BY KnownMeans DEF Init
<1>2. AgreesWithProposers(<<>>)
  BY DEF AgreesWithProposers
<1>. QED  BY <1>1, <1>2 DEF ProposersPrevail, AnnouncesItsFile, Init

\* Every step keeps the inductive invariant.
LEMMA NextPrevails ==
  TypeOK /\ ProposersPrevail /\ [Next]_vars => ProposersPrevail'
<1>. SUFFICES ASSUME TypeOK, ProposersPrevail, [Next]_vars
              PROVE  ProposersPrevail'
  OBVIOUS
<1>1. TypeOK' /\ OwnBlocksKept /\ AnnouncesItsFile'
  BY NextType, NextKeepsOwnBlocks, AnnouncesKept DEF ProposersPrevail
<1>2. ASSUME NEW h \in KnownHistories'
      PROVE  AgreesWithProposers(h)'
  <2>1. CASE h \in KnownHistories
    BY <1>1, <2>1, KnownType, AgreementKept DEF ProposersPrevail
  <2>2. CASE h = <<>>
    BY <2>2 DEF AgreesWithProposers
  <2>3. CASE Commits(h)
    BY <1>1, <2>3, CommittedAgrees
  <2>. QED  BY <1>2, <2>1, <2>2, <2>3, NewHistories DEF ProposersPrevail
<1>. QED  BY <1>1, <1>2 DEF ProposersPrevail

\* Two chains that agree with a proposer agree with each other.
LEMMA PrevailingExcludesForks ==
  TypeOK /\ ProposersPrevail => ForkNeedsForgetting
<1>. SUFFICES ASSUME TypeOK, ProposersPrevail, NEW b \in Broker,
                     NEW c \in Broker, NEW n \in 1..Len(chain[b]),
                     n <= Len(chain[c]), Proposer(n) \notin forgot
              PROVE  SameUpTo(chain[b], chain[c], n)
  BY DEF ForkNeedsForgetting
<1>1. AgreesWithProposers(chain[b]) /\ AgreesWithProposers(chain[c])
  BY KnownMeans DEF ProposersPrevail
<1>2. /\ Len(chain[b]) \in Nat /\ Len(chain[c]) \in Nat
      /\ n \in 1..Len(chain[c])
  BY DEF TypeOK, History
<1>3. /\ SameUpTo(chain[b], chain[Proposer(n)], n)
      /\ SameUpTo(chain[c], chain[Proposer(n)], n)
  BY <1>1, <1>2 DEF AgreesWithProposers
<1>. QED  BY <1>2, <1>3 DEF SameUpTo

(***************************************************************************)
(* Every chain that exists agrees with the proposers of its blocks, as far *)
(* as these have forgotten nothing (handleBlockVote, ReplaceChain, Load).  *)
(***************************************************************************)
THEOREM ProposersDecide == Spec => []ProposersPrevail
<1>1. Init => TypeOK /\ ProposersPrevail
  BY InitType, InitPrevails
<1>2. TypeOK /\ ProposersPrevail /\ [Next]_vars
        => (TypeOK /\ ProposersPrevail)'
  BY NextType, NextPrevails
<1>. QED  BY <1>1, <1>2, PTL DEF Spec

(***************************************************************************)
(* Two chains differ at an index both have only when the proposer of that  *)
(* index dropped a block it had proposed and appended itself, whichever    *)
(* messages are lost, late or answered by AddBlock and ReplaceChain.       *)
(***************************************************************************)
THEOREM NoForkWithoutForgetting == Spec => []ForkNeedsForgetting
BY TypeCorrect, ProposersDecide, PrevailingExcludesForks, PTL

-----------------------------------------------------------------------------
(***************************************************************************)
(* Quorums: every block of every chain carries the signatures of a quorum. *)
(***************************************************************************)

\* Signatures are never withdrawn, and votes are counted and sent for what
\* was signed.
VotesAreSigned ==
  /\ \A b \in Broker : votes[b] \subseteq signed
  /\ \A m \in net : m.type = "BLOCK_VOTE" => <<m.hist, m.from>> \in signed

LEMMA NextKeepsSignatures ==
  TypeOK /\ VotesAreSigned /\ [Next]_vars
    => signed \subseteq signed' /\ VotesAreSigned'
<1>. SUFFICES ASSUME TypeOK, VotesAreSigned, [Next]_vars
              PROVE  signed \subseteq signed' /\ VotesAreSigned'
  OBVIOUS
<1>. USE DEF nodeVars, roundVars, syncVars, netVars, boundVars, histVars
<1>1. CASE /\ signed \subseteq signed'
           /\ \A b \in Broker : votes'[b] \subseteq votes[b] \cup signed'
           /\ \A m \in net' : m \in net \/ m.type # "BLOCK_VOTE"
  BY <1>1 DEF VotesAreSigned
<1>2. ASSUME NEW b \in Broker, NEW tx \in Tx, SubmitTx(b, tx)
      PROVE  signed \subseteq signed' /\ VotesAreSigned'
  BY <1>1, <1>2 DEF SubmitTx, TxMsg
<1>3. ASSUME NEW b \in Broker, Propose(b)
      PROVE  signed \subseteq signed' /\ VotesAreSigned'
  <2>1. \A p \in Broker : votes'[p] \subseteq votes[p] \cup signed'
    BY <1>3 DEF Propose, TypeOK
  <2>2. signed \subseteq signed'
    BY <1>3 DEF Propose
  <2>3. \A m \in net' : m \in net \/ m.type # "BLOCK_VOTE"
    BY <1>3 DEF Propose, BlockMsg
  <2>. QED  BY <1>1, <2>1, <2>2, <2>3
<1>4. ASSUME NEW m \in Received("BLOCK_PROPOSAL"), HandleBlockProposal(m)
      PROVE  signed \subseteq signed' /\ VotesAreSigned'
  <2>1. /\ votes' = votes /\ signed' = signed \cup {<<m.hist, m.to>>}
        /\ net' = (net \ {m})
                    \cup {BlockMsg("BLOCK_VOTE", m.to, c, m.hist) :
                            c \in Neighbours(m.to) \cap {m.from}}
    BY <1>4 DEF HandleBlockProposal
  <2>2. \A k \in net' : k \in net \/ (k.hist = m.hist /\ k.from = m.to)
    BY <2>1 DEF BlockMsg
  <2>. QED  BY <2>1, <2>2 DEF VotesAreSigned
<1>5. ASSUME NEW m \in Received("BLOCK_VOTE"), HandleBlockVote(m)
      PROVE  signed \subseteq signed' /\ VotesAreSigned'
  <2>1. <<m.hist, m.from>> \in signed
    BY DEF Received, VotesAreSigned
  <2>2. /\ votes' = [votes EXCEPT ![m.to] = @ \cup {<<m.hist, m.from>>}]
        /\ signed' = signed /\ net' = net \ {m}
    BY <1>5 DEF HandleBlockVote
  <2>3. \A p \in Broker : votes'[p] \subseteq votes[p] \cup signed'
    BY <2>1, <2>2 DEF TypeOK
  <2>. QED  BY <1>1, <2>2, <2>3
<1>6. ASSUME NEW b \in Broker, NEW s \in saving[b], WriteFile(b, s)
      PROVE  signed \subseteq signed' /\ VotesAreSigned'
  <2>1. \A p \in Broker : votes'[p] \subseteq votes[p]
    <3>1. \/ votes' = votes
          \/ votes' = [votes EXCEPT ![b] = {v \in @ : v[1] # s.announce}]
      BY <1>6 DEF WriteFile
    <3>. QED  BY <3>1 DEF TypeOK
  <2>2. \A m \in net' : m \in net \/ m.type # "BLOCK_VOTE"
    BY <1>6 DEF WriteFile, Announcement, CommitMsg
  <2>. QED  BY <1>1, <1>6, <2>1, <2>2 DEF WriteFile
<1>7. ASSUME NEW b \in Broker, Crash(b)
      PROVE  signed \subseteq signed' /\ VotesAreSigned'
  <2>1. \A p \in Broker : votes'[p] \subseteq votes[p]
    BY <1>7 DEF Crash, TypeOK
  <2>. QED  BY <1>1, <1>7, <2>1 DEF Crash
<1>8. ASSUME NEW m \in Received("CHAIN_SYNC"), HandleChainSync(m)
      PROVE  signed \subseteq signed' /\ VotesAreSigned'
  BY <1>1, <1>8 DEF HandleChainSync, BlockMsg
<1>9. ASSUME NEW b \in Broker, NEW c \in Broker, Connect(b, c)
      PROVE  signed \subseteq signed' /\ VotesAreSigned'
  BY <1>1, <1>9 DEF Connect, TxMsg
<1>10. ASSUME NEW b \in Broker, RequestChain(b)
       PROVE  signed \subseteq signed' /\ VotesAreSigned'
  BY <1>1, <1>10 DEF RequestChain, SyncMsg
<1>11. CASE votes' = votes /\ signed' = signed /\ net' \subseteq net
  BY <1>1, <1>11
<1>12. CASE UNCHANGED vars
  BY <1>11, <1>12 DEF vars
<1>. QED
  BY <1>2, <1>3, <1>4, <1>5, <1>6, <1>7, <1>8, <1>9, <1>10, <1>11, <1>12
     DEF Next, ReceiveTx, HandleBlockCommit, HandleChainResponse,
         ReplaceChain, Restart, Drop

\* More signatures, more signers.
LEMMA SignersGrow ==
  ASSUME NEW S \in SUBSET Broker, NEW T \in SUBSET Broker, S \subseteq T,
         Cardinality(S) >= Quorum
  PROVE  Cardinality(T) >= Quorum
<1>1. IsFiniteSet(Broker) /\ Quorum \in Nat
  BY PoAAssumption DEF PoAAssumption
<1>2. IsFiniteSet(S) /\ IsFiniteSet(T)
  BY <1>1, FS_Subset
<1>3. /\ Cardinality(S) <= Cardinality(T)
      /\ Cardinality(S) \in Nat /\ Cardinality(T) \in Nat
  BY <1>2, FS_Subset, FS_CardinalityType
<1>. QED  BY <1>1, <1>3

\* Chains that are the same up to n have the same prefix of length n.
LEMMA SamePrefix ==
  ASSUME NEW h \in History, NEW g \in History, NEW n \in Nat,
         SameUpTo(h, g, n)
  PROVE  SubSeq(h, 1, n) = SubSeq(g, 1, n)
<1>1. /\ n <= Len(h) /\ n <= Len(g) /\ Len(h) \in Nat /\ Len(g) \in Nat
      /\ \A i \in 1..n : h[i] = g[i] /\ h[i] \in Block /\ g[i] \in Block
  BY DEF SameUpTo, History
<1>2. /\ SubSeq(h, 1, n) \in Seq(Block) /\ SubSeq(g, 1, n) \in Seq(Block)
      /\ Len(SubSeq(h, 1, n)) = n /\ Len(SubSeq(g, 1, n)) = n
      /\ \A i \in 1..n : SubSeq(h, 1, n)[i] = SubSeq(g, 1, n)[i]
  BY <1>1, SubSeqProperties
<1>. QED  BY <1>2, SeqEqual

\* The block a proposer appends has a quorum of signers, and so have those
\* before it.
LEMMA CommittedIsSigned ==
  ASSUME TypeOK, QuorumBehindEveryBlock, NEW h, Commits(h)
  PROVE  \A n \in 1..Len(h) : Cardinality(Signers(h, n)') >= Quorum
<1>1. PICK m \in Received("BLOCK_VOTE") :
        /\ h = m.hist
        /\ EnoughVotes(VotersOf(m.to, h) \cup {m.from})
        /\ Appendable(m.to, h) /\ signed' = signed
  BY DEF Commits
<1>2. m.to \in Broker /\ m.from \in Broker /\ h \in History
  BY <1>1, MessageFields DEF Received, TypeOK
<1>3. h # <<>> /\ Front(h) = chain[m.to]
  BY <1>1 DEF Appendable
<1>4. /\ Len(h) \in Nat \ {0} /\ Len(chain[m.to]) = Len(h) - 1
      /\ \A i \in 1..Len(chain[m.to]) : chain[m.to][i] = h[i]
  BY <1>2, <1>3, HistoryParts
<1>. SUFFICES ASSUME NEW n \in 1..Len(h)
              PROVE  Cardinality(Signers(h, n)') >= Quorum
  OBVIOUS
<1>5. CASE n = Len(h)
  <2>1. SubSeq(h, 1, n) = h
    BY <1>2, <1>5 DEF History
  <2>2. VotersOf(m.to, h) \cup {m.from} \subseteq Signers(h, n)'
    BY <1>1, <1>2, <2>1
       DEF VotersOf, Signers, QuorumBehindEveryBlock, Received
  <2>. QED  BY <1>1, <2>2, SignersGrow DEF Signers, EnoughVotes
<1>6. CASE n < Len(h)
  <2>1. SubSeq(h, 1, n) = SubSeq(chain[m.to], 1, n)
    BY <1>2, <1>4, <1>6, SamePrefix DEF SameUpTo, TypeOK
  <2>2. Cardinality(Signers(chain[m.to], n)) >= Quorum
    BY <1>2, <1>4, <1>6, KnownMeans DEF QuorumBehindEveryBlock
  <2>3. Signers(h, n)' = Signers(chain[m.to], n)
    BY <1>1, <2>1 DEF Signers
  <2>. QED  BY <2>2, <2>3
<1>. QED  BY <1>4, <1>5, <1>6

\* Every step keeps the quorums.
LEMMA NextKeepsQuorums ==
  TypeOK /\ AnnouncesItsFile /\ QuorumBehindEveryBlock /\ [Next]_vars
    => QuorumBehindEveryBlock'
<1>. SUFFICES ASSUME TypeOK, AnnouncesItsFile, QuorumBehindEveryBlock,
                     [Next]_vars
              PROVE  QuorumBehindEveryBlock'
  OBVIOUS
<1>1. signed \subseteq signed' /\ VotesAreSigned'
  BY NextKeepsSignatures DEF VotesAreSigned, QuorumBehindEveryBlock
<1>2. ASSUME NEW h \in KnownHistories', NEW n \in 1..Len(h)
      PROVE  Cardinality(Signers(h, n)') >= Quorum
  <2>1. CASE h \in KnownHistories
    <3>1. Cardinality(Signers(h, n)) >= Quorum
      BY <1>2, <2>1 DEF QuorumBehindEveryBlock
    <3>2. Signers(h, n) \subseteq Signers(h, n)'
      BY <1>1 DEF Signers
    <3>. QED  BY <3>1, <3>2, SignersGrow DEF Signers
  <2>2. CASE h = <<>>
    BY <1>2, <2>2
  <2>3. CASE Commits(h)
    BY <1>2, <2>3, CommittedIsSigned
  <2>. QED  BY <1>2, <2>1, <2>2, <2>3, NewHistories
<1>. QED  BY <1>1, <1>2 DEF QuorumBehindEveryBlock, VotesAreSigned

\* Initially only the genesis block is known.
LEMMA InitQuorums == Init => QuorumBehindEveryBlock
<1>. SUFFICES ASSUME Init PROVE QuorumBehindEveryBlock
  OBVIOUS
<1>1. \A h \in KnownHistories : h = <<>>
  BY KnownMeans DEF Init
<1>. QED  BY <1>1 DEF QuorumBehindEveryBlock, Init

(***************************************************************************)
(* Every block of every chain that exists was signed by a quorum, and what *)
(* is counted or sent as a vote was signed (handleBlockVote, Load,         *)
(* ReplaceChain).                                                          *)
(***************************************************************************)
THEOREM QuorumsRemain == Spec => []QuorumBehindEveryBlock
<1>1. TypeOK /\ TypeOK' /\ ProposersPrevail /\ QuorumBehindEveryBlock
        /\ [Next]_vars => QuorumBehindEveryBlock'
  BY NextKeepsQuorums DEF ProposersPrevail
<1>. QED  BY <1>1, InitQuorums, TypeCorrect, ProposersDecide, PTL DEF Spec

(***************************************************************************)
(* Every block of every broker's chain was signed by a quorum, although    *)
(* Load and ReplaceChain take chains without looking at signatures.        *)
(***************************************************************************)
THEOREM QuorumCommits == Spec => []CommittedByQuorum
<1>1. QuorumBehindEveryBlock => CommittedByQuorum
  BY KnownMeans DEF QuorumBehindEveryBlock, CommittedByQuorum
<1>. QED  BY <1>1, QuorumsRemain, PTL

-----------------------------------------------------------------------------
(***************************************************************************)
(* Facts about the ledger in one state.                                    *)
(***************************************************************************)

\* Which histories are agreed.
LEMMA AgreedMeans ==
  ASSUME NEW h
  PROVE  h \in AgreedHistories <=>
           \E c \in Broker : \E n \in 0..Len(chain[c]) :
             h = SubSeq(chain[c], 1, n)
BY DEF AgreedHistories, Prefixes

\* The same in the state after a step.
LEMMA AgreedMeansNext ==
  ASSUME NEW h
  PROVE  h \in AgreedHistories' <=>
           \E c \in Broker : \E n \in 0..Len(chain'[c]) :
             h = SubSeq(chain'[c], 1, n)
BY DEF AgreedHistories, Prefixes

\* The beginnings of a history.
LEMMA Beginning ==
  ASSUME NEW h \in History, NEW n \in 0..Len(h)
  PROVE  /\ SubSeq(h, 1, n) \in History /\ Len(SubSeq(h, 1, n)) = n
         /\ \A i \in 1..n : SubSeq(h, 1, n)[i] = h[i]
         /\ SubSeq(h, 1, Len(h)) = h
         /\ SubSeq(h, 1, 0) = <<>>
<1>1. n \in Nat /\ n <= Len(h) /\ Len(h) \in Nat
  BY DEF History
<1>2. /\ SubSeq(h, 1, n) \in Seq(Block) /\ Len(SubSeq(h, 1, n)) = n
      /\ \A i \in 1..n : SubSeq(h, 1, n)[i] = h[i]
  BY <1>1, SubSeqProperties DEF History
<1>. QED  BY <1>1, <1>2 DEF History

\* There is a broker.
LEMMA SomeBroker == \E b : b \in Broker
BY ProposerType

\* Histories that are the same up to n, of which one has no more blocks than
\* n, begin each other.
LEMMA SameIsBeginning ==
  ASSUME NEW h \in History, NEW g \in History, SameUpTo(h, g, Len(h))
  PROVE  h = SubSeq(g, 1, Len(h))
<1>1. Len(h) \in Nat
  BY DEF History
<1>2. SubSeq(h, 1, Len(h)) = SubSeq(g, 1, Len(h))
  BY <1>1, SamePrefix
<1>. QED  BY <1>1, <1>2, Beginning

\* While nothing is forgotten, a chain that exists is agreed.
LEMMA KnownIsAgreed ==
  ASSUME TypeOK, ProposersPrevail, forgot = {}, NEW h \in KnownHistories
  PROVE  h \in AgreedHistories
<1>1. h \in History /\ Len(h) \in Nat
  BY KnownType DEF History
<1>2. CASE h = <<>>
  <2>1. PICK b \in Broker : TRUE
    BY SomeBroker
  <2>2. chain[b] \in History /\ 0 \in 0..Len(chain[b])
    BY DEF TypeOK, History
  <2>. QED  BY <1>2, <2>1, <2>2, AgreedMeans, Beginning
<1>3. CASE h # <<>>
  <2>. DEFINE p == Proposer(Len(h))
  <2>1. Len(h) \in 1..Len(h) /\ p \in Broker
    BY <1>1, <1>3, ProposerType DEF History
  <2>2. SameUpTo(h, chain[p], Len(h))
    BY <2>1 DEF ProposersPrevail, AgreesWithProposers
  <2>3. chain[p] \in History /\ Len(h) \in 0..Len(chain[p])
    BY <1>1, <2>1, <2>2 DEF TypeOK, SameUpTo
  <2>4. h = SubSeq(chain[p], 1, Len(h))
    BY <1>1, <2>2, <2>3, SameIsBeginning
  <2>. QED  BY <2>1, <2>3, <2>4, AgreedMeans
<1>. QED  BY <1>2, <1>3

\* What an agreed history begins with is agreed.
LEMMA BeginningIsAgreed ==
  ASSUME TypeOK, NEW h \in AgreedHistories, NEW n \in 0..Len(h)
  PROVE  h \in History /\ SubSeq(h, 1, n) \in AgreedHistories
<1>1. PICK c \in Broker : \E k \in 0..Len(chain[c]) : h = SubSeq(chain[c], 1, k)
  BY AgreedMeans
<1>2. PICK k \in 0..Len(chain[c]) : h = SubSeq(chain[c], 1, k)
  BY <1>1
<1>3. chain[c] \in History /\ Len(chain[c]) \in Nat
  BY DEF TypeOK, History
<1>4. h \in History /\ Len(h) = k /\ \A i \in 1..k : h[i] = chain[c][i]
  BY <1>2, <1>3, Beginning
<1>5. n \in Nat /\ n <= k /\ n \in 0..Len(chain[c])
  BY <1>3, <1>4
<1>6. SameUpTo(h, chain[c], n)
  BY <1>3, <1>4, <1>5 DEF SameUpTo
<1>7. SubSeq(h, 1, n) = SubSeq(chain[c], 1, n)
  BY <1>3, <1>4, <1>5, <1>6, SamePrefix
<1>. QED  BY <1>4, <1>5, <1>7, AgreedMeans

-----------------------------------------------------------------------------
(***************************************************************************)
(* What a step does to the ledger.                                         *)
(***************************************************************************)

\* Nothing agreed is lost in a step that forgets nothing.
LEMMA LedgerKept ==
  ASSUME TypeOK, TypeOK', ProposersPrevail, OwnBlocksKept, forgot' = {}
  PROVE  AgreedHistories \subseteq AgreedHistories'
<1>1. forgot = {}
  BY DEF OwnBlocksKept
<1>. SUFFICES ASSUME NEW c \in Broker, NEW n \in 0..Len(chain[c])
              PROVE  SubSeq(chain[c], 1, n) \in AgreedHistories'
  BY DEF AgreedHistories, Prefixes
<1>2. chain[c] \in History /\ chain'[c] \in History
  BY DEF TypeOK
<1>3. CASE n = 0
  <2>1. 0 \in 0..Len(chain'[c]) /\ 0 \in 0..Len(chain[c])
    BY <1>2 DEF History
  <2>2. SubSeq(chain[c], 1, 0) = SubSeq(chain'[c], 1, 0)
    BY <1>2, <2>1, Beginning
  <2>. QED  BY <1>3, <2>1, <2>2, AgreedMeansNext
<1>4. CASE n # 0
  <2>. DEFINE p == Proposer(n)
  <2>1. n \in Nat /\ n \in 1..Len(chain[c]) /\ p \in Broker
    BY <1>2, <1>4, ProposerType DEF History
  <2>2. chain[p] \in History /\ chain'[p] \in History
    BY <2>1 DEF TypeOK
  <2>3. AgreesWithProposers(chain[c])
    BY KnownMeans DEF ProposersPrevail
  <2>4. SameUpTo(chain[c], chain[p], n)
    BY <1>1, <2>1, <2>3 DEF AgreesWithProposers
  <2>5. n \in 1..Len(chain[p])
    BY <2>1, <2>2, <2>4 DEF SameUpTo
  <2>6. SameUpTo(chain[p], chain'[p], n)
    BY <2>1, <2>5 DEF OwnBlocksKept
  <2>7. SameUpTo(chain[c], chain'[p], n)
    BY <1>2, <2>1, <2>2, <2>4, <2>6, SameUpToTransitive
  <2>8. SubSeq(chain[c], 1, n) = SubSeq(chain'[p], 1, n)
    BY <1>2, <2>1, <2>2, <2>7, SamePrefix
  <2>9. n \in 0..Len(chain'[p])
    BY <2>1, <2>7 DEF SameUpTo
  <2>. QED  BY <2>1, <2>8, <2>9, AgreedMeansNext
<1>. QED  BY <1>3, <1>4

\* A broker takes an agreed history, and the ledger stays what it was.
LEMMA AgreedIsTaken ==
  ASSUME TypeOK, TypeOK', ProposersPrevail, OwnBlocksKept, forgot' = {},
         NEW b \in Broker, NEW h \in AgreedHistories,
         chain' = [chain EXCEPT ![b] = h]
  PROVE  Agreed!Take(b)
<1>1. forgot = {}
  BY DEF OwnBlocksKept
<1>2. AgreedHistories' \subseteq AgreedHistories
  <2>. SUFFICES ASSUME NEW c \in Broker, NEW n \in 0..Len(chain'[c])
                PROVE  SubSeq(chain'[c], 1, n) \in AgreedHistories
    BY DEF AgreedHistories, Prefixes
  <2>1. CASE c = b
    <3>1. chain'[c] = h
      BY <2>1 DEF TypeOK
    <3>. QED  BY <3>1, BeginningIsAgreed
  <2>2. CASE c # b
    <3>1. chain'[c] = chain[c]
      BY <2>2 DEF TypeOK
    <3>. QED  BY <3>1, AgreedMeans
  <2>. QED  BY <2>1, <2>2
<1>3. AgreedHistories' = AgreedHistories
  BY <1>2, LedgerKept
<1>. QED  BY <1>1, <1>3 DEF Agreed!Take

\* A proposer commits its block, and the ledger is longer by that block.
LEMMA CommitIsAgreed ==
  ASSUME TypeOK, TypeOK', ProposersPrevail, OwnBlocksKept, forgot' = {},
         NEW b \in Broker, NEW h \in History, Proposer(Len(h)) = b,
         h # <<>>, Front(h) = chain[b], chain' = [chain EXCEPT ![b] = h]
  PROVE  Agreed!Commit(b)
<1>1. forgot = {} /\ chain'[b] = h /\ chain[b] \in History
  BY DEF OwnBlocksKept, TypeOK
<1>2. /\ Len(h) \in Nat \ {0} /\ Len(chain[b]) = Len(h) - 1
      /\ \A i \in 1..Len(chain[b]) : chain[b][i] = h[i]
  BY HistoryParts
<1>3. ASSUME NEW g \in AgreedHistories
      PROVE  Len(g) <= Len(chain[b])
  <2>1. PICK c \in Broker :
          \E n \in 0..Len(chain[c]) : g = SubSeq(chain[c], 1, n)
    BY AgreedMeans
  <2>2. PICK n \in 0..Len(chain[c]) : g = SubSeq(chain[c], 1, n)
    BY <2>1
  <2>3. chain[c] \in History /\ Len(chain[c]) \in Nat
    BY DEF TypeOK, History
  <2>4. Len(g) = n /\ n \in Nat
    BY <2>2, <2>3, Beginning
  <2>5. CASE n >= Len(h)
    <3>1. Len(h) \in 1..Len(chain[c])
      BY <1>2, <2>3, <2>5
    <3>2. AgreesWithProposers(chain[c])
      BY KnownMeans DEF ProposersPrevail
    <3>3. SameUpTo(chain[c], chain[b], Len(h))
      BY <1>1, <3>1, <3>2 DEF AgreesWithProposers
    <3>. QED  BY <1>2, <3>3 DEF SameUpTo
  <2>. QED  BY <1>2, <2>4, <2>5
<1>4. AgreedHistories' \subseteq AgreedHistories \cup {h}
  <2>. SUFFICES ASSUME NEW g \in AgreedHistories'
                PROVE  g \in AgreedHistories \cup {h}
    OBVIOUS
  <2>0. PICK c \in Broker :
          \E n \in 0..Len(chain'[c]) : g = SubSeq(chain'[c], 1, n)
    BY AgreedMeansNext
  <2>. PICK n \in 0..Len(chain'[c]) : g = SubSeq(chain'[c], 1, n)
    BY <2>0
  <2>1. CASE c # b
    <3>1. chain'[c] = chain[c]
      BY <2>1 DEF TypeOK
    <3>. QED  BY <3>1, AgreedMeans
  <2>2. CASE c = b /\ n = Len(h)
    <3>1. SubSeq(h, 1, Len(h)) = h
      BY <1>2, Beginning
    <3>. QED  BY <1>1, <2>2, <3>1
  <2>3. CASE c = b /\ n # Len(h)
    <3>1. n \in Nat /\ n \in 0..Len(chain[b]) /\ n \in 0..Len(h)
      BY <1>1, <1>2, <2>3
    <3>2. SameUpTo(chain[b], h, n)
      BY <1>2, <3>1 DEF SameUpTo
    <3>3. SubSeq(chain[b], 1, n) = SubSeq(h, 1, n)
      BY <1>1, <3>1, <3>2, SamePrefix
    <3>. QED  BY <1>1, <2>3, <3>1, <3>3, AgreedMeans
  <2>. QED  BY <2>1, <2>2, <2>3
<1>5. h \in AgreedHistories'
  <2>1. Len(h) \in 0..Len(chain'[b]) /\ h = SubSeq(chain'[b], 1, Len(h))
    BY <1>1, <1>2, Beginning
  <2>. QED  BY <2>1, AgreedMeansNext
<1>6. AgreedHistories' = AgreedHistories \cup {h}
  BY <1>4, <1>5, LedgerKept
<1>7. /\ chain'[b] # <<>> /\ Front(chain'[b]) = chain[b]
      /\ chain' = [chain EXCEPT ![b] = chain'[b]]
      /\ AgreedHistories' = AgreedHistories \cup {chain'[b]}
  BY <1>1, <1>6
<1>. QED  BY <1>1, <1>3, <1>7 DEF Agreed!Commit, Agreed!Front, Front

\* A step that leaves the chains alone leaves the ledger alone.
LEMMA SameChainsStutter ==
  ASSUME chain' = chain, forgot' = forgot
  PROVE  UNCHANGED Agreed!vars
BY DEF Agreed!vars, AgreedHistories

\* A chain that a step brings into place is taken or committed.
LEMMA NewChainIsAgreed ==
  ASSUME TypeOK, TypeOK', ProposersPrevail, OwnBlocksKept, forgot' = {},
         NEW b \in Broker, NEW h \in KnownHistories,
         chain' = [chain EXCEPT ![b] = h]
  PROVE  Agreed!Next
<1>1. forgot = {}
  BY DEF OwnBlocksKept
<1>2. h \in AgreedHistories
  BY <1>1, KnownIsAgreed
<1>. QED  BY <1>2, AgreedIsTaken DEF Agreed!Next

\* Every step of the consensus is one of the ledger, or none.
LEMMA NextImplements ==
  TypeOK /\ TypeOK' /\ ProposersPrevail /\ [Next]_vars
    => [Agreed!Next]_(Agreed!vars)
<1>. SUFFICES ASSUME TypeOK, TypeOK', ProposersPrevail, [Next]_vars
              PROVE  [Agreed!Next]_(Agreed!vars)
  OBVIOUS
<1>. USE DEF nodeVars, roundVars, syncVars, netVars, boundVars, histVars
<1>1. OwnBlocksKept
  BY NextKeepsOwnBlocks
<1>2. CASE forgot # {}
  <2>1. forgot' # {}
    BY <1>1, <1>2 DEF OwnBlocksKept
  <2>. QED  BY <1>2, <2>1 DEF Agreed!vars
<1>3. CASE forgot = {} /\ forgot' # {}
  BY <1>3 DEF Agreed!Next, Agreed!Forget
<1>4. CASE forgot' = {}
  <2>1. CASE chain' = chain /\ forgot' = forgot
    BY <2>1, SameChainsStutter
  <2>2. ASSUME NEW m \in Received("BLOCK_VOTE"), HandleBlockVote(m)
        PROVE  [Agreed!Next]_(Agreed!vars)
    <3>1. m.to \in Broker /\ m.hist \in History
      BY MessageFields DEF Received, TypeOK
    <3>2. CASE UNCHANGED <<chain, mempool, saving>>
      BY <2>1, <2>2, <3>2 DEF HandleBlockVote
    <3>3. CASE Appendable(m.to, m.hist) /\ AddBlock(m.to, m.hist, m.hist)
      <4>1. chain' = [chain EXCEPT ![m.to] = m.hist]
        BY <3>1, <3>3, AddBlockMeans
      <4>2. Agreed!Commit(m.to)
        BY <1>1, <1>4, <2>2, <3>1, <3>3, <4>1, CommitIsAgreed
           DEF HandleBlockVote, Appendable
      <4>. QED  BY <3>1, <4>2 DEF Agreed!Next
    <3>. QED  BY <2>2, <3>2, <3>3 DEF HandleBlockVote
  <2>3. ASSUME NEW m \in Received("BLOCK_COMMIT"), HandleBlockCommit(m)
        PROVE  [Agreed!Next]_(Agreed!vars)
    <3>1. m \in net /\ m.type = "BLOCK_COMMIT"
          /\ m.to \in Broker /\ m.hist \in History
      BY MessageFields DEF Received, TypeOK
    <3>2. chain' = [chain EXCEPT ![m.to] = m.hist]
      BY <2>3, <3>1, AddBlockMeans DEF HandleBlockCommit
    <3>3. m.hist \in KnownHistories
      BY <3>1, KnownMeans
    <3>. QED  BY <1>1, <1>4, <3>1, <3>2, <3>3, NewChainIsAgreed
  <2>4. ASSUME NEW b \in Broker, NEW m \in adopting[b], ReplaceChain(m)
        PROVE  [Agreed!Next]_(Agreed!vars)
    <3>1. m.to = b /\ m.hist \in KnownHistories
      BY KnownMeans DEF TypeOK
    <3>2. chain' = [chain EXCEPT ![b] = m.hist]
      BY <2>4, <3>1 DEF ReplaceChain
    <3>. QED  BY <1>1, <1>4, <3>1, <3>2, NewChainIsAgreed
  <2>5. ASSUME NEW b \in Broker, Restart(b)
        PROVE  [Agreed!Next]_(Agreed!vars)
    <3>1. disk[b].blocks \in KnownHistories
      BY KnownMeans
    <3>2. chain' = [chain EXCEPT ![b] = disk[b].blocks]
      BY <2>5 DEF Restart
    <3>. QED  BY <1>1, <1>4, <3>1, <3>2, NewChainIsAgreed
  <2>6. CASE UNCHANGED vars
    BY <2>1, <2>6 DEF vars
  <2>. QED
    BY <2>1, <2>2, <2>3, <2>4, <2>5, <2>6
       DEF Next, SubmitTx, ReceiveTx, Propose, HandleBlockProposal, WriteFile,
           RequestChain, HandleChainSync, HandleChainResponse, Crash, Connect,
           Drop
<1>. QED  BY <1>2, <1>3, <1>4

\* The brokers start with the genesis block, and so does the ledger.
LEMMA InitImplements == Init => Agreed!Init
<1>. SUFFICES ASSUME Init PROVE Agreed!Init
  OBVIOUS
<1>1. \A c \in Broker : chain[c] = <<>> /\ chain[c] \in History
  BY InitType DEF Init, TypeOK
<1>2. ASSUME NEW h \in AgreedHistories
      PROVE  h = <<>>
  <2>1. PICK c \in Broker :
          \E n \in 0..Len(chain[c]) : h = SubSeq(chain[c], 1, n)
    BY AgreedMeans
  <2>2. PICK n \in 0..Len(chain[c]) : h = SubSeq(chain[c], 1, n)
    BY <2>1
  <2>3. n = 0 /\ 0 \in 0..Len(chain[c])
    BY <1>1
  <2>. QED  BY <1>1, <2>2, <2>3, Beginning
<1>3. <<>> \in AgreedHistories
  <2>1. PICK c : c \in Broker
    BY SomeBroker
  <2>2. 0 \in 0..Len(chain[c])
    BY <1>1, <2>1
  <2>3. SubSeq(chain[c], 1, 0) = <<>>
    BY <1>1, <2>1, <2>2, Beginning
  <2>. QED  BY <2>1, <2>2, <2>3, AgreedMeans
<1>4. AgreedHistories = {<<>>}
  BY <1>2, <1>3
<1>. QED  BY <1>4 DEF Init, Agreed!Init

(***************************************************************************)
(* The consensus implements one agreed ledger: until a proposer forgets a  *)
(* block of its own, only the commit of a proposer that has all of the     *)
(* ledger adds to it, and every chain that is appended to, adopted or      *)
(* loaded is part of it (handleBlockVote, handleBlockCommit, ReplaceChain, *)
(* Load).                                                                  *)
(***************************************************************************)
THEOREM ImplementsOneLedger == Spec => OneLedger
<1>. QED
  BY InitImplements, NextImplements, TypeCorrect, ProposersDecide, PTL
     DEF Spec, OneLedger, Agreed!Spec
=============================================================================
