---------------------------- MODULE LedgerProofs ----------------------------
(***************************************************************************)
(* What the chains of PoAConsensus hold, for every number of brokers and   *)
(* set of transactions: nobody pays what he does not have, and, as long as *)
(* no chain is replaced under a mempool that shares a transaction with it, *)
(* no transaction is in a chain twice.  Both rest on what the recursive    *)
(* functions of Ledger compute for a chain and for the chain a block makes *)
(* of it (RebuildReplays, AllExtends).                                     *)
(***************************************************************************)
EXTENDS PoAConsensusProofs

-----------------------------------------------------------------------------
(***************************************************************************)
(* The state a list of transactions or a chain makes.                      *)
(***************************************************************************)

\* The transactions of any block, block 0 included.
AnyTx == Tx \cup Range(GenesisTxs)

\* What the chain says of balances, companies and vessels.
LedgerState ==
  [balances  : [Account -> Int],
   companies : SUBSET (Account \cup {Absent}),
   vessels   : [Vessel -> Account \cup {Absent}]]

\* What the assumption says of a transaction.
LEMMA TxFields ==
  ASSUME NEW tx \in AnyTx
  PROVE  /\ tx.type \in TxType
         /\ tx.from \in Account \cup {Absent}
         /\ tx.amount \in Int
         /\ tx.type \in DebitType => tx.from \in Account
         /\ tx.type \in DebitType \cup {"MINT"} => tx.to \in Account
BY LedgerAssumption DEF LedgerAssumption, AnyTx

\* A transaction makes a state of a state.
LEMMA ApplyType ==
  ASSUME NEW s \in LedgerState, NEW tx \in AnyTx
  PROVE  applyTx(s, tx) \in LedgerState
<1>1. CASE tx.type = "MINT"
  BY <1>1, TxFields DEF applyTx, LedgerState, DebitType
<1>2. CASE tx.type \in DebitType
  <2>1. applyTx(s, tx) = [s EXCEPT !.balances = Paid(@, tx)]
    BY <1>2 DEF applyTx, DebitType
  <2>2. tx.from \in Account /\ tx.to \in Account /\ tx.amount \in Int
    BY <1>2, TxFields
  <2>3. Paid(s.balances, tx) \in [Account -> Int]
    BY <2>2 DEF Paid, LedgerState
  <2>. QED  BY <2>1, <2>3 DEF LedgerState
<1>3. CASE tx.type = "REGISTER"
  BY <1>3, TxFields DEF applyTx, LedgerState, DebitType
<1>4. CASE tx.type = "VESSEL_REG"
  BY <1>4, TxFields DEF applyTx, LedgerState, DebitType
<1>5. CASE tx.type = "VESSEL_LOST"
  BY <1>5, TxFields DEF applyTx, LedgerState, DebitType
<1>6. CASE tx.type = "MISSION_LOG"
  BY <1>6, TxFields DEF applyTx, LedgerState, DebitType
<1>. QED
  BY <1>1, <1>2, <1>3, <1>4, <1>5, <1>6, TxFields DEF TxType, DebitType

\* A transaction takes an address below zero only by a negative amount that
\* it brings the address, if its sender can pay it.
LEMMA ApplySolvent ==
  ASSUME NEW s \in LedgerState, NEW tx \in AnyTx, NEW a \in Account,
         s.balances[a] >= 0,
         tx.type \in DebitType => s.balances[tx.from] >= tx.amount,
         tx.type \in DebitType \cup {"MINT"} /\ tx.to = a => tx.amount >= 0
  PROVE  applyTx(s, tx).balances[a] >= 0
<1>0. tx.amount \in Int /\ s.balances[a] \in Int
  BY TxFields DEF LedgerState
<1>1. CASE tx.type = "MINT"
  BY <1>0, <1>1, TxFields DEF applyTx, LedgerState, DebitType
<1>2. CASE tx.type \in DebitType
  <2>1. applyTx(s, tx) = [s EXCEPT !.balances = Paid(@, tx)]
    BY <1>2 DEF applyTx, DebitType
  <2>2. tx.from \in Account /\ tx.to \in Account
    BY <1>2, TxFields
  <2>. QED  BY <1>0, <1>2, <2>1, <2>2 DEF Paid, LedgerState
<1>3. CASE tx.type = "REGISTER"
  BY <1>3 DEF applyTx, LedgerState, DebitType
<1>4. CASE tx.type = "VESSEL_REG"
  BY <1>4 DEF applyTx, LedgerState, DebitType
<1>5. CASE tx.type = "VESSEL_LOST"
  BY <1>5 DEF applyTx, LedgerState, DebitType
<1>6. CASE tx.type = "MISSION_LOG"
  BY <1>6 DEF applyTx, LedgerState, DebitType
<1>. QED
  BY <1>1, <1>2, <1>3, <1>4, <1>5, <1>6, TxFields DEF TxType, DebitType

\* The states along a list of transactions, step by step.
LEMMA StatesAlongRuns ==
  ASSUME NEW s \in LedgerState, NEW txs \in Seq(AnyTx)
  PROVE  /\ StatesAlong(s, txs) \in [0..Len(txs) -> LedgerState]
         /\ StatesAlong(s, txs)[0] = s
         /\ \A i \in 1..Len(txs) :
              StatesAlong(s, txs)[i]
                = applyTx(StatesAlong(s, txs)[i-1], txs[i])
<1>. DEFINE n == Len(txs)
            step == [p \in LedgerState \X (1..n) |-> applyTx(p[1], txs[p[2]])]
            Loop(g) == [i \in 0..n |->
                          IF i = 0 THEN s ELSE applyTx(g[i-1], txs[i])]
            state == StatesAlong(s, txs)
<1>1. state = CHOOSE g : g = Loop(g)
  BY DEF StatesAlong
<1>2. n \in Nat /\ \A i \in 1..n : i \in 0..n /\ i # 0 /\ i-1 \in 0..n
  OBVIOUS
<1>3. ASSUME NEW x \in LedgerState, NEW i \in 1..n
      PROVE  step[<<x, i>>] = applyTx(x, txs[i]) /\ step[<<x, i>>] \in LedgerState
  <2>1. txs[i] \in AnyTx
    OBVIOUS
  <2>. QED  BY <2>1, ApplyType
<1>4. step \in [LedgerState \X (1..n) -> LedgerState]
  <2>1. \A p \in LedgerState \X (1..n) :
          p[1] \in LedgerState /\ p[2] \in 1..n /\ p = <<p[1], p[2]>>
    OBVIOUS
  <2>2. \A p \in LedgerState \X (1..n) : step[p] \in LedgerState
    <3>. HIDE DEF step, n
    <3>. QED  BY <1>3, <2>1
  <2>3. step = [p \in LedgerState \X (1..n) |-> step[p]]
    OBVIOUS
  <2>. HIDE DEF step, n
  <2>. QED  BY <2>2, <2>3
<1>. HIDE DEF step, state
<1>5. PICK f : Runs(f, LedgerState, n, s, step)
  BY <1>2, <1>4, IterationExists
<1>6. f = Loop(f)
  <2>1. f \in [0..n -> LedgerState] /\ f[0] = s
        /\ \A i \in 1..n : f[i-1] \in LedgerState /\ f[i] = step[<<f[i-1], i>>]
    BY <1>2, <1>5 DEF Runs
  <2>2. \A i \in 1..n : f[i] = applyTx(f[i-1], txs[i])
    BY <1>3, <2>1
  <2>3. \A i \in 0..n : i # 0 => i \in 1..n
    OBVIOUS
  <2>4. \A i \in 0..n : f[i] = Loop(f)[i]
    BY <2>1, <2>2, <2>3
  <2>. QED  BY <2>1, <2>4
<1>7. state = Loop(state)
  BY <1>1, <1>6
<1>8. state[0] = s /\ \A i \in 1..n : state[i] = applyTx(state[i-1], txs[i])
  <2>1. \A i \in 0..n : state[i] = Loop(state)[i]
    BY <1>7
  <2>. QED  BY <1>2, <2>1
<1>9. state = [i \in 0..n |-> state[i]]
  BY <1>7
<1>10. Runs(state, LedgerState, n, s, step)
  <2>. HIDE DEF n
  <2>1. \A i \in 1..n : state[i-1] \in LedgerState
                          => state[i] = step[<<state[i-1], i>>]
    BY <1>3, <1>8
  <2>. QED  BY <1>2, <1>4, <1>8, <1>9, <2>1, RunsByStep
<1>. QED  BY <1>8, <1>10 DEF Runs, state

\* The state they end in.
LEMMA AfterType ==
  ASSUME NEW s \in LedgerState, NEW txs \in Seq(AnyTx)
  PROVE  After(s, txs) \in LedgerState
<1>1. Len(txs) \in 0..Len(txs)
  OBVIOUS
<1>. QED  BY <1>1, StatesAlongRuns DEF After

\* The states along two lists, one after the other.
LEMMA StatesAlongBoth ==
  ASSUME NEW s \in LedgerState, NEW u \in Seq(AnyTx), NEW v \in Seq(AnyTx)
  PROVE  /\ \A i \in 0..Len(u) :
              StatesAlong(s, u \o v)[i] = StatesAlong(s, u)[i]
         /\ \A j \in 0..Len(v) :
              StatesAlong(s, u \o v)[Len(u) + j]
                = StatesAlong(After(s, u), v)[j]
<1>. DEFINE w == u \o v
            x == StatesAlong(s, w)
            y == StatesAlong(s, u)
            z == StatesAlong(After(s, u), v)
<1>1. /\ w \in Seq(AnyTx) /\ Len(w) = Len(u) + Len(v)
      /\ Len(u) \in Nat /\ Len(v) \in Nat
      /\ \A i \in 1..Len(u) : w[i] = u[i] /\ i \in 1..Len(w)
      /\ \A j \in 1..Len(v) : w[Len(u) + j] = v[j] /\ Len(u) + j \in 1..Len(w)
  OBVIOUS
<1>2. x[0] = s /\ \A i \in 1..Len(w) : x[i] = applyTx(x[i-1], w[i])
  <2>. HIDE DEF w
  <2>. QED  BY <1>1, StatesAlongRuns
<1>3. y[0] = s /\ \A i \in 1..Len(u) : y[i] = applyTx(y[i-1], u[i])
  BY StatesAlongRuns
<1>4. z[0] = y[Len(u)] /\ \A j \in 1..Len(v) : z[j] = applyTx(z[j-1], v[j])
  BY AfterType, StatesAlongRuns DEF After
<1>. HIDE DEF w, x, y, z
<1>5. \A i \in 0..Len(u) : x[i] = y[i]
  <2>. DEFINE S == {i \in 0..Len(u) : x[i] = y[i]}
  <2>1. 0 \in S
    BY <1>1, <1>2, <1>3
  <2>2. \A i \in 1..Len(u) : i-1 \in S => i \in S
    BY <1>1, <1>2, <1>3
  <2>3. \A i \in 0..Len(u) : i \in S
    <3>. HIDE DEF S
    <3>. QED  BY <1>1, <2>1, <2>2, UpTo
  <2>. QED  BY <2>3
<1>6. \A j \in 0..Len(v) : x[Len(u) + j] = z[j]
  <2>. DEFINE S == {j \in 0..Len(v) : x[Len(u) + j] = z[j]}
  <2>1. 0 \in S
    BY <1>1, <1>4, <1>5
  <2>2. ASSUME NEW j \in 1..Len(v), j-1 \in S
        PROVE  j \in S
    <3>1. Len(u) + j - 1 = Len(u) + (j - 1)
      BY <1>1
    <3>2. x[Len(u) + j] = applyTx(x[Len(u) + (j - 1)], v[j])
      BY <1>1, <1>2, <3>1
    <3>. QED  BY <1>4, <2>2, <3>2
  <2>3. \A j \in 0..Len(v) : j \in S
    <3>. HIDE DEF S
    <3>. QED  BY <1>1, <2>1, <2>2, UpTo
  <2>. QED  BY <2>3
<1>. QED  BY <1>5, <1>6 DEF w, x, y, z

\* To apply two lists is to apply one after the other.
LEMMA AfterBoth ==
  ASSUME NEW s \in LedgerState, NEW u \in Seq(AnyTx), NEW v \in Seq(AnyTx)
  PROVE  After(s, u \o v) = After(After(s, u), v)
<1>1. Len(u \o v) = Len(u) + Len(v) /\ Len(v) \in 0..Len(v)
  OBVIOUS
<1>. QED  BY <1>1, StatesAlongBoth DEF After

\* Nobody has anything before block 0.
LEMMA EmptyType ==
  EmptyState \in LedgerState /\ \A a \in Account : EmptyState.balances[a] = 0
BY DEF EmptyState, LedgerState

\* The transactions of block 0.
LEMMA GenesisType == GenesisTxs \in Seq(AnyTx)
<1>1. GenesisTxs \in Seq(Range(GenesisTxs))
  BY LedgerAssumption DEF LedgerAssumption
<1>. QED  BY <1>1 DEF AnyTx

\* Nobody pays in block 0.
LEMMA GenesisCovered == Covered(GenesisTxs)
<1>1. ASSUME NEW i \in DOMAIN GenesisTxs
      PROVE  GenesisTxs[i].type \notin DebitType
  <2>1. GenesisTxs[i] \in Range(GenesisTxs)
    BY DEF Range
  <2>. QED  BY <2>1, LedgerAssumption DEF LedgerAssumption, DebitType
<1>. QED  BY <1>1 DEF Covered

\* What one who pays in a list that follows others must have.
LEMMA CoveredBoth ==
  ASSUME NEW u \in Seq(AnyTx), NEW v \in Seq(AnyTx), Covered(u),
         \A j \in 1..Len(v) :
           v[j].type \in DebitType =>
             StatesAlong(After(EmptyState, u), v)[j-1].balances[v[j].from]
               >= v[j].amount
  PROVE  Covered(u \o v)
<1>. DEFINE w == u \o v
            x == StatesAlong(EmptyState, w)
            y == StatesAlong(EmptyState, u)
            z == StatesAlong(After(EmptyState, u), v)
<1>1. /\ Len(u) \in Nat /\ Len(v) \in Nat
      /\ DOMAIN w = 1..(Len(u) + Len(v)) /\ DOMAIN u = 1..Len(u)
      /\ \A i \in 1..(Len(u) + Len(v)) :
           w[i] = IF i <= Len(u) THEN u[i] ELSE v[i - Len(u)]
  OBVIOUS
<1>2. /\ \A i \in 0..Len(u) : x[i] = y[i]
      /\ \A j \in 0..Len(v) : x[Len(u) + j] = z[j]
  BY EmptyType, StatesAlongBoth
<1>3. \A i \in 1..Len(u) :
        u[i].type \in DebitType => y[i-1].balances[u[i].from] >= u[i].amount
  BY <1>1 DEF Covered
<1>4. \A j \in 1..Len(v) :
        v[j].type \in DebitType => z[j-1].balances[v[j].from] >= v[j].amount
  OBVIOUS
<1>. HIDE DEF w, x, y, z
<1>5. ASSUME NEW i \in 1..(Len(u) + Len(v)), w[i].type \in DebitType
      PROVE  x[i-1].balances[w[i].from] >= w[i].amount
  <2>1. CASE i <= Len(u)
    <3>1. i \in 1..Len(u) /\ i-1 \in 0..Len(u)
      BY <1>1, <2>1
    <3>2. w[i] = u[i] /\ x[i-1] = y[i-1]
      BY <1>1, <1>2, <2>1, <3>1
    <3>. QED  BY <1>3, <1>5, <3>1, <3>2
  <2>2. CASE ~ (i <= Len(u))
    <3>. DEFINE j == i - Len(u)
    <3>1. j \in 1..Len(v) /\ j-1 \in 0..Len(v) /\ Len(u) + (j-1) = i-1
      BY <1>1, <2>2
    <3>2. w[i] = v[j]
      BY <1>1, <2>2
    <3>. HIDE DEF j
    <3>3. x[i-1] = z[j-1]
      BY <1>2, <3>1
    <3>. QED  BY <1>4, <1>5, <3>1, <3>2, <3>3
  <2>. QED  BY <2>1, <2>2
<1>. QED  BY <1>1, <1>5 DEF Covered, w, x

\* Where everybody pays what he has, nobody that is not charged ends below
\* zero.
LEMMA CoveredSolvent ==
  ASSUME NEW txs \in Seq(AnyTx), Covered(txs),
         NEW a \in Account \ Charged(txs)
  PROVE  After(EmptyState, txs).balances[a] >= 0
<1>. DEFINE x == StatesAlong(EmptyState, txs)
            S == {i \in 0..Len(txs) : x[i].balances[a] >= 0}
<1>1. /\ x \in [0..Len(txs) -> LedgerState] /\ x[0] = EmptyState
      /\ \A i \in 1..Len(txs) : x[i] = applyTx(x[i-1], txs[i])
  BY EmptyType, StatesAlongRuns
<1>2. Len(txs) \in Nat /\ DOMAIN txs = 1..Len(txs)
      /\ \A i \in 1..Len(txs) : i-1 \in 0..Len(txs) /\ i \in 0..Len(txs)
  OBVIOUS
<1>3. \A i \in 1..Len(txs) :
        txs[i].type \in DebitType
          => x[i-1].balances[txs[i].from] >= txs[i].amount
  BY <1>2 DEF Covered
<1>. HIDE DEF x
<1>4. 0 \in S
  BY <1>1, <1>2, EmptyType
<1>5. ASSUME NEW i \in 1..Len(txs), i-1 \in S
      PROVE  i \in S
  <2>1. x[i-1] \in LedgerState /\ x[i-1].balances[a] >= 0 /\ txs[i] \in AnyTx
    BY <1>1, <1>2, <1>5
  <2>2. txs[i].type \in DebitType \cup {"MINT"} /\ txs[i].to = a
          => txs[i].amount >= 0
    <3>1. txs[i] \in ToSet(txs)
      BY <1>2 DEF ToSet
    <3>2. txs[i].amount \in Int
      BY <2>1, TxFields
    <3>. QED  BY <3>1, <3>2 DEF Charged
  <2>3. applyTx(x[i-1], txs[i]).balances[a] >= 0
    BY <1>3, <2>1, <2>2, ApplySolvent
  <2>. QED  BY <1>1, <1>2, <2>3
<1>6. Len(txs) \in S
  <2>1. Len(txs) \in 0..Len(txs)
    OBVIOUS
  <2>. HIDE DEF S
  <2>. QED  BY <2>1, <1>2, <1>4, <1>5, UpTo
<1>. QED  BY <1>6 DEF After, x

\* A chain is a list of blocks with lists of transactions.
LedgerBlock == [txs : Seq(Tx), stamp : Nat]

\* The states after the blocks of a chain, block by block.
LEMMA RebuildRuns ==
  ASSUME NEW h \in Seq(LedgerBlock)
  PROVE  \E state \in [0..Len(h) -> LedgerState] :
           /\ RebuildState(h) = state[Len(h)]
           /\ state[0] = After(EmptyState, GenesisTxs)
           /\ \A i \in 1..Len(h) : state[i] = After(state[i-1], h[i].txs)
<1>. DEFINE n == Len(h)
            first == After(EmptyState, GenesisTxs)
            step == [p \in LedgerState \X (1..n) |-> After(p[1], h[p[2]].txs)]
            Loop(g) == [i \in 0..n |->
                          IF i = 0 THEN first ELSE After(g[i-1], h[i].txs)]
            state == CHOOSE g : g = Loop(g)
<1>1. RebuildState(h) = state[n]
  BY DEF RebuildState
<1>2. n \in Nat /\ \A i \in 1..n : i \in 0..n /\ i # 0 /\ i-1 \in 0..n
  OBVIOUS
<1>3. ASSUME NEW x \in LedgerState, NEW i \in 1..n
      PROVE  step[<<x, i>>] = After(x, h[i].txs) /\ step[<<x, i>>] \in LedgerState
  <2>1. h[i] \in LedgerBlock /\ h[i].txs \in Seq(Tx)
    <3>1. h[i] \in LedgerBlock
      OBVIOUS
    <3>. QED  BY <3>1 DEF LedgerBlock
  <2>2. h[i].txs \in Seq(AnyTx) /\ Len(h[i].txs) \in Nat
    BY <2>1 DEF AnyTx
  <2>3. After(x, h[i].txs) \in LedgerState
    BY <2>2, StatesAlongRuns DEF After
  <2>. QED  BY <2>3
<1>4. step \in [LedgerState \X (1..n) -> LedgerState]
  <2>1. \A p \in LedgerState \X (1..n) :
          p[1] \in LedgerState /\ p[2] \in 1..n /\ p = <<p[1], p[2]>>
    OBVIOUS
  <2>2. \A p \in LedgerState \X (1..n) : step[p] \in LedgerState
    <3>. HIDE DEF step, n
    <3>. QED  BY <1>3, <2>1
  <2>3. step = [p \in LedgerState \X (1..n) |-> step[p]]
    OBVIOUS
  <2>. HIDE DEF step, n
  <2>. QED  BY <2>2, <2>3
<1>5. first \in LedgerState
  BY EmptyType, GenesisType, AfterType
<1>. HIDE DEF step, state, first
<1>6. PICK f : Runs(f, LedgerState, n, first, step)
  BY <1>2, <1>4, <1>5, IterationExists
<1>7. f = Loop(f)
  <2>1. f \in [0..n -> LedgerState] /\ f[0] = first
        /\ \A i \in 1..n : f[i-1] \in LedgerState /\ f[i] = step[<<f[i-1], i>>]
    BY <1>2, <1>6 DEF Runs
  <2>2. \A i \in 1..n : f[i] = After(f[i-1], h[i].txs)
    BY <1>3, <2>1
  <2>3. \A i \in 0..n : i # 0 => i \in 1..n
    OBVIOUS
  <2>4. \A i \in 0..n : f[i] = Loop(f)[i]
    BY <2>1, <2>2, <2>3
  <2>. QED  BY <2>1, <2>4
<1>8. state = Loop(state)
  BY <1>7 DEF state
<1>9. state[0] = first /\ \A i \in 1..n : state[i] = After(state[i-1], h[i].txs)
  <2>1. \A i \in 0..n : state[i] = Loop(state)[i]
    BY <1>8
  <2>. QED  BY <1>2, <2>1
<1>10. state = [i \in 0..n |-> state[i]]
  BY <1>8
<1>11. Runs(state, LedgerState, n, first, step)
  <2>. HIDE DEF n
  <2>1. \A i \in 1..n : state[i-1] \in LedgerState
                          => state[i] = step[<<state[i-1], i>>]
    BY <1>3, <1>9
  <2>. QED  BY <1>2, <1>4, <1>5, <1>9, <1>10, <2>1, RunsByStep
<1>. QED  BY <1>1, <1>9, <1>11 DEF Runs, first

\* A chain makes a state.
LEMMA RebuildType ==
  ASSUME NEW h \in Seq(LedgerBlock)
  PROVE  RebuildState(h) \in LedgerState
<1>1. Len(h) \in 0..Len(h)
  OBVIOUS
<1>. QED  BY <1>1, RebuildRuns

-----------------------------------------------------------------------------
(***************************************************************************)
(* The transactions of a chain.                                            *)
(***************************************************************************)

\* The loop over the blocks of a chain, block by block.
LEMMA AllRuns ==
  ASSUME NEW h \in Seq(LedgerBlock)
  PROVE  \E all \in [0..Len(h) -> Seq(AnyTx)] :
           /\ AllTransactions(h) = all[Len(h)]
           /\ all[0] = GenesisTxs
           /\ \A i \in 1..Len(h) : all[i] = all[i-1] \o h[i].txs
<1>. DEFINE n == Len(h)
            T == Seq(AnyTx)
            step == [p \in T \X (1..n) |-> p[1] \o h[p[2]].txs]
            Loop(g) == [i \in 0..n |->
                          IF i = 0 THEN GenesisTxs ELSE g[i-1] \o h[i].txs]
            all == CHOOSE g : g = Loop(g)
<1>1. AllTransactions(h) = all[n]
  BY DEF AllTransactions
<1>2. n \in Nat /\ \A i \in 1..n : i \in 0..n /\ i # 0 /\ i-1 \in 0..n
  OBVIOUS
<1>3. ASSUME NEW x \in T, NEW i \in 1..n
      PROVE  step[<<x, i>>] = x \o h[i].txs /\ step[<<x, i>>] \in T
  <2>1. h[i] \in LedgerBlock
    OBVIOUS
  <2>2. h[i].txs \in Seq(Tx)
    BY <2>1 DEF LedgerBlock
  <2>3. h[i].txs \in Seq(AnyTx)
    BY <2>2 DEF AnyTx
  <2>4. x \o h[i].txs \in T
    BY <2>3
  <2>. QED  BY <2>4
<1>4. step \in [T \X (1..n) -> T]
  <2>1. \A p \in T \X (1..n) :
          p[1] \in T /\ p[2] \in 1..n /\ p = <<p[1], p[2]>>
    OBVIOUS
  <2>2. \A p \in T \X (1..n) : step[p] \in T
    <3>. HIDE DEF step, n, T
    <3>. QED  BY <1>3, <2>1
  <2>3. step = [p \in T \X (1..n) |-> step[p]]
    OBVIOUS
  <2>. HIDE DEF step, n, T
  <2>. QED  BY <2>2, <2>3
<1>5. GenesisTxs \in T
  <2>1. GenesisTxs \in Seq(Range(GenesisTxs))
    BY LedgerAssumption DEF LedgerAssumption
  <2>. QED  BY <2>1 DEF AnyTx
<1>. HIDE DEF step, all, T
<1>6. PICK f : Runs(f, T, n, GenesisTxs, step)
  BY <1>2, <1>4, <1>5, IterationExists
<1>7. f = Loop(f)
  <2>1. f \in [0..n -> T] /\ f[0] = GenesisTxs
        /\ \A i \in 1..n : f[i-1] \in T /\ f[i] = step[<<f[i-1], i>>]
    BY <1>2, <1>6 DEF Runs
  <2>2. \A i \in 1..n : f[i] = f[i-1] \o h[i].txs
    BY <1>3, <2>1
  <2>3. \A i \in 0..n : i # 0 => i \in 1..n
    OBVIOUS
  <2>4. \A i \in 0..n : f[i] = Loop(f)[i]
    BY <2>1, <2>2, <2>3
  <2>. QED  BY <2>1, <2>4
<1>8. all = Loop(all)
  BY <1>7 DEF all
<1>9. all[0] = GenesisTxs /\ \A i \in 1..n : all[i] = all[i-1] \o h[i].txs
  <2>1. \A i \in 0..n : all[i] = Loop(all)[i]
    BY <1>8
  <2>2. 0 \in 0..n
    BY <1>2
  <2>3. all[0] = GenesisTxs
    BY <2>1, <2>2
  <2>4. ASSUME NEW i \in 1..n
        PROVE  all[i] = all[i-1] \o h[i].txs
    <3>1. all[i] = Loop(all)[i] /\ i \in 0..n /\ i # 0
      BY <1>2, <2>1
    <3>. QED  BY <3>1, Zenon
  <2>. QED  BY <2>3, <2>4
<1>10. all = [i \in 0..n |-> all[i]]
  BY <1>8
<1>11. Runs(all, T, n, GenesisTxs, step)
  <2>. HIDE DEF n
  <2>1. \A i \in 1..n : all[i-1] \in T => all[i] = step[<<all[i-1], i>>]
    BY <1>3, <1>9
  <2>. QED  BY <1>2, <1>4, <1>5, <1>9, <1>10, <2>1, RunsByStep
<1>. QED  BY <1>1, <1>9, <1>11 DEF Runs, T

\* The transactions of a chain are transactions.
LEMMA AllType ==
  ASSUME NEW h \in Seq(LedgerBlock)
  PROVE  AllTransactions(h) \in Seq(AnyTx)
<1>1. PICK all \in [0..Len(h) -> Seq(AnyTx)] : AllTransactions(h) = all[Len(h)]
  BY AllRuns
<1>2. Len(h) \in 0..Len(h)
  OBVIOUS
<1>. QED  BY <1>1, <1>2

\* Those of block 0 alone.
LEMMA AllEmpty == AllTransactions(<<>>) = GenesisTxs
<1>1. <<>> \in Seq(LedgerBlock) /\ Len(<<>>) = 0
  OBVIOUS
<1>. QED  BY <1>1, AllRuns

\* A block adds its own.
LEMMA AllExtends ==
  ASSUME NEW h \in Seq(LedgerBlock), NEW g \in Seq(LedgerBlock),
         Len(h) # 0, Len(g) = Len(h) - 1, \A i \in 1..Len(g) : g[i] = h[i]
  PROVE  AllTransactions(h) = AllTransactions(g) \o h[Len(h)].txs
<1>1. PICK x \in [0..Len(h) -> Seq(AnyTx)] :
        /\ AllTransactions(h) = x[Len(h)]
        /\ x[0] = GenesisTxs
        /\ \A i \in 1..Len(h) : x[i] = x[i-1] \o h[i].txs
  BY AllRuns
<1>2. PICK y \in [0..Len(g) -> Seq(AnyTx)] :
        /\ AllTransactions(g) = y[Len(g)]
        /\ y[0] = GenesisTxs
        /\ \A i \in 1..Len(g) : y[i] = y[i-1] \o g[i].txs
  BY AllRuns
<1>3. /\ Len(g) \in Nat /\ Len(h) \in 1..Len(h) /\ Len(g) \in 0..Len(g)
      /\ \A i \in 1..Len(g) : i \in 1..Len(h)
  OBVIOUS
<1>4. x[0] = y[0] /\ \A i \in 1..Len(g) : x[i-1] = y[i-1] => x[i] = y[i]
  BY <1>1, <1>2, <1>3
<1>5. x[Len(g)] = y[Len(g)]
  <2>. DEFINE S == {i \in 0..Len(g) : x[i] = y[i]}
  <2>1. 0 \in S /\ \A i \in 1..Len(g) : i-1 \in S => i \in S
    BY <1>3, <1>4
  <2>2. Len(g) \in S
    <3>. HIDE DEF S
    <3>. QED  BY <1>3, <2>1, UpTo
  <2>. QED  BY <2>2
<1>. QED  BY <1>1, <1>2, <1>3, <1>5

-----------------------------------------------------------------------------
(***************************************************************************)
(* Nobody overdraws.                                                       *)
(***************************************************************************)

\* The state of a chain is that which its transactions make one by one.
LEMMA RebuildReplays ==
  ASSUME NEW h \in Seq(LedgerBlock)
  PROVE  RebuildState(h) = After(EmptyState, AllTransactions(h))
<1>1. PICK x \in [0..Len(h) -> LedgerState] :
        /\ RebuildState(h) = x[Len(h)]
        /\ x[0] = After(EmptyState, GenesisTxs)
        /\ \A i \in 1..Len(h) : x[i] = After(x[i-1], h[i].txs)
  BY RebuildRuns
<1>2. PICK all \in [0..Len(h) -> Seq(AnyTx)] :
        /\ AllTransactions(h) = all[Len(h)]
        /\ all[0] = GenesisTxs
        /\ \A i \in 1..Len(h) : all[i] = all[i-1] \o h[i].txs
  BY AllRuns
<1>. DEFINE S == {i \in 0..Len(h) : x[i] = After(EmptyState, all[i])}
<1>3. Len(h) \in Nat /\ Len(h) \in 0..Len(h)
      /\ \A i \in 1..Len(h) : i-1 \in 0..Len(h) /\ i \in 0..Len(h)
  OBVIOUS
<1>4. 0 \in S
  BY <1>1, <1>2, <1>3
<1>5. ASSUME NEW i \in 1..Len(h), i-1 \in S
      PROVE  i \in S
  <2>1. all[i-1] \in Seq(AnyTx)
    BY <1>2, <1>3
  <2>2. h[i].txs \in Seq(AnyTx)
    <3>1. h[i] \in LedgerBlock
      OBVIOUS
    <3>2. h[i].txs \in Seq(Tx)
      BY <3>1 DEF LedgerBlock
    <3>. QED  BY <3>2 DEF AnyTx
  <2>3. After(EmptyState, all[i-1] \o h[i].txs)
          = After(After(EmptyState, all[i-1]), h[i].txs)
    BY <2>1, <2>2, EmptyType, AfterBoth
  <2>4. x[i] = After(After(EmptyState, all[i-1]), h[i].txs)
    BY <1>1, <1>5
  <2>. QED  BY <1>2, <1>3, <2>3, <2>4
<1>6. Len(h) \in S
  <2>. HIDE DEF S
  <2>. QED  BY <1>3, <1>4, <1>5, UpTo
<1>. QED  BY <1>1, <1>2, <1>6

-----------------------------------------------------------------------------
(***************************************************************************)
(* Nobody overdraws.                                                       *)
(***************************************************************************)

\* Histories are the chains of the lemmas about the ledger.
LEMMA HistoriesAreChains == History = Seq(LedgerBlock)
BY DEF History, Block, LedgerBlock

\* A block on top of a chain adds its transactions to those of the chain.
LEMMA BlockAdds ==
  ASSUME NEW h \in History, NEW g \in History, h # <<>>, Front(h) = g
  PROVE  /\ AllTransactions(h) = AllTransactions(g) \o Last(h).txs
         /\ AllTransactions(g) \in Seq(AnyTx) /\ Last(h).txs \in Seq(AnyTx)
         /\ Last(h).txs \in Seq(Tx)
<1>1. /\ Len(h) \in Nat \ {0} /\ Len(g) = Len(h) - 1
      /\ \A i \in 1..Len(g) : g[i] = h[i]
      /\ Last(h).txs \in Seq(Tx) /\ Last(h).txs = h[Len(h)].txs
  BY HistoryParts DEF Last
<1>2. h \in Seq(LedgerBlock) /\ g \in Seq(LedgerBlock)
  BY HistoriesAreChains
<1>3. AllTransactions(h) = AllTransactions(g) \o Last(h).txs
  BY <1>1, <1>2, AllExtends
<1>4. AllTransactions(g) \in Seq(AnyTx)
  BY <1>2, AllType
<1>5. Last(h).txs \in Seq(AnyTx)
  BY <1>1 DEF AnyTx
<1>. QED  BY <1>1, <1>3, <1>4, <1>5

\* A valid block on top of a chain in which everybody pays what he has is
\* another such chain.
LEMMA ValidKeepsCovered ==
  ASSUME NEW h \in History, NEW g \in History, h # <<>>, Front(h) = g,
         ValidTransactions(g, Last(h).txs), Covered(AllTransactions(g))
  PROVE  Covered(AllTransactions(h))
<1>. DEFINE u == AllTransactions(g)
            v == Last(h).txs
<1>1. u \in Seq(AnyTx) /\ v \in Seq(AnyTx) /\ AllTransactions(h) = u \o v
  BY BlockAdds
<1>2. RebuildState(g) = After(EmptyState, u)
  BY HistoriesAreChains, RebuildReplays
<1>3. \A j \in DOMAIN v :
        v[j].type \in DebitType =>
          StatesAlong(RebuildState(g), v)[j-1].balances[v[j].from]
            >= v[j].amount
  <2>. HIDE DEF v
  <2>. QED  BY DEF ValidTransactions, v
<1>. HIDE DEF u, v
<1>4. DOMAIN v = 1..Len(v)
  BY <1>1
<1>5. Covered(u)
  BY DEF u
<1>6. Covered(u \o v)
  BY <1>1, <1>2, <1>3, <1>4, <1>5, CoveredBoth
<1>. QED  BY <1>1, <1>6

\* In the chain of block 0 nobody pays.
LEMMA NobodyPaysAtFirst == Covered(AllTransactions(<<>>))
BY AllEmpty, GenesisCovered

(***************************************************************************)
(* The inductive invariant: everybody pays what he has in any chain that   *)
(* exists, in a broker, a file, a Save, an adoption or a message.          *)
(***************************************************************************)
AllCovered == \A h \in KnownHistories : Covered(AllTransactions(h))

\* A proposer's block is the only new chain, and it was valid on its chain.
LEMMA NextAllCovered ==
  TypeOK /\ ProposersPrevail /\ AllCovered /\ [Next]_vars => AllCovered'
<1>. SUFFICES ASSUME TypeOK, ProposersPrevail, AllCovered, [Next]_vars,
                     NEW h \in KnownHistories'
              PROVE  Covered(AllTransactions(h))
  BY DEF AllCovered
<1>1. h \in KnownHistories \/ h = <<>> \/ Commits(h)
  BY NewHistories DEF ProposersPrevail
<1>2. CASE h \in KnownHistories
  BY <1>2 DEF AllCovered
<1>3. CASE h = <<>>
  BY <1>3, NobodyPaysAtFirst
<1>4. CASE Commits(h)
  <2>1. PICK m \in Received("BLOCK_VOTE") :
          h = m.hist /\ Appendable(m.to, h)
    BY <1>4 DEF Commits
  <2>2. m.to \in Broker /\ h \in History /\ chain[m.to] \in History
    BY <2>1, MessageFields DEF Received, TypeOK
  <2>3. Covered(AllTransactions(chain[m.to]))
    BY <2>2, KnownMeans DEF AllCovered
  <2>. QED  BY <2>1, <2>2, <2>3, ValidKeepsCovered DEF Appendable
<1>. QED  BY <1>1, <1>2, <1>3, <1>4

\* Initially there is block 0 only.
LEMMA InitAllCovered == Init => AllCovered
<1>. SUFFICES ASSUME Init, NEW h \in KnownHistories
              PROVE  Covered(AllTransactions(h))
  BY DEF AllCovered
<1>1. h = <<>>
  BY KnownMeans DEF Init
<1>. QED  BY <1>1, NobodyPaysAtFirst

\* It keeps whoever is not charged from ending below zero.
LEMMA AllCoveredMeans == TypeOK /\ AllCovered => NoOverdraft
<1>. SUFFICES ASSUME TypeOK, AllCovered, NEW b \in Broker,
                     NEW txs, txs = AllTransactions(chain[b])
              PROVE  /\ Covered(txs)
                     /\ \A a \in Account \ Charged(txs) :
                          RebuildState(chain[b]).balances[a] >= 0
  BY DEF NoOverdraft
<1>1. Covered(txs)
  BY KnownMeans DEF AllCovered
<1>2. chain[b] \in Seq(LedgerBlock)
  BY HistoriesAreChains DEF TypeOK
<1>3. txs \in Seq(AnyTx) /\ RebuildState(chain[b]) = After(EmptyState, txs)
  BY <1>2, AllType, RebuildReplays
<1>. QED  BY <1>1, <1>3, CoveredSolvent

(***************************************************************************)
(* No address ever spends more than it has in any broker's chain,          *)
(* whichever blocks were refused, adopted or loaded, and only an address   *)
(* that is charged ends below zero: a block is checked against the chain   *)
(* it extends before it is first appended (validateBlockTransactionsNoLock *)
(* in AddBlock), and all other chains are copies of chains that exist.     *)
(***************************************************************************)
THEOREM NobodyOverdraws == Spec => []NoOverdraft
<1>1. Init => AllCovered
  BY InitAllCovered
<1>2. TypeOK /\ ProposersPrevail /\ AllCovered /\ [Next]_vars => AllCovered'
  BY NextAllCovered
<1>. QED
  BY <1>1, <1>2, TypeCorrect, ProposersDecide, AllCoveredMeans, PTL DEF Spec

-----------------------------------------------------------------------------
(***************************************************************************)
(* Nothing is committed twice.                                             *)
(***************************************************************************)

\* Two lists without repetitions and without a common element make one.
LEMMA ConcatInjective ==
  ASSUME NEW T, NEW s \in Seq(T), NEW t \in Seq(T), IsInjective(s),
         IsInjective(t), \A x \in ToSet(t) : ~ Contains(s, x)
  PROVE  IsInjective(s \o t)
<1>1. /\ Len(s) \in Nat /\ Len(t) \in Nat /\ Len(s \o t) = Len(s) + Len(t)
      /\ DOMAIN (s \o t) = 1..(Len(s) + Len(t))
      /\ DOMAIN s = 1..Len(s) /\ DOMAIN t = 1..Len(t)
      /\ \A i \in 1..(Len(s) + Len(t)) :
           (s \o t)[i] = IF i <= Len(s) THEN s[i] ELSE t[i - Len(s)]
  OBVIOUS
<1>2. /\ \A i, j \in 1..Len(s) : s[i] = s[j] => i = j
      /\ \A i, j \in 1..Len(t) : t[i] = t[j] => i = j
      /\ \A i \in 1..Len(s) : \A j \in 1..Len(t) : s[i] # t[j]
  BY <1>1 DEF IsInjective, ToSet, Contains
<1>. DEFINE r == s \o t
<1>. HIDE DEF r
<1>3. ASSUME NEW i \in 1..(Len(s) + Len(t)), NEW j \in 1..(Len(s) + Len(t)),
             r[i] = r[j]
      PROVE  i = j
  <2>1. /\ r[i] = IF i <= Len(s) THEN s[i] ELSE t[i - Len(s)]
        /\ r[j] = IF j <= Len(s) THEN s[j] ELSE t[j - Len(s)]
    BY <1>1 DEF r
  <2>2. /\ i <= Len(s) => i \in 1..Len(s)
        /\ j <= Len(s) => j \in 1..Len(s)
        /\ ~ (i <= Len(s)) => i - Len(s) \in 1..Len(t)
        /\ ~ (j <= Len(s)) => j - Len(s) \in 1..Len(t)
    BY <1>1
  <2>3. CASE i <= Len(s) /\ j <= Len(s)
    BY <1>2, <1>3, <2>1, <2>2, <2>3
  <2>4. CASE i <= Len(s) /\ ~ (j <= Len(s))
    BY <1>2, <1>3, <2>1, <2>2, <2>4
  <2>5. CASE ~ (i <= Len(s)) /\ j <= Len(s)
    BY <1>2, <1>3, <2>1, <2>2, <2>5
  <2>6. CASE ~ (i <= Len(s)) /\ ~ (j <= Len(s))
    <3>1. i - Len(s) = j - Len(s)
      BY <1>2, <1>3, <2>1, <2>2, <2>6
    <3>. QED  BY <1>1, <3>1
  <2>. QED  BY <2>3, <2>4, <2>5, <2>6
<1>4. DOMAIN r = 1..(Len(s) + Len(t))
  BY <1>1 DEF r
<1>. QED  BY <1>3, <1>4 DEF IsInjective, r

\* What is in a concatenation.
LEMMA ConcatContains ==
  ASSUME NEW T, NEW s \in Seq(T), NEW t \in Seq(T), NEW x
  PROVE  Contains(s \o t, x) <=> Contains(s, x) \/ Contains(t, x)
<1>1. /\ Len(s) \in Nat /\ Len(t) \in Nat /\ Len(s \o t) = Len(s) + Len(t)
      /\ \A i \in 1..(Len(s) + Len(t)) :
           (s \o t)[i] = IF i <= Len(s) THEN s[i] ELSE t[i - Len(s)]
  OBVIOUS
<1>. DEFINE r == s \o t
<1>2. ASSUME Contains(r, x)
      PROVE  Contains(s, x) \/ Contains(t, x)
  <2>1. PICK i \in 1..(Len(s) + Len(t)) : r[i] = x
    BY <1>1, <1>2 DEF Contains
  <2>. HIDE DEF r
  <2>2. r[i] = IF i <= Len(s) THEN s[i] ELSE t[i - Len(s)]
    BY <1>1 DEF r
  <2>3. CASE i <= Len(s)
    BY <1>1, <2>1, <2>2, <2>3 DEF Contains
  <2>4. CASE ~ (i <= Len(s))
    <3>1. i - Len(s) \in 1..Len(t) /\ t[i - Len(s)] = x
      BY <1>1, <2>1, <2>2, <2>4
    <3>. QED  BY <3>1 DEF Contains
  <2>. QED  BY <2>3, <2>4
<1>3. ASSUME Contains(s, x)
      PROVE  Contains(r, x)
  <2>1. PICK i \in 1..Len(s) : s[i] = x
    BY <1>3 DEF Contains
  <2>2. i \in 1..Len(r) /\ r[i] = x
    BY <1>1, <2>1
  <2>. HIDE DEF r
  <2>. QED  BY <2>2 DEF Contains
<1>4. ASSUME Contains(t, x)
      PROVE  Contains(r, x)
  <2>1. PICK i \in 1..Len(t) : t[i] = x
    BY <1>4 DEF Contains
  <2>2. i + Len(s) \in 1..Len(r) /\ r[i + Len(s)] = x
    BY <1>1, <2>1
  <2>. HIDE DEF r
  <2>. QED  BY <2>2 DEF Contains
<1>. QED  BY <1>2, <1>3, <1>4

\* Contains and ToSet say the same.
LEMMA ContainsMeans ==
  ASSUME NEW T, NEW s \in Seq(T), NEW x
  PROVE  Contains(s, x) <=> x \in ToSet(s)
<1>1. DOMAIN s = 1..Len(s)
  OBVIOUS
<1>. QED  BY <1>1 DEF Contains, ToSet

\* A mempool that stays a list without repetitions when tx joins it.
LEMMA AppendApart ==
  ASSUME NEW h, NEW pool \in Seq(Tx), NEW tx \in Tx, Apart(h, pool),
         Admissible(h, pool, tx)
  PROVE  Apart(h, Append(pool, tx))
<1>. DEFINE more == Append(pool, tx)
<1>1. /\ more \in Seq(Tx) /\ Len(more) = Len(pool) + 1 /\ Len(pool) \in Nat
      /\ DOMAIN more = 1..(Len(pool) + 1) /\ DOMAIN pool = 1..Len(pool)
      /\ more[Len(pool) + 1] = tx
      /\ \A i \in 1..Len(pool) : more[i] = pool[i]
  OBVIOUS
<1>2. /\ \A i \in 1..Len(pool) : pool[i] # tx
      /\ ~ Contains(AllTransactions(h), tx)
  BY DEF Admissible, Contains
<1>3. /\ \A i, j \in 1..Len(pool) : pool[i] = pool[j] => i = j
      /\ \A i \in 1..Len(pool) : ~ Contains(AllTransactions(h), pool[i])
  BY <1>1 DEF Apart, IsInjective, ToSet
<1>. HIDE DEF more
<1>4. \A i \in 1..(Len(pool) + 1) : i = Len(pool) + 1 \/ i \in 1..Len(pool)
  BY <1>1
<1>5. IsInjective(more)
  BY <1>1, <1>2, <1>3, <1>4 DEF IsInjective
<1>6. \A x \in ToSet(more) : ~ Contains(AllTransactions(h), x)
  BY <1>1, <1>2, <1>3, <1>4 DEF ToSet
<1>. QED  BY <1>5, <1>6 DEF Apart, more

\* What a proposer takes from a list without repetitions has none.
LEMMA ProposedKeeps ==
  ASSUME NEW pool \in Seq(Tx), IsInjective(pool)
  PROVE  /\ IsInjective(ProposedTxs(pool))
         /\ \A tx \in ToSet(ProposedTxs(pool)) : tx \in ToSet(pool)
<1>1. MaxBlockTxs \in Nat
  BY LedgerAssumption DEF LedgerAssumption
<1>. DEFINE k == Min({Len(pool), MaxBlockTxs})
            r == SubSeq(pool, 1, k)
<1>2. k \in 0..Len(pool)
  <2>1. \E x \in {Len(pool), MaxBlockTxs} :
          \A y \in {Len(pool), MaxBlockTxs} : x <= y
    BY <1>1
  <2>. QED  BY <2>1, <1>1 DEF Min
<1>. HIDE DEF k
<1>3. /\ Len(r) = k /\ DOMAIN r = 1..k /\ DOMAIN pool = 1..Len(pool)
      /\ \A i \in 1..k : r[i] = pool[i] /\ i \in 1..Len(pool)
  BY <1>2
<1>4. \A i, j \in 1..Len(pool) : pool[i] = pool[j] => i = j
  BY <1>3 DEF IsInjective
<1>. HIDE DEF r
<1>5. IsInjective(r)
  BY <1>3, <1>4 DEF IsInjective
<1>6. \A tx \in ToSet(r) : tx \in ToSet(pool)
  BY <1>3 DEF ToSet
<1>7. ProposedTxs(pool) = r
  BY DEF ProposedTxs, r, k
<1>. QED  BY <1>5, <1>6, <1>7

\* The mempool that AddBlock leaves is apart from the chain it makes.
LEMMA RemainsApart ==
  ASSUME NEW h \in History, NEW g \in History, h # <<>>, Front(h) = g,
         NEW pool \in Seq(Tx), Apart(g, pool)
  PROVE  Apart(h, WithoutTxs(pool, Last(h).txs))
<1>. DEFINE rest == WithoutTxs(pool, Last(h).txs)
<1>1. /\ IsInjective(rest)
      /\ \A tx \in ToSet(rest) :
           tx \in ToSet(pool) /\ ~ Contains(Last(h).txs, tx)
  BY WithoutTxsKeeps DEF Apart
<1>2. \A tx : Contains(AllTransactions(h), tx) =>
                Contains(AllTransactions(g), tx) \/ Contains(Last(h).txs, tx)
  <2>1. PICK u \in Seq(AnyTx) : u = AllTransactions(g)
    BY BlockAdds
  <2>2. PICK v \in Seq(AnyTx) : v = Last(h).txs
    BY BlockAdds
  <2>3. AllTransactions(h) = u \o v
    BY <2>1, <2>2, BlockAdds
  <2>4. \A tx : Contains(u \o v, tx) <=> Contains(u, tx) \/ Contains(v, tx)
    BY ConcatContains
  <2>. QED  BY <2>1, <2>2, <2>3, <2>4
<1>. HIDE DEF rest
<1>3. \A tx \in ToSet(rest) : ~ Contains(AllTransactions(h), tx)
  BY <1>1, <1>2 DEF Apart
<1>. QED  BY <1>1, <1>3 DEF Apart, rest

\* A proposal has no transaction twice.
LEMMA ProposalOnce ==
  ASSUME NEW g \in History, NEW pool \in Seq(Tx), NEW stamp \in Nat,
         IsInjective(AllTransactions(g)), Apart(g, pool)
  PROVE  IsInjective(AllTransactions(
           Append(g, [txs |-> ProposedTxs(pool), stamp |-> stamp])))
<1>. DEFINE block == [txs |-> ProposedTxs(pool), stamp |-> stamp]
            h == Append(g, block)
<1>1. h \in History
  BY ProposalType
<1>2. block \in Block
  BY ProposedTxsType DEF Block
<1>3. h # <<>> /\ Front(h) = g /\ Last(h) = block
  <2>. HIDE DEF block
  <2>. QED  BY <1>2 DEF History, Front, Last
<1>4. Last(h).txs = ProposedTxs(pool)
  BY <1>3
<1>5. \A tx \in ToSet(ProposedTxs(pool)) : ~ Contains(AllTransactions(g), tx)
  BY ProposedKeeps DEF Apart
<1>6. IsInjective(ProposedTxs(pool))
  BY ProposedKeeps DEF Apart
<1>. HIDE DEF h, block
<1>7. /\ AllTransactions(h) = AllTransactions(g) \o ProposedTxs(pool)
      /\ AllTransactions(g) \in Seq(AnyTx) /\ ProposedTxs(pool) \in Seq(AnyTx)
  BY <1>1, <1>3, <1>4, BlockAdds
<1>. QED  BY <1>5, <1>6, <1>7, ConcatInjective DEF h, block

\* Where a proposed or voted block is.
LEMMA RoundMeans ==
  ASSUME NEW h
  PROVE  h \in RoundHistories <=>
           \E m \in net : /\ m.type \in {"BLOCK_PROPOSAL", "BLOCK_VOTE"}
                          /\ h = m.hist
BY DEF RoundHistories

\* The same in the state after a step.
LEMMA RoundMeansNext ==
  ASSUME NEW h
  PROVE  h \in RoundHistories' <=>
           \E m \in net' : /\ m.type \in {"BLOCK_PROPOSAL", "BLOCK_VOTE"}
                           /\ h = m.hist
BY DEF RoundHistories

\* Every block on its way after a step was so before, or is a proposal the
\* step has made.
LEMMA NewRounds ==
  TypeOK /\ [Next]_vars
    => \A h \in RoundHistories' :
         \/ h \in RoundHistories
         \/ \E b \in Broker :
              h = Append(chain[b],
                         [txs |-> ProposedTxs(mempool[b]), stamp |-> clock])
<1>. SUFFICES ASSUME TypeOK, [Next]_vars, NEW h \in RoundHistories',
                     h \notin RoundHistories
              PROVE  \E b \in Broker :
                       h = Append(chain[b], [txs   |-> ProposedTxs(mempool[b]),
                                             stamp |-> clock])
  OBVIOUS
<1>. USE DEF nodeVars, roundVars, syncVars, netVars, boundVars, histVars
<1>1. PICK k \in net' : /\ k.type \in {"BLOCK_PROPOSAL", "BLOCK_VOTE"}
                        /\ h = k.hist
  BY RoundMeansNext
<1>2. k \notin net
  BY <1>1, RoundMeans
<1>3. ASSUME NEW b \in Broker, Propose(b)
      PROVE  h = Append(chain[b], [txs   |-> ProposedTxs(mempool[b]),
                                   stamp |-> clock])
  <2>. DEFINE hist == Append(chain[b], [txs   |-> ProposedTxs(mempool[b]),
                                        stamp |-> clock])
  <2>1. PICK c \in Broker : k = BlockMsg("BLOCK_PROPOSAL", b, c, hist)
    BY <1>2, <1>3 DEF Propose, Neighbours
  <2>. QED  BY <1>1, <2>1 DEF BlockMsg
<1>4. ASSUME NEW m \in Received("BLOCK_PROPOSAL"), HandleBlockProposal(m)
      PROVE  FALSE
  <2>1. PICK c \in Broker : k = BlockMsg("BLOCK_VOTE", m.to, c, m.hist)
    BY <1>2, <1>4 DEF HandleBlockProposal, Neighbours
  <2>2. h = m.hist /\ m \in net /\ m.type = "BLOCK_PROPOSAL"
    BY <1>1, <2>1 DEF BlockMsg, Received
  <2>. QED  BY <2>2, RoundMeans
<1>5. ASSUME NEW b \in Broker, NEW s \in saving[b], WriteFile(b, s)
      PROVE  FALSE
  BY <1>1, <1>2, <1>5 DEF WriteFile, Announcement, CommitMsg
<1>6. ASSUME NEW m \in Received("CHAIN_SYNC"), HandleChainSync(m)
      PROVE  FALSE
  BY <1>1, <1>2, <1>6 DEF HandleChainSync, BlockMsg
<1>7. ASSUME NEW b \in Broker, NEW tx \in Tx, SubmitTx(b, tx)
      PROVE  FALSE
  BY <1>1, <1>2, <1>7 DEF SubmitTx, TxMsg
<1>8. ASSUME NEW b \in Broker, RequestChain(b)
      PROVE  FALSE
  BY <1>1, <1>2, <1>8 DEF RequestChain, SyncMsg
<1>9. ASSUME NEW b \in Broker, NEW c \in Broker, Connect(b, c)
      PROVE  FALSE
  BY <1>1, <1>2, <1>9 DEF Connect, TxMsg
<1>10. CASE net' \subseteq net
  BY <1>1, <1>2, <1>10
<1>11. CASE UNCHANGED vars
  BY <1>10, <1>11 DEF vars
<1>. QED
  BY <1>3, <1>4, <1>5, <1>6, <1>7, <1>8, <1>9, <1>10, <1>11
     DEF Next, ReceiveTx, HandleBlockVote, HandleBlockCommit,
         HandleChainResponse, ReplaceChain, Crash, Restart, Drop

\* Block 0 has no transaction twice, and the empty mempool is apart from
\* every chain.
LEMMA NothingYet ==
  /\ IsInjective(AllTransactions(<<>>))
  /\ \A h : Apart(h, <<>>)
BY AllEmpty, LedgerAssumption DEF LedgerAssumption, Apart, IsInjective, ToSet

\* No chain and no block on its way gets a transaction twice.
LEMMA HistoriesOnce ==
  ASSUME TypeOK, AnnouncesItsFile, NothingTwice, [Next]_vars,
         NEW h \in KnownHistories' \cup RoundHistories'
  PROVE  IsInjective(AllTransactions(h))
<1>1. CASE h \in KnownHistories \cup RoundHistories
  BY <1>1 DEF NothingTwice
<1>2. CASE h = <<>>
  BY <1>2, NothingYet
<1>3. CASE Commits(h)
  <2>1. PICK m \in Received("BLOCK_VOTE") : h = m.hist
    BY <1>3 DEF Commits
  <2>2. h \in RoundHistories
    BY <2>1, RoundMeans DEF Received
  <2>. QED  BY <2>2, <1>1
<1>4. ASSUME NEW b \in Broker,
             h = Append(chain[b], [txs   |-> ProposedTxs(mempool[b]),
                                   stamp |-> clock])
      PROVE  IsInjective(AllTransactions(h))
  <2>1. /\ chain[b] \in History /\ mempool[b] \in Seq(Tx) /\ clock \in Nat
    BY DEF TypeOK
  <2>2. chain[b] \in KnownHistories
    BY KnownMeans
  <2>3. IsInjective(AllTransactions(chain[b])) /\ Apart(chain[b], mempool[b])
    BY <2>2 DEF NothingTwice
  <2>. QED  BY <1>4, <2>1, <2>3, ProposalOnce
<1>. QED  BY <1>1, <1>2, <1>3, <1>4, NewHistories, NewRounds

\* A broker and its files keep what waits apart from what is in the chain.
PoolsApart ==
  \A b \in Broker :
    /\ Apart(chain[b], mempool[b])
    /\ Apart(disk[b].blocks, disk[b].mempool)
    /\ \A s \in saving[b] : Apart(s.blocks, s.mempool)

\* AddBlock does.
LEMMA AddBlockApart ==
  ASSUME TypeOK, PoolsApart, NEW b \in Broker, NEW hist \in History,
         NEW announce, Appendable(b, hist), AddBlock(b, hist, announce),
         disk' = disk
  PROVE  PoolsApart'
<1>. DEFINE pool == WithoutTxs(mempool[b], Last(hist).txs)
            save == [blocks |-> hist, mempool |-> pool, announce |-> announce]
<1>1. /\ chain' = [chain EXCEPT ![b] = hist]
      /\ mempool' = [mempool EXCEPT ![b] = pool]
      /\ saving' = [saving EXCEPT ![b] = @ \cup {save}]
  <2>1. mempool' = [mempool EXCEPT ![b] = pool]
    BY DEF AddBlock
  <2>. QED  BY <2>1, AddBlockMeans
<1>2. Apart(hist, pool)
  BY RemainsApart DEF Appendable, TypeOK, PoolsApart
<1>3. save.blocks = hist /\ save.mempool = pool
  OBVIOUS
<1>. HIDE DEF pool, save
<1>4. ASSUME NEW c \in Broker
      PROVE  /\ Apart(chain'[c], mempool'[c])
             /\ Apart(disk'[c].blocks, disk'[c].mempool)
             /\ \A s \in saving'[c] : Apart(s.blocks, s.mempool)
  <2>1. CASE c = b
    <3>1. /\ chain'[c] = hist /\ mempool'[c] = pool
          /\ \A s \in saving'[c] : s \in saving[c] \/ s = save
      BY <1>1, <2>1 DEF TypeOK
    <3>. QED  BY <1>2, <1>3, <3>1 DEF PoolsApart
  <2>2. CASE c # b
    <3>1. /\ chain'[c] = chain[c] /\ mempool'[c] = mempool[c]
          /\ saving'[c] = saving[c]
      BY <1>1, <2>2 DEF TypeOK
    <3>. QED  BY <3>1 DEF PoolsApart
  <2>. QED  BY <2>1, <2>2
<1>. QED  BY <1>4 DEF PoolsApart

\* A mempool that admits a transaction stays apart from the chain.
LEMMA AdmittedApart ==
  ASSUME TypeOK, PoolsApart, NEW b \in Broker, NEW tx \in Tx,
         Admissible(chain[b], mempool[b], tx),
         mempool' = [mempool EXCEPT ![b] = Append(@, tx)],
         chain' = chain, disk' = disk, saving' = saving
  PROVE  PoolsApart'
<1>1. Apart(chain[b], Append(mempool[b], tx))
  BY AppendApart DEF TypeOK, PoolsApart
<1>2. \A c \in Broker : mempool'[c] = IF c = b THEN Append(mempool[b], tx)
                                       ELSE mempool[c]
  BY DEF TypeOK
<1>. QED  BY <1>1, <1>2 DEF PoolsApart

\* Every step but the replacement of a chain under a mempool does.
LEMMA NextApart ==
  ASSUME TypeOK, PoolsApart, [Next /\ ~ ReplacesUnderMempool]_vars
  PROVE  PoolsApart'
<1>. USE DEF nodeVars, roundVars, syncVars, netVars, boundVars, histVars
<1>1. ASSUME NEW b \in Broker, NEW tx \in Tx, SubmitTx(b, tx)
      PROVE  PoolsApart'
  BY <1>1, AdmittedApart DEF SubmitTx
<1>2. ASSUME NEW m \in Received("TX_BROADCAST"), ReceiveTx(m)
      PROVE  PoolsApart'
  <2>1. m.to \in Broker /\ m.tx \in Tx
    BY MessageFields DEF Received, TypeOK
  <2>. QED  BY <1>2, <2>1, AdmittedApart DEF ReceiveTx
<1>3. CASE UNCHANGED nodeVars
  BY <1>3 DEF PoolsApart
<1>4. ASSUME NEW m \in Received("BLOCK_VOTE"), HandleBlockVote(m)
      PROVE  PoolsApart'
  <2>1. m.to \in Broker /\ m.hist \in History
    BY MessageFields DEF Received, TypeOK
  <2>2. CASE UNCHANGED <<chain, mempool, saving>>
    BY <1>3, <1>4, <2>2 DEF HandleBlockVote
  <2>3. CASE Appendable(m.to, m.hist) /\ AddBlock(m.to, m.hist, m.hist)
    BY <1>4, <2>1, <2>3, AddBlockApart DEF HandleBlockVote
  <2>. QED  BY <1>4, <2>2, <2>3 DEF HandleBlockVote
<1>5. ASSUME NEW m \in Received("BLOCK_COMMIT"), HandleBlockCommit(m)
      PROVE  PoolsApart'
  <2>1. m.to \in Broker /\ m.hist \in History
    BY MessageFields DEF Received, TypeOK
  <2>. QED  BY <1>5, <2>1, AddBlockApart DEF HandleBlockCommit
<1>6. ASSUME NEW b \in Broker, NEW s \in saving[b], WriteFile(b, s)
      PROVE  PoolsApart'
  <2>1. ASSUME NEW c \in Broker
        PROVE  /\ disk'[c] = IF c = b THEN [blocks  |-> s.blocks,
                                            mempool |-> s.mempool]
                             ELSE disk[c]
               /\ saving'[c] \subseteq saving[c]
    BY <1>6 DEF WriteFile, TypeOK
  <2>2. chain' = chain /\ mempool' = mempool /\ Apart(s.blocks, s.mempool)
    BY <1>6 DEF WriteFile, PoolsApart
  <2>. QED  BY <2>1, <2>2 DEF PoolsApart
<1>7. ASSUME NEW b \in Broker, NEW m \in adopting[b], ReplaceChain(m),
             ~ ReplacesUnderMempool
      PROVE  PoolsApart'
  <2>1. m.to = b
    BY DEF TypeOK
  <2>2. Apart(m.hist, mempool[b])
    <3>1. \A tx \in ToSet(mempool[b]) : ~ Contains(AllTransactions(m.hist), tx)
      BY <1>7 DEF ReplacesUnderMempool
    <3>. QED  BY <3>1 DEF PoolsApart, Apart
  <2>. DEFINE save == [blocks |-> m.hist, mempool |-> mempool[b],
                       announce |-> <<>>]
  <2>3. save.blocks = m.hist /\ save.mempool = mempool[b]
    OBVIOUS
  <2>4. /\ chain' = [chain EXCEPT ![b] = m.hist]
        /\ saving' = [saving EXCEPT ![b] = @ \cup {save}]
        /\ mempool' = mempool /\ disk' = disk
    BY <1>7, <2>1 DEF ReplaceChain
  <2>. HIDE DEF save
  <2>5. ASSUME NEW c \in Broker
        PROVE  /\ chain'[c] = IF c = b THEN m.hist ELSE chain[c]
               /\ \A s \in saving'[c] : s \in saving[c] \/ s = save
    BY <2>4 DEF TypeOK
  <2>. QED  BY <2>2, <2>3, <2>4, <2>5 DEF PoolsApart
<1>8. ASSUME NEW b \in Broker, Crash(b)
      PROVE  PoolsApart'
  <2>1. ASSUME NEW c \in Broker
        PROVE  /\ mempool'[c] = mempool[c] \/ mempool'[c] = <<>>
               /\ disk'[c] = disk[c] \/ disk'[c] = Torn
               /\ saving'[c] \subseteq saving[c]
    BY <1>8 DEF Crash, TypeOK
  <2>2. chain' = chain
    BY <1>8 DEF Crash
  <2>3. Apart(Torn.blocks, Torn.mempool)
    BY NothingYet DEF Torn
  <2>. QED  BY <2>1, <2>2, <2>3, NothingYet DEF PoolsApart
<1>9. ASSUME NEW b \in Broker, Restart(b)
      PROVE  PoolsApart'
  <2>1. ASSUME NEW c \in Broker
        PROVE  /\ chain'[c] = IF c = b THEN disk[b].blocks ELSE chain[c]
               /\ mempool'[c] = IF c = b THEN disk[b].mempool ELSE mempool[c]
    BY <1>9 DEF Restart, TypeOK
  <2>2. disk' = disk /\ saving' = saving
    BY <1>9 DEF Restart
  <2>. QED  BY <2>1, <2>2 DEF PoolsApart
<1>10. CASE UNCHANGED vars
  BY <1>3, <1>10 DEF vars
<1>. QED
  BY <1>1, <1>2, <1>3, <1>4, <1>5, <1>6, <1>7, <1>8, <1>9, <1>10
     DEF Next, Propose, HandleBlockProposal, RequestChain, HandleChainSync,
         HandleChainResponse, Connect, Drop

\* Every step that does not replace a chain under a mempool keeps the
\* inductive invariant.
LEMMA NextNothingTwice ==
  TypeOK /\ AnnouncesItsFile /\ NothingTwice
    /\ [Next /\ ~ ReplacesUnderMempool]_vars => NothingTwice'
<1>. SUFFICES ASSUME TypeOK, AnnouncesItsFile, NothingTwice,
                     [Next /\ ~ ReplacesUnderMempool]_vars
              PROVE  NothingTwice'
  OBVIOUS
<1>1. [Next]_vars
  OBVIOUS
<1>2. PoolsApart'
  BY NextApart DEF NothingTwice, PoolsApart
<1>3. \A h \in KnownHistories' \cup RoundHistories' :
        IsInjective(AllTransactions(h))
  BY <1>1, HistoriesOnce
<1>. QED  BY <1>2, <1>3 DEF NothingTwice, PoolsApart

\* Initially there is block 0 and nothing waits.
LEMMA InitNothingTwice == Init => NothingTwice
<1>. SUFFICES ASSUME Init PROVE NothingTwice
  OBVIOUS
<1>1. \A h \in KnownHistories \cup RoundHistories : h = <<>>
  BY KnownMeans, RoundMeans DEF Init
<1>2. \A b \in Broker :
        /\ mempool[b] = <<>> /\ disk[b].mempool = <<>> /\ saving[b] = {}
  BY DEF Init
<1>. QED  BY <1>1, <1>2, NothingYet DEF NothingTwice

(***************************************************************************)
(* No chain, file or proposed block has a transaction twice, and no        *)
(* mempool holds what its chain has, in all behaviours in which no chain   *)
(* is replaced under a mempool that shares a transaction with it           *)
(* (AddTxToMempool, AddBlock, Save, Load).                                 *)
(***************************************************************************)
THEOREM NothingRepeats == DisjointSpec => []NothingTwice
<1>. DEFINE Inv == TypeOK /\ AnnouncesItsFile /\ NothingTwice
<1>1. Init => Inv
  BY InitType, InitPrevails, InitNothingTwice DEF ProposersPrevail
<1>2. Inv /\ [Next /\ ~ ReplacesUnderMempool]_vars => Inv'
  <2>. SUFFICES ASSUME Inv, [Next /\ ~ ReplacesUnderMempool]_vars
                PROVE  Inv'
    OBVIOUS
  <2>1. [Next]_vars
    OBVIOUS
  <2>. QED  BY <2>1, NextType, AnnouncesKept, NextNothingTwice
<1>3. Inv => NothingTwice
  OBVIOUS
<1>. QED  BY <1>1, <1>2, <1>3, PTL DEF DisjointSpec

(***************************************************************************)
(* No transaction is in a broker's chain twice in those behaviours         *)
(* (loopConsensus, AddBlock).                                              *)
(***************************************************************************)
THEOREM CommitsOnce == DisjointSpec => []CommittedOnce
<1>1. NothingTwice => CommittedOnce
  BY KnownMeans DEF NothingTwice, CommittedOnce
<1>. QED  BY <1>1, NothingRepeats, PTL
=============================================================================
