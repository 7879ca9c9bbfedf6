------------------------------ MODULE FilaProofs ------------------------------
(***************************************************************************)
(* The heap of Fila implements PriorityQueue, for every set of occurrences *)
(* and a queue of any length: what the loops of container/heap do to a     *)
(* heap, and from that the theorems about the package fila.                *)
(***************************************************************************)
EXTENDS Fila, Iteration, SequenceTheorems

-----------------------------------------------------------------------------
(***************************************************************************)
(* Loops.                                                                  *)
(***************************************************************************)

\* If every round leads from a set to the next one, n rounds lead from the
\* first set to the last one.
LEMMA IterateInto ==
  ASSUME NEW n \in Nat, NEW F, NEW J, NEW s, s \in J[0],
         \A k \in 1..n : \A x \in J[k-1] : F[x] \in J[k]
  PROVE  Iterate(F, s, n) \in J[n]
<1>. DEFINE T == UNION {J[k] : k \in 0..n}
            step == [q \in T \X (1..n) |->
                       IF q[1] \in J[q[2] - 1] THEN F[q[1]] ELSE s]
            Loop(g) == [k \in 0..n |-> IF k = 0 THEN s ELSE F[g[k-1]]]
            state == CHOOSE g : g = Loop(g)
<1>1. 0 \in 0..n /\ n \in 0..n
      /\ \A k \in 1..n : k \in 0..n /\ k # 0 /\ k-1 \in 0..n
  OBVIOUS
<1>2. Iterate(F, s, n) = state[n]
  BY DEF Iterate
<1>3. s \in T
  BY <1>1
<1>4. step \in [T \X (1..n) -> T]
  <2>1. ASSUME NEW q \in T \X (1..n)
        PROVE  step[q] \in T
    <3>1. q[2] \in 1..n
      OBVIOUS
    <3>2. CASE q[1] \in J[q[2] - 1]
      <4>1. F[q[1]] \in J[q[2]] /\ q[2] \in 0..n
        BY <1>1, <3>1, <3>2
      <4>. QED  BY <3>2, <4>1
    <3>. QED  BY <1>3, <3>2
  <2>2. step = [q \in T \X (1..n) |-> step[q]]
    OBVIOUS
  <2>. HIDE DEF step, T
  <2>. QED  BY <2>1, <2>2
<1>5. \A k \in 1..n : \A x \in J[k-1] : x \in T /\ step[<<x, k>>] = F[x]
  <2>. TAKE k \in 1..n
  <2>. TAKE x \in J[k-1]
  <2>1. x \in T
    BY <1>1
  <2>. HIDE DEF T
  <2>. QED  BY <2>1
<1>. HIDE DEF step, T
<1>6. PICK f : Runs(f, T, n, s, step)
  BY <1>3, <1>4, IterationExists
<1>7. \A k \in 0..n : f[k] \in J[k]
  <2>. DEFINE S == {k \in 0..n : f[k] \in J[k]}
  <2>1. 0 \in S
    BY <1>1, <1>6 DEF Runs
  <2>2. ASSUME NEW k \in 1..n, k-1 \in S
        PROVE  k \in S
    BY <1>1, <1>5, <1>6, <2>2 DEF Runs
  <2>3. \A k \in 0..n : k \in S
    <3>. HIDE DEF S
    <3>. QED  BY <2>1, <2>2, UpTo
  <2>. QED  BY <2>3
<1>8. f = Loop(f)
  <2>1. f = [k \in 0..n |-> f[k]] /\ f[0] = s
        /\ \A k \in 1..n : f[k] = step[<<f[k-1], k>>]
    BY <1>6 DEF Runs
  <2>2. \A k \in 1..n : f[k] = F[f[k-1]]
    BY <1>1, <1>5, <1>7, <2>1
  <2>3. \A k \in 0..n : k # 0 => k \in 1..n
    OBVIOUS
  <2>4. \A k \in 0..n : f[k] = Loop(f)[k]
    BY <2>1, <2>2, <2>3
  <2>. QED  BY <2>1, <2>4
<1>9. state = Loop(state)
  BY <1>8
<1>. HIDE DEF state
<1>10. state[0] = s /\ \A k \in 1..n : state[k] = F[state[k-1]]
  <2>1. \A k \in 0..n : state[k] = Loop(state)[k]
    BY <1>9
  <2>. QED  BY <1>1, <2>1
<1>11. \A k \in 0..n : state[k] \in J[k]
  <2>. DEFINE S == {k \in 0..n : state[k] \in J[k]}
  <2>1. 0 \in S
    BY <1>1, <1>10
  <2>2. ASSUME NEW k \in 1..n, k-1 \in S
        PROVE  k \in S
    BY <1>1, <1>10, <2>2
  <2>3. \A k \in 0..n : k \in S
    <3>. HIDE DEF S
    <3>. QED  BY <2>1, <2>2, UpTo
  <2>. QED  BY <2>3
<1>. QED  BY <1>1, <1>2, <1>11

\* A loop whose rounds stay in T and, when they change anything, make the
\* measure less, has come to rest after as many rounds as the measure says.
LEMMA IterateRests ==
  ASSUME NEW n \in Nat, NEW F, NEW T, NEW s \in T, NEW measure \in [T -> Nat],
         measure[s] <= n,
         \A x \in T : F[x] \in T /\ (F[x] # x => measure[F[x]] < measure[x])
  PROVE  /\ Iterate(F, s, n) \in T
         /\ F[Iterate(F, s, n)] = Iterate(F, s, n)
<1>. DEFINE Resting(k) == {x \in T : F[x] = x \/ measure[x] + k <= n}
            J == [k \in 0..n |-> Resting(k)]
<1>1. s \in J[0]
  OBVIOUS
<1>2. ASSUME NEW k \in 1..n, NEW x \in J[k-1]
      PROVE  F[x] \in J[k]
  <2>1. k \in 0..n /\ k-1 \in 0..n /\ k \in Int
    OBVIOUS
  <2>2. x \in T /\ (F[x] = x \/ measure[x] + (k-1) <= n)
    BY <2>1
  <2>3. F[x] \in T /\ measure[x] \in Nat /\ measure[F[x]] \in Nat
    BY <2>2
  <2>4. F[F[x]] = F[x] \/ measure[F[x]] + k <= n
    BY <2>1, <2>2, <2>3
  <2>. QED  BY <2>1, <2>3, <2>4
<1>3. Iterate(F, s, n) \in J[n]
  <2>. HIDE DEF J
  <2>. QED  BY <1>1, <1>2, IterateInto
<1>4. Iterate(F, s, n) \in Resting(n)
  BY <1>3
<1>. QED
  <2>. DEFINE r == Iterate(F, s, n)
  <2>1. r \in T /\ (F[r] = r \/ measure[r] + n <= n)
    BY <1>4
  <2>. HIDE DEF r
  <2>2. measure[r] \in Nat /\ F[r] \in T /\ measure[F[r]] \in Nat
    BY <2>1
  <2>3. F[r] = r
    BY <2>1, <2>2
  <2>. QED  BY <2>1, <2>3 DEF r

-----------------------------------------------------------------------------
(***************************************************************************)
(* The order of service.                                                   *)
(***************************************************************************)

LEMMA HalfMeans ==
  ASSUME NEW k \in Nat
  PROVE  /\ k \div 2 \in Nat
         /\ k >= 2 => k \div 2 >= 1
         /\ k >= 1 => k \div 2 < k
         /\ k \div 2 <= k
OBVIOUS

\* The children of a place.
LEMMA ParentMeans ==
  ASSUME NEW k \in Nat, NEW i \in Nat
  PROVE  k \div 2 = i <=> k = 2*i \/ k = 2*i + 1
OBVIOUS

LEMMA PlaceMeans ==
  ASSUME NEW ord \in Seq(Ocorrencia), NEW x \in ToSet(ord)
  PROVE  /\ Queue!Place(ord, x) \in 1..Len(ord)
         /\ ord[Queue!Place(ord, x)] = x
<1>1. \E i \in DOMAIN ord : ord[i] = x
  BY DEF ToSet
<1>2. DOMAIN ord = 1..Len(ord)
  OBVIOUS
<1>. QED  BY <1>1, <1>2 DEF Queue!Place

LEMMA PlaceIs ==
  ASSUME NEW ord \in Seq(Ocorrencia), IsInjective(ord), NEW i \in 1..Len(ord)
  PROVE  Queue!Place(ord, ord[i]) = i
<1>1. DOMAIN ord = 1..Len(ord)
  OBVIOUS
<1>2. ord[i] \in ToSet(ord)
  BY <1>1 DEF ToSet
<1>3. /\ Queue!Place(ord, ord[i]) \in 1..Len(ord)
      /\ ord[Queue!Place(ord, ord[i])] = ord[i]
  BY <1>2, PlaceMeans
<1>. QED  BY <1>1, <1>3 DEF IsInjective

\* Among those that wait, Less is a strict total order.
LEMMA BeforeOrders ==
  ASSUME NEW p \in [Ocorrencia -> Int], NEW ord \in Seq(Ocorrencia),
         NEW x \in ToSet(ord), NEW y \in ToSet(ord)
  PROVE  /\ ~ Queue!Before(p, ord, x, x)
         /\ Queue!Before(p, ord, x, y) => ~ Queue!Before(p, ord, y, x)
         /\ x # y => Queue!Before(p, ord, x, y) \/ Queue!Before(p, ord, y, x)
<1>1. x \in Ocorrencia /\ y \in Ocorrencia
  BY DEF ToSet
<1>2. p[x] \in Int /\ p[y] \in Int
  BY <1>1
<1>3. /\ Queue!Place(ord, x) \in Int /\ ord[Queue!Place(ord, x)] = x
      /\ Queue!Place(ord, y) \in Int /\ ord[Queue!Place(ord, y)] = y
  BY PlaceMeans
<1>. QED  BY <1>2, <1>3 DEF Queue!Before

\* What does not come before another does not come before what that one does
\* not come before.
LEMMA NotBeforeTransitive ==
  ASSUME NEW p \in [Ocorrencia -> Int], NEW ord \in Seq(Ocorrencia),
         NEW x \in ToSet(ord), NEW y \in ToSet(ord), NEW z \in ToSet(ord),
         ~ Queue!Before(p, ord, z, y), ~ Queue!Before(p, ord, y, x)
  PROVE  ~ Queue!Before(p, ord, z, x)
<1>1. x \in Ocorrencia /\ y \in Ocorrencia /\ z \in Ocorrencia
  BY DEF ToSet
<1>2. p[x] \in Int /\ p[y] \in Int /\ p[z] \in Int
  BY <1>1
<1>3. /\ Queue!Place(ord, x) \in Int /\ Queue!Place(ord, y) \in Int
      /\ Queue!Place(ord, z) \in Int
  BY PlaceMeans
<1>. QED  BY <1>2, <1>3 DEF Queue!Before
-----------------------------------------------------------------------------
(***************************************************************************)
(* Heaps.                                                                  *)
(***************************************************************************)

\* Heaps of m occurrences that wait, each once, in any order.
Heaps(ord, m) == {h \in [1..m -> ToSet(ord)] : IsInjective(h)}

\* What the first n places of h may be rearranged to.
Arranged(h, n) ==
  {g \in [DOMAIN h -> ToSet(h)] :
     /\ IsInjective(g)
     /\ ToSet(g) = ToSet(h)
     /\ \A k \in DOMAIN h : k > n => g[k] = h[k]}

\* What is at k does not come before its parent.
Fine(p, ord, h, k) == ~ Queue!Before(p, ord, h[k], h[k \div 2])

\* A heap is a sequence.
LEMMA HeapIs ==
  ASSUME NEW ord \in Seq(Ocorrencia), NEW m \in Nat, NEW h \in Heaps(ord, m)
  PROVE  /\ h \in Seq(Ocorrencia)
         /\ Len(h) = m
         /\ DOMAIN h = 1..m
         /\ ToSet(h) \subseteq ToSet(ord)
         /\ \A k \in 1..m : h[k] \in ToSet(ord)
<1>1. h \in [1..m -> ToSet(ord)] /\ ToSet(ord) \subseteq Ocorrencia
  BY DEF Heaps, ToSet
<1>2. h \in [1..m -> Ocorrencia]
  BY <1>1
<1>3. h \in Seq(Ocorrencia)
  BY <1>2
<1>4. Len(h) = m
  BY <1>1, <1>3
<1>. QED  BY <1>1, <1>3, <1>4 DEF ToSet

\* Rearranged, it is one still.
LEMMA ArrangedIs ==
  ASSUME NEW ord \in Seq(Ocorrencia), NEW m \in Nat, NEW h \in Heaps(ord, m),
         NEW n, NEW g \in Arranged(h, n)
  PROVE  g \in Heaps(ord, m) /\ ToSet(g) = ToSet(h)
<1>1. DOMAIN h = 1..m /\ ToSet(h) \subseteq ToSet(ord)
  BY HeapIs
<1>2. g \in [1..m -> ToSet(h)] /\ IsInjective(g) /\ ToSet(g) = ToSet(h)
  BY <1>1 DEF Arranged
<1>3. g \in [1..m -> ToSet(ord)]
  BY <1>1, <1>2
<1>. QED  BY <1>2, <1>3 DEF Heaps

LEMMA ArrangedSelf ==
  ASSUME NEW h, h = [k \in DOMAIN h |-> h[k]], IsInjective(h), NEW n
  PROVE  h \in Arranged(h, n)
BY DEF Arranged, ToSet

\* To rearrange twice is to rearrange.
LEMMA ArrangedTwice ==
  ASSUME NEW ord \in Seq(Ocorrencia), NEW m \in Nat, NEW h \in Heaps(ord, m),
         NEW n, NEW g \in Arranged(h, n), NEW f \in Arranged(g, n)
  PROVE  f \in Arranged(h, n)
<1>1. g \in Heaps(ord, m) /\ ToSet(g) = ToSet(h)
  BY ArrangedIs
<1>2. DOMAIN g = 1..m /\ DOMAIN h = 1..m
  BY <1>1, HeapIs
<1>. QED  BY <1>1, <1>2 DEF Arranged

\* What a swap does.
LEMMA SwapMeans ==
  ASSUME NEW ord \in Seq(Ocorrencia), NEW m \in Nat, NEW h \in Heaps(ord, m),
         NEW i \in 1..m, NEW j \in 1..m
  PROVE  /\ SwapAt(h, i, j) \in Heaps(ord, m)
         /\ ToSet(SwapAt(h, i, j)) = ToSet(h)
         /\ SwapAt(h, i, j)[i] = h[j]
         /\ SwapAt(h, i, j)[j] = h[i]
         /\ \A k \in 1..m : k # i /\ k # j => SwapAt(h, i, j)[k] = h[k]
<1>. DEFINE g == SwapAt(h, i, j)
<1>1. h \in [1..m -> ToSet(ord)]
      /\ \A a, b \in 1..m : h[a] = h[b] => a = b
  BY DEF Heaps, IsInjective
<1>2. g \in [1..m -> ToSet(ord)]
      /\ \A k \in 1..m : g[k] = IF k = j THEN h[i]
                                ELSE IF k = i THEN h[j] ELSE h[k]
  BY <1>1 DEF SwapAt
<1>. HIDE DEF g
<1>3. \A a, b \in 1..m : g[a] = g[b] => a = b
  BY <1>1, <1>2
<1>4. DOMAIN g = 1..m /\ DOMAIN h = 1..m
  BY <1>1, <1>2
<1>5. g \in Heaps(ord, m)
  BY <1>2, <1>3, <1>4 DEF Heaps, IsInjective
<1>6. \A k \in 1..m : \E l \in 1..m : g[k] = h[l]
  BY <1>2
<1>7. \A k \in 1..m : \E l \in 1..m : h[k] = g[l]
  BY <1>2
<1>8. ToSet(g) = ToSet(h)
  <2>1. ToSet(g) = {g[k] : k \in 1..m} /\ ToSet(h) = {h[k] : k \in 1..m}
    BY <1>4 DEF ToSet
  <2>2. \A k \in 1..m : g[k] \in {h[l] : l \in 1..m}
    BY <1>6
  <2>3. \A k \in 1..m : h[k] \in {g[l] : l \in 1..m}
    BY <1>7
  <2>. QED  BY <2>1, <2>2, <2>3
<1>9. g[i] = h[j] /\ g[j] = h[i]
      /\ \A k \in 1..m : k # i /\ k # j => g[k] = h[k]
  BY <1>2
<1>. QED  BY <1>5, <1>8, <1>9 DEF g

LEMMA SwapArranged ==
  ASSUME NEW ord \in Seq(Ocorrencia), NEW m \in Nat, NEW h \in Heaps(ord, m),
         NEW n \in 0..m, NEW g \in Arranged(h, n), NEW i \in 1..n, NEW j \in 1..n
  PROVE  SwapAt(g, i, j) \in Arranged(h, n)
<1>1. g \in Heaps(ord, m) /\ ToSet(g) = ToSet(h) /\ i \in 1..m /\ j \in 1..m
  BY ArrangedIs
<1>. DEFINE f == SwapAt(g, i, j)
<1>2. f \in Heaps(ord, m) /\ ToSet(f) = ToSet(g)
      /\ \A k \in 1..m : k # i /\ k # j => f[k] = g[k]
  BY <1>1, SwapMeans
<1>. HIDE DEF f
<1>3. DOMAIN f = 1..m /\ DOMAIN h = 1..m
  BY <1>2, HeapIs
<1>4. f \in [1..m -> ToSet(h)] /\ IsInjective(f)
  BY <1>1, <1>2, <1>3 DEF Heaps, ToSet
<1>5. \A k \in 1..m : k > n => f[k] = h[k]
  BY <1>2, <1>3 DEF Arranged
<1>6. f \in Arranged(h, n)
  BY <1>1, <1>2, <1>3, <1>4, <1>5 DEF Arranged
<1>. QED  BY <1>6 DEF f
-----------------------------------------------------------------------------
(***************************************************************************)
(* Down.                                                                   *)
(***************************************************************************)

\* Of the children of i none comes before the one that Child names.
LEMMA ChildMeans ==
  ASSUME NEW p \in [Ocorrencia -> Int], NEW ord \in Seq(Ocorrencia),
         NEW m \in Nat, NEW h \in Heaps(ord, m), NEW n \in 0..m,
         NEW i \in 1..n, 2 * i <= n
  PROVE  /\ Child(p, ord, h, i, n) \in 2..n
         /\ Child(p, ord, h, i, n) \div 2 = i
         /\ Child(p, ord, h, i, n) > i
         /\ \A k \in 2..n : k \div 2 = i =>
              ~ Queue!Before(p, ord, h[k], h[Child(p, ord, h, i, n)])
<1>. DEFINE c == Child(p, ord, h, i, n)
<1>1. c \in 2..n /\ (c = 2*i \/ c = 2*i + 1)
  BY DEF Child
<1>2. c \div 2 = i /\ c > i
  BY <1>1, ParentMeans
<1>3. ASSUME NEW k \in 2..n, k \div 2 = i
      PROVE  ~ Queue!Before(p, ord, h[k], h[c])
  <2>1. k = 2*i \/ k = 2*i + 1
    BY <1>3, ParentMeans
  <2>2. h[k] \in ToSet(ord) /\ h[2*i] \in ToSet(ord)
    BY HeapIs
  <2>3. CASE k = 2*i + 1
    <3>1. 2*i < n
      BY <2>3
    <3>. QED  BY <2>2, <2>3, <3>1, BeforeOrders DEF Child
  <2>4. CASE k = 2*i
    <3>1. CASE c = 2*i
      BY <2>2, <2>4, <3>1, BeforeOrders
    <3>2. CASE c = 2*i + 1
      <4>1. 2*i # 2*i + 1
        OBVIOUS
      <4>2. Queue!Before(p, ord, h[2*i + 1], h[2*i])
        BY <3>2, <4>1 DEF Child
      <4>3. 2*i + 1 \in 1..m
        BY <1>1, <3>2
      <4>4. h[2*i + 1] \in ToSet(ord)
        BY <4>3, HeapIs
      <4>. QED  BY <2>2, <2>4, <3>2, <4>2, <4>4, BeforeOrders
    <3>. QED  BY <1>1, <3>1, <3>2
  <2>. QED  BY <2>1, <2>3, <2>4
<1>. QED  BY <1>1, <1>2, <1>3

\* Where down from i may have come to in a heap whose places from lo on are
\* in order, but for i.
Sinking(p, ord, h, i, lo, n) ==
  {s \in Position :
     /\ s.h \in Arranged(h, n)
     /\ s.at \in i..n
     /\ \A k \in 2..n : k \div 2 >= lo /\ k \div 2 # s.at /\ k # s.at =>
          Fine(p, ord, s.h, k)
     /\ s.at \div 2 >= lo =>
          \A k \in 2..n : k \div 2 = s.at =>
            ~ Queue!Before(p, ord, s.h[k], s.h[s.at \div 2])
     /\ \/ s.at = i /\ s.h = h
        \/ s.at > i /\ Fine(p, ord, s.h, s.at)}

\* A round of down.
LEMMA SinkKeeps ==
  ASSUME NEW p \in [Ocorrencia -> Int], NEW ord \in Seq(Ocorrencia),
         NEW m \in Nat, NEW h \in Heaps(ord, m), NEW n \in 0..m,
         NEW i \in 1..n, NEW lo \in 1..i,
         NEW s \in Sinking(p, ord, h, i, lo, n), Sink(p, ord, n)[s] # s
  PROVE  /\ Sink(p, ord, n)[s] \in Sinking(p, ord, h, i, lo, n)
         /\ Sink(p, ord, n)[s].at > s.at
<1>. DEFINE x == s.at
            c == Child(p, ord, s.h, x, n)
            g == SwapAt(s.h, x, c)
            t == [h |-> g, at |-> c]
<1>1. s \in Position /\ s.h \in Arranged(h, n) /\ x \in i..n /\ x \in 1..n
      /\ x \in 1..m
  BY DEF Sinking
<1>2. 2*x <= n /\ Queue!Before(p, ord, s.h[c], s.h[x])
      /\ Sink(p, ord, n)[s] = t
  BY <1>1 DEF Sink
<1>3. s.h \in Heaps(ord, m)
  BY <1>1, ArrangedIs
<1>4. c \in 2..n /\ c \div 2 = x /\ c > x /\ c \in 1..n /\ c \in 1..m
      /\ \A k \in 2..n : k \div 2 = x => ~ Queue!Before(p, ord, s.h[k], s.h[c])
  <2>. HIDE DEF x
  <2>1. c \in 2..n /\ c \div 2 = x /\ c > x
    BY <1>1, <1>2, <1>3, ChildMeans
  <2>2. \A k \in 2..n : k \div 2 = x => ~ Queue!Before(p, ord, s.h[k], s.h[c])
    BY <1>1, <1>2, <1>3, ChildMeans
  <2>. HIDE DEF c
  <2>. QED  BY <2>1, <2>2
<1>. HIDE DEF c
<1>5. g \in Arranged(h, n)
  BY <1>1, <1>4, SwapArranged
<1>6. g \in Seq(Ocorrencia)
  <2>. HIDE DEF g
  <2>1. g \in Heaps(ord, m)
    BY <1>5, ArrangedIs
  <2>. QED  BY <2>1, HeapIs
<1>7. g[x] = s.h[c] /\ g[c] = s.h[x]
      /\ \A k \in 1..m : k # x /\ k # c => g[k] = s.h[k]
  BY <1>1, <1>3, <1>4, SwapMeans
<1>. HIDE DEF g
<1>8. \A k \in 1..m : s.h[k] \in ToSet(ord)
  BY <1>3, HeapIs
<1>9. \A k \in 2..n : k \in 1..m /\ k \div 2 \in 1..m /\ k \div 2 < k
  BY HalfMeans
<1>10. ASSUME NEW k \in 2..n, k \div 2 >= lo, k \div 2 # c, k # c
       PROVE  Fine(p, ord, g, k)
  <2>1. CASE k \div 2 = x
    <3>1. k # x
      BY <1>9, <2>1
    <3>. QED  BY <1>4, <1>7, <1>9, <1>10, <2>1, <3>1 DEF Fine
  <2>2. CASE k = x
    <3>1. ~ Queue!Before(p, ord, s.h[c], s.h[x \div 2])
      BY <1>4, <1>10, <2>2 DEF Sinking
    <3>2. x \div 2 # x /\ x \div 2 \in 1..m
      BY <1>9, <2>2
    <3>. QED  BY <1>7, <1>10, <2>2, <3>1, <3>2 DEF Fine
  <2>3. CASE k \div 2 # x /\ k # x
    <3>1. Fine(p, ord, s.h, k)
      BY <1>10, <2>3 DEF Sinking
    <3>. QED  BY <1>7, <1>9, <1>10, <2>3, <3>1 DEF Fine
  <2>. QED  BY <2>1, <2>2, <2>3
<1>11. ASSUME NEW k \in 2..n, k \div 2 = c
       PROVE  ~ Queue!Before(p, ord, g[k], g[c \div 2])
  <2>1. k # x /\ k # c
    BY <1>4, <1>9, <1>11
  <2>2. k \div 2 >= lo /\ k \div 2 # x
    BY <1>1, <1>4, <1>11
  <2>3. Fine(p, ord, s.h, k)
    BY <2>1, <2>2 DEF Sinking
  <2>. QED  BY <1>4, <1>7, <1>9, <1>11, <2>1, <2>3 DEF Fine
<1>12. Fine(p, ord, g, c)
  BY <1>1, <1>2, <1>4, <1>7, <1>8, BeforeOrders DEF Fine
<1>13. t \in Position /\ t.h = g /\ t.at = c
  BY <1>4, <1>6 DEF Position
<1>14. c \in i..n /\ c > i
  BY <1>1, <1>4
<1>. HIDE DEF t, x
<1>15. t \in Sinking(p, ord, h, i, lo, n)
  BY <1>5, <1>10, <1>11, <1>12, <1>13, <1>14 DEF Sinking
<1>. QED  BY <1>2, <1>4, <1>13, <1>15 DEF x
\* The places from lo on are in order, but for i.
OrderedBut(p, ord, h, i, lo, n) ==
  /\ \A k \in 2..n : k \div 2 >= lo /\ k \div 2 # i /\ k # i =>
       Fine(p, ord, h, k)
  /\ i \div 2 >= lo =>
       \A k \in 2..n : k \div 2 = i =>
         ~ Queue!Before(p, ord, h[k], h[i \div 2])

\* They are in order in d, or what was at i is still there, and what is below
\* it is in order.
Sunk(p, ord, h, i, lo, n, d) ==
  /\ d.h \in Arranged(h, n)
  /\ d.at \in i..n
  /\ d.at = i => d.h = h
  /\ \A k \in 2..n : k \div 2 >= lo /\ (k = i => d.at > i) =>
       Fine(p, ord, d.h, k)

\* That is what down from i makes of them.
LEMMA DownSettles ==
  ASSUME NEW p \in [Ocorrencia -> Int], NEW ord \in Seq(Ocorrencia),
         NEW m \in Nat, NEW h \in Heaps(ord, m), NEW n \in 0..m,
         NEW i \in 1..n, NEW lo \in 1..i,
         OrderedBut(p, ord, h, i, lo, n)
  PROVE  Sunk(p, ord, h, i, lo, n, Down(p, ord, h, i, n))
<1>. DEFINE T == Sinking(p, ord, h, i, lo, n)
            F == Sink(p, ord, n)
            s == [h |-> h, at |-> i]
            measure == [x \in T |-> n - x.at]
            d == Down(p, ord, h, i, n)
<1>1. s \in T
  <2>1. h = [k \in DOMAIN h |-> h[k]] /\ IsInjective(h)
    BY DEF Heaps
  <2>2. h \in Arranged(h, n)
    BY <2>1, ArrangedSelf
  <2>3. s \in Position /\ s.h = h /\ s.at = i
    BY HeapIs DEF Position
  <2>. HIDE DEF s
  <2>4. s.h \in Arranged(h, n) /\ s.at \in i..n
    BY <2>2, <2>3
  <2>. QED  BY <2>3, <2>4 DEF Sinking, OrderedBut
<1>2. \A x \in T : x.at \in i..n /\ x.at \in Nat
  BY DEF Sinking
<1>3. measure \in [T -> Nat] /\ measure[s] <= n
  <2>1. s.at = i
    OBVIOUS
  <2>. HIDE DEF s, T
  <2>. QED  BY <1>1, <1>2, <2>1
<1>4. ASSUME NEW x \in T
      PROVE  F[x] \in T /\ (F[x] # x => measure[F[x]] < measure[x])
  <2>1. CASE F[x] = x
    BY <2>1
  <2>2. CASE F[x] # x
    <3>1. F[x] \in T /\ F[x].at > x.at
      BY <2>2, SinkKeeps
    <3>. HIDE DEF T, F
    <3>. QED  BY <1>2, <3>1
  <2>. QED  BY <2>1, <2>2
<1>5. d \in T /\ F[d] = d
  <2>1. d = Iterate(F, s, n)
    BY DEF Down
  <2>. HIDE DEF T, F, s, measure
  <2>2. n \in Nat
    OBVIOUS
  <2>. HIDE DEF d
  <2>. QED  BY <1>1, <1>3, <1>4, <2>1, <2>2, IterateRests
<1>. HIDE DEF d
<1>. DEFINE x == d.at
            c == Child(p, ord, d.h, x, n)
<1>6. d \in Position /\ d.h \in Arranged(h, n) /\ x \in i..n /\ x \in 1..n
  BY <1>5 DEF Sinking
<1>7. d.h \in Heaps(ord, m)
  BY <1>6, ArrangedIs
<1>8. 2*x <= n => ~ Queue!Before(p, ord, d.h[c], d.h[x])
  <2>1. SUFFICES ASSUME 2*x <= n, Queue!Before(p, ord, d.h[c], d.h[x])
                 PROVE  FALSE
    OBVIOUS
  <2>2. F[d].at = c
    BY <1>6, <2>1 DEF Sink
  <2>3. c > x /\ c \in Int
    <3>. HIDE DEF x
    <3>1. c \in 2..n /\ c > x
      BY <1>6, <1>7, <2>1, ChildMeans
    <3>. HIDE DEF c
    <3>. QED  BY <3>1
  <2>. HIDE DEF c
  <2>. QED  BY <1>5, <1>6, <2>2, <2>3
<1>9. ASSUME NEW k \in 2..n, k \div 2 = x
      PROVE  Fine(p, ord, d.h, k)
  <2>. HIDE DEF x
  <2>1. 2*x <= n
    BY <1>6, <1>9, ParentMeans
  <2>2. c \in 2..n /\ ~ Queue!Before(p, ord, d.h[k], d.h[c])
    BY <1>6, <1>7, <1>9, <2>1, ChildMeans
  <2>. HIDE DEF c
  <2>3. c \in 1..m /\ x \in 1..m /\ k \in 1..m
    BY <1>6, <2>2
  <2>4. d.h[c] \in ToSet(ord) /\ d.h[x] \in ToSet(ord) /\ d.h[k] \in ToSet(ord)
    BY <1>7, <2>3, HeapIs
  <2>. QED  BY <1>8, <1>9, <2>1, <2>2, <2>4, NotBeforeTransitive DEF Fine
<1>10. ASSUME NEW k \in 2..n, k \div 2 >= lo, k = i => x > i
       PROVE  Fine(p, ord, d.h, k)
  <2>1. CASE k \div 2 = x
    BY <1>9, <2>1
  <2>2. CASE k = x
    BY <1>5, <1>10, <2>2 DEF Sinking
  <2>3. CASE k \div 2 # x /\ k # x
    BY <1>5, <1>10, <2>3 DEF Sinking
  <2>. QED  BY <2>1, <2>2, <2>3
<1>11. x = i => d.h = h
  BY <1>5 DEF Sinking
<1>12. Sunk(p, ord, h, i, lo, n, d)
  BY <1>6, <1>10, <1>11 DEF Sunk
<1>. QED  BY <1>12 DEF d

-----------------------------------------------------------------------------
(***************************************************************************)
(* Up.                                                                     *)
(***************************************************************************)

\* Where up may have come to in a heap whose first n places are in order,
\* but for the one that rises.
Rising(p, ord, h, n) ==
  {s \in Position :
     /\ s.h \in Arranged(h, n)
     /\ s.at \in 1..n
     /\ \A k \in 2..n : k # s.at => Fine(p, ord, s.h, k)
     /\ s.at >= 2 =>
          \A k \in 2..n : k \div 2 = s.at =>
            ~ Queue!Before(p, ord, s.h[k], s.h[s.at \div 2])}

\* A round of up.
LEMMA RiseKeeps ==
  ASSUME NEW p \in [Ocorrencia -> Int], NEW ord \in Seq(Ocorrencia),
         NEW m \in Nat, NEW h \in Heaps(ord, m), NEW n \in 0..m,
         NEW s \in Rising(p, ord, h, n), Rise(p, ord)[s] # s
  PROVE  /\ Rise(p, ord)[s] \in Rising(p, ord, h, n)
         /\ Rise(p, ord)[s].at < s.at
<1>. DEFINE x == s.at
            r == x \div 2
            g == SwapAt(s.h, r, x)
            t == [h |-> g, at |-> r]
<1>1. s \in Position /\ s.h \in Arranged(h, n) /\ x \in 1..n /\ x \in 1..m
  BY DEF Rising
<1>2. x > 1 /\ Queue!Before(p, ord, s.h[x], s.h[r]) /\ Rise(p, ord)[s] = t
  BY <1>1 DEF Rise
<1>3. s.h \in Heaps(ord, m)
  BY <1>1, ArrangedIs
<1>4. r \in 1..n /\ r \in 1..m /\ r < x
  BY <1>1, <1>2, HalfMeans
<1>5. g \in Arranged(h, n)
  BY <1>1, <1>4, SwapArranged
<1>6. g \in Seq(Ocorrencia)
  <2>. HIDE DEF g
  <2>1. g \in Heaps(ord, m)
    BY <1>5, ArrangedIs
  <2>. QED  BY <2>1, HeapIs
<1>7. g[r] = s.h[x] /\ g[x] = s.h[r]
      /\ \A k \in 1..m : k # x /\ k # r => g[k] = s.h[k]
  <2>. HIDE DEF x, r
  <2>. QED  BY <1>1, <1>3, <1>4, SwapMeans
<1>. HIDE DEF g
<1>8. \A k \in 1..m : s.h[k] \in ToSet(ord)
  BY <1>3, HeapIs
<1>9. \A k \in 2..n : k \in 1..m /\ k \div 2 \in 1..m /\ k \div 2 < k
  BY HalfMeans
<1>10. ASSUME NEW k \in 2..n, k # r
       PROVE  Fine(p, ord, g, k)
  <2>1. CASE k = x
    <3>1. ~ Queue!Before(p, ord, s.h[r], s.h[x])
      BY <1>1, <1>2, <1>4, <1>8, BeforeOrders
    <3>. QED  BY <1>7, <2>1, <3>1 DEF Fine
  <2>2. CASE k # x /\ k \div 2 = x
    <3>1. ~ Queue!Before(p, ord, s.h[k], s.h[r])
      BY <1>1, <1>2, <2>2 DEF Rising
    <3>. QED  BY <1>7, <1>9, <1>10, <2>2, <3>1 DEF Fine
  <2>3. CASE k # x /\ k \div 2 = r
    <3>1. ~ Queue!Before(p, ord, s.h[k], s.h[r])
      BY <2>3 DEF Rising, Fine
    <3>2. ~ Queue!Before(p, ord, s.h[r], s.h[x])
      BY <1>1, <1>2, <1>4, <1>8, BeforeOrders
    <3>3. ~ Queue!Before(p, ord, s.h[k], s.h[x])
      BY <1>1, <1>4, <1>8, <1>9, <3>1, <3>2, NotBeforeTransitive
    <3>. QED  BY <1>7, <1>9, <1>10, <2>3, <3>3 DEF Fine
  <2>4. CASE k # x /\ k \div 2 # x /\ k \div 2 # r
    <3>1. Fine(p, ord, s.h, k)
      BY <2>4 DEF Rising
    <3>. QED  BY <1>7, <1>9, <1>10, <2>4, <3>1 DEF Fine
  <2>. QED  BY <2>1, <2>2, <2>3, <2>4
<1>11. ASSUME r >= 2, NEW k \in 2..n, k \div 2 = r
       PROVE  ~ Queue!Before(p, ord, g[k], g[r \div 2])
  <2>1. r \in 2..n /\ r # x
    BY <1>4, <1>11
  <2>2. Fine(p, ord, s.h, r)
    BY <2>1 DEF Rising
  <2>3. r \div 2 \in 1..m /\ r \div 2 # r /\ r \div 2 # x
    <3>. HIDE DEF x, r
    <3>. QED  BY <1>1, <1>4, <1>9, <2>1
  <2>4. g[r \div 2] = s.h[r \div 2]
    BY <1>7, <2>3
  <2>5. CASE k = x
    BY <1>7, <2>2, <2>4, <2>5 DEF Fine
  <2>6. CASE k # x
    <3>1. Fine(p, ord, s.h, k)
      BY <2>6 DEF Rising
    <3>2. g[k] = s.h[k]
      BY <1>7, <1>9, <1>11, <2>6
    <3>3. ~ Queue!Before(p, ord, s.h[k], s.h[r \div 2])
      BY <1>4, <1>8, <1>9, <1>11, <2>2, <2>3, <3>1, NotBeforeTransitive DEF Fine
    <3>. QED  BY <2>4, <3>2, <3>3
  <2>. QED  BY <2>5, <2>6
<1>12. t \in Position /\ t.h = g /\ t.at = r
  BY <1>4, <1>6 DEF Position
<1>. HIDE DEF t, r
<1>13. t \in Rising(p, ord, h, n)
  BY <1>4, <1>5, <1>10, <1>11, <1>12 DEF Rising
<1>. QED  BY <1>2, <1>4, <1>12, <1>13

\* Up from j in a heap that is in order, but for j.
LEMMA UpSettles ==
  ASSUME NEW p \in [Ocorrencia -> Int], NEW ord \in Seq(Ocorrencia),
         NEW m \in Nat, NEW h \in Heaps(ord, m), NEW n \in 0..m,
         NEW j \in 1..n,
         \A k \in 2..n : k # j => Fine(p, ord, h, k),
         j >= 2 =>
           \A k \in 2..n : k \div 2 = j =>
             ~ Queue!Before(p, ord, h[k], h[j \div 2])
  PROVE  /\ Up(p, ord, h, j) \in Arranged(h, n)
         /\ \A k \in 2..n : Fine(p, ord, Up(p, ord, h, j), k)
<1>. DEFINE T == Rising(p, ord, h, n)
            F == Rise(p, ord)
            s == [h |-> h, at |-> j]
            measure == [x \in T |-> x.at]
            d == Iterate(F, s, j)
<1>1. s \in T
  <2>1. h = [k \in DOMAIN h |-> h[k]] /\ IsInjective(h)
    BY DEF Heaps
  <2>2. h \in Arranged(h, n)
    BY <2>1, ArrangedSelf
  <2>3. s \in Position /\ s.h = h /\ s.at = j
    BY HeapIs DEF Position
  <2>. HIDE DEF s
  <2>4. s.h \in Arranged(h, n) /\ s.at \in 1..n
    BY <2>2, <2>3
  <2>. QED  BY <2>3, <2>4 DEF Rising
<1>2. \A x \in T : x.at \in 1..n /\ x.at \in Nat
  BY DEF Rising
<1>3. measure \in [T -> Nat] /\ measure[s] <= j
  <2>1. s.at = j
    OBVIOUS
  <2>. HIDE DEF s, T
  <2>. QED  BY <1>1, <1>2, <2>1
<1>4. ASSUME NEW x \in T
      PROVE  F[x] \in T /\ (F[x] # x => measure[F[x]] < measure[x])
  <2>1. CASE F[x] = x
    BY <2>1
  <2>2. CASE F[x] # x
    <3>1. F[x] \in T /\ F[x].at < x.at
      BY <2>2, RiseKeeps
    <3>. HIDE DEF T, F
    <3>. QED  BY <1>2, <3>1
  <2>. QED  BY <2>1, <2>2
<1>5. d \in T /\ F[d] = d
  <2>. HIDE DEF T, F, s, measure
  <2>1. j \in Nat
    OBVIOUS
  <2>. QED  BY <1>1, <1>3, <1>4, <2>1, IterateRests
<1>6. Up(p, ord, h, j) = d.h
  BY DEF Up
<1>. HIDE DEF d
<1>. DEFINE x == d.at
<1>7. d \in Position /\ d.h \in Arranged(h, n) /\ x \in 1..n
  BY <1>5 DEF Rising
<1>8. x > 1 => ~ Queue!Before(p, ord, d.h[x], d.h[x \div 2])
  <2>1. SUFFICES ASSUME x > 1, Queue!Before(p, ord, d.h[x], d.h[x \div 2])
                 PROVE  FALSE
    OBVIOUS
  <2>2. F[d].at = x \div 2
    BY <1>7, <2>1 DEF Rise
  <2>. QED  BY <1>5, <1>7, <2>2, HalfMeans
<1>9. ASSUME NEW k \in 2..n
      PROVE  Fine(p, ord, d.h, k)
  <2>1. CASE k = x
    BY <1>8, <2>1 DEF Fine
  <2>2. CASE k # x
    BY <1>5, <2>2 DEF Rising
  <2>. QED  BY <2>1, <2>2
<1>. QED  BY <1>6, <1>7, <1>9
-----------------------------------------------------------------------------
(***************************************************************************)
(* heap.Push, heap.Remove and heap.Init.                                   *)
(***************************************************************************)

\* Every place but the root is in order with its parent.
InOrder(p, ord, h, n) == \A k \in 2..n : Fine(p, ord, h, k)

\* Nothing comes before the root of a heap in order.
LEMMA RootFirst ==
  ASSUME NEW p \in [Ocorrencia -> Int], NEW ord \in Seq(Ocorrencia),
         NEW m \in Nat, NEW h \in Heaps(ord, m), InOrder(p, ord, h, m),
         NEW k \in 1..m
  PROVE  ~ Queue!Before(p, ord, h[k], h[1])
<1>. DEFINE Bad == {i \in 1..m : Queue!Before(p, ord, h[i], h[1])}
<1>1. SUFFICES ASSUME Bad # {} PROVE FALSE
  OBVIOUS
<1>2. PICK i \in Bad : \A j \in Bad : i <= j
  <2>1. Bad \subseteq Nat
    OBVIOUS
  <2>. HIDE DEF Bad
  <2>. QED  BY <1>1, <2>1, LeastNat
<1>3. \A j \in 1..m : h[j] \in ToSet(ord)
  BY HeapIs
<1>4. i \in 1..m /\ Queue!Before(p, ord, h[i], h[1])
  OBVIOUS
<1>5. i # 1
  BY <1>3, <1>4, BeforeOrders
<1>6. i \in 2..m /\ i \div 2 \in 1..m /\ i \div 2 < i
  BY <1>4, <1>5, HalfMeans
<1>7. ~ Queue!Before(p, ord, h[i \div 2], h[1])
  <2>1. i \div 2 \notin Bad
    <3>. HIDE DEF Bad
    <3>. QED  BY <1>2, <1>4, <1>6
  <2>. QED  BY <1>6, <2>1
<1>8. ~ Queue!Before(p, ord, h[i], h[i \div 2])
  BY <1>6 DEF InOrder, Fine
<1>9. 1 \in 1..m
  BY <1>4
<1>. HIDE DEF Bad
<1>. QED  BY <1>3, <1>4, <1>6, <1>7, <1>8, <1>9, NotBeforeTransitive

\* heap.Push: what is appended rises to its place.
LEMMA PushSettles ==
  ASSUME NEW p \in [Ocorrencia -> Int], NEW ord \in Seq(Ocorrencia),
         NEW m \in Nat, NEW h \in Heaps(ord, m+1), InOrder(p, ord, h, m)
  PROVE  /\ Up(p, ord, h, m+1) \in Arranged(h, m+1)
         /\ InOrder(p, ord, Up(p, ord, h, m+1), m+1)
<1>1. \A k \in 2..m+1 : k # m+1 => Fine(p, ord, h, k)
  BY DEF InOrder
<1>2. \A k \in 2..m+1 : k \div 2 # m+1
  BY HalfMeans
<1>3. m+1 \in Nat /\ m+1 \in 0..m+1 /\ m+1 \in 1..m+1
  OBVIOUS
<1>. DEFINE n == m+1
<1>4. /\ n \in Nat /\ n \in 0..n /\ n \in 1..n /\ h \in Heaps(ord, n)
      /\ \A k \in 2..n : k # n => Fine(p, ord, h, k)
      /\ \A k \in 2..n : k \div 2 # n
  BY <1>1, <1>2, <1>3
<1>. HIDE DEF n
<1>5. /\ Up(p, ord, h, n) \in Arranged(h, n)
      /\ \A k \in 2..n : Fine(p, ord, Up(p, ord, h, n), k)
  BY <1>4, UpSettles
<1>. QED  BY <1>5 DEF n, InOrder

\* What the last place of a heap leaves when it is cut off.
LEMMA FrontMeans ==
  ASSUME NEW ord \in Seq(Ocorrencia), NEW n \in Nat \ {0}, NEW h \in Heaps(ord, n)
  PROVE  /\ Front(h) \in Heaps(ord, n-1)
         /\ \A k \in 1..n-1 : Front(h)[k] = h[k]
         /\ ToSet(Front(h)) = ToSet(h) \ {h[n]}
<1>. DEFINE f == Front(h)
<1>1. h \in Seq(Ocorrencia) /\ Len(h) = n /\ DOMAIN h = 1..n
      /\ \A k \in 1..n : h[k] \in ToSet(ord)
  BY HeapIs
<1>2. \A a, b \in 1..n : h[a] = h[b] => a = b
  BY <1>1 DEF Heaps, IsInjective
<1>3. f = [k \in 1..n-1 |-> h[k]]
  BY <1>1 DEF Front
<1>. HIDE DEF f
<1>4. f \in [1..n-1 -> ToSet(ord)] /\ DOMAIN f = 1..n-1
      /\ \A k \in 1..n-1 : f[k] = h[k]
  BY <1>1, <1>3
<1>5. IsInjective(f)
  BY <1>2, <1>4 DEF IsInjective
<1>6. ToSet(f) = ToSet(h) \ {h[n]}
  <2>1. ToSet(f) = {f[k] : k \in 1..n-1} /\ ToSet(h) = {h[k] : k \in 1..n}
    BY <1>1, <1>4 DEF ToSet
  <2>2. \A k \in 1..n-1 : f[k] \in {h[l] : l \in 1..n} \ {h[n]}
    BY <1>2, <1>4
  <2>3. \A k \in 1..n : h[k] # h[n] => h[k] \in {f[l] : l \in 1..n-1}
    <3>. TAKE k \in 1..n
    <3>. HAVE h[k] # h[n]
    <3>1. k \in 1..n-1
      OBVIOUS
    <3>. QED  BY <1>4, <3>1
  <2>. QED  BY <2>1, <2>2, <2>3
<1>. QED  BY <1>4, <1>5, <1>6 DEF f, Heaps
\* heap.Remove: it is a heap of the others, in order.
LEMMA RemoveSettles ==
  ASSUME NEW p \in [Ocorrencia -> Int], NEW ord \in Seq(Ocorrencia),
         NEW n \in Nat \ {0}, NEW h \in Heaps(ord, n), InOrder(p, ord, h, n),
         NEW i \in 1..n
  PROVE  /\ HeapRemove(p, ord, h, i) \in Heaps(ord, n-1)
         /\ InOrder(p, ord, HeapRemove(p, ord, h, i), n-1)
         /\ ToSet(HeapRemove(p, ord, h, i)) = ToSet(h) \ {h[i]}
<1>. DEFINE g == SwapAt(h, i, n)
            d == Down(p, ord, g, i, n-1)
            u == Up(p, ord, g, i)
<1>1. Len(h) = n
  BY HeapIs
<1>2. HeapRemove(p, ord, h, i)
        = Front(IF i = n THEN h ELSE IF d.at > i THEN d.h ELSE u)
  BY <1>1 DEF HeapRemove
<1>3. CASE i = n
  <2>1. /\ Front(h) \in Heaps(ord, n-1)
        /\ \A k \in 1..n-1 : Front(h)[k] = h[k]
        /\ ToSet(Front(h)) = ToSet(h) \ {h[n]}
    BY FrontMeans
  <2>2. \A k \in 2..n-1 : k \in 1..n-1 /\ k \div 2 \in 1..n-1 /\ k \in 2..n
    BY HalfMeans
  <2>3. InOrder(p, ord, Front(h), n-1)
    BY <2>1, <2>2 DEF InOrder, Fine
  <2>. QED  BY <1>2, <1>3, <2>1, <2>3
<1>4. CASE i # n
  <2>. DEFINE m == n-1
  <2>1. i \in 1..m /\ m \in Nat /\ m \in 0..n /\ n \in Nat /\ n \in 1..n
    BY <1>4
  <2>2. g \in Heaps(ord, n) /\ ToSet(g) = ToSet(h) /\ g[n] = h[i] /\ g[i] = h[n]
        /\ \A k \in 1..n : k # i /\ k # n => g[k] = h[k]
    BY <2>1, SwapMeans
  <2>. HIDE DEF g
  <2>3. \A k \in 2..m : k \in 2..n /\ k \in 1..m /\ k \div 2 \in 1..m
                        /\ k \div 2 < k /\ k # n /\ k \div 2 # n
    BY HalfMeans
  <2>4. \A k \in 2..m : ~ Queue!Before(p, ord, h[k], h[k \div 2])
    BY <2>3 DEF InOrder, Fine
  <2>5. ASSUME NEW k \in 2..m, k \div 2 # i, k # i
        PROVE  Fine(p, ord, g, k)
    <3>1. g[k] = h[k] /\ g[k \div 2] = h[k \div 2]
      BY <2>1, <2>2, <2>3, <2>5
    <3>. QED  BY <2>4, <3>1 DEF Fine
  <2>6. ASSUME i \div 2 >= 1, NEW k \in 2..m, k \div 2 = i
        PROVE  ~ Queue!Before(p, ord, g[k], g[i \div 2])
    <3>1. i \in 2..m
      BY <2>1, <2>6, HalfMeans
    <3>2. g[k] = h[k] /\ g[i \div 2] = h[i \div 2]
      BY <2>1, <2>2, <2>3, <2>6, <3>1
    <3>3. ~ Queue!Before(p, ord, h[k], h[i]) /\ ~ Queue!Before(p, ord, h[i], h[i \div 2])
      BY <2>4, <2>6, <3>1
    <3>4. h[k] \in ToSet(ord) /\ h[i] \in ToSet(ord) /\ h[i \div 2] \in ToSet(ord)
      BY <2>1, <2>3, <3>1, HeapIs
    <3>. QED  BY <3>2, <3>3, <3>4, NotBeforeTransitive
  <2>7. 1 \in 1..i
    BY <2>1
  <2>. HIDE DEF m
  <2>8. Sunk(p, ord, g, i, 1, m, d)
    <3>1. OrderedBut(p, ord, g, i, 1, m)
      BY <2>5, <2>6 DEF OrderedBut
    <3>2. d = Down(p, ord, g, i, m)
      BY DEF m
    <3>. HIDE DEF d
    <3>. QED  BY <2>1, <2>2, <2>7, <3>1, <3>2, DownSettles
  <2>. HIDE DEF d
  <2>9. CASE d.at > i
    <3>. DEFINE f == d.h
    <3>1. f \in Heaps(ord, n) /\ ToSet(f) = ToSet(h) /\ f[n] = h[i]
      <4>1. f \in Heaps(ord, n) /\ ToSet(f) = ToSet(g)
        BY <2>1, <2>2, <2>8, ArrangedIs DEF Sunk
      <4>2. n > m /\ n \in DOMAIN g
        BY <2>1, <2>2, HeapIs DEF m
      <4>3. f[n] = g[n]
        BY <2>8, <4>2 DEF Arranged, Sunk
      <4>. QED  BY <2>2, <4>1, <4>3
    <3>2. \A k \in 2..m : Fine(p, ord, f, k)
      BY <2>3, <2>8, <2>9 DEF Sunk
    <3>3. HeapRemove(p, ord, h, i) = Front(f)
      BY <1>2, <1>4, <2>9
    <3>. HIDE DEF f
    <3>4. /\ Front(f) \in Heaps(ord, m)
          /\ \A k \in 1..m : Front(f)[k] = f[k]
          /\ ToSet(Front(f)) = ToSet(h) \ {h[i]}
      BY <3>1, FrontMeans DEF m
    <3>5. InOrder(p, ord, Front(f), m)
      BY <2>3, <3>2, <3>4 DEF InOrder, Fine
    <3>. QED  BY <3>3, <3>4, <3>5 DEF m
  <2>10. CASE ~ (d.at > i)
    <3>1. d.at = i /\ d.h = g
      BY <2>1, <2>8, <2>10 DEF Sunk
    <3>2. \A k \in 2..m : k # i => Fine(p, ord, g, k)
      BY <2>3, <2>8, <3>1 DEF Sunk
    <3>3. i >= 2 =>
            \A k \in 2..m : k \div 2 = i =>
              ~ Queue!Before(p, ord, g[k], g[i \div 2])
      BY <2>1, <2>6, HalfMeans
    <3>4. u \in Arranged(g, m) /\ \A k \in 2..m : Fine(p, ord, u, k)
      BY <2>1, <2>2, <3>2, <3>3, UpSettles
    <3>5. HeapRemove(p, ord, h, i) = Front(u)
      BY <1>2, <1>4, <2>10
    <3>. HIDE DEF u
    <3>6. u \in Heaps(ord, n) /\ ToSet(u) = ToSet(h) /\ u[n] = h[i]
      <4>1. u \in Heaps(ord, n) /\ ToSet(u) = ToSet(g)
        BY <2>1, <2>2, <3>4, ArrangedIs
      <4>2. n > m /\ n \in DOMAIN g
        BY <2>1, <2>2, HeapIs DEF m
      <4>3. u[n] = g[n]
        BY <3>4, <4>2 DEF Arranged
      <4>. QED  BY <2>2, <4>1, <4>3
    <3>7. /\ Front(u) \in Heaps(ord, m)
          /\ \A k \in 1..m : Front(u)[k] = u[k]
          /\ ToSet(Front(u)) = ToSet(h) \ {h[i]}
      BY <3>6, FrontMeans DEF m
    <3>8. InOrder(p, ord, Front(u), m)
      BY <2>3, <3>4, <3>7 DEF InOrder, Fine
    <3>. QED  BY <3>5, <3>7, <3>8 DEF m
  <2>. QED  BY <2>9, <2>10
<1>. QED  BY <1>3, <1>4

\* heap.Init: any heap becomes one in order.
LEMMA HeapifySettles ==
  ASSUME NEW p \in [Ocorrencia -> Int], NEW ord \in Seq(Ocorrencia),
         NEW m \in Nat, NEW h \in Heaps(ord, m)
  PROVE  /\ Heapify(p, ord, h) \in Arranged(h, m)
         /\ InOrder(p, ord, Heapify(p, ord, h), m)
<1>. DEFINE half == m \div 2
            F == Settle(p, ord)
            s0 == [h |-> h, at |-> half]
            Settled(k) == {s \in Position :
                             /\ s.at = half - k
                             /\ s.h \in Arranged(h, m)
                             /\ \A j \in 2..m : j \div 2 > s.at =>
                                  Fine(p, ord, s.h, j)}
            J == [k \in 0..half |-> Settled(k)]
            r == Iterate(F, s0, half)
<1>1. half \in Nat /\ half <= m /\ \A j \in 2..m : j \div 2 >= 1 /\ j \div 2 <= half
  BY HalfMeans
<1>2. Heapify(p, ord, h) = r.h
  BY HeapIs DEF Heapify
<1>. HIDE DEF half
<1>3. s0 \in Settled(0)
  <2>1. h = [k \in DOMAIN h |-> h[k]] /\ IsInjective(h)
    BY DEF Heaps
  <2>2. h \in Arranged(h, m)
    BY <2>1, ArrangedSelf
  <2>3. s0 \in Position /\ s0.h = h /\ s0.at = half
    BY <1>1, HeapIs DEF Position
  <2>. HIDE DEF s0
  <2>. QED  BY <1>1, <2>2, <2>3
<1>4. ASSUME NEW k \in 1..half, NEW s \in Settled(k-1)
      PROVE  F[s] \in Settled(k)
  <2>. DEFINE g == s.h
              i == s.at
              d == Down(p, ord, g, i, m)
              t == [h |-> d.h, at |-> i - 1]
  <2>1. s \in Position /\ i = half - (k-1) /\ g \in Arranged(h, m)
        /\ \A j \in 2..m : j \div 2 > i => Fine(p, ord, g, j)
    OBVIOUS
  <2>2. i \in 1..m /\ i \in 1..i /\ m \in 0..m
    BY <1>1, <2>1
  <2>3. g \in Heaps(ord, m)
    BY <2>1, ArrangedIs
  <2>4. F[s] = t
    <3>1. Len(s.h) = m
      BY <2>3, HeapIs
    <3>. QED  BY <2>1, <3>1 DEF Settle
  <2>. HIDE DEF g, i
  <2>5. \A j \in 2..m : j \div 2 >= i /\ j \div 2 # i => Fine(p, ord, g, j)
    <3>1. \A j \in 2..m : j \div 2 \in Nat
      BY HalfMeans
    <3>2. \A q \in Nat : q >= i /\ q # i => q > i
      BY <2>2
    <3>. QED  BY <2>1, <3>1, <3>2
  <2>6. ~ (i \div 2 >= i)
    BY <2>2, HalfMeans
  <2>7. OrderedBut(p, ord, g, i, i, m)
    BY <2>5, <2>6 DEF OrderedBut
  <2>8. Sunk(p, ord, g, i, i, m, d)
    BY <2>2, <2>3, <2>7, DownSettles
  <2>. HIDE DEF d
  <2>9. d.h \in Arranged(h, m)
    BY <2>1, <2>8, ArrangedTwice DEF Sunk
  <2>10. d.h \in Seq(Ocorrencia)
    BY <2>9, ArrangedIs, HeapIs
  <2>11. t \in Position /\ t.h = d.h /\ t.at = i - 1 /\ t.at = half - k
    BY <1>1, <2>1, <2>2, <2>10 DEF Position
  <2>12. \A j \in 2..m : j \div 2 > i - 1 => Fine(p, ord, d.h, j)
    <3>. TAKE j \in 2..m
    <3>. HAVE j \div 2 > i - 1
    <3>1. j \div 2 \in Nat /\ j \div 2 < j
      BY HalfMeans
    <3>2. j \div 2 >= i /\ j # i
      BY <2>2, <3>1
    <3>. QED  BY <2>8, <3>2 DEF Sunk
  <2>. HIDE DEF t
  <2>13. t \in Settled(k)
    BY <2>9, <2>11, <2>12
  <2>. QED  BY <2>4, <2>13
<1>5. r \in Settled(half)
  <2>1. s0 \in J[0]
    BY <1>1, <1>3
  <2>2. \A k \in 1..half : \A x \in J[k-1] : F[x] \in J[k]
    <3>. TAKE k \in 1..half
    <3>. TAKE x \in J[k-1]
    <3>1. k \in 0..half /\ k-1 \in 0..half
      BY <1>1
    <3>2. x \in Settled(k-1)
      BY <3>1
    <3>. HIDE DEF Settled, F
    <3>. QED  BY <1>4, <3>1, <3>2
  <2>3. r \in J[half]
    <3>. HIDE DEF J, F, s0
    <3>. QED  BY <1>1, <2>1, <2>2, IterateInto
  <2>4. half \in 0..half
    BY <1>1
  <2>. HIDE DEF r, Settled
  <2>. QED  BY <2>3, <2>4
<1>. HIDE DEF r
<1>6. r.at = 0 /\ r.h \in Arranged(h, m)
      /\ \A j \in 2..m : j \div 2 > r.at => Fine(p, ord, r.h, j)
  BY <1>1, <1>5
<1>7. \A j \in 2..m : Fine(p, ord, r.h, j)
  BY <1>1, <1>6
<1>. QED  BY <1>2, <1>6, <1>7 DEF InOrder
-----------------------------------------------------------------------------
(***************************************************************************)
(* Snapshot.                                                               *)
(***************************************************************************)

\* What Snapshot has after k rounds: the first k in the order of service,
\* and a heap of the n - k that come after them.
Drained(h, n, k) ==
  {s \in [copia : Seq(Ocorrencia), resultado : Seq(Ocorrencia)] :
     /\ s.copia \in Heaps(ordem, n - k)
     /\ InOrder(prioridade, ordem, s.copia, n - k)
     /\ Len(s.resultado) = k
     /\ ToSet(s.resultado) \cup ToSet(s.copia) = ToSet(h)
     /\ \A i \in 1..k : s.resultado[i] \in ToSet(ordem)
     /\ \A i, j \in 1..k : i < j =>
          Queue!Before(prioridade, ordem, s.resultado[i], s.resultado[j])
     /\ \A i \in 1..k : \A y \in ToSet(s.copia) :
          Queue!Before(prioridade, ordem, s.resultado[i], y)}

\* A sequence with one more at its end.
LEMMA AppendMeans ==
  ASSUME NEW S, NEW s \in Seq(S), NEW x \in S
  PROVE  /\ Append(s, x) \in Seq(S)
         /\ Len(Append(s, x)) = Len(s) + 1
         /\ \A k \in 1..Len(s) : Append(s, x)[k] = s[k]
         /\ Append(s, x)[Len(s) + 1] = x
         /\ ToSet(Append(s, x)) = ToSet(s) \cup {x}
<1>. DEFINE t == Append(s, x)
            n == Len(s)
<1>1. t \in Seq(S) /\ Len(t) = n + 1
      /\ (\A k \in 1..n : t[k] = s[k]) /\ t[n + 1] = x
  OBVIOUS
<1>2. n \in Nat /\ DOMAIN s = 1..n /\ DOMAIN t = 1..n+1
  BY <1>1
<1>. HIDE DEF t, n
<1>3. ToSet(t) = {t[k] : k \in 1..n+1} /\ ToSet(s) = {s[k] : k \in 1..n}
  BY <1>2 DEF ToSet
<1>4. {t[k] : k \in 1..n+1} \subseteq {s[k] : k \in 1..n} \cup {x}
  <2>1. \A k \in 1..n+1 : k \in 1..n \/ k = n+1
    BY <1>2
  <2>. QED  BY <1>1, <2>1
<1>5. {s[k] : k \in 1..n} \cup {x} \subseteq {t[k] : k \in 1..n+1}
  <2>1. n+1 \in 1..n+1 /\ \A k \in 1..n : k \in 1..n+1
    BY <1>2
  <2>2. \A k \in 1..n : s[k] \in {t[l] : l \in 1..n+1}
    BY <1>1, <2>1
  <2>3. x \in {t[l] : l \in 1..n+1}
    BY <1>1, <2>1
  <2>. QED  BY <2>2, <2>3
<1>. QED  BY <1>1, <1>3, <1>4, <1>5 DEF t, n

\* A round of Snapshot.
LEMMA DrainKeeps ==
  ASSUME prioridade \in [Ocorrencia -> Int], ordem \in Seq(Ocorrencia),
         NEW n \in Nat, NEW h, NEW k \in 1..n, NEW s \in Drained(h, n, k-1)
  PROVE  Drain[s] \in Drained(h, n, k)
<1>. DEFINE c == s.copia
            r == s.resultado
            x == c[1]
            cc == HeapRemove(prioridade, ordem, c, 1)
            rr == Append(r, x)
            t == [copia |-> cc, resultado |-> rr]
            m == n - (k-1)
<1>1. /\ s \in [copia : Seq(Ocorrencia), resultado : Seq(Ocorrencia)]
      /\ r \in Seq(Ocorrencia)
      /\ c \in Heaps(ordem, m)
      /\ InOrder(prioridade, ordem, c, m)
      /\ Len(r) = k-1
      /\ ToSet(r) \cup ToSet(c) = ToSet(h)
      /\ \A i \in 1..k-1 : r[i] \in ToSet(ordem)
      /\ \A i, j \in 1..k-1 : i < j => Queue!Before(prioridade, ordem, r[i], r[j])
      /\ \A i \in 1..k-1 : \A y \in ToSet(c) : Queue!Before(prioridade, ordem, r[i], y)
  BY DEF Drained
<1>2. m \in Nat \ {0} /\ m \in Nat /\ 1 \in 1..m /\ m - 1 = n - k
  OBVIOUS
<1>3. Drain[s] = t
  BY <1>1 DEF Drain
<1>. HIDE DEF c, r, m
<1>4. /\ cc \in Heaps(ordem, m-1)
      /\ InOrder(prioridade, ordem, cc, m-1)
      /\ ToSet(cc) = ToSet(c) \ {x}
  <2>1. /\ cc \in Heaps(ordem, m-1)
        /\ InOrder(prioridade, ordem, cc, m-1)
        /\ ToSet(cc) = ToSet(c) \ {c[1]}
    <3>. HIDE DEF cc
    <3>1. cc = HeapRemove(prioridade, ordem, c, 1)
      BY DEF cc
    <3>2. c \in Heaps(ordem, m) /\ InOrder(prioridade, ordem, c, m)
      BY <1>1
    <3>3. HeapRemove(prioridade, ordem, c, 1) \in Heaps(ordem, m-1)
      BY <1>2, <3>2, RemoveSettles
    <3>4. InOrder(prioridade, ordem, HeapRemove(prioridade, ordem, c, 1), m-1)
      BY <1>2, <3>2, RemoveSettles
    <3>5. ToSet(HeapRemove(prioridade, ordem, c, 1)) = ToSet(c) \ {c[1]}
      BY <1>2, <3>2, RemoveSettles
    <3>. QED  BY <3>1, <3>3, <3>4, <3>5
  <2>. QED  BY <2>1
<1>5. cc \in Seq(Ocorrencia)
  <2>1. m - 1 \in Nat
    BY <1>2
  <2>. HIDE DEF cc
  <2>. QED  BY <1>4, <2>1, HeapIs
<1>6. DOMAIN c = 1..m /\ ToSet(c) \subseteq ToSet(ordem)
  BY <1>1, <1>2, HeapIs
<1>7. x \in ToSet(c) /\ x \in ToSet(ordem) /\ x \in Ocorrencia
  <2>1. x \in ToSet(c)
    BY <1>2, <1>6 DEF ToSet
  <2>2. ToSet(ordem) \subseteq Ocorrencia
    BY DEF ToSet
  <2>. QED  BY <1>6, <2>1, <2>2
<1>8. \A y \in ToSet(cc) : Queue!Before(prioridade, ordem, x, y)
  <2>. TAKE y \in ToSet(cc)
  <2>1. y \in ToSet(c) /\ y # x /\ y \in ToSet(ordem)
    BY <1>4, <1>6
  <2>2. PICK l \in 1..m : y = c[l]
    BY <1>6, <2>1 DEF ToSet
  <2>3. ~ Queue!Before(prioridade, ordem, y, x)
    BY <1>1, <1>2, <2>2, RootFirst
  <2>. QED  BY <1>7, <2>1, <2>3, BeforeOrders
<1>. HIDE DEF cc, x
<1>9. /\ rr \in Seq(Ocorrencia)
      /\ Len(rr) = k
      /\ \A i \in 1..k-1 : rr[i] = r[i]
      /\ rr[k] = x
      /\ ToSet(rr) = ToSet(r) \cup {x}
  <2>1. Len(r) + 1 = k
    BY <1>1
  <2>. QED  BY <1>1, <1>7, <2>1, AppendMeans
<1>. HIDE DEF rr
<1>10. ToSet(rr) \cup ToSet(cc) = ToSet(h)
  BY <1>1, <1>4, <1>7, <1>9
<1>11. \A i \in 1..k : i \in 1..k-1 \/ i = k
  OBVIOUS
<1>12. \A i \in 1..k : rr[i] \in ToSet(ordem)
  BY <1>1, <1>7, <1>9, <1>11
<1>13. \A i, j \in 1..k : i < j => Queue!Before(prioridade, ordem, rr[i], rr[j])
  <2>. TAKE i, j \in 1..k
  <2>. HAVE i < j
  <2>1. i \in 1..k-1
    OBVIOUS
  <2>2. CASE j = k
    BY <1>1, <1>7, <1>9, <2>1, <2>2
  <2>3. CASE j \in 1..k-1
    BY <1>1, <1>9, <2>1, <2>3
  <2>. QED  BY <1>11, <2>2, <2>3
<1>14. \A i \in 1..k : \A y \in ToSet(cc) : Queue!Before(prioridade, ordem, rr[i], y)
  <2>. TAKE i \in 1..k
  <2>. TAKE y \in ToSet(cc)
  <2>1. CASE i = k
    BY <1>8, <1>9, <2>1
  <2>2. CASE i \in 1..k-1
    BY <1>1, <1>4, <1>9, <2>2
  <2>. QED  BY <1>11, <2>1, <2>2
<1>15. /\ t \in [copia : Seq(Ocorrencia), resultado : Seq(Ocorrencia)]
       /\ t.copia = cc /\ t.resultado = rr
  BY <1>5, <1>9
<1>. HIDE DEF t
<1>16. cc \in Heaps(ordem, n-k) /\ InOrder(prioridade, ordem, cc, n-k)
  BY <1>2, <1>4
<1>17. t \in Drained(h, n, k)
  BY <1>9, <1>10, <1>12, <1>13, <1>14, <1>15, <1>16 DEF Drained
<1>. QED  BY <1>3, <1>17

\* Snapshot returns what is in the heap, in the order of service.
LEMMA SnapshotDrains ==
  ASSUME prioridade \in [Ocorrencia -> Int], ordem \in Seq(Ocorrencia),
         NEW n \in Nat, NEW h \in Heaps(ordem, n)
  PROVE  /\ ToSet(Snapshot(h)) = ToSet(h)
         /\ \A i, j \in DOMAIN Snapshot(h) :
              i < j =>
                Queue!Before(prioridade, ordem, Snapshot(h)[i], Snapshot(h)[j])
<1>. DEFINE c == Heapify(prioridade, ordem, h)
            s0 == [copia |-> c, resultado |-> <<>>]
            J == [k \in 0..n |-> Drained(h, n, k)]
            r == Iterate(Drain, s0, n)
<1>1. Snapshot(h) = r.resultado
  BY HeapIs DEF Snapshot
<1>2. s0 \in Drained(h, n, 0)
  <2>1. c \in Arranged(h, n) /\ InOrder(prioridade, ordem, c, n)
    BY HeapifySettles
  <2>. HIDE DEF c
  <2>2. c \in Heaps(ordem, n) /\ ToSet(c) = ToSet(h)
    BY <2>1, ArrangedIs
  <2>3. c \in Seq(Ocorrencia)
    BY <2>2, HeapIs
  <2>4. s0 \in [copia : Seq(Ocorrencia), resultado : Seq(Ocorrencia)]
        /\ s0.copia = c /\ s0.resultado = <<>>
    BY <2>3
  <2>5. Len(<<>>) = 0 /\ ToSet(<<>>) = {} /\ n - 0 = n
    BY DEF ToSet
  <2>. HIDE DEF s0
  <2>6. s0.copia \in Heaps(ordem, n - 0) /\ InOrder(prioridade, ordem, s0.copia, n - 0)
    BY <2>1, <2>2, <2>4, <2>5
  <2>. QED  BY <2>2, <2>4, <2>5, <2>6 DEF Drained
<1>3. r \in Drained(h, n, n)
  <2>1. s0 \in J[0]
    BY <1>2
  <2>2. \A k \in 1..n : \A x \in J[k-1] : Drain[x] \in J[k]
    <3>. TAKE k \in 1..n
    <3>. TAKE x \in J[k-1]
    <3>1. k \in 0..n /\ k-1 \in 0..n
      OBVIOUS
    <3>2. x \in Drained(h, n, k-1)
      BY <3>1
    <3>. QED  BY <3>1, <3>2, DrainKeeps
  <2>3. r \in J[n]
    <3>. HIDE DEF J, s0
    <3>. QED  BY <2>1, <2>2, IterateInto
  <2>. HIDE DEF r
  <2>. QED  BY <2>3
<1>. HIDE DEF r
<1>4. /\ r.copia \in Heaps(ordem, 0)
      /\ r.resultado \in Seq(Ocorrencia)
      /\ Len(r.resultado) = n
      /\ ToSet(r.resultado) \cup ToSet(r.copia) = ToSet(h)
      /\ \A i, j \in 1..n : i < j =>
           Queue!Before(prioridade, ordem, r.resultado[i], r.resultado[j])
  BY <1>3 DEF Drained
<1>5. ToSet(r.copia) = {}
  <2>1. DOMAIN r.copia = 1..0
    BY <1>4, HeapIs
  <2>. QED  BY <2>1 DEF ToSet
<1>6. DOMAIN r.resultado = 1..n
  BY <1>4
<1>. QED  BY <1>1, <1>4, <1>5, <1>6
-----------------------------------------------------------------------------
(***************************************************************************)
(* Occurrences that come into and leave the order of times.                *)
(***************************************************************************)

\* b is a with one more, at i.
WithOne(a, b, i) ==
  /\ Len(b) = Len(a) + 1
  /\ i \in 1..Len(b)
  /\ \A k \in 1..Len(a) : a[k] = b[IF k < i THEN k ELSE k + 1]

LEMMA InsertMeans ==
  ASSUME NEW a \in Seq(Ocorrencia), NEW i \in 1..Len(a)+1, NEW o \in Ocorrencia
  PROVE  /\ InsertAt(a, i, o) \in Seq(Ocorrencia)
         /\ InsertAt(a, i, o)[i] = o
         /\ WithOne(a, InsertAt(a, i, o), i)
<1>. DEFINE f == SubSeq(a, 1, i-1)
            g == SubSeq(a, i, Len(a))
            b == f \o <<o>> \o g
<1>1. f \in Seq(Ocorrencia) /\ Len(f) = i-1 /\ \A k \in 1..i-1 : f[k] = a[k]
  OBVIOUS
<1>2. g \in Seq(Ocorrencia) /\ Len(g) = Len(a) - i + 1
      /\ \A k \in 1..Len(a)-i+1 : g[k] = a[i + k - 1]
  OBVIOUS
<1>3. InsertAt(a, i, o) = b
  BY DEF InsertAt
<1>4. Len(a) \in Nat /\ i \in Nat /\ i >= 1
  OBVIOUS
<1>. HIDE DEF f, g
<1>5. b \in Seq(Ocorrencia) /\ Len(b) = Len(a) + 1
  <2>1. <<o>> \in Seq(Ocorrencia) /\ Len(<<o>>) = 1
    OBVIOUS
  <2>2. f \o <<o>> \in Seq(Ocorrencia) /\ Len(f \o <<o>>) = i
    BY <1>1, <1>4, <2>1
  <2>. DEFINE fo == f \o <<o>>
  <2>. HIDE DEF fo
  <2>3. fo \in Seq(Ocorrencia) /\ Len(fo) = i
    BY <2>2 DEF fo
  <2>4. fo \o g \in Seq(Ocorrencia) /\ Len(fo \o g) = Len(fo) + Len(g)
    BY <1>2, <2>3, ConcatProperties
  <2>5. b = fo \o g
    BY DEF fo
  <2>. HIDE DEF b
  <2>. QED  BY <1>2, <1>4, <2>3, <2>4, <2>5
<1>6. b[i] = o
  BY <1>1, <1>2, <1>4
<1>7. ASSUME NEW k \in 1..Len(a)
      PROVE  a[k] = b[IF k < i THEN k ELSE k + 1]
  <2>1. CASE k < i
    BY <1>1, <1>2, <1>4, <2>1
  <2>2. CASE ~ (k < i)
    <3>1. k + 1 - i \in 1..Len(a)-i+1 /\ g[k + 1 - i] = a[k]
      BY <1>2, <1>4, <2>2
    <3>2. b[k+1] = g[k + 1 - i]
      BY <1>1, <1>2, <1>4, <2>2
    <3>. QED  BY <2>2, <3>1, <3>2
  <2>. QED  BY <2>1, <2>2
<1>. HIDE DEF b
<1>. QED  BY <1>3, <1>4, <1>5, <1>6, <1>7 DEF WithOne

LEMMA RemoveMeans ==
  ASSUME NEW b \in Seq(Ocorrencia), NEW i \in 1..Len(b)
  PROVE  /\ RemoveAt(b, i) \in Seq(Ocorrencia)
         /\ WithOne(RemoveAt(b, i), b, i)
<1>. DEFINE f == SubSeq(b, 1, i-1)
            g == SubSeq(b, i+1, Len(b))
            a == f \o g
<1>1. f \in Seq(Ocorrencia) /\ Len(f) = i-1 /\ \A k \in 1..i-1 : f[k] = b[k]
  OBVIOUS
<1>2. g \in Seq(Ocorrencia) /\ Len(g) = Len(b) - i
      /\ \A k \in 1..Len(b)-i : g[k] = b[i + k]
  OBVIOUS
<1>3. RemoveAt(b, i) = a
  BY DEF RemoveAt
<1>4. Len(b) \in Nat /\ i \in Nat /\ i >= 1
  OBVIOUS
<1>. HIDE DEF f, g
<1>5. a \in Seq(Ocorrencia) /\ Len(a) = Len(b) - 1
  BY <1>1, <1>2, <1>4
<1>6. ASSUME NEW k \in 1..Len(a)
      PROVE  a[k] = b[IF k < i THEN k ELSE k + 1]
  <2>1. CASE k < i
    BY <1>1, <1>2, <1>4, <1>5, <2>1
  <2>2. CASE ~ (k < i)
    <3>1. k + 1 - i \in 1..Len(b)-i /\ g[k + 1 - i] = b[k + 1]
      BY <1>2, <1>4, <1>5, <2>2
    <3>2. a[k] = g[k + 1 - i]
      BY <1>1, <1>2, <1>4, <1>5, <2>2
    <3>. QED  BY <2>2, <3>1, <3>2
  <2>. QED  BY <2>1, <2>2
<1>. HIDE DEF a
<1>. QED  BY <1>3, <1>4, <1>5, <1>6 DEF WithOne

\* What is in them.
LEMMA WithOneMembers ==
  ASSUME NEW a \in Seq(Ocorrencia), NEW b \in Seq(Ocorrencia), NEW i,
         WithOne(a, b, i)
  PROVE  ToSet(b) = ToSet(a) \cup {b[i]}
<1>. DEFINE m == Len(a)
            At(k) == IF k < i THEN k ELSE k + 1
<1>1. m \in Nat /\ Len(b) = m+1 /\ i \in 1..m+1 /\ DOMAIN a = 1..m
      /\ DOMAIN b = 1..m+1 /\ \A k \in 1..m : a[k] = b[At(k)]
  BY DEF WithOne
<1>. HIDE DEF m
<1>2. ToSet(b) = {b[k] : k \in 1..m+1} /\ ToSet(a) = {a[k] : k \in 1..m}
  BY <1>1 DEF ToSet
<1>3. \A k \in 1..m : a[k] \in {b[l] : l \in 1..m+1}
  <2>1. \A k \in 1..m : At(k) \in 1..m+1
    BY <1>1
  <2>. HIDE DEF At
  <2>. QED  BY <1>1, <2>1
<1>4. \A k \in 1..m+1 : b[k] \in {a[l] : l \in 1..m} \cup {b[i]}
  <2>. TAKE k \in 1..m+1
  <2>1. CASE k < i
    <3>1. k \in 1..m /\ At(k) = k
      BY <1>1, <2>1
    <3>. HIDE DEF At
    <3>. QED  BY <1>1, <3>1
  <2>2. CASE k > i
    <3>1. k-1 \in 1..m /\ At(k-1) = k
      BY <1>1, <2>2
    <3>2. a[k-1] = b[k]
      BY <1>1, <3>1
    <3>. QED  BY <3>1, <3>2
  <2>3. CASE k = i
    BY <2>3
  <2>. QED  BY <1>1, <2>1, <2>2, <2>3
<1>5. b[i] \in {b[l] : l \in 1..m+1}
  BY <1>1
<1>6. ToSet(b) \subseteq ToSet(a) \cup {b[i]}
  BY <1>2, <1>4
<1>7. ToSet(a) \cup {b[i]} \subseteq ToSet(b)
  BY <1>2, <1>3, <1>5
<1>. QED  BY <1>6, <1>7

\* Each is in them once, or is not.
LEMMA WithOneInjective ==
  ASSUME NEW a \in Seq(Ocorrencia), NEW b \in Seq(Ocorrencia), NEW i,
         WithOne(a, b, i)
  PROVE  IsInjective(b) <=> IsInjective(a) /\ b[i] \notin ToSet(a)
<1>. DEFINE m == Len(a)
            At(k) == IF k < i THEN k ELSE k + 1
<1>1. m \in Nat /\ Len(b) = m+1 /\ i \in 1..m+1 /\ DOMAIN a = 1..m
      /\ DOMAIN b = 1..m+1 /\ \A k \in 1..m : a[k] = b[At(k)]
  BY DEF WithOne
<1>. HIDE DEF m
<1>2. \A k \in 1..m : At(k) \in 1..m+1 /\ At(k) # i
      /\ \A l \in 1..m : At(k) = At(l) => k = l
  BY <1>1
<1>3. \A l \in 1..m+1 : l # i => \E k \in 1..m : l = At(k)
  <2>. TAKE l \in 1..m+1
  <2>1. CASE l < i
    BY <1>1, <2>1
  <2>2. CASE l > i
    <3>1. l-1 \in 1..m /\ l = At(l-1)
      BY <1>1, <2>2
    <3>. HIDE DEF At
    <3>. QED  BY <3>1
  <2>. QED  BY <1>1, <2>1, <2>2
<1>. HIDE DEF At
<1>4. ASSUME IsInjective(b)
      PROVE  IsInjective(a) /\ b[i] \notin ToSet(a)
  <2>1. \A k, l \in 1..m+1 : b[k] = b[l] => k = l
    BY <1>1, <1>4 DEF IsInjective
  <2>2. \A k, l \in 1..m : a[k] = a[l] => k = l
    BY <1>1, <1>2, <2>1
  <2>3. \A k \in 1..m : a[k] # b[i]
    BY <1>1, <1>2, <2>1
  <2>. QED  BY <1>1, <2>2, <2>3 DEF IsInjective, ToSet
<1>5. ASSUME IsInjective(a), b[i] \notin ToSet(a)
      PROVE  IsInjective(b)
  <2>1. \A k, l \in 1..m : a[k] = a[l] => k = l
    BY <1>1, <1>5 DEF IsInjective
  <2>2. \A k \in 1..m : a[k] # b[i]
    BY <1>1, <1>5 DEF ToSet
  <2>3. \A k, l \in 1..m+1 : b[k] = b[l] => k = l
    <3>. TAKE k, l \in 1..m+1
    <3>. HAVE b[k] = b[l]
    <3>1. CASE k = i /\ l = i
      BY <3>1
    <3>2. CASE k # i /\ l # i
      <4>1. PICK kk \in 1..m : k = At(kk)
        BY <1>3, <3>2
      <4>2. PICK ll \in 1..m : l = At(ll)
        BY <1>3, <3>2
      <4>3. a[kk] = a[ll]
        BY <1>1, <4>1, <4>2
      <4>. QED  BY <2>1, <4>1, <4>2, <4>3
    <3>3. CASE k # i /\ l = i
      BY <1>1, <1>3, <2>2, <3>3
    <3>4. CASE k = i /\ l # i
      BY <1>1, <1>3, <2>2, <3>4
    <3>. QED  BY <3>1, <3>2, <3>3, <3>4
  <2>. QED  BY <1>1, <2>3 DEF IsInjective
<1>. QED  BY <1>4, <1>5

\* The others keep their order.
LEMMA WithOneOrder ==
  ASSUME NEW a \in Seq(Ocorrencia), NEW b \in Seq(Ocorrencia), NEW i,
         WithOne(a, b, i), IsInjective(b),
         NEW p, NEW q, NEW x \in ToSet(a), NEW y \in ToSet(a),
         p[x] = q[x], p[y] = q[y]
  PROVE  Queue!Before(p, a, x, y) <=> Queue!Before(q, b, x, y)
<1>. DEFINE m == Len(a)
            At(k) == IF k < i THEN k ELSE k + 1
            u == Queue!Place(a, x)
            v == Queue!Place(a, y)
<1>1. m \in Nat /\ Len(b) = m+1 /\ i \in 1..m+1
      /\ \A k \in 1..m : a[k] = b[At(k)]
  BY DEF WithOne
<1>2. u \in 1..m /\ a[u] = x /\ v \in 1..m /\ a[v] = y
  BY PlaceMeans
<1>. HIDE DEF m, u, v
<1>3. At(u) \in 1..m+1 /\ At(v) \in 1..m+1 /\ (u < v <=> At(u) < At(v))
  BY <1>1, <1>2
<1>4. b[At(u)] = x /\ b[At(v)] = y
  BY <1>1, <1>2
<1>. HIDE DEF At
<1>5. Queue!Place(b, x) = At(u) /\ Queue!Place(b, y) = At(v)
  BY <1>1, <1>3, <1>4, PlaceIs
<1>. QED  BY <1>3, <1>5 DEF Queue!Before, u, v
-----------------------------------------------------------------------------
(***************************************************************************)
(* The queue.                                                              *)
(***************************************************************************)

\* The operators on sequences are those of PriorityQueue.
LEMMA QueueOperators ==
  ASSUME NEW s, NEW i, NEW x
  PROVE  /\ Queue!ToSet(s) = ToSet(s)
         /\ Queue!InsertAt(s, i, x) = InsertAt(s, i, x)
         /\ Queue!RemoveAt(s, i) = RemoveAt(s, i)
<1>1. Queue!ToSet(s) = ToSet(s)
  BY DEF ToSet, Queue!ToSet
<1>2. Queue!InsertAt(s, i, x) = InsertAt(s, i, x)
  BY DEF InsertAt, Queue!InsertAt
<1>3. Queue!RemoveAt(s, i) = RemoveAt(s, i)
  BY DEF RemoveAt, Queue!RemoveAt
<1>. QED  BY <1>1, <1>2, <1>3

\* What the steps of PriorityQueue do to the order of times.
LEMMA ArrivesMeans ==
  ASSUME NEW o, NEW i, NEW e, Queue!Arrives(o, i, e)
  PROVE  /\ o \notin ToSet(ordem)
         /\ ordem' = InsertAt(ordem, i, o)
         /\ (atrasos' = atrasos + 1 /\ atrasos < MaxAtrasos) \/ atrasos' = atrasos
         /\ prioridade' = [prioridade EXCEPT ![o] = Criticidade[o]]
         /\ nivelExtra' = [nivelExtra EXCEPT ![o] = e]
<1>1. o \notin Queue!ToSet(ordem) /\ ordem' = Queue!InsertAt(ordem, i, o)
  BY DEF Queue!Arrives
<1>. QED  BY <1>1, QueueOperators DEF Queue!Arrives

LEMMA LeavesMeans ==
  ASSUME NEW o, Queue!Leaves(o)
  PROVE  /\ o \in ToSet(ordem)
         /\ ordem' = RemoveAt(ordem, Queue!Place(ordem, o))
         /\ atrasos' = atrasos
         /\ prioridade' = [prioridade EXCEPT ![o] = 0]
         /\ nivelExtra' = [nivelExtra EXCEPT ![o] = 0]
<1>1. /\ o \in Queue!ToSet(ordem)
      /\ ordem' = Queue!RemoveAt(ordem, Queue!Place(ordem, o))
  BY DEF Queue!Leaves
<1>. QED  BY <1>1, QueueOperators DEF Queue!Leaves, Queue!Nula

LEMMA SeqIsHeap ==
  ASSUME NEW ord \in Seq(Ocorrencia), NEW h \in Seq(Ocorrencia),
         IsInjective(h), ToSet(h) \subseteq ToSet(ord)
  PROVE  Len(h) \in Nat /\ h \in Heaps(ord, Len(h))
<1>1. Len(h) \in Nat /\ DOMAIN h = 1..Len(h) /\ h = [k \in 1..Len(h) |-> h[k]]
  OBVIOUS
<1>2. \A k \in 1..Len(h) : h[k] \in ToSet(ord)
  BY <1>1 DEF ToSet
<1>3. h \in [1..Len(h) -> ToSet(ord)]
  BY <1>1, <1>2
<1>. QED  BY <1>1, <1>3 DEF Heaps

LEMMA HeapIsSeq ==
  ASSUME NEW ord \in Seq(Ocorrencia), NEW m \in Nat, NEW h \in Heaps(ord, m)
  PROVE  h \in Seq(Ocorrencia) /\ IsInjective(h) /\ Len(h) = m
BY HeapIs DEF Heaps

\* The root of a heap in order is what comes first.
LEMMA RootIsFirst ==
  ASSUME NEW p \in [Ocorrencia -> Int], NEW ord \in Seq(Ocorrencia),
         NEW m \in Nat, NEW h \in Heaps(ord, m), ToSet(h) = ToSet(ord),
         InOrder(p, ord, h, m)
  PROVE  (IF h = <<>> THEN {} ELSE {h[1]}) = Queue!First(p, ord)
<1>1. h \in Seq(Ocorrencia) /\ Len(h) = m /\ DOMAIN h = 1..m
  BY HeapIs
<1>2. ToSet(ord) = {h[k] : k \in 1..m}
  BY <1>1 DEF ToSet
<1>. DEFINE W == ToSet(ord)
            first == {x \in W : \A y \in W : ~ Queue!Before(p, ord, y, x)}
<1>3. Queue!First(p, ord) = first
  BY QueueOperators DEF Queue!First
<1>4. CASE h = <<>>
  <2>1. m = 0
    BY <1>1, <1>4
  <2>2. ToSet(ord) = {}
    BY <1>2, <2>1
  <2>. QED  BY <1>3, <1>4, <2>2
<1>5. CASE h # <<>>
  <2>1. m # 0
    BY <1>1, <1>5
  <2>2. 1 \in 1..m /\ h[1] \in ToSet(ord)
    BY <1>2, <2>1
  <2>3. \A y \in ToSet(ord) : ~ Queue!Before(p, ord, y, h[1])
    <3>1. \A k \in 1..m : ~ Queue!Before(p, ord, h[k], h[1])
      BY RootFirst
    <3>. QED  BY <1>2, <3>1
  <2>4. \A x \in ToSet(ord) : x # h[1] => Queue!Before(p, ord, h[1], x)
    BY <2>2, <2>3, BeforeOrders
  <2>5. first = {h[1]}
    BY <2>2, <2>3, <2>4
  <2>. QED  BY <1>3, <1>5, <2>5
<1>. QED  BY <1>4, <1>5

\* The heap is one of those that wait, in order.
HeapInv == TypeOK /\ HeapOrdered

LEMMA HeapInvMeans ==
  ASSUME HeapInv
  PROVE  /\ Len(heap) \in Nat
         /\ heap \in Heaps(ordem, Len(heap))
         /\ InOrder(prioridade, ordem, heap, Len(heap))
<1>1. /\ heap \in Seq(Ocorrencia) /\ IsInjective(heap)
      /\ ordem \in Seq(Ocorrencia) /\ ToSet(heap) \subseteq ToSet(ordem)
  BY DEF HeapInv, TypeOK
<1>2. Len(heap) \in Nat /\ heap \in Heaps(ordem, Len(heap))
  BY <1>1, SeqIsHeap
<1>. QED  BY <1>2 DEF HeapInv, HeapOrdered, InOrder, Fine

LEMMA HeapInvInit ==
  Init => HeapInv
<1>. SUFFICES ASSUME Init PROVE HeapInv
  OBVIOUS
<1>1. heap = <<>> /\ ordem = <<>> /\ prioridade = [o \in Ocorrencia |-> 0]
      /\ nivelExtra = [o \in Ocorrencia |-> 0] /\ atrasos = 0
  BY DEF Init, Queue!Init, Queue!Nula
<1>2. /\ <<>> \in Seq(Ocorrencia) /\ Len(<<>>) = 0
      /\ IsInjective(<<>>) /\ ToSet(<<>>) = {}
  BY DEF IsInjective, ToSet
<1>3. atrasos \in 0..MaxAtrasos
  BY <1>1, FilaAssumption DEF FilaAssumption
<1>4. prioridade \in [Ocorrencia -> Int] /\ nivelExtra \in [Ocorrencia -> Int]
      /\ \A o \in Ocorrencia : prioridade[o] <= Queue!Alta
  BY <1>1 DEF Queue!Alta
<1>. QED  BY <1>1, <1>2, <1>3, <1>4 DEF HeapInv, TypeOK, HeapOrdered

\* An occurrence that comes.
LEMMA HeapInvEnfileirar ==
  ASSUME HeapInv, NEW o \in Ocorrencia, NEW i \in 1..Len(ordem) + 1,
         NEW e \in Extras, Enfileirar(o, i, e)
  PROVE  HeapInv'
<1>. DEFINE n == Len(heap)
            h == Append(heap, o)
<1>1. /\ heap \in Seq(Ocorrencia) /\ IsInjective(heap)
      /\ ordem \in Seq(Ocorrencia) /\ IsInjective(ordem)
      /\ ToSet(ordem) = ToSet(heap)
      /\ prioridade \in [Ocorrencia -> Int]
      /\ \A x \in Ocorrencia : prioridade[x] <= Queue!Alta
      /\ nivelExtra \in [Ocorrencia -> Int]
      /\ atrasos \in 0..MaxAtrasos
  BY DEF HeapInv, TypeOK
<1>2. /\ o \notin ToSet(ordem)
      /\ ordem' = InsertAt(ordem, i, o)
      /\ prioridade' = [prioridade EXCEPT ![o] = Criticidade[o]]
      /\ nivelExtra' = [nivelExtra EXCEPT ![o] = e]
      /\ heap' = Up(prioridade', ordem', h, n + 1)
  BY ArrivesMeans DEF Enfileirar
<1>3. atrasos' \in 0..MaxAtrasos
  <2>1. (atrasos' = atrasos + 1 /\ atrasos < MaxAtrasos) \/ atrasos' = atrasos
    BY ArrivesMeans DEF Enfileirar
  <2>. QED  BY <1>1, <2>1, FilaAssumption DEF FilaAssumption
<1>4. Criticidade[o] \in {1, 2} /\ e \in Int
  BY FilaAssumption DEF FilaAssumption
<1>5. /\ prioridade' \in [Ocorrencia -> Int]
      /\ \A x \in Ocorrencia : prioridade'[x] <= Queue!Alta
      /\ nivelExtra' \in [Ocorrencia -> Int]
      /\ \A x \in Ocorrencia : x # o => prioridade'[x] = prioridade[x]
  BY <1>1, <1>2, <1>4 DEF Queue!Alta
<1>6. /\ ordem' \in Seq(Ocorrencia) /\ ordem'[i] = o
      /\ WithOne(ordem, ordem', i)
  BY <1>1, <1>2, InsertMeans
<1>7. ToSet(ordem') = ToSet(ordem) \cup {o} /\ IsInjective(ordem')
  BY <1>1, <1>2, <1>6, WithOneMembers, WithOneInjective
<1>8. n \in Nat /\ heap \in Heaps(ordem, n) /\ InOrder(prioridade, ordem, heap, n)
  BY HeapInvMeans
<1>9. /\ h \in Seq(Ocorrencia) /\ Len(h) = n + 1
      /\ \A k \in 1..n : h[k] = heap[k]
      /\ h[n + 1] = o
      /\ ToSet(h) = ToSet(heap) \cup {o}
  BY <1>1, AppendMeans
<1>10. IsInjective(h)
  <2>1. \A k, l \in 1..n : heap[k] = heap[l] => k = l
    BY <1>1 DEF IsInjective
  <2>2. \A k \in 1..n : heap[k] # o
    <3>1. o \notin ToSet(heap) /\ DOMAIN heap = 1..n
      BY <1>1, <1>2
    <3>. QED  BY <3>1 DEF ToSet
  <2>3. DOMAIN h = 1..n+1
    BY <1>9
  <2>4. \A k \in 1..n+1 : k \in 1..n \/ k = n+1
    BY <1>8
  <2>. HIDE DEF h, n
  <2>5. \A k, l \in 1..n+1 : h[k] = h[l] => k = l
    BY <1>9, <2>1, <2>2, <2>4
  <2>. QED  BY <2>3, <2>5 DEF IsInjective
<1>. HIDE DEF h, n
<1>11. h \in Heaps(ordem', n + 1)
  BY <1>1, <1>6, <1>7, <1>9, <1>10, SeqIsHeap
<1>12. InOrder(prioridade', ordem', h, n)
  <2>1. SUFFICES ASSUME NEW k \in 2..n
                 PROVE  ~ Queue!Before(prioridade', ordem', h[k], h[k \div 2])
    BY DEF InOrder, Fine
  <2>2. k \in 1..n /\ k \div 2 \in 1..n
    BY <1>8, HalfMeans
  <2>3. ~ Queue!Before(prioridade, ordem, heap[k], heap[k \div 2])
    BY <1>8 DEF InOrder, Fine
  <2>4. heap[k] \in ToSet(ordem) /\ heap[k \div 2] \in ToSet(ordem)
    BY <1>1, <1>8, <2>2, HeapIs
  <2>5. ToSet(ordem) \subseteq Ocorrencia
    BY <1>1 DEF ToSet
  <2>6. /\ prioridade[heap[k]] = prioridade'[heap[k]]
        /\ prioridade[heap[k \div 2]] = prioridade'[heap[k \div 2]]
    BY <1>2, <1>5, <2>4, <2>5
  <2>7. ~ Queue!Before(prioridade', ordem', heap[k], heap[k \div 2])
    <3>. DEFINE x == heap[k]
                y == heap[k \div 2]
                p == prioridade
                q == prioridade'
    <3>1. x \in ToSet(ordem) /\ y \in ToSet(ordem) /\ p[x] = q[x] /\ p[y] = q[y]
      BY <2>4, <2>6
    <3>2. ~ Queue!Before(p, ordem, x, y)
      BY <2>3
    <3>3. ~ Queue!Before(q, ordem', x, y)
      <4>. HIDE DEF x, y, p, q
      <4>. QED  BY <1>1, <1>6, <1>7, <3>1, <3>2, WithOneOrder
    <3>. QED  BY <3>3
  <2>. QED  BY <1>9, <2>2, <2>7
<1>13. heap' \in Arranged(h, n + 1) /\ InOrder(prioridade', ordem', heap', n + 1)
  BY <1>2, <1>5, <1>6, <1>8, <1>11, <1>12, PushSettles
<1>14. heap' \in Heaps(ordem', n + 1) /\ ToSet(heap') = ToSet(h)
  <2>1. n + 1 \in Nat
    BY <1>8
  <2>. QED  BY <1>6, <1>11, <1>13, <2>1, ArrangedIs
<1>15. heap' \in Seq(Ocorrencia) /\ IsInjective(heap') /\ Len(heap') = n + 1
  <2>1. n + 1 \in Nat
    BY <1>8
  <2>. QED  BY <1>6, <1>14, <2>1, HeapIsSeq
<1>16. TypeOK'
  BY <1>1, <1>3, <1>5, <1>6, <1>7, <1>9, <1>14, <1>15 DEF TypeOK
<1>17. HeapOrdered'
  BY <1>13, <1>15 DEF HeapOrdered, InOrder, Fine
<1>. QED  BY <1>16, <1>17 DEF HeapInv
\* An occurrence that leaves, wherever it is in the heap.
LEMMA HeapInvLeaves ==
  ASSUME HeapInv, NEW j \in 1..Len(heap), NEW o, o = heap[j],
         heap' = HeapRemove(prioridade, ordem, heap, j), Queue!Leaves(o)
  PROVE  HeapInv'
<1>. DEFINE n == Len(heap)
            m == n - 1
            i == Queue!Place(ordem, o)
<1>1. /\ heap \in Seq(Ocorrencia) /\ IsInjective(heap)
      /\ ordem \in Seq(Ocorrencia) /\ IsInjective(ordem)
      /\ ToSet(ordem) = ToSet(heap)
      /\ prioridade \in [Ocorrencia -> Int]
      /\ \A x \in Ocorrencia : prioridade[x] <= Queue!Alta
      /\ nivelExtra \in [Ocorrencia -> Int]
      /\ atrasos \in 0..MaxAtrasos
  BY DEF HeapInv, TypeOK
<1>2. /\ o \in ToSet(ordem)
      /\ ordem' = RemoveAt(ordem, i)
      /\ atrasos' = atrasos
      /\ prioridade' = [prioridade EXCEPT ![o] = 0]
      /\ nivelExtra' = [nivelExtra EXCEPT ![o] = 0]
  BY LeavesMeans
<1>3. /\ prioridade' \in [Ocorrencia -> Int]
      /\ \A x \in Ocorrencia : prioridade'[x] <= Queue!Alta
      /\ nivelExtra' \in [Ocorrencia -> Int]
      /\ \A x \in Ocorrencia : x # o => prioridade'[x] = prioridade[x]
  BY <1>1, <1>2 DEF Queue!Alta
<1>4. n \in Nat \ {0} /\ heap \in Heaps(ordem, n) /\ InOrder(prioridade, ordem, heap, n)
      /\ j \in 1..n
  BY HeapInvMeans
<1>5. m \in Nat /\ m = n - 1
  BY <1>4
<1>6. i \in 1..Len(ordem) /\ ordem[i] = o
  BY <1>1, <1>2, PlaceMeans
<1>. HIDE DEF n, m, i
<1>7. /\ heap' \in Heaps(ordem, m)
      /\ InOrder(prioridade, ordem, heap', m)
      /\ ToSet(heap') = ToSet(heap) \ {o}
  <2>1. HeapRemove(prioridade, ordem, heap, j) \in Heaps(ordem, n-1)
    BY <1>1, <1>4, RemoveSettles
  <2>2. InOrder(prioridade, ordem, HeapRemove(prioridade, ordem, heap, j), n-1)
    BY <1>1, <1>4, RemoveSettles
  <2>3. ToSet(HeapRemove(prioridade, ordem, heap, j)) = ToSet(heap) \ {heap[j]}
    BY <1>1, <1>4, RemoveSettles
  <2>. QED  BY <1>5, <2>1, <2>2, <2>3
<1>8. heap' \in Seq(Ocorrencia) /\ IsInjective(heap') /\ Len(heap') = m
  BY <1>1, <1>5, <1>7, HeapIsSeq
<1>9. ordem' \in Seq(Ocorrencia) /\ WithOne(ordem', ordem, i)
  BY <1>1, <1>2, <1>6, RemoveMeans
<1>10. /\ ToSet(ordem) = ToSet(ordem') \cup {o}
       /\ IsInjective(ordem') /\ o \notin ToSet(ordem')
  BY <1>1, <1>6, <1>9, WithOneMembers, WithOneInjective
<1>11. ToSet(ordem') = ToSet(heap')
  BY <1>1, <1>7, <1>10
<1>12. InOrder(prioridade', ordem', heap', m)
  <2>1. SUFFICES ASSUME NEW k \in 2..m
                 PROVE  ~ Queue!Before(prioridade', ordem', heap'[k], heap'[k \div 2])
    BY DEF InOrder, Fine
  <2>. DEFINE x == heap'[k]
              y == heap'[k \div 2]
              p == prioridade
              q == prioridade'
  <2>2. k \in 1..m /\ k \div 2 \in 1..m /\ DOMAIN heap' = 1..m
    BY <1>5, <1>8, HalfMeans
  <2>3. x \in ToSet(ordem') /\ y \in ToSet(ordem')
    <3>1. x \in ToSet(heap') /\ y \in ToSet(heap')
      BY <2>2 DEF ToSet
    <3>. QED  BY <1>11, <3>1
  <2>4. ~ Queue!Before(p, ordem, x, y)
    BY <1>7 DEF InOrder, Fine
  <2>5. ToSet(ordem') \subseteq Ocorrencia
    BY <1>9 DEF ToSet
  <2>6. q[x] = p[x] /\ q[y] = p[y]
    BY <1>3, <1>10, <2>3, <2>5
  <2>7. ~ Queue!Before(q, ordem', x, y)
    <3>. HIDE DEF x, y, p, q
    <3>. QED  BY <1>1, <1>9, <2>3, <2>4, <2>6, WithOneOrder
  <2>. QED  BY <2>7
<1>13. TypeOK'
  BY <1>1, <1>2, <1>3, <1>8, <1>9, <1>10, <1>11 DEF TypeOK
<1>14. HeapOrdered'
  BY <1>8, <1>12 DEF HeapOrdered, InOrder, Fine
<1>. QED  BY <1>13, <1>14 DEF HeapInv

LEMMA HeapInvPassa ==
  ASSUME HeapInv, NEW o \in Ocorrencia, Passa(o)
  PROVE  HeapInv'
<1>1. /\ UNCHANGED <<heap, ordem, prioridade, atrasos>>
      /\ nivelExtra' = [nivelExtra EXCEPT ![o] = @ + 1]
  BY DEF Passa, Queue!Passes
<1>2. TypeOK'
  BY <1>1 DEF HeapInv, TypeOK
<1>3. HeapOrdered'
  BY <1>1 DEF HeapInv, HeapOrdered
<1>. QED  BY <1>2, <1>3 DEF HeapInv

LEMMA HeapInvEnvelhecer ==
  ASSUME HeapInv, Envelhecer
  PROVE  HeapInv'
<1>. DEFINE n == Len(heap)
<1>1. /\ heap \in Seq(Ocorrencia) /\ IsInjective(heap)
      /\ ordem \in Seq(Ocorrencia) /\ IsInjective(ordem)
      /\ ToSet(ordem) = ToSet(heap)
      /\ prioridade \in [Ocorrencia -> Int]
      /\ \A x \in Ocorrencia : prioridade[x] <= Queue!Alta
      /\ nivelExtra \in [Ocorrencia -> Int]
      /\ atrasos \in 0..MaxAtrasos
  BY DEF HeapInv, TypeOK
<1>2. /\ heap' = Heapify(prioridade', ordem, heap)
      /\ UNCHANGED <<ordem, nivelExtra, atrasos>>
  BY DEF Envelhecer, Queue!Ages
<1>3. \A o \in Ocorrencia : Queue!Aged(o) \in Int /\ Queue!Aged(o) <= Queue!Alta
  <2>. TAKE o \in Ocorrencia
  <2>1. Criticidade[o] \in Int
    <3>1. Criticidade[o] \in {1, 2}
      BY FilaAssumption DEF FilaAssumption
    <3>. QED  BY <3>1
  <2>2. nivelExtra[o] \in Int
    BY <1>1
  <2>. QED  BY <2>1, <2>2 DEF Queue!Aged, Queue!Alta
<1>4. prioridade' \in [Ocorrencia -> Int]
      /\ \A x \in Ocorrencia : prioridade'[x] <= Queue!Alta
  <2>1. prioridade' = [o \in Ocorrencia |->
                        IF o \in ToSet(ordem) THEN Queue!Aged(o) ELSE prioridade[o]]
    BY QueueOperators DEF Envelhecer, Queue!Ages
  <2>. QED  BY <1>1, <1>3, <2>1
<1>5. n \in Nat /\ heap \in Heaps(ordem, n)
  BY HeapInvMeans
<1>. HIDE DEF n
<1>6. heap' \in Arranged(heap, n) /\ InOrder(prioridade', ordem, heap', n)
  BY <1>1, <1>2, <1>4, <1>5, HeapifySettles
<1>7. heap' \in Heaps(ordem, n) /\ ToSet(heap') = ToSet(heap)
  BY <1>1, <1>5, <1>6, ArrangedIs
<1>8. heap' \in Seq(Ocorrencia) /\ IsInjective(heap') /\ Len(heap') = n
  BY <1>1, <1>5, <1>7, HeapIsSeq
<1>9. TypeOK'
  BY <1>1, <1>2, <1>4, <1>7, <1>8 DEF TypeOK
<1>10. HeapOrdered'
  BY <1>2, <1>6, <1>8 DEF HeapOrdered, InOrder, Fine
<1>. QED  BY <1>9, <1>10 DEF HeapInv

LEMMA HeapInvNext ==
  HeapInv /\ [Next]_vars => HeapInv'
<1>. SUFFICES ASSUME HeapInv, [Next]_vars PROVE HeapInv'
  OBVIOUS
<1>1. ASSUME NEW o \in Ocorrencia, NEW i \in 1..Len(ordem) + 1, NEW e \in Extras,
             Enfileirar(o, i, e)
      PROVE  HeapInv'
  BY <1>1, HeapInvEnfileirar
<1>2. CASE Desenfileirar
  <2>1. heap # <<>> /\ heap' = HeapRemove(prioridade, ordem, heap, 1)
        /\ Queue!Leaves(heap[1])
    BY <1>2 DEF Desenfileirar
  <2>2. heap \in Seq(Ocorrencia)
    BY DEF HeapInv, TypeOK
  <2>3. 1 \in 1..Len(heap)
    BY <2>1, <2>2
  <2>. QED  BY <2>1, <2>3, HeapInvLeaves
<1>3. ASSUME NEW o \in Ocorrencia, Remover(o)
      PROVE  HeapInv'
  <2>1. PICK i \in DOMAIN heap :
          heap[i] = o /\ heap' = HeapRemove(prioridade, ordem, heap, i)
    BY <1>3 DEF Remover
  <2>2. Queue!Leaves(o)
    BY <1>3 DEF Remover
  <2>3. heap \in Seq(Ocorrencia)
    BY DEF HeapInv, TypeOK
  <2>4. i \in 1..Len(heap)
    BY <2>3
  <2>. QED  BY <2>1, <2>2, <2>4, HeapInvLeaves
<1>4. ASSUME NEW o \in Ocorrencia, Passa(o)
      PROVE  HeapInv'
  BY <1>4, HeapInvPassa
<1>5. CASE Envelhecer
  BY <1>5, HeapInvEnvelhecer
<1>6. CASE UNCHANGED vars
  <2>1. TypeOK'
    BY <1>6 DEF vars, HeapInv, TypeOK
  <2>2. HeapOrdered'
    BY <1>6 DEF vars, HeapInv, HeapOrdered
  <2>. QED  BY <2>1, <2>2 DEF HeapInv
<1>. QED  BY <1>1, <1>2, <1>3, <1>4, <1>5, <1>6 DEF Next

\* The heap is always in order.
LEMMA HeapInvAlways ==
  Spec => []HeapInv
BY HeapInvInit, HeapInvNext, PTL DEF Spec

\* After any operations of the queue (fila.go) every variable keeps to its
\* type, and the slice holds exactly what waits, each occurrence once.
THEOREM HoldsWhatWaits ==
  Spec => []TypeOK
<1>1. HeapInv => TypeOK
  BY DEF HeapInv
<1>. QED  BY <1>1, HeapInvAlways, PTL

\* Whatever enfileirar, desenfileirar, remover and loopEnvelhecerFila do to
\* the slice, no occurrence in it comes before its parent.
THEOREM KeepsOrder ==
  Spec => []HeapOrdered
<1>1. HeapInv => HeapOrdered
  BY DEF HeapInv
<1>. QED  BY <1>1, HeapInvAlways, PTL

\* Snapshot, which drains a copy, always returns everything that waits, in the
\* order of service.
THEOREM SnapshotIsOrdered ==
  Spec => []SnapshotOrdered
<1>1. HeapInv => SnapshotOrdered
  <2>. SUFFICES ASSUME HeapInv PROVE SnapshotOrdered
    OBVIOUS
  <2>1. prioridade \in [Ocorrencia -> Int] /\ ordem \in Seq(Ocorrencia)
    BY DEF HeapInv, TypeOK
  <2>2. Len(heap) \in Nat /\ heap \in Heaps(ordem, Len(heap))
    BY HeapInvMeans
  <2>3. /\ ToSet(Snapshot(heap)) = ToSet(heap)
        /\ \A i, j \in DOMAIN Snapshot(heap) :
             i < j =>
               Queue!Before(prioridade, ordem, Snapshot(heap)[i], Snapshot(heap)[j])
    BY <2>1, <2>2, SnapshotDrains
  <2>. QED  BY <2>3 DEF SnapshotOrdered
<1>. QED  BY <1>1, HeapInvAlways, PTL


\* What Peek returns is what the queue promises.
PeekFirst == Peek = Queue!First(prioridade, ordem)

LEMMA PeekIsFirst ==
  HeapInv => PeekFirst
<1>. SUFFICES ASSUME HeapInv PROVE PeekFirst
  OBVIOUS
<1>1. prioridade \in [Ocorrencia -> Int] /\ ordem \in Seq(Ocorrencia)
      /\ ToSet(heap) = ToSet(ordem)
  BY DEF HeapInv, TypeOK
<1>2. /\ Len(heap) \in Nat /\ heap \in Heaps(ordem, Len(heap))
      /\ InOrder(prioridade, ordem, heap, Len(heap))
  BY HeapInvMeans
<1>. QED  BY <1>1, <1>2, RootIsFirst DEF Peek, PeekFirst

\* A step of the heap is a step of the queue.
LEMMA StepOfQueue ==
  HeapInv /\ PeekFirst' /\ [Next]_vars => [Queue!Next]_(Queue!vars)
<1>. SUFFICES ASSUME HeapInv, PeekFirst', [Next]_vars
              PROVE  [Queue!Next]_(Queue!vars)
  OBVIOUS
<1>1. Peek' = Queue!First(prioridade', ordem')
  BY DEF PeekFirst
<1>2. ASSUME NEW o \in Ocorrencia, NEW i \in 1..Len(ordem) + 1, NEW e \in Extras,
             Enfileirar(o, i, e)
      PROVE  Queue!Next
  BY <1>2, <1>1 DEF Enfileirar, Queue!Next
<1>3. CASE Desenfileirar
  <2>1. heap # <<>> /\ Queue!Leaves(heap[1])
    BY <1>3 DEF Desenfileirar
  <2>2. heap \in Seq(Ocorrencia)
    BY DEF HeapInv, TypeOK
  <2>3. heap[1] \in Ocorrencia
    BY <2>1, <2>2
  <2>. QED  BY <1>1, <2>1, <2>3 DEF Queue!Next
<1>4. ASSUME NEW o \in Ocorrencia, Remover(o)
      PROVE  Queue!Next
  BY <1>4, <1>1 DEF Remover, Queue!Next
<1>5. ASSUME NEW o \in Ocorrencia, Passa(o)
      PROVE  Queue!Next
  BY <1>5, <1>1 DEF Passa, Queue!Next
<1>6. CASE Envelhecer
  BY <1>6, <1>1 DEF Envelhecer, Queue!Next
<1>7. CASE UNCHANGED vars
  BY <1>7 DEF vars, Queue!vars, Peek
<1>. QED  BY <1>2, <1>3, <1>4, <1>5, <1>6, <1>7 DEF Next

\* The binary heap of fila.go implements the queue it promises: Peek names and
\* Desenfileirar removes an occurrence that comes first (Less), whatever came,
\* left, waited or aged before.
THEOREM ImplementsQueue ==
  Spec => IsQueue
<1>1. Init => Queue!Init
  BY DEF Init
<1>. QED
  BY <1>1, HeapInvAlways, PeekIsFirst, StepOfQueue, PTL
  DEF Spec, IsQueue, Queue!Spec
===============================================================================
