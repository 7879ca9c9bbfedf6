------------------------------ MODULE Iteration ------------------------------
(***************************************************************************)
(* Induction over natural numbers and the existence of functions defined   *)
(* by recursion over them, for the proofs about the loops of the program.  *)
(* Claims are sets and steps are functions, so that every lemma is first   *)
(* order.                                                                  *)
(***************************************************************************)
EXTENDS Integers, TLAPS, WellFoundedInduction

\* A non-empty set of natural numbers has a least element.
LEMMA LeastNat ==
  ASSUME NEW S, S \subseteq Nat, S # {}
  PROVE  \E n \in S : \A k \in S : n <= k
<1>. DEFINE Less == OpToRel(<, Nat)
<1>1. Less = {p \in Nat \X Nat : p[1] < p[2]}
  BY DEF OpToRel
<1>2. IsWellFoundedOn(Less, Nat)
  BY NatLessThanWellFounded
<1>. HIDE DEF Less
<1>3. PICK n \in S : \A k \in S : ~ (<<k, n>> \in Less)
  BY <1>2, WFMin
<1>4. \A k \in S : ~ (k < n)
  BY <1>1, <1>3
<1>. QED  BY <1>4

\* A set that holds 0 and with every number the next holds all of 0..n.
LEMMA UpTo ==
  ASSUME NEW n \in Nat, NEW S, 0 \in S,
         \A i \in 1..n : i-1 \in S => i \in S
  PROVE  \A i \in 0..n : i \in S
<1>. DEFINE Bad == {i \in 0..n : i \notin S}
<1>1. SUFFICES ASSUME Bad # {} PROVE FALSE
  OBVIOUS
<1>2. Bad \subseteq Nat
  OBVIOUS
<1>3. PICK k \in Bad : \A j \in Bad : k <= j
  <2>. HIDE DEF Bad
  <2>. QED  BY <1>1, <1>2, LeastNat
<1>4. k \in 1..n /\ k-1 \in 0..n /\ ~ (k <= k-1)
  BY <1>3
<1>5. k-1 \in S
  BY <1>3, <1>4
<1>. QED  BY <1>3, <1>4, <1>5

\* f is the run of the loop over 1..n that starts with base and makes
\* step[<<x, i>>] of x in its i-th round.
Runs(f, T, n, base, step) ==
  /\ f \in [0..n -> T]
  /\ f[0] = base
  /\ \A i \in 1..n : f[i] = step[<<f[i-1], i>>]

\* Such a loop can be run.
LEMMA IterationExists ==
  ASSUME NEW T, NEW n \in Nat, NEW base \in T,
         NEW step \in [T \X (1..n) -> T]
  PROVE  \E f : Runs(f, T, n, base, step)
<1>. DEFINE Upto(f, k) == \A i \in 0..k :
                            f[i] = IF i = 0 THEN base ELSE step[<<f[i-1], i>>]
            S == {k \in 0..n : \E f \in [0..k -> T] : Upto(f, k)}
<1>1. 0 \in S
  <2>. DEFINE f == [i \in 0..0 |-> base]
  <2>1. f \in [0..0 -> T] /\ Upto(f, 0)
    OBVIOUS
  <2>2. 0 \in 0..n
    OBVIOUS
  <2>. HIDE DEF f, Upto
  <2>. QED  BY <2>1, <2>2
<1>2. ASSUME NEW k \in 1..n, k-1 \in S
      PROVE  k \in S
  <2>1. PICK f \in [0..k-1 -> T] : Upto(f, k-1)
    BY <1>2
  <2>. DEFINE last == step[<<f[k-1], k>>]
              g == [i \in 0..k |-> IF i = k THEN last ELSE f[i]]
  <2>2. k-1 \in 0..k-1 /\ k \in 0..k /\ k-1 \in 0..k /\ k # 0 /\ k-1 # k
    OBVIOUS
  <2>3. last \in T
    <3>1. <<f[k-1], k>> \in T \X (1..n)
      BY <2>1, <2>2
    <3>. QED  BY <3>1
  <2>4. g \in [0..k -> T]
    BY <2>1, <2>3
  <2>5. ASSUME NEW i \in 0..k
        PROVE  g[i] = IF i = 0 THEN base ELSE step[<<g[i-1], i>>]
    <3>1. CASE i = k
      <4>1. g[k-1] = f[k-1] /\ g[k] = last
        BY <2>2
      <4>. QED  BY <3>1, <4>1, <2>2
    <3>2. CASE i # k
      <4>1. i \in 0..k-1 /\ g[i] = f[i] /\ (i # 0 => g[i-1] = f[i-1])
        BY <3>2
      <4>. HIDE DEF g
      <4>. QED  BY <4>1, <2>1
    <3>. QED  BY <3>1, <3>2
  <2>6. Upto(g, k)
    BY <2>5
  <2>. HIDE DEF g, Upto
  <2>. QED  BY <2>4, <2>6
<1>3. n \in S
  <2>. HIDE DEF S
  <2>. QED  BY <1>1, <1>2, UpTo
<1>4. PICK f \in [0..n -> T] : Upto(f, n)
  BY <1>3
<1>5. 0 \in 0..n /\ \A i \in 1..n : i \in 0..n /\ i # 0
  OBVIOUS
<1>6. Runs(f, T, n, base, step)
  BY <1>4, <1>5 DEF Runs
<1>. QED  BY <1>6

\* Whatever starts like the loop and goes on like it is its run.
LEMMA RunsByStep ==
  ASSUME NEW T, NEW n \in Nat, NEW base \in T,
         NEW step \in [T \X (1..n) -> T], NEW g,
         g = [i \in 0..n |-> g[i]], g[0] = base,
         \A i \in 1..n : g[i-1] \in T => g[i] = step[<<g[i-1], i>>]
  PROVE  Runs(g, T, n, base, step)
<1>. DEFINE S == {i \in 0..n : g[i] \in T}
<1>1. 0 \in S
  OBVIOUS
<1>2. ASSUME NEW i \in 1..n, i-1 \in S
      PROVE  i \in S
  <2>1. g[i-1] \in T /\ i \in 0..n /\ <<g[i-1], i>> \in T \X (1..n)
    BY <1>2
  <2>. QED  BY <2>1
<1>3. \A i \in 0..n : i \in S
  <2>. HIDE DEF S
  <2>. QED  BY <1>1, <1>2, UpTo
<1>4. \A i \in 1..n : i-1 \in 0..n
  OBVIOUS
<1>5. g \in [0..n -> T]
  BY <1>3
<1>. QED  BY <1>3, <1>4, <1>5 DEF Runs
=============================================================================
