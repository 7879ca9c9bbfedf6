--------------------------------- MODULE Fila ---------------------------------
(***************************************************************************)
(* The package fila (internal/fila/fila.go): a priority queue in a binary  *)
(* heap, whose order is repaired by container/heap.  Every operation holds *)
(* the mutex of the queue.                                                 *)
(*                                                                         *)
(* The data of the occurrences that wait (their order by time, priority    *)
(* and age) are those of PriorityQueue; the heap is here.                  *)
(***************************************************************************)
EXTENDS Integers, SequencesExt

CONSTANTS Ocorrencia, Criticidade, Extras, MaxAtrasos

FilaAssumption ==
  /\ Criticidade \in [Ocorrencia -> {1, 2}]
  /\ Extras \subseteq Int
  /\ MaxAtrasos \in Nat

ASSUME FilaAssumption

VARIABLES
  heap,         \* the occurrences in the order of the slice
  ordem, prioridade, nivelExtra, atrasos

vars == <<heap, ordem, prioridade, nivelExtra, atrasos>>

\* Peek: the occurrence at the root.
Peek == IF heap = <<>> THEN {} ELSE {heap[1]}

\* The queue that is promised, whose next occurrence is the one at the root.
Queue == INSTANCE PriorityQueue WITH proxima <- Peek

-----------------------------------------------------------------------------
(***************************************************************************)
(* container/heap, for heaps h under the order of p and ord.               *)
(***************************************************************************)
SwapAt(h, i, j) == [h EXCEPT ![i] = h[j], ![j] = h[i]]

\* n rounds of a loop that starts in s and makes F[x] of x.
Iterate(F, s, n) ==
  LET state[k \in 0..n] == IF k = 0 THEN s ELSE F[state[k-1]]
  IN  state[n]

\* A heap and the place in it where a loop has come to.
Position == [h : Seq(Ocorrencia), at : Nat]

\* A round of up: what is at rises past the parent that it comes before.
Rise(p, ord) ==
  [s \in Position |->
    LET parent == s.at \div 2
    IN  IF s.at > 1 /\ Queue!Before(p, ord, s.h[s.at], s.h[parent])
        THEN [h |-> SwapAt(s.h, parent, s.at), at |-> parent]
        ELSE s]

\* up from j, which ends within j rounds.
Up(p, ord, h, j) == Iterate(Rise(p, ord), [h |-> h, at |-> j], j).h

\* The child of i that comes first, when the heap has n places.
Child(p, ord, h, i, n) ==
  IF 2*i < n /\ Queue!Before(p, ord, h[2*i + 1], h[2*i])
  THEN 2*i + 1 ELSE 2*i

\* A round of down: what is at sinks past the child that comes before it.
Sink(p, ord, n) ==
  [s \in Position |->
    LET child == Child(p, ord, s.h, s.at, n)
    IN  IF 2 * s.at <= n /\ Queue!Before(p, ord, s.h[child], s.h[s.at])
        THEN [h |-> SwapAt(s.h, s.at, child), at |-> child]
        ELSE s]

\* down from i among the first n places, which ends within n rounds: the
\* heap then and where what was at i has come to.
Down(p, ord, h, i, n) == Iterate(Sink(p, ord, n), [h |-> h, at |-> i], n)

\* A round of heap.Init: down from a place, then on to the one before it.
Settle(p, ord) ==
  [s \in Position |->
    [h |-> Down(p, ord, s.h, s.at, Len(s.h)).h, at |-> s.at - 1]]

\* heap.Init: down from every place that has children, the last one first.
Heapify(p, ord, h) ==
  LET half == Len(h) \div 2
  IN  Iterate(Settle(p, ord), [h |-> h, at |-> half], half).h

\* Mutant: what takes the place of the i-th only sinks.
RemoveSinking(p, ord, h, i) ==
  LET n == Len(h)
  IN  IF i = n THEN Front(h)
      ELSE Front(Down(p, ord, SwapAt(h, i, n), i, n - 1).h)

\* heap.Remove, and heap.Pop for i = 1: the last takes the place of the i-th
\* and sinks, or else rises.
HeapRemove(p, ord, h, i) ==
  LET n == Len(h)
      g == SwapAt(h, i, n)
      d == Down(p, ord, g, i, n - 1)
  IN  Front(IF i = n THEN h ELSE IF d.at > i THEN d.h ELSE Up(p, ord, g, i))

-----------------------------------------------------------------------------
Init == heap = <<>> /\ Queue!Init

\* An occurrence that waits already is ignored.
Enfileirar(o, i, e) ==
  /\ Queue!Arrives(o, i, e)
  /\ heap' = Up(prioridade', ordem', Append(heap, o), Len(heap) + 1)

Desenfileirar ==
  /\ heap # <<>>
  /\ heap' = HeapRemove(prioridade, ordem, heap, 1)
  /\ Queue!Leaves(heap[1])

Remover(o) ==
  /\ \E i \in DOMAIN heap :
       heap[i] = o /\ heap' = HeapRemove(prioridade, ordem, heap, i)
  /\ Queue!Leaves(o)

\* Time goes by; nothing in the queue changes.
Passa(o) == Queue!Passes(o) /\ UNCHANGED heap

\* Mutant: the heap is left in its old order.
EnvelhecerSemInit == Queue!Ages /\ UNCHANGED heap

\* A tick of loopEnvelhecerFila that changes a priority.
Envelhecer ==
  /\ Queue!Ages
  /\ heap' = Heapify(prioridade', ordem, heap)

\* Mutant: the copy is not drained.
SnapshotCopied(h) == h

\* A round of Snapshot: Pop, and what it returns is appended to the result.
Drain ==
  [s \in [copia : Seq(Ocorrencia), resultado : Seq(Ocorrencia)] |->
    [copia     |-> HeapRemove(prioridade, ordem, s.copia, 1),
     resultado |-> Append(s.resultado, s.copia[1])]]

\* The occurrences of a copy of the heap, as Pop returns them.
Snapshot(h) ==
  Iterate(Drain, [copia     |-> Heapify(prioridade, ordem, h),
                  resultado |-> <<>>], Len(h)).resultado

Next ==
  \/ \E o \in Ocorrencia, i \in 1..Len(ordem) + 1, e \in Extras :
       Enfileirar(o, i, e)
  \/ Desenfileirar
  \/ \E o \in Ocorrencia : Remover(o)
  \/ \E o \in Ocorrencia : Passa(o)
  \/ Envelhecer

\* A drone comes free again and again, time passes and the loop goes on.
Fairness ==
  /\ WF_vars(Desenfileirar) /\ WF_vars(Envelhecer)
  /\ \A o \in Ocorrencia : WF_vars(Passa(o))

Spec == Init /\ [][Next]_vars

FairSpec == Spec /\ Fairness

-----------------------------------------------------------------------------
(***************************************************************************)
(* Every variable keeps to its type, and the heap holds what waits, once.  *)
(***************************************************************************)
TypeOK ==
  /\ heap \in Seq(Ocorrencia) /\ IsInjective(heap)
  /\ ordem \in Seq(Ocorrencia) /\ IsInjective(ordem)
  /\ ToSet(ordem) = ToSet(heap)
  /\ prioridade \in [Ocorrencia -> Int]
  /\ \A o \in Ocorrencia : prioridade[o] <= Queue!Alta
  /\ nivelExtra \in [Ocorrencia -> Int]
  /\ atrasos \in 0..MaxAtrasos

\* Why the root comes first: nothing comes before its parent in the heap.
HeapOrdered ==
  \A k \in 2..Len(heap) :
    ~ Queue!Before(prioridade, ordem, heap[k], heap[k \div 2])

(***************************************************************************)
(* The heap implements the queue: after any operations, aging included,    *)
(* Peek returns and Desenfileirar removes an occurrence that comes first   *)
(* (Less).                                                                 *)
(***************************************************************************)
IsQueue == Queue!Spec

\* Snapshot returns everything that waits, in the order of service.
SnapshotOrdered ==
  LET s == Snapshot(heap)
  IN  /\ ToSet(s) = ToSet(heap)
      /\ \A i, j \in DOMAIN s :
           i < j => Queue!Before(prioridade, ordem, s[i], s[j])

(***************************************************************************)
(* "No request is stuck for ever behind more critical occurrences",        *)
(* although these may come without end (Envelhecer).                       *)
(***************************************************************************)
NothingStuck ==
  \A o \in Ocorrencia : (o \in ToSet(heap)) ~> (o \notin ToSet(heap))
=============================================================================
