\* Up to six occurrences that wait, so that what heap.Remove puts in the
\* place of another may have to sink or to rise; two are of low criticality,
\* and any may have waited before it comes.
SPECIFICATION FairSpec
CONSTANTS
  o1 = o1
  o2 = o2
  o3 = o3
  o4 = o4
  o5 = o5
  o6 = o6
  Low = {o1, o2}
  High = {o3, o4, o5, o6}
  Ocorrencia <- MCOcorrencia
  Criticidade <- MCCriticidade
  Extras = {0, 1}
  MaxAtrasos = 1
SYMMETRY Names
INVARIANTS TypeOK SnapshotOrdered HeapOrdered
PROPERTY IsQueue
CHECK_DEADLOCK FALSE
