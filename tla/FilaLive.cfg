\* An occurrence of low criticality and two of high criticality, all of which
\* come without end, two of them with an earlier time than one that waits.
SPECIFICATION FairSpec
CONSTANTS
  o1 = o1
  o2 = o2
  o3 = o3
  o4 = o4
  o5 = o5
  o6 = o6
  Low = {o1}
  High = {o2, o3}
  Ocorrencia <- MCOcorrencia
  Criticidade <- MCCriticidade
  Extras <- AheadOrNew
  MaxAtrasos = 2
PROPERTY NothingStuck
CHECK_DEADLOCK FALSE
