-------------------------------- MODULE MCFila --------------------------------
(***************************************************************************)
(* Instances of Fila for TLC: some occurrences of low and some of high     *)
(* criticality.                                                            *)
(***************************************************************************)
EXTENDS Fila

CONSTANTS o1, o2, o3, o4, o5, o6, Low, High

MCOcorrencia == Low \cup High
MCCriticidade == [o \in Ocorrencia |-> IF o \in Low THEN 1 ELSE 2]

\* New, or stamped by a clock that is half a minute ahead.
AheadOrNew == {-1, 0}

\* Occurrences of one criticality are alike.
Names == Permutations(Low) \cup Permutations(High)
=============================================================================
