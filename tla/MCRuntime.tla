----------------------------- MODULE MCRuntime ------------------------------
(* Runtime over small sets of texts, named by what they are and by the     *)
(* number of parameters they take.                                         *)
EXTENDS Runtime, TLC

MCNPar == [t \in Texts |-> IF t \in {"select_1", "update_1"} THEN 1 ELSE 0]

Sym == Permutations(Cursors) \cup Permutations(Prepares)
=============================================================================
