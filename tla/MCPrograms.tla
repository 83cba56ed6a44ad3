----------------------------- MODULE MCPrograms ------------------------------
(* The programs with texts named by what they are.                          *)
EXTENDS Programs

MCTextPar == [t \in Texts |-> IF t = "insert_host" THEN 1 ELSE 0]
=============================================================================
