----------------------------- MODULE MCConnList -----------------------------
(* ConnList over three names, and one handle more than names. *)
EXTENDS ConnList, TLC

Sym == Permutations(Handles)
=============================================================================
