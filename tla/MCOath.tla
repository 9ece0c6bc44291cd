------------------------------- MODULE MCOath -------------------------------
(* A small instance of Oath. *)
EXTENDS Oath, TLC

Symmetric == Permutations(Name) \cup Permutations(Code)
=============================================================================
