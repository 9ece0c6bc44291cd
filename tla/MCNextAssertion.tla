--------------------------- MODULE MCNextAssertion ---------------------------
(* A small instance of NextAssertion. *)
EXTENDS NextAssertion, TLC

Symmetric == Permutations(Cred) \cup Permutations(RP)
=============================================================================
