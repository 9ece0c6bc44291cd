---------------------------- MODULE MCLargeBlobs ----------------------------
(* A small instance of LargeBlobs. *)
EXTENDS LargeBlobs, TLC

Symmetric == Permutations(Name)
=============================================================================
