------------------------- MODULE MCCredentialStore --------------------------
(* Small instances of CredentialStore. *)
EXTENDS CredentialStore, TLC

Symmetric == Permutations(RP) \cup Permutations(User) \cup Permutations(Info)
=============================================================================
