----------------------- MODULE MCCredentialManagement -----------------------
(* Small instances of CredentialManagement. *)
EXTENDS CredentialManagement, TLC

Symmetric == Permutations(RP) \cup Permutations(User)
=============================================================================
