------------------------ MODULE MCResidentContainer -------------------------
(* Small instances of ResidentContainer. *)
EXTENDS ResidentContainer, TLC

\* One object that is never updated stands for the three there are.
MCObjects == <<"rp_id_hash", "credential">>

Symmetric == Permutations(Value)
=============================================================================
