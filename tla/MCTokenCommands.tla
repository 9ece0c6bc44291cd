-------------------------- MODULE MCTokenCommands ---------------------------
(* Small instances of TokenCommands. *)
EXTENDS TokenCommands, TLC

\* A token for everything, and one for credential management only.
MCGrants == {Perm \ {"lbw"}, {"cm", "lbw"}}

\* The PINs are interchangeable, and so are the relying parties.
Symmetric == Permutations(PIN) \cup Permutations(RP)
=============================================================================
