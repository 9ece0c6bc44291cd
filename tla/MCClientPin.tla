---------------------------- MODULE MCClientPin -----------------------------
(* Small instances of ClientPin. *)
EXTENDS ClientPin, TLC

\* A token that may change the configuration and one that may not.
MCGrants == {{"acfg"}, {"cm", "lbw"}}

\* The PINs are interchangeable, and so are the relying parties.
Symmetric == Permutations(PIN) \cup Permutations(RP)
=============================================================================
