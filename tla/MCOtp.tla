-------------------------------- MODULE MCOtp -------------------------------
(* A small instance of Otp. *)
EXTENDS Otp, TLC

Symmetric == Permutations(SessionSlots)
=============================================================================
