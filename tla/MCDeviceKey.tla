---------------------------- MODULE MCDeviceKey -----------------------------
(* Small instances of DeviceKey. *)
EXTENDS DeviceKey, TLC

Symmetric == Permutations(Key \ OddKeys)
=============================================================================
