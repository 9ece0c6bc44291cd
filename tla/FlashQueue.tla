----------------------------- MODULE FlashQueue -----------------------------
(***************************************************************************)
(* The flash of the device, as the code of src/ sees it.  The file system  *)
(* is the pico-keys-sdk's, which is not part of the repository: this is    *)
(* what the calls in src/ rely on.                                         *)
(*                                                                         *)
(* core1 runs the command handlers.  file_put_data leaves the new contents *)
(* in RAM, where file_get_data reads them at once, and hands the write to  *)
(* core0; flash_commit only wakes core0 up, flash_commit_sync waits (with  *)
(* a timeout) until core0 has nothing left to write.  A power cut loses    *)
(* every write core0 has not made.                                         *)
(*                                                                         *)
(* A disk is a record: flash is what survives a power cut, pending[f] the  *)
(* writes of file f that core0 still has to make, oldest first.  Writes of *)
(* one file reach the flash in order.  InOrder says whether writes of      *)
(* different files do too; order, kept only then, is the queue of files.   *)
(***************************************************************************)
EXTENDS Naturals, SequencesExt

CONSTANT InOrder

ASSUME InOrderAssumption == InOrder \in BOOLEAN

\* A disk with contents c and nothing to write.
Settled(c) == [flash   |-> c,
               pending |-> [f \in DOMAIN c |-> <<>>],
               order   |-> <<>>]

\* What file_get_data returns: the newest contents, written or not.
Read(d, f) == IF d.pending[f] = <<>> THEN d.flash[f] ELSE Last(d.pending[f])

\* file_put_data.
Put(d, f, v) == [flash   |-> d.flash,
                 pending |-> [d.pending EXCEPT ![f] = Append(@, v)],
                 order   |-> IF InOrder THEN Append(d.order, f) ELSE d.order]

\* file_put_data for each file of v, in one order or another.
PutAll(d, v) == [flash   |-> d.flash,
                 pending |-> [f \in DOMAIN d.pending |->
                                IF f \in DOMAIN v THEN Append(d.pending[f], v[f])
                                                  ELSE d.pending[f]],
                 order   |-> IF InOrder THEN d.order \o SetToSeq(DOMAIN v) ELSE d.order]

\* core0 may write the oldest pending contents of f.
CanDrain(d, f) == /\ d.pending[f] # <<>>
                  /\ InOrder => d.order # <<>> /\ Head(d.order) = f

Drained(d, f) == [flash   |-> [d.flash EXCEPT ![f] = Head(d.pending[f])],
                  pending |-> [d.pending EXCEPT ![f] = Tail(@)],
                  order   |-> IF InOrder THEN Tail(d.order) ELSE d.order]

\* flash_commit_sync returns true in time only if core0 has written it all.
IsSettled(d) == \A f \in DOMAIN d.pending : d.pending[f] = <<>>

\* The disk after a power cut and the restart that follows.
Crashed(d) == Settled(d.flash)

\* Every version of f that a power cut, now or later, may leave behind.
Copies(d, f) == {d.flash[f]} \cup {d.pending[f][i] : i \in DOMAIN d.pending[f]}

\* d is a disk whose files hold the contents C allows.
IsDisk(d, C) ==
    /\ d = [flash |-> d.flash, pending |-> d.pending, order |-> d.order]
    /\ d.flash = [f \in DOMAIN C |-> d.flash[f]]
    /\ d.pending = [f \in DOMAIN C |-> d.pending[f]]
    /\ \A f \in DOMAIN C : /\ d.flash[f] \in C[f]
                           /\ d.pending[f] \in Seq(C[f])
    /\ d.order \in Seq(DOMAIN C)
=============================================================================
