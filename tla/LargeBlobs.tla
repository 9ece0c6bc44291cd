----------------------------- MODULE LargeBlobs -----------------------------
(***************************************************************************)
(* authenticatorLargeBlobs (cbor_large_blobs.c): platforms write the       *)
(* serialized large-blob array in fragments, each a command of its own;    *)
(* what has arrived is kept in static variables.                           *)
(*                                                                         *)
(* A byte is a cell <<a, k>>, the k-th of array a, so that the hash at the *)
(* end of the array is right if all cells are in place and of one array.   *)
(* What token a fragment needs is TokenCommands; here it verifies or not.  *)
(***************************************************************************)
EXTENDS FlashQueue, Integers

CONSTANTS Name,
          NoName,       \* of the empty array a fresh device has
          Zero,         \* a byte of temp_lba that was never written
          MinLength,    \* 17
          MaxLength,    \* MAX_LARGE_BLOB_SIZE
          MaxFragment,  \* MAX_FRAGMENT_LENGTH
          QueueCap      \* bound: no command starts behind a longer queue

ASSUME BlobAssumption == /\ MinLength \in Nat \ {0}
                         /\ MaxLength \in Nat /\ MaxLength >= MinLength
                         /\ MaxFragment \in Nat \ {0}
                         /\ QueueCap \in Nat
                         /\ NoName \notin Name

VARIABLES disk,
          expectedLength, expectedNextOffset, temp_lba,
          sent,     \* history: the cells accepted since a write was last begun
          alone     \* history: the array being sent in order, without another command

blobVars == <<disk, expectedLength, expectedNextOffset, temp_lba, sent, alone>>

-----------------------------------------------------------------------------
EF_LARGEBLOB == "EF_LARGEBLOB"

Array == [name : Name, len : MinLength..MaxLength]
EmptyArray == [name |-> NoName, len |-> MinLength]

CellsOf(a) == {<<a, k>> : k \in 0..(a.len - 1)}
Cell == UNION {CellsOf(a) : a \in Array \cup {EmptyArray}}

Whole(a) == [k \in 0..(a.len - 1) |-> <<a, k>>]

Contents == [f \in {EF_LARGEBLOB} |->
               UNION {[0..(l - 1) -> Cell] : l \in MinLength..MaxLength}]

blob == Read(disk, EF_LARGEBLOB)

CanStart == Len(disk.pending[EF_LARGEBLOB]) <= QueueCap

NoWrite == [of |-> EmptyArray, upto |-> 0]

-----------------------------------------------------------------------------
\* Faulty: a write goes on where the last one stopped.
ExpectedFromOld(offset, length) ==
    IF offset = 0 THEN [length |-> length, next |-> expectedNextOffset]
                  ELSE [length |-> expectedLength, next |-> expectedNextOffset]

\* The first fragment begins a write before its token has been looked at.
Expected(offset, length) ==
    IF offset = 0 THEN [length |-> length, next |-> 0]
                  ELSE [length |-> expectedLength, next |-> expectedNextOffset]

\* Only the first fragment has a length.
Acceptable(offset, length) == IF offset = 0 THEN length \in MinLength..MaxLength
                                            ELSE length = 0

\* Faulty: a fragment that skips bytes is accepted.
InSequenceOrAhead(offset, e) == offset >= e.next

InSequence(offset, e) == offset = e.next

\* Faulty: one byte more goes unchecked.
IntactOffByOne(l, c) == l > MinLength + 1 => \E a \in Array : a.len = l /\ c = Whole(a)

\* The hash at the end is right.  An array of 17 bytes is not checked.
Intact(l, c) == l > MinLength => \E a \in Array : a.len = l /\ c = Whole(a)

\* The history after a platform has sent n bytes of array a, from offset on.
SentInOrder(a, offset, n, length) ==
    IF IF offset = 0 THEN length = a.len ELSE alone = [of |-> a, upto |-> offset]
    THEN [of |-> a, upto |-> offset + n] ELSE NoWrite

\* A fragment that is not stored; a first one has begun a new write already.
SetRefused(a, offset, n, length, verified) ==
    LET e == Expected(offset, length)
    IN  /\ Acceptable(offset, length)
        /\ ~InSequence(offset, e) \/ ~verified \/ offset + n > e.length
        /\ expectedLength' = e.length
        /\ expectedNextOffset' = e.next
        /\ sent' = IF offset = 0 THEN {} ELSE sent
        /\ alone' = IF verified THEN SentInOrder(a, offset, n, length) ELSE NoWrite
        /\ UNCHANGED <<disk, temp_lba>>

\* n bytes of array a, from offset on.
SetFragment(a, offset, n, length) ==
    LET e == Expected(offset, length)
        kept == IF offset = 0 THEN [k \in 0..(MaxLength - 1) |-> Zero] ELSE temp_lba
        buffer == [k \in 0..(MaxLength - 1) |->
                     IF k \in e.next..(e.next + n - 1) THEN <<a, offset + k - e.next>> ELSE kept[k]]
        array == [k \in 0..(e.length - 1) |-> buffer[k]]
    IN  /\ Acceptable(offset, length)
        /\ InSequence(offset, e)
        /\ offset + n <= e.length
        /\ expectedLength' = e.length
        /\ expectedNextOffset' = e.next + n
        /\ temp_lba' = buffer
        /\ disk' = IF expectedNextOffset' = e.length /\ Intact(e.length, array)
                   THEN Put(disk, EF_LARGEBLOB, array) ELSE disk
        /\ sent' = (IF offset = 0 THEN {} ELSE sent)
                   \cup {<<a, k>> : k \in offset..(offset + n - 1)}
        /\ alone' = SentInOrder(a, offset, n, length)

\* Platforms send pieces of arrays, of the right length or not.
Set == /\ CanStart
       /\ \E a \in Array, offset \in 0..MaxLength, n \in 0..MaxFragment,
             length \in 0..(MaxLength + 1) :
            /\ offset + n <= a.len
            /\ \/ \E verified \in BOOLEAN : SetRefused(a, offset, n, length, verified)
               \/ SetFragment(a, offset, n, length)

Drain == /\ CanDrain(disk, EF_LARGEBLOB)
         /\ disk' = Drained(disk, EF_LARGEBLOB)
         /\ UNCHANGED <<expectedLength, expectedNextOffset, temp_lba, sent, alone>>

\* The static variables stay.
cbor_reset == /\ disk' = Settled([f \in {EF_LARGEBLOB} |-> Whole(EmptyArray)])
              /\ alone' = NoWrite
              /\ UNCHANGED <<expectedLength, expectedNextOffset, temp_lba, sent>>

StaticInit == /\ expectedLength' = 0
              /\ expectedNextOffset' = 0
              /\ temp_lba' = [k \in 0..(MaxLength - 1) |-> Zero]

PowerCycle == /\ disk' = Crashed(disk)
              /\ StaticInit
              /\ sent' = {}
              /\ alone' = NoWrite

BlobInit ==
    /\ disk = Settled([f \in {EF_LARGEBLOB} |-> Whole(EmptyArray)])
    /\ expectedLength = 0
    /\ expectedNextOffset = 0
    /\ temp_lba = [k \in 0..(MaxLength - 1) |-> Zero]
    /\ sent = {}
    /\ alone = NoWrite

BlobNext == Set \/ Drain \/ cbor_reset \/ PowerCycle

BlobSpec == BlobInit /\ [][BlobNext]_blobVars

-----------------------------------------------------------------------------
\* The type of the state.  The buffer is never filled beyond its end.
BlobTypeOK ==
    /\ IsDisk(disk, Contents)
    /\ expectedLength \in {0} \cup MinLength..MaxLength
    /\ expectedNextOffset \in 0..expectedLength
    /\ temp_lba \in [0..(MaxLength - 1) -> Cell \cup {Zero}]
    /\ sent \subseteq Cell
    /\ alone \in [of : Array \cup {EmptyArray}, upto : 0..MaxLength]

\* Whatever fragments of several platforms are mixed, in what a get returns
\* and in what any power cut leaves there is a whole array, or one as short as
\* the empty one, whose hash the code does not check.
StoredIsWhole ==
    \A c \in Copies(disk, EF_LARGEBLOB) :
       \/ DOMAIN c = 0..(MinLength - 1)
       \/ \E a \in Array : c = Whole(a)

\* The part of the buffer that counts was sent since the write was begun, each
\* byte for its place: an earlier write, given up or cut off, leaves nothing.
BufferIsFresh ==
    \A k \in 0..(expectedNextOffset - 1) : temp_lba[k] \in sent /\ temp_lba[k][2] = k

\* A platform that sends an array from its beginning, its token verified and
\* nothing in between, finds it stored (test_031:206), whatever has been left
\* behind before: no fragment of it was refused.
UndisturbedWriteSucceeds ==
    alone.upto = alone.of.len => blob = Whole(alone.of)
=============================================================================
