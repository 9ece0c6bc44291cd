----------------------- MODULE StatefulCommandProofs ------------------------
(***************************************************************************)
(* What LargeBlobs and NextAssertion promise: both are about commands that *)
(* go on where an earlier one has stopped, with static variables between.  *)
(*                                                                         *)
(* LargeBlobs, for any lengths and any number of platforms that mix their  *)
(* fragments: a byte of temp_lba that nobody sent would break the type of  *)
(* the file, so the type is proved together with BufferIsFresh.            *)
(* UndisturbedWriteSucceeds speaks of the last fragment; Undisturbed says  *)
(* what holds after each fragment before.                                  *)
(*                                                                         *)
(* NextAssertion, for any number of slots and any length of the list: what *)
(* the loops of getAssertion leave in credsx holds of all its credentials, *)
(* and what was given is as much of it as credentialCounter says.          *)
(***************************************************************************)
EXTENDS LargeBlobs, NextAssertion, FlashQueueProofs

\* While one platform sends in order the static variables are its own.
Undisturbed ==
    alone.of \in Array =>
       /\ expectedLength = alone.of.len
       /\ expectedNextOffset = alone.upto
       /\ \A k \in 0..(alone.upto - 1) : temp_lba[k] = <<alone.of, k>>

BlobInv == /\ BlobTypeOK
           /\ StoredIsWhole
           /\ BufferIsFresh
           /\ Undisturbed
           /\ UndisturbedWriteSucceeds

-----------------------------------------------------------------------------
\* The file is the only one, the empty array one it may hold, and no array of
\* a platform is the empty one.
LEMMA Kinds ==
    /\ DOMAIN Contents = {EF_LARGEBLOB}
    /\ \A l \in MinLength..MaxLength : [0..(l - 1) -> Cell] \subseteq Contents[EF_LARGEBLOB]
    /\ MinLength \in Nat \ {0} /\ MaxLength \in Nat /\ MinLength \in MinLength..MaxLength
    /\ \A a \in Array \cup {EmptyArray} :
          /\ a.len \in MinLength..MaxLength
          /\ \A k \in 0..(a.len - 1) : <<a, k>> \in Cell
          /\ Whole(a) \in [0..(a.len - 1) -> Cell]
    /\ EmptyArray \notin Array
<1>1. DOMAIN Contents = {EF_LARGEBLOB}
  BY DEF Contents
<1>2. ASSUME NEW l \in MinLength..MaxLength
      PROVE  [0..(l - 1) -> Cell] \subseteq Contents[EF_LARGEBLOB]
  <2>1. Contents[EF_LARGEBLOB] = UNION {[0..(m - 1) -> Cell] : m \in MinLength..MaxLength}
    BY DEF Contents
  <2>2. [0..(l - 1) -> Cell] \in {[0..(m - 1) -> Cell] : m \in MinLength..MaxLength}
    OBVIOUS
  <2> QED BY <2>1, <2>2
<1>3. /\ MinLength \in Nat \ {0} /\ MaxLength \in Nat
      /\ MinLength \in MinLength..MaxLength
  BY BlobAssumption
<1>4. ASSUME NEW a \in Array \cup {EmptyArray}
      PROVE  /\ a.len \in MinLength..MaxLength
             /\ \A k \in 0..(a.len - 1) : <<a, k>> \in Cell
             /\ Whole(a) \in [0..(a.len - 1) -> Cell]
  <2>1. a.len \in MinLength..MaxLength
    BY <1>3 DEF Array, EmptyArray
  <2>2. \A k \in 0..(a.len - 1) : <<a, k>> \in Cell
    BY DEF Cell, CellsOf
  <2>3. Whole(a) \in [0..(a.len - 1) -> Cell]
    BY <2>2 DEF Whole
  <2> QED BY <2>1, <2>2, <2>3
<1>5. EmptyArray \notin Array
  BY BlobAssumption DEF EmptyArray, Array
<1> QED BY <1>1, <1>2, <1>3, <1>4, <1>5

\* A disk that has just been made, or that a reset has cleared.
LEMMA FreshDisk ==
    ASSUME disk' = Settled([f \in {EF_LARGEBLOB} |-> Whole(EmptyArray)])
    PROVE  /\ IsDisk(disk', Contents)
           /\ StoredIsWhole'
<1> DEFINE c == [f \in {EF_LARGEBLOB} |-> Whole(EmptyArray)]
<1>1. Whole(EmptyArray) \in [0..(MinLength - 1) -> Cell]
  BY Kinds DEF EmptyArray
<1>2. /\ c = [f \in DOMAIN Contents |-> c[f]]
      /\ \A f \in DOMAIN Contents : c[f] \in Contents[f]
      /\ c[EF_LARGEBLOB] = Whole(EmptyArray)
  BY <1>1, Kinds
<1> HIDE DEF c
<1>3. LET e == Settled(c)
      IN  /\ IsDisk(e, Contents)
          /\ \A f \in DOMAIN Contents : Read(e, f) = c[f] /\ Copies(e, f) = {c[f]}
  BY <1>2, SettledDisk
<1>4. IsDisk(disk', Contents) /\ Copies(disk', EF_LARGEBLOB) = {Whole(EmptyArray)}
  BY <1>2, <1>3, Kinds DEF c
<1>5. DOMAIN Whole(EmptyArray) = 0..(MinLength - 1)
  BY <1>1
<1> QED BY <1>4, <1>5 DEF StoredIsWhole

\* What is written after the last fragment is a whole array, or a short one.
LEMMA WrittenIsWhole ==
    ASSUME IsDisk(disk, Contents), StoredIsWhole,
           NEW l \in MinLength..MaxLength, NEW c \in [0..(l - 1) -> Cell], Intact(l, c),
           disk' = Put(disk, EF_LARGEBLOB, c)
    PROVE  /\ IsDisk(disk', Contents)
           /\ StoredIsWhole'
           /\ blob' = c
<1>1. c \in Contents[EF_LARGEBLOB] /\ EF_LARGEBLOB \in DOMAIN Contents
  BY Kinds
<1>2. LET e == Put(disk, EF_LARGEBLOB, c)
      IN  /\ IsDisk(e, Contents)
          /\ Read(e, EF_LARGEBLOB) = c
          /\ Copies(e, EF_LARGEBLOB) = Copies(disk, EF_LARGEBLOB) \cup {c}
  BY <1>1, PutDisk
<1>3. /\ IsDisk(disk', Contents) /\ blob' = c
      /\ Copies(disk, EF_LARGEBLOB)' = Copies(disk, EF_LARGEBLOB) \cup {c}
  BY <1>2 DEF blob
<1>4. DOMAIN c = 0..(MinLength - 1) \/ \E a \in Array : c = Whole(a)
  <2>1. CASE l > MinLength
    BY <2>1 DEF Intact
  <2>2. CASE l = MinLength
    BY <2>2
  <2> QED BY <2>1, <2>2, Kinds
<1> QED BY <1>3, <1>4 DEF StoredIsWhole

-----------------------------------------------------------------------------
(* The actions.                                                            *)

\* What a first fragment, or one that continues a write, finds.
LEMMA ExpectedLengths ==
    ASSUME BlobInv, NEW offset \in 0..MaxLength, NEW length \in 0..(MaxLength + 1),
           Acceptable(offset, length)
    PROVE  LET e == Expected(offset, length)
           IN  /\ e.length \in {0} \cup MinLength..MaxLength
               /\ e.next \in 0..e.length
               /\ offset = 0 => e.length = length /\ e.next = 0 /\ length \in MinLength..MaxLength
               /\ offset # 0 => e.length = expectedLength /\ e.next = expectedNextOffset
               /\ InSequence(offset, e) => e.length \in MinLength..MaxLength
BY Kinds DEF BlobInv, BlobTypeOK, Expected, Acceptable, InSequence

\* A platform that sends in order is not refused.
LEMMA SetRefusedStep ==
    ASSUME BlobInv, NEW a \in Array, NEW offset \in 0..MaxLength,
           NEW n \in 0..MaxFragment, NEW length \in 0..(MaxLength + 1),
           offset + n <= a.len, NEW verified \in BOOLEAN,
           SetRefused(a, offset, n, length, verified)
    PROVE  BlobInv'
<1> DEFINE e == Expected(offset, length)
<1>1. /\ Acceptable(offset, length)
      /\ ~InSequence(offset, e) \/ ~verified \/ offset + n > e.length
      /\ expectedLength' = e.length
      /\ expectedNextOffset' = e.next
      /\ sent' = IF offset = 0 THEN {} ELSE sent
      /\ alone' = IF verified THEN SentInOrder(a, offset, n, length) ELSE NoWrite
      /\ UNCHANGED <<disk, temp_lba>>
  BY DEF SetRefused
<1>2. /\ e.length \in {0} \cup MinLength..MaxLength
      /\ e.next \in 0..e.length
      /\ offset = 0 => e.length = length /\ e.next = 0
      /\ offset # 0 => e.length = expectedLength /\ e.next = expectedNextOffset
  BY <1>1, ExpectedLengths
<1> HIDE DEF e
<1>3. alone' = NoWrite
  <2> SUFFICES ASSUME verified, SentInOrder(a, offset, n, length) # NoWrite
               PROVE  FALSE
    BY <1>1
  <2>1. CASE offset = 0
    <3>1. length = a.len
      BY <2>1 DEF SentInOrder
    <3> QED BY <1>1, <1>2, <2>1, <3>1 DEF InSequence
  <2>2. CASE offset # 0
    <3>1. alone = [of |-> a, upto |-> offset]
      BY <2>2 DEF SentInOrder
    <3>2. expectedLength = a.len /\ expectedNextOffset = offset
      BY <3>1 DEF BlobInv, Undisturbed
    <3> QED BY <1>1, <1>2, <2>2, <3>2 DEF InSequence
  <2> QED BY <2>1, <2>2
<1>4. BlobTypeOK'
  BY <1>1, <1>2, <1>3, Kinds DEF BlobInv, BlobTypeOK, NoWrite
<1>5. StoredIsWhole'
  BY <1>1 DEF BlobInv, StoredIsWhole
<1>6. BufferIsFresh'
  <2>1. CASE offset = 0
    BY <1>1, <1>2, <2>1 DEF BufferIsFresh
  <2>2. CASE offset # 0
    BY <1>1, <1>2, <2>2 DEF BlobInv, BufferIsFresh
  <2> QED BY <2>1, <2>2
<1>7. Undisturbed' /\ UndisturbedWriteSucceeds'
  BY <1>3, Kinds DEF Undisturbed, UndisturbedWriteSucceeds, NoWrite, EmptyArray
<1> QED BY <1>4, <1>5, <1>6, <1>7 DEF BlobInv

LEMMA SetFragmentStep ==
    ASSUME BlobInv, NEW a \in Array, NEW offset \in 0..MaxLength,
           NEW n \in 0..MaxFragment, NEW length \in 0..(MaxLength + 1),
           offset + n <= a.len, SetFragment(a, offset, n, length)
    PROVE  BlobInv'
<1> DEFINE e == Expected(offset, length)
           kept == IF offset = 0 THEN [k \in 0..(MaxLength - 1) |-> Zero] ELSE temp_lba
           array == [k \in 0..(e.length - 1) |-> temp_lba'[k]]
           before == IF offset = 0 THEN {} ELSE sent
<1>1. /\ Acceptable(offset, length)
      /\ InSequence(offset, e)
      /\ offset + n <= e.length
      /\ expectedLength' = e.length
      /\ expectedNextOffset' = e.next + n
      /\ temp_lba' = [k \in 0..(MaxLength - 1) |->
                        IF k \in e.next..(e.next + n - 1)
                        THEN <<a, offset + k - e.next>> ELSE kept[k]]
      /\ disk' = IF expectedNextOffset' = e.length /\ Intact(e.length, array)
                 THEN Put(disk, EF_LARGEBLOB, array) ELSE disk
      /\ sent' = before \cup {<<a, k>> : k \in offset..(offset + n - 1)}
      /\ alone' = SentInOrder(a, offset, n, length)
  BY DEF SetFragment
<1>2. /\ e.length \in MinLength..MaxLength
      /\ offset = 0 => e.length = length /\ e.next = 0
      /\ offset # 0 => e.length = expectedLength /\ e.next = expectedNextOffset
      /\ e.next = offset
  BY <1>1, ExpectedLengths DEF InSequence
<1>3. /\ n \in Nat /\ offset \in Nat /\ e.length \in Nat /\ e.length <= MaxLength
      /\ MaxLength \in Nat /\ a.len \in MinLength..MaxLength /\ MinLength \in Nat \ {0}
      /\ e.next = offset /\ offset + n <= e.length /\ offset + n <= a.len
      /\ expectedNextOffset' = offset + n
  BY <1>1, <1>2, Kinds, BlobAssumption
<1>4. /\ kept \in [0..(MaxLength - 1) -> Cell \cup {Zero}]
      /\ before \subseteq Cell
      /\ \A k \in 0..(offset - 1) : kept[k] \in before /\ kept[k][2] = k
  <2>1. CASE offset = 0
    BY <2>1
  <2>2. CASE offset # 0
    BY <1>2, <2>2 DEF BlobInv, BlobTypeOK, BufferIsFresh
  <2> QED BY <2>1, <2>2
<1> HIDE DEF e, kept, before
<1>5. /\ \A k \in offset..(offset + n - 1) : /\ temp_lba'[k] = <<a, k>>
                                             /\ <<a, k>> \in Cell
                                             /\ <<a, k>> \in sent'
      /\ \A k \in 0..(MaxLength - 1) \ offset..(offset + n - 1) : temp_lba'[k] = kept[k]
  <2>1. ASSUME NEW k \in offset..(offset + n - 1)
        PROVE  /\ temp_lba'[k] = <<a, k>> /\ <<a, k>> \in Cell /\ <<a, k>> \in sent'
    <3>1. k \in 0..(MaxLength - 1) /\ k \in 0..(a.len - 1) /\ offset + k - e.next = k
      BY <1>3
    <3> QED BY <1>1, <1>3, <3>1, Kinds
  <2>2. ASSUME NEW k \in 0..(MaxLength - 1) \ offset..(offset + n - 1)
        PROVE  temp_lba'[k] = kept[k]
    BY <1>1, <1>3
  <2> QED BY <2>1, <2>2
<1>6. temp_lba' \in [0..(MaxLength - 1) -> Cell \cup {Zero}]
  <2>1. \A k \in 0..(MaxLength - 1) : temp_lba'[k] \in Cell \cup {Zero}
    BY <1>4, <1>5
  <2>2. temp_lba' = [k \in 0..(MaxLength - 1) |-> temp_lba'[k]]
    BY <1>1
  <2> QED BY <2>1, <2>2
<1>7. sent' \subseteq Cell
  <2>1. {<<a, k>> : k \in offset..(offset + n - 1)} \subseteq Cell
    BY <1>5
  <2> QED BY <1>1, <1>4, <2>1
<1>8. \A k \in 0..(offset + n - 1) : temp_lba'[k] \in sent' /\ temp_lba'[k][2] = k
  <2> TAKE k \in 0..(offset + n - 1)
  <2>1. CASE k \in offset..(offset + n - 1)
    <3>1. temp_lba'[k] = <<a, k>> /\ <<a, k>> \in sent'
      BY <1>5, <2>1
    <3> QED BY <3>1
  <2>2. CASE k \notin offset..(offset + n - 1)
    <3>1. k \in 0..(offset - 1) /\ k \in 0..(MaxLength - 1)
      BY <1>3, <2>2
    <3>2. temp_lba'[k] = kept[k]
      BY <1>5, <2>2, <3>1
    <3> QED BY <1>1, <1>4, <3>1, <3>2
  <2> QED BY <2>1, <2>2
<1>9. /\ IsDisk(disk', Contents) /\ StoredIsWhole'
      /\ offset + n = e.length /\ Intact(e.length, array) => blob' = array
  <2>1. CASE offset + n = e.length /\ Intact(e.length, array)
    <3>1. array \in [0..(e.length - 1) -> Cell]
      BY <1>7, <1>8, <2>1
    <3>2. disk' = Put(disk, EF_LARGEBLOB, array)
      BY <1>1, <1>3, <2>1
    <3> HIDE DEF array
    <3>3. IsDisk(disk, Contents) /\ StoredIsWhole
      BY DEF BlobInv, BlobTypeOK
    <3> QED BY <1>2, <2>1, <3>1, <3>2, <3>3, WrittenIsWhole
  <2>2. CASE ~(offset + n = e.length /\ Intact(e.length, array))
    <3>1. disk' = disk
      BY <1>1, <1>3, <2>2
    <3> QED BY <2>2, <3>1 DEF BlobInv, BlobTypeOK, StoredIsWhole
  <2> QED BY <2>1, <2>2
<1>10. alone' = NoWrite \/ /\ alone' = [of |-> a, upto |-> offset + n]
                           /\ e.length = a.len
                           /\ \A k \in 0..(offset + n - 1) : temp_lba'[k] = <<a, k>>
  <2>1. SUFFICES ASSUME alone' # NoWrite
                 PROVE  /\ alone' = [of |-> a, upto |-> offset + n]
                        /\ e.length = a.len
                        /\ \A k \in 0..(offset - 1) : temp_lba'[k] = <<a, k>>
    <3>1. 0..(offset + n - 1) = 0..(offset - 1) \cup offset..(offset + n - 1)
      BY <1>3
    <3>2. \A k \in offset..(offset + n - 1) : temp_lba'[k] = <<a, k>>
      BY <1>5
    <3> QED BY <3>1, <3>2
  <2>2. alone' = [of |-> a, upto |-> offset + n]
    BY <1>1, <2>1 DEF SentInOrder
  <2>3. CASE offset = 0
    <3>1. length = a.len
      BY <1>1, <2>1, <2>3 DEF SentInOrder
    <3> QED BY <1>2, <2>2, <2>3, <3>1
  <2>4. CASE offset # 0
    <3>1. alone = [of |-> a, upto |-> offset]
      BY <1>1, <2>1, <2>4 DEF SentInOrder
    <3>2. expectedLength = a.len /\ \A k \in 0..(offset - 1) : temp_lba[k] = <<a, k>>
      BY <3>1 DEF BlobInv, Undisturbed
    <3>3. \A k \in 0..(offset - 1) : temp_lba'[k] = temp_lba[k]
      BY <1>3, <1>5, <2>4 DEF kept
    <3> QED BY <1>2, <2>2, <2>4, <3>2, <3>3
  <2> QED BY <2>3, <2>4
<1>11. Undisturbed' /\ UndisturbedWriteSucceeds'
  <2>1. CASE alone' = NoWrite
    BY <2>1, Kinds DEF Undisturbed, UndisturbedWriteSucceeds, NoWrite, EmptyArray
  <2>2. CASE alone' # NoWrite
    <3>1. Undisturbed'
      <4>1. alone'.of = a /\ alone'.upto = offset + n
        BY <1>10, <2>2
      <4>2. expectedLength' = a.len /\ expectedNextOffset' = offset + n
        BY <1>1, <1>3, <1>10, <2>2
      <4>3. \A k \in 0..(offset + n - 1) : temp_lba'[k] = <<a, k>>
        BY <1>10, <2>2
      <4> QED BY <4>1, <4>2, <4>3 DEF Undisturbed
    <3>2. ASSUME offset + n = a.len PROVE blob' = Whole(a)
      <4>1. array = Whole(a)
        BY <1>10, <2>2, <3>2 DEF Whole
      <4>2. Intact(e.length, array)
        BY <1>10, <2>2, <4>1 DEF Intact
      <4> QED BY <1>9, <1>10, <2>2, <3>2, <4>1, <4>2
    <3> QED BY <1>10, <2>2, <3>1, <3>2 DEF UndisturbedWriteSucceeds
  <2> QED BY <2>1, <2>2
<1>12. BlobTypeOK'
  <2>1. alone' \in [of : Array \cup {EmptyArray}, upto : 0..MaxLength]
    <3>1. offset + n \in 0..MaxLength /\ 0 \in 0..MaxLength
      BY <1>3
    <3> QED BY <1>10, <3>1 DEF NoWrite
  <2>2. /\ expectedLength' \in {0} \cup MinLength..MaxLength
        /\ expectedNextOffset' \in 0..expectedLength'
    BY <1>1, <1>2, <1>3
  <2> QED BY <1>6, <1>7, <1>9, <2>1, <2>2 DEF BlobTypeOK
<1>13. BufferIsFresh'
  BY <1>3, <1>8 DEF BufferIsFresh
<1> QED BY <1>9, <1>11, <1>12, <1>13 DEF BlobInv

LEMMA SetStep == ASSUME BlobInv, Set PROVE BlobInv'
BY SetRefusedStep, SetFragmentStep DEF Set

\* core0 writes; handlers read what they read before.
LEMMA DrainStep == ASSUME BlobInv, Drain PROVE BlobInv'
<1>1. IsDisk(disk, Contents) /\ EF_LARGEBLOB \in DOMAIN Contents
  BY Kinds DEF BlobInv, BlobTypeOK
<1>2. LET e == Drained(disk, EF_LARGEBLOB)
      IN  /\ IsDisk(e, Contents)
          /\ Read(e, EF_LARGEBLOB) = Read(disk, EF_LARGEBLOB)
          /\ Copies(e, EF_LARGEBLOB) \subseteq Copies(disk, EF_LARGEBLOB)
  BY <1>1, DrainedDisk DEF Drain
<1>3. /\ IsDisk(disk', Contents) /\ blob' = blob
      /\ Copies(disk, EF_LARGEBLOB)' \subseteq Copies(disk, EF_LARGEBLOB)
  BY <1>2 DEF Drain, blob
<1>4. BlobTypeOK'
  BY <1>3 DEF Drain, BlobInv, BlobTypeOK
<1>5. StoredIsWhole'
  BY <1>3 DEF BlobInv, StoredIsWhole
<1>6. BufferIsFresh' /\ Undisturbed' /\ UndisturbedWriteSucceeds'
  BY <1>3 DEF Drain, BlobInv, BufferIsFresh, Undisturbed, UndisturbedWriteSucceeds
<1> QED BY <1>4, <1>5, <1>6 DEF BlobInv

\* A reset ends every write that is under way, and leaves the variables.
LEMMA ResetStep == ASSUME BlobInv, cbor_reset PROVE BlobInv'
<1>1. IsDisk(disk', Contents) /\ StoredIsWhole'
  BY FreshDisk DEF cbor_reset
<1>2. alone' \in [of : Array \cup {EmptyArray}, upto : 0..MaxLength]
  BY Kinds DEF cbor_reset, NoWrite
<1>3. BlobTypeOK'
  BY <1>1, <1>2 DEF cbor_reset, BlobInv, BlobTypeOK
<1>4. BufferIsFresh'
  BY DEF cbor_reset, BlobInv, BufferIsFresh
<1>5. Undisturbed' /\ UndisturbedWriteSucceeds'
  BY Kinds DEF cbor_reset, Undisturbed, UndisturbedWriteSucceeds, NoWrite, EmptyArray
<1> QED BY <1>1, <1>3, <1>4, <1>5 DEF BlobInv

\* The variables of a device that has just been switched on.
LEMMA FreshVariables ==
    ASSUME StaticInit, sent' = {}, alone' = NoWrite,
           IsDisk(disk', Contents), StoredIsWhole'
    PROVE  BlobInv'
<1>1. BlobTypeOK'
  BY Kinds DEF StaticInit, BlobTypeOK, NoWrite
<1>2. BufferIsFresh' /\ Undisturbed' /\ UndisturbedWriteSucceeds'
  BY Kinds DEF StaticInit, BufferIsFresh, Undisturbed, UndisturbedWriteSucceeds,
               NoWrite, EmptyArray
<1> QED BY <1>1, <1>2 DEF BlobInv

LEMMA PowerCycleStep == ASSUME BlobInv, PowerCycle PROVE BlobInv'
<1>1. IsDisk(disk, Contents) /\ EF_LARGEBLOB \in DOMAIN Contents
  BY Kinds DEF BlobInv, BlobTypeOK
<1>2. LET e == Crashed(disk)
      IN  /\ IsDisk(e, Contents)
          /\ \A f \in DOMAIN Contents : Copies(e, f) \subseteq Copies(disk, f)
  BY <1>1, CrashedDisk
<1>3. IsDisk(disk', Contents) /\ StoredIsWhole'
  BY <1>1, <1>2 DEF PowerCycle, BlobInv, StoredIsWhole
<1> QED BY <1>3, FreshVariables DEF PowerCycle

LEMMA InitInv == ASSUME BlobInit PROVE BlobInv
<1> DEFINE c == [f \in {EF_LARGEBLOB} |-> Whole(EmptyArray)]
<1>1. Whole(EmptyArray) \in [0..(MinLength - 1) -> Cell]
  BY Kinds DEF EmptyArray
<1>2. /\ c = [f \in DOMAIN Contents |-> c[f]]
      /\ \A f \in DOMAIN Contents : c[f] \in Contents[f]
      /\ c[EF_LARGEBLOB] = Whole(EmptyArray)
      /\ disk = Settled(c)
  BY <1>1, Kinds DEF BlobInit
<1> HIDE DEF c
<1>3. IsDisk(disk, Contents) /\ Copies(disk, EF_LARGEBLOB) = {Whole(EmptyArray)}
  <2>1. LET e == Settled(c)
        IN  /\ IsDisk(e, Contents)
            /\ \A f \in DOMAIN Contents : Read(e, f) = c[f] /\ Copies(e, f) = {c[f]}
    BY <1>2, SettledDisk
  <2>2. EF_LARGEBLOB \in DOMAIN Contents
    BY Kinds
  <2> QED BY <1>2, <2>1, <2>2
<1>4. StoredIsWhole
  BY <1>1, <1>3 DEF StoredIsWhole
<1>5. BlobTypeOK
  BY <1>3, Kinds DEF BlobInit, BlobTypeOK, NoWrite
<1>6. BufferIsFresh /\ Undisturbed /\ UndisturbedWriteSucceeds
  BY Kinds DEF BlobInit, BufferIsFresh, Undisturbed, UndisturbedWriteSucceeds,
               NoWrite, EmptyArray
<1> QED BY <1>4, <1>5, <1>6 DEF BlobInv

LEMMA Inductive == BlobSpec => []BlobInv
<1>1. ASSUME BlobInv, [BlobNext]_blobVars PROVE BlobInv'
  <2>1. CASE Set
    BY <1>1, <2>1, SetStep
  <2>2. CASE Drain
    BY <1>1, <2>2, DrainStep
  <2>3. CASE cbor_reset
    BY <1>1, <2>3, ResetStep
  <2>4. CASE PowerCycle
    BY <1>1, <2>4, PowerCycleStep
  <2>5. CASE UNCHANGED blobVars
    BY <1>1, <2>5 DEF blobVars, BlobInv, BlobTypeOK, StoredIsWhole, BufferIsFresh,
                      Undisturbed, UndisturbedWriteSucceeds, blob
  <2> QED BY <1>1, <2>1, <2>2, <2>3, <2>4, <2>5 DEF BlobNext
<1> QED BY <1>1, InitInv, PTL DEF BlobSpec

-----------------------------------------------------------------------------
(* The theorems.                                                           *)

\* What a get returns, and what a power cut may leave, is a whole array or one
\* too short to be checked, whatever fragments arrived (cbor_large_blobs).
THEOREM StoredIsWholeHolds == BlobSpec => []StoredIsWhole
<1>1. BlobInv => StoredIsWhole
  BY DEF BlobInv
<1> QED BY <1>1, Inductive, PTL

\* No byte of a write comes from an earlier one, across refused first
\* fragments, which begin a write all the same, and resets (cbor_large_blobs).
THEOREM BufferIsFreshHolds == BlobSpec => []BufferIsFresh
<1>1. BlobInv => BufferIsFresh
  BY DEF BlobInv
<1> QED BY <1>1, Inductive, PTL

\* Whatever was left behind before, a platform that sends its array in order
\* and is not interrupted has it stored (cbor_large_blobs).
THEOREM UndisturbedWriteSucceedsHolds == BlobSpec => []UndisturbedWriteSucceeds
<1>1. BlobInv => UndisturbedWriteSucceeds
  BY DEF BlobInv
<1> QED BY <1>1, Inductive, PTL

-----------------------------------------------------------------------------
(* Loops.  One that makes G[<<n, x>>] of x for n = l..N goes through the   *)
(* values of h.                                                            *)

IsMap(h, I) == h = [n \in I |-> h[n]]

IsLoop(k, l, N, D, a, G) == /\ k \in Nat /\ l = k + 1 /\ N \in Nat /\ k <= N
                            /\ a \in D
                            /\ G \in [(l..N) \X D -> D]

Turns(h, k, l, N, D, a, G) == /\ IsMap(h, k..N)
                              /\ h[k] = a
                              /\ \A n \in l..N : h[n] = G[<<n, h[n - 1]>>]
                              /\ \A n \in k..N : h[n] \in D

LEMMA Runs ==
    ASSUME NEW k, NEW l, NEW N, NEW D, NEW a, NEW G, IsLoop(k, l, N, D, a, G)
    PROVE  \E h : Turns(h, k, l, N, D, a, G)
<1> USE DEF IsLoop
<1> DEFINE IsRun(h, m) == /\ h = [n \in k..m |-> IF n = k THEN a ELSE G[<<n, h[n - 1]>>]]
                          /\ \A n \in k..m : h[n] \in D
           Bad == {m \in k..N : ~ \E h : IsRun(h, m)}
<1>1. Bad = {}
  <2> SUFFICES ASSUME Bad # {} PROVE FALSE
    OBVIOUS
  <2>1. Bad \in SUBSET Nat
    OBVIOUS
  <2>2. PICK m \in Bad : \A j \in Bad : m <= j
    <3> HIDE DEF Bad
    <3> QED BY <2>1, HasLowest
  <2>3. CASE m = k
    <3>1. IsRun([n \in k..k |-> a], k)
      OBVIOUS
    <3> QED BY <2>2, <2>3, <3>1
  <2>4. CASE m # k
    <3>1. m - 1 \in k..N /\ m - 1 \notin Bad /\ m \in Nat /\ m \in l..N
      <4>1. m \in k..N
        BY <2>2
      <4> HIDE DEF Bad
      <4> QED BY <2>2, <2>4, <4>1
    <3>2. PICK g : IsRun(g, m - 1)
      BY <3>1
    <3> DEFINE f == [n \in k..m |-> IF n = m THEN G[<<m, g[m - 1]>>] ELSE g[n]]
    <3>3. \A n \in k..(m - 1) : /\ g[n] = IF n = k THEN a ELSE G[<<n, g[n - 1]>>]
                                /\ g[n] \in D
      BY <3>2
    <3>4. \A n \in k..m : /\ f[n] = IF n = k THEN a ELSE G[<<n, f[n - 1]>>]
                          /\ f[n] \in D
      <4> TAKE n \in k..m
      <4>1. CASE n = m
        <5>1. n - 1 \in k..m /\ n - 1 # m /\ m - 1 \in k..(m - 1)
          BY <2>4, <3>1, <4>1
        <5>3. g[m - 1] \in D /\ f[n - 1] = g[m - 1]
          BY <3>3, <4>1, <5>1
        <5>2. G[<<m, g[m - 1]>>] \in D
          BY <3>1, <5>3
        <5> QED BY <2>4, <4>1, <5>2, <5>3
      <4>2. CASE n # m
        <5>1. n \in k..(m - 1) /\ (n # k => n - 1 \in k..m /\ n - 1 # m)
          BY <3>1, <4>2
        <5> QED BY <3>3, <4>2, <5>1
      <4> QED BY <4>1, <4>2
    <3>5. f = [n \in k..m |-> f[n]]
      OBVIOUS
    <3> HIDE DEF f
    <3>6. f = [n \in k..m |-> IF n = k THEN a ELSE G[<<n, f[n - 1]>>]]
      BY <3>4, <3>5
    <3>7. IsRun(f, m)
      BY <3>4, <3>6
    <3> QED BY <2>2, <3>7
  <2> QED BY <2>3, <2>4
<1>2. PICK h : IsRun(h, N)
  <2>1. N \in k..N
    OBVIOUS
  <2> QED BY <1>1, <2>1
<1>3. h = [n \in k..N |-> IF n = k THEN a ELSE G[<<n, h[n - 1]>>]] /\ \A n \in k..N : h[n] \in D
  BY <1>2
<1>4. \A n \in k..N : h[n] = IF n = k THEN a ELSE G[<<n, h[n - 1]>>]
  BY <1>3
<1>5. h = [n \in k..N |-> h[n]]
  BY <1>3
<1>6. k \in k..N /\ \A n \in l..N : n \in k..N /\ n # k
  OBVIOUS
<1> QED BY <1>3, <1>4, <1>5, <1>6 DEF IsMap, Turns

\* What holds before a loop and is kept by every turn holds after each of them.
LEMMA HoldsThroughout ==
    ASSUME NEW k \in Nat, NEW N \in Nat, NEW l, l = k + 1, NEW Good,
           k \in Good, \A n \in l..N : n - 1 \in Good => n \in Good
    PROVE  \A n \in k..N : n \in Good
<1> DEFINE Bad == {n \in k..N : n \notin Good}
<1> SUFFICES ASSUME Bad # {} PROVE FALSE
  OBVIOUS
<1>1. Bad \in SUBSET Nat
  OBVIOUS
<1>2. PICK m \in Bad : \A j \in Bad : m <= j
  <2> HIDE DEF Bad
  <2> QED BY <1>1, HasLowest
<1>3. m \in k..N /\ m \notin Good /\ m # k
  BY <1>2
<1>4. m - 1 \in k..N /\ m \in l..N /\ ~(m <= m - 1)
  BY <1>3
<1>5. m - 1 \notin Bad
  <2> HIDE DEF Bad
  <2> QED BY <1>2, <1>4
<1>6. m - 1 \in Good
  BY <1>4, <1>5
<1> QED BY <1>3, <1>4, <1>6

-----------------------------------------------------------------------------
(* Lists of credentials.                                                   *)

In(s, c) == \E i \in 1..Len(s) : s[i] = c

Distinct(s) == \A i, j \in 1..Len(s) : s[i] = s[j] => i = j

\* p puts the places of s into places of t, no two into one.
Places(p, s, t) == /\ p \in [1..Len(s) -> 1..Len(t)]
                   /\ \A i, j \in 1..Len(s) : p[i] = p[j] => i = j
                   /\ \A i \in 1..Len(s) : s[i] = t[p[i]]

Drawn(s, t) == \E p : Places(p, s, t)

LEMMA DrawnIsDrawnFrom ==
    ASSUME NEW S, NEW T, NEW s \in Seq(S), NEW t \in Seq(T), Drawn(s, t)
    PROVE  DrawnFrom(s, t)
<1>1. DOMAIN s = 1..Len(s) /\ DOMAIN t = 1..Len(t)
  OBVIOUS
<1> QED BY <1>1 DEF Drawn, Places, DrawnFrom

LEMMA DrawnFromItself ==
    ASSUME NEW T, NEW s \in Seq(T)
    PROVE  Drawn(s, s)
<1> DEFINE p == [i \in 1..Len(s) |-> i]
<1>1. Places(p, s, s)
  BY DEF Places
<1> QED BY <1>1 DEF Drawn

LEMMA DrawnTwice ==
    ASSUME NEW S, NEW T, NEW U, NEW s \in Seq(S), NEW t \in Seq(T), NEW u \in Seq(U),
           Drawn(s, t), Drawn(t, u)
    PROVE  Drawn(s, u)
<1>1. PICK p : Places(p, s, t)
  BY DEF Drawn
<1>2. PICK q : Places(q, t, u)
  BY DEF Drawn
<1> DEFINE r == [i \in 1..Len(s) |-> q[p[i]]]
<1>3. \A i \in 1..Len(s) : p[i] \in 1..Len(t) /\ r[i] = q[p[i]] /\ q[p[i]] \in 1..Len(u)
  BY <1>1, <1>2 DEF Places
<1>4. r \in [1..Len(s) -> 1..Len(u)]
  BY <1>3
<1>5. ASSUME NEW i \in 1..Len(s), NEW j \in 1..Len(s), r[i] = r[j] PROVE i = j
  <2>1. p[i] = p[j]
    BY <1>2, <1>3, <1>5 DEF Places
  <2> QED BY <1>1, <2>1 DEF Places
<1>6. \A i \in 1..Len(s) : s[i] = u[r[i]]
  BY <1>1, <1>2, <1>3 DEF Places
<1> HIDE DEF r
<1>7. Places(r, s, u)
  BY <1>4, <1>5, <1>6 DEF Places
<1> QED BY <1>7 DEF Drawn

\* The first places of a list come from that list.
LEMMA FrontIsDrawn ==
    ASSUME NEW S, NEW T, NEW s \in Seq(S), NEW t \in Seq(T), Len(s) <= Len(t),
           \A i \in 1..Len(s) : s[i] = t[i]
    PROVE  Drawn(s, t)
<1> DEFINE p == [i \in 1..Len(s) |-> i]
<1>1. Len(s) \in Nat /\ Len(t) \in Nat
  OBVIOUS
<1>2. p \in [1..Len(s) -> 1..Len(t)]
  BY <1>1
<1>3. Places(p, s, t)
  BY <1>2 DEF Places
<1> QED BY <1>3 DEF Drawn

\* Only gives the members of S, each as often as s has it.
LEMMA OnlyIs ==
    ASSUME NEW T, NEW s \in Seq(T), NEW S
    PROVE  LET p == Only(s, S)
           IN  /\ p \in Seq(S) /\ Len(p) <= Len(s)
               /\ \A c : In(p, c) <=> c \in S /\ In(s, c)
               /\ Drawn(p, s)
<1> DEFINE N == Len(s)
           D == Seq(S)
           G == [x \in (1..N) \X D |-> IF s[x[1]] \in S THEN Append(x[2], s[x[1]]) ELSE x[2]]
           IsRun(g) == g = [n \in 0..N |-> IF n = 0 THEN <<>>
                                          ELSE IF s[n] \in S THEN Append(g[n - 1], s[n]) ELSE g[n - 1]]
           h == CHOOSE g : IsRun(g)
<1>1. N \in Nat /\ \A i \in 1..N : s[i] \in T
  OBVIOUS
<1>2. IsRun(h)
  <2>1. G \in [(1..N) \X D -> D]
    OBVIOUS
  <2>2. <<>> \in D /\ 0 \in Nat /\ 0 <= N /\ 1 = 0 + 1 /\ N \in Nat
    BY <1>1
  <2>3. PICK g : /\ IsMap(g, 0..N) /\ g[0] = <<>>
                 /\ \A n \in 1..N : g[n] = G[<<n, g[n - 1]>>]
                 /\ \A n \in 0..N : g[n] \in D
    <3> HIDE DEF G, D, N
    <3>1. IsLoop(0, 1, N, D, <<>>, G)
      BY <2>1, <2>2 DEF IsLoop
    <3>2. PICK g : Turns(g, 0, 1, N, D, <<>>, G)
      BY <3>1, Runs
    <3> QED BY <3>2 DEF Turns
  <2>4. \A n \in 0..N : g[n] = IF n = 0 THEN <<>>
                               ELSE IF s[n] \in S THEN Append(g[n - 1], s[n]) ELSE g[n - 1]
    <3> SUFFICES ASSUME NEW n \in 0..N
                 PROVE  g[n] = IF n = 0 THEN <<>>
                               ELSE IF s[n] \in S THEN Append(g[n - 1], s[n]) ELSE g[n - 1]
      OBVIOUS
    <3>1. CASE n = 0
      BY <2>3, <3>1
    <3>2. CASE n # 0
      <4>1. n \in 1..N /\ n - 1 \in 0..N
        BY <1>1, <3>2
      <4>2. g[n - 1] \in D /\ g[n] = G[<<n, g[n - 1]>>]
        <5> HIDE DEF G, D
        <5> QED BY <2>3, <4>1
      <4> QED BY <3>2, <4>1, <4>2
    <3> QED BY <3>1, <3>2
  <2>5. IsRun(g)
    <3> HIDE DEF G, D, N
    <3>1. g = [n \in 0..N |-> g[n]]
      BY <2>3 DEF IsMap
    <3> QED BY <2>4, <3>1
  <2> HIDE DEF IsRun
  <2> QED BY <2>5
<1>3. Only(s, S) = h[N]
  BY DEF Only
<1> HIDE DEF h
<1>4. h[0] = <<>> /\ \A n \in 1..N : h[n] = IF s[n] \in S THEN Append(h[n - 1], s[n]) ELSE h[n - 1]
  <2>1. \A n \in 0..N : h[n] = IF n = 0 THEN <<>>
                               ELSE IF s[n] \in S THEN Append(h[n - 1], s[n]) ELSE h[n - 1]
    <3> HIDE DEF N
    <3> QED BY <1>2
  <2>2. 0 \in 0..N /\ \A n \in 1..N : n \in 0..N /\ n # 0
    BY <1>1
  <2> HIDE DEF N
  <2> QED BY <2>1, <2>2
<1> DEFINE Fits(n) == /\ h[n] \in D /\ Len(h[n]) <= n
                      /\ \A c : In(h[n], c) <=> c \in S /\ \E i \in 1..n : s[i] = c
                      /\ \E k : Places(k, h[n], s) /\ \A i \in 1..Len(h[n]) : k[i] <= n
<1>5. Fits(0)
  <2>1. h[0] = <<>> /\ Len(h[0]) = 0 /\ h[0] \in D
    BY <1>4
  <2>2. \A i \in 1..0 : FALSE
    OBVIOUS
  <2> DEFINE k == [i \in 1..0 |-> i]
  <2>3. Places(k, h[0], s) /\ \A i \in 1..Len(h[0]) : k[i] <= 0
    BY <2>1, <2>2 DEF Places
  <2> HIDE DEF D, k
  <2> QED BY <2>1, <2>2, <2>3 DEF In
<1>6. ASSUME NEW n \in 1..N, Fits(n - 1) PROVE Fits(n)
  <2> DEFINE p == h[n - 1]
             q == h[n]
  <2>1. p \in D /\ Len(p) \in Nat /\ Len(p) <= n - 1
    BY <1>6
  <2>2. q = IF s[n] \in S THEN Append(p, s[n]) ELSE p
    BY <1>4
  <2>3. \A i : i \in 1..n <=> i \in 1..(n - 1) \/ i = n
    BY <1>1
  <2>4. \A c : In(p, c) <=> c \in S /\ \E i \in 1..(n - 1) : s[i] = c
    BY <1>6
  <2>k. PICK k : Places(k, p, s) /\ \A i \in 1..Len(p) : k[i] <= n - 1
    BY <1>6
  <2>5. CASE s[n] \notin S
    <3>1. q = p
      BY <2>2, <2>5
    <3> HIDE DEF p, q, D
    <3>2. \A c : c \in S => ((\E i \in 1..n : s[i] = c) <=> \E i \in 1..(n - 1) : s[i] = c)
      BY <2>3, <2>5
    <3>3. \A i \in 1..Len(p) : k[i] \in 1..N /\ k[i] <= n
      BY <1>1, <2>k DEF Places
    <3> QED BY <1>1, <2>1, <2>4, <2>k, <3>1, <3>2, <3>3 DEF q
  <2>6. CASE s[n] \in S
    <3>1. q = Append(p, s[n])
      BY <2>2, <2>6
    <3>2. /\ q \in D /\ Len(q) = Len(p) + 1 /\ q[Len(q)] = s[n]
          /\ \A i \in 1..Len(p) : q[i] = p[i]
      <4> HIDE DEF p, q
      <4> QED BY <2>1, <2>6, <3>1, AppendProperties
    <3> HIDE DEF p, q, D, Fits
    <3>3. \A i : i \in 1..Len(q) <=> i \in 1..Len(p) \/ i = Len(q)
      BY <2>1, <3>2
    <3>4. \A c : In(q, c) <=> In(p, c) \/ c = s[n]
      BY <3>2, <3>3 DEF In
    <3>5. \A c : In(q, c) <=> c \in S /\ \E i \in 1..n : s[i] = c
      BY <2>3, <2>4, <2>6, <3>4
    <3> DEFINE m == [i \in 1..Len(q) |-> IF i = Len(q) THEN n ELSE k[i]]
    <3>6. /\ m[Len(q)] = n
          /\ \A i \in 1..Len(p) : m[i] = k[i] /\ k[i] \in 1..N /\ k[i] < n
      BY <1>1, <2>1, <2>k, <3>2 DEF Places
    <3>7. \A i \in 1..Len(q) : m[i] \in 1..N /\ m[i] <= n
      <4> HIDE DEF m
      <4> QED BY <1>1, <3>3, <3>6
    <3>8. m \in [1..Len(q) -> 1..N]
      BY <3>7
    <3> HIDE DEF m
    <3>9. ASSUME NEW i \in 1..Len(q), NEW j \in 1..Len(q), m[i] = m[j] PROVE i = j
      <4>1. \A l \in {i, j} : l # Len(q) => l \in 1..Len(p)
        BY <3>3
      <4>2. k[i] = k[j] /\ i \in 1..Len(p) /\ j \in 1..Len(p) => i = j
        BY <2>k DEF Places
      <4> QED BY <1>1, <3>6, <3>9, <4>1, <4>2
    <3>10. \A i \in 1..Len(q) : q[i] = s[m[i]]
      BY <2>k, <3>2, <3>3, <3>6 DEF Places
    <3>11. Places(m, q, s)
      BY <3>8, <3>9, <3>10 DEF Places, N
    <3>12. Len(q) <= n
      BY <2>1, <3>2
    <3> QED BY <3>2, <3>5, <3>7, <3>11, <3>12 DEF q, Fits
  <2> QED BY <2>5, <2>6
<1>7. Fits(N)
  <2> DEFINE Good == {n \in 0..N : Fits(n)}
  <2> HIDE DEF Fits
  <2>1. 0 \in Good
    BY <1>1, <1>5
  <2>2. \A n \in 1..N : n - 1 \in Good => n \in Good
    BY <1>1, <1>6
  <2>3. N \in 0..N /\ 0 \in Nat /\ 1 = 0 + 1
    BY <1>1
  <2> HIDE DEF Good
  <2>4. N \in Good
    BY <1>1, <2>1, <2>2, <2>3, HoldsThroughout
  <2> QED BY <2>4 DEF Good
<1> QED BY <1>3, <1>7 DEF In, N, Drawn

-----------------------------------------------------------------------------
(* The sort.  Sorted(s, m): the first m places hold nothing older than what *)
(* is behind them.                                                         *)

Created(c) == about[c].created

HaveTimes == \A c \in Cred : Created(c) \in Int

Reordered(t, s) == /\ t \in Seq(Cred) /\ Len(t) = Len(s)
                   /\ \A c : In(t, c) <=> In(s, c)
                   /\ Drawn(t, s)

Sorted(s, m) == \A a, b \in 1..Len(s) : a <= m /\ a < b => Created(s[a]) >= Created(s[b])

\* Exchanged leaves all but two places alone, and the newer one is in front.
LEMMA ExchangedIs ==
    ASSUME HaveTimes, NEW s \in Seq(Cred), NEW i \in 1..Len(s), NEW j \in 1..Len(s), i # j
    PROVE  LET p == Exchanged(s, i, j)
           IN  /\ Reordered(p, s)
               /\ \A a \in 1..Len(s) : a # i /\ a # j => p[a] = s[a]
               /\ (p[i] = s[i] /\ p[j] = s[j]) \/ (p[i] = s[j] /\ p[j] = s[i])
               /\ Created(p[i]) >= Created(s[i]) /\ Created(p[i]) >= Created(p[j])
<1> DEFINE p == Exchanged(s, i, j)
           q == [s EXCEPT ![i] = s[j], ![j] = s[i]]
<1>1. s \in [1..Len(s) -> Cred] /\ Len(s) \in Nat
  OBVIOUS
<1>2. Created(s[i]) \in Int /\ Created(s[j]) \in Int
  BY <1>1 DEF HaveTimes
<1>3. p = IF Created(s[j]) > Created(s[i]) THEN q ELSE s
  BY DEF Exchanged, Created
<1>4. CASE Created(s[j]) > Created(s[i])
  <2>1. p = q
    BY <1>3, <1>4
  <2>2. /\ q \in [1..Len(s) -> Cred]
        /\ q[i] = s[j] /\ q[j] = s[i]
        /\ \A a \in 1..Len(s) : a # i /\ a # j => q[a] = s[a]
    BY <1>1
  <2>3. q \in Seq(Cred) /\ Len(q) = Len(s)
    <3>1. q \in Seq(Cred) /\ DOMAIN q = 1..Len(s)
      BY <1>1, <2>2, SeqDef
    <3> HIDE DEF q
    <3>2. DOMAIN q = 1..Len(q) /\ Len(q) \in Nat
      BY <3>1
    <3> QED BY <1>1, <3>1, <3>2
  <2> HIDE DEF q, p
  <2>4. \A c : In(q, c) <=> In(s, c)
    <3>1. ASSUME NEW c, In(q, c) PROVE In(s, c)
      BY <2>2, <2>3, <3>1 DEF In
    <3>2. ASSUME NEW c, In(s, c) PROVE In(q, c)
      BY <2>2, <2>3, <3>2 DEF In
    <3> QED BY <3>1, <3>2
  <2>5. Drawn(q, s)
    <3> DEFINE m == [a \in 1..Len(s) |-> IF a = i THEN j ELSE IF a = j THEN i ELSE a]
    <3>1. m \in [1..Len(s) -> 1..Len(s)]
      OBVIOUS
    <3>2. \A a, b \in 1..Len(s) : m[a] = m[b] => a = b
      OBVIOUS
    <3>3. \A a \in 1..Len(s) : q[a] = s[m[a]]
      BY <2>2
    <3> HIDE DEF m
    <3>4. Places(m, q, s)
      BY <2>3, <3>1, <3>2, <3>3 DEF Places
    <3> QED BY <3>4 DEF Drawn
  <2>6. Reordered(p, s)
    BY <2>1, <2>3, <2>4, <2>5 DEF Reordered
  <2> QED BY <1>2, <1>4, <2>1, <2>2, <2>6 DEF p
<1>5. CASE ~(Created(s[j]) > Created(s[i]))
  <2>1. p = s
    BY <1>3, <1>5
  <2>2. Reordered(p, s)
    BY <2>1, DrawnFromItself DEF Reordered
  <2> QED BY <1>2, <1>5, <2>1, <2>2
<1> QED BY <1>4, <1>5

LEMMA ReorderedTwice ==
    ASSUME NEW t, NEW u, NEW s \in Seq(Cred), Reordered(t, u), Reordered(u, s)
    PROVE  Reordered(t, s)
<1>1. Drawn(t, s)
  BY DrawnTwice DEF Reordered
<1> QED BY <1>1 DEF Reordered

\* One turn of the outer loop brings the newest of what is left to place i.
LEMMA NewestAtIs ==
    ASSUME HaveTimes, NEW s \in Seq(Cred), NEW i \in 1..Len(s)
    PROVE  /\ Reordered(NewestAt(s, i), s)
           /\ Sorted(s, i - 1) => Sorted(NewestAt(s, i), i)
<1> DEFINE N == Len(s)
           D == {t \in Seq(Cred) : Len(t) = N}
           G == [x \in ((i + 1)..N) \X D |-> Exchanged(x[2], i, x[1])]
           IsRun(g) == g = [j \in i..N |-> IF j = i THEN s ELSE Exchanged(g[j - 1], i, j)]
           h == CHOOSE g : IsRun(g)
<1>1. N \in Nat /\ i \in Nat /\ i <= N /\ i \in i..N /\ N \in i..N
  OBVIOUS
<1>2. \A j \in (i + 1)..N : j \in 1..N /\ j # i /\ j - 1 \in i..N /\ j \in i..N /\ j \in Nat
  BY <1>1
<1>3. IsRun(h)
  <2>1. G \in [((i + 1)..N) \X D -> D]
    <3>1. ASSUME NEW j \in (i + 1)..N, NEW t \in D PROVE Exchanged(t, i, j) \in D
      <4>1. t \in Seq(Cred) /\ Len(t) = N
        OBVIOUS
      <4>2. Reordered(Exchanged(t, i, j), t)
        BY <1>2, <4>1, ExchangedIs
      <4> QED BY <4>1, <4>2 DEF Reordered
    <3> HIDE DEF D, N
    <3> QED BY <3>1
  <2>2. s \in D
    OBVIOUS
  <2>3. PICK g : Turns(g, i, i + 1, N, D, s, G)
    <3> HIDE DEF G, D, N
    <3>1. IsLoop(i, i + 1, N, D, s, G)
      BY <1>1, <2>1, <2>2 DEF IsLoop
    <3> QED BY <3>1, Runs
  <2>4. \A j \in i..N : g[j] = IF j = i THEN s ELSE Exchanged(g[j - 1], i, j)
    <3> SUFFICES ASSUME NEW j \in i..N
                 PROVE  g[j] = IF j = i THEN s ELSE Exchanged(g[j - 1], i, j)
      OBVIOUS
    <3>1. CASE j = i
      BY <2>3, <3>1 DEF Turns
    <3>2. CASE j # i
      <4>1. j \in (i + 1)..N /\ j - 1 \in i..N
        BY <1>1, <3>2
      <4>2. g[j - 1] \in D /\ g[j] = G[<<j, g[j - 1]>>]
        <5> HIDE DEF G, D, N
        <5> QED BY <2>3, <4>1 DEF Turns
      <4>3. G[<<j, g[j - 1]>>] = Exchanged(g[j - 1], i, j)
        <5> HIDE DEF D, N
        <5> QED BY <4>1, <4>2
      <4> QED BY <3>2, <4>2, <4>3
    <3> QED BY <3>1, <3>2
  <2>5. IsRun(g)
    <3> HIDE DEF G, D, N
    <3>1. g = [j \in i..N |-> g[j]]
      BY <2>3 DEF IsMap, Turns
    <3> QED BY <2>4, <3>1
  <2> HIDE DEF IsRun
  <2> QED BY <2>5
<1>4. NewestAt(s, i) = h[N]
  BY DEF NewestAt
<1> HIDE DEF h
<1>5. h[i] = s /\ \A j \in (i + 1)..N : h[j] = Exchanged(h[j - 1], i, j)
  <2>1. \A j \in i..N : h[j] = IF j = i THEN s ELSE Exchanged(h[j - 1], i, j)
    <3> HIDE DEF N
    <3> QED BY <1>3
  <2> HIDE DEF N
  <2> QED BY <1>1, <1>2, <2>1
<1> DEFINE Fits(j) == /\ Reordered(h[j], s)
                      /\ Sorted(s, i - 1) => Sorted(h[j], i - 1)
                      /\ \A b \in (i + 1)..j : Created(h[j][i]) >= Created(h[j][b])
<1>6. Fits(i)
  BY <1>1, <1>5, DrawnFromItself DEF Reordered
<1>7. ASSUME NEW j \in (i + 1)..N, Fits(j - 1) PROVE Fits(j)
  <2> DEFINE t == h[j - 1]
             p == h[j]
  <2>1. t \in Seq(Cred) /\ Len(t) = N /\ Reordered(t, s)
    BY <1>7 DEF Reordered
  <2>2. /\ Sorted(s, i - 1) => Sorted(t, i - 1)
        /\ \A b \in (i + 1)..(j - 1) : Created(t[i]) >= Created(t[b])
    BY <1>7
  <2>3. /\ Reordered(p, t)
        /\ \A a \in 1..N : a # i /\ a # j => p[a] = t[a]
        /\ (p[i] = t[i] /\ p[j] = t[j]) \/ (p[i] = t[j] /\ p[j] = t[i])
        /\ Created(p[i]) >= Created(t[i]) /\ Created(p[i]) >= Created(p[j])
    <3>1. p = Exchanged(t, i, j)
      BY <1>5
    <3> HIDE DEF p, t
    <3> QED BY <1>2, <2>1, <3>1, ExchangedIs
  <2>4. Reordered(p, s)
    <3> HIDE DEF p, t
    <3> QED BY <2>1, <2>3, ReorderedTwice
  <2>5. p \in Seq(Cred) /\ Len(p) = N
    BY <2>4 DEF Reordered
  <2> HIDE DEF p, t
  <2>6. Sorted(s, i - 1) => Sorted(p, i - 1)
    <3> SUFFICES ASSUME Sorted(s, i - 1), NEW a \in 1..N, NEW b \in 1..N, a <= i - 1, a < b
                 PROVE  Created(p[a]) >= Created(p[b])
      BY <2>5 DEF Sorted
    <3>1. a # i /\ a # j /\ a < i /\ a < j /\ i \in 1..N /\ j \in 1..N
      BY <1>1, <1>2
    <3>2. p[a] = t[a]
      BY <2>3, <3>1
    <3>3. PICK k \in 1..N : p[b] = t[k] /\ a < k
      BY <2>3, <3>1
    <3> QED BY <2>1, <2>2, <3>2, <3>3 DEF Sorted
  <2>7. ASSUME NEW b \in (i + 1)..j PROVE Created(p[i]) >= Created(p[b])
    <3>1. CASE b = j
      BY <2>3, <3>1
    <3>2. CASE b # j
      <4>1. b \in (i + 1)..(j - 1) /\ b \in 1..N /\ b # i /\ i \in 1..N
        BY <1>1, <1>2, <3>2
      <4>2. p[b] = t[b] /\ Created(t[i]) >= Created(t[b])
        BY <2>2, <2>3, <3>2, <4>1
      <4>3. Created(p[i]) \in Int /\ Created(t[i]) \in Int /\ Created(t[b]) \in Int
        <5>1. p[i] \in Cred /\ t[i] \in Cred /\ t[b] \in Cred
          BY <2>1, <2>5, <4>1
        <5> QED BY <5>1 DEF HaveTimes
      <4> QED BY <2>3, <4>2, <4>3
    <3> QED BY <3>1, <3>2
  <2> QED BY <2>4, <2>6, <2>7 DEF p
<1>8. Fits(N)
  <2> DEFINE Good == {j \in i..N : Fits(j)}
  <2> HIDE DEF Fits
  <2>1. i \in Good
    BY <1>1, <1>6
  <2>2. \A j \in (i + 1)..N : j - 1 \in Good => j \in Good
    BY <1>2, <1>7
  <2> HIDE DEF Good
  <2>3. N \in Good
    BY <1>1, <2>1, <2>2, HoldsThroughout
  <2> QED BY <2>3 DEF Good
<1>9. Sorted(s, i - 1) => Sorted(h[N], i)
  <2> SUFFICES ASSUME Sorted(s, i - 1), NEW a \in 1..N, NEW b \in 1..N, a <= i, a < b
               PROVE  Created(h[N][a]) >= Created(h[N][b])
    BY <1>8 DEF Sorted, Reordered
  <2>1. CASE a = i
    <3>1. b \in (i + 1)..N
      BY <1>1, <2>1
    <3> QED BY <1>8, <2>1, <3>1
  <2>2. CASE a # i
    <3>1. a <= i - 1
      BY <1>1, <2>2
    <3> QED BY <1>8, <3>1 DEF Sorted, Reordered
  <2> QED BY <2>1, <2>2
<1> QED BY <1>4, <1>8, <1>9

\* The list comes out with the same credentials, the newest first.
LEMMA NewestFirstIs ==
    ASSUME HaveTimes, NEW s \in Seq(Cred)
    PROVE  Reordered(NewestFirst(s), s) /\ Sorted(NewestFirst(s), Len(s))
<1> DEFINE N == Len(s)
           D == {t \in Seq(Cred) : Len(t) = N}
           G == [x \in (1..N) \X D |-> NewestAt(x[2], x[1])]
           IsRun(g) == g = [n \in 0..N |-> IF n = 0 THEN s ELSE NewestAt(g[n - 1], n)]
           h == CHOOSE g : IsRun(g)
<1>1. N \in Nat /\ 0 \in 0..N /\ N \in 0..N
  OBVIOUS
<1>2. \A n \in 1..N : n # 0 /\ n - 1 \in 0..N /\ n \in 0..N /\ n \in Nat
  BY <1>1
<1>3. IsRun(h)
  <2>1. G \in [(1..N) \X D -> D]
    <3>1. ASSUME NEW n \in 1..N, NEW t \in D PROVE NewestAt(t, n) \in D
      <4>1. t \in Seq(Cred) /\ Len(t) = N
        OBVIOUS
      <4>2. Reordered(NewestAt(t, n), t)
        BY <4>1, NewestAtIs
      <4> QED BY <4>1, <4>2 DEF Reordered
    <3> HIDE DEF D, N
    <3> QED BY <3>1
  <2>2. s \in D
    OBVIOUS
  <2>3. PICK g : Turns(g, 0, 1, N, D, s, G)
    <3> HIDE DEF G, D, N
    <3>1. IsLoop(0, 1, N, D, s, G)
      BY <1>1, <2>1, <2>2 DEF IsLoop
    <3> QED BY <3>1, Runs
  <2>4. \A n \in 0..N : g[n] = IF n = 0 THEN s ELSE NewestAt(g[n - 1], n)
    <3> SUFFICES ASSUME NEW n \in 0..N
                 PROVE  g[n] = IF n = 0 THEN s ELSE NewestAt(g[n - 1], n)
      OBVIOUS
    <3>1. CASE n = 0
      BY <2>3, <3>1 DEF Turns
    <3>2. CASE n # 0
      <4>1. n \in 1..N /\ n - 1 \in 0..N
        BY <1>1, <3>2
      <4>2. g[n - 1] \in D /\ g[n] = G[<<n, g[n - 1]>>]
        <5> HIDE DEF G, D, N
        <5> QED BY <2>3, <4>1 DEF Turns
      <4>3. G[<<n, g[n - 1]>>] = NewestAt(g[n - 1], n)
        <5> HIDE DEF D, N
        <5> QED BY <4>1, <4>2
      <4> QED BY <3>2, <4>2, <4>3
    <3> QED BY <3>1, <3>2
  <2>5. IsRun(g)
    <3> HIDE DEF G, D, N
    <3>1. g = [n \in 0..N |-> g[n]]
      BY <2>3 DEF IsMap, Turns
    <3> QED BY <2>4, <3>1
  <2> HIDE DEF IsRun
  <2> QED BY <2>5
<1>4. NewestFirst(s) = h[N]
  BY DEF NewestFirst
<1> HIDE DEF h
<1>5. h[0] = s /\ \A n \in 1..N : h[n] = NewestAt(h[n - 1], n)
  <2>1. \A n \in 0..N : h[n] = IF n = 0 THEN s ELSE NewestAt(h[n - 1], n)
    <3> HIDE DEF N
    <3> QED BY <1>3
  <2> HIDE DEF N
  <2> QED BY <1>1, <1>2, <2>1
<1> DEFINE Fits(n) == Reordered(h[n], s) /\ Sorted(h[n], n)
<1>6. Fits(0)
  BY <1>1, <1>5, DrawnFromItself DEF Reordered, Sorted
<1>7. ASSUME NEW n \in 1..N, Fits(n - 1) PROVE Fits(n)
  <2> DEFINE t == h[n - 1]
             p == h[n]
  <2>1. t \in Seq(Cred) /\ Len(t) = N /\ Reordered(t, s) /\ Sorted(t, n - 1)
    BY <1>7 DEF Reordered
  <2>2. p = NewestAt(t, n)
    BY <1>5
  <2> HIDE DEF p, t
  <2>3. Reordered(p, t) /\ Sorted(p, n)
    BY <2>1, <2>2, NewestAtIs
  <2>4. Reordered(p, s)
    BY <2>1, <2>3, ReorderedTwice
  <2> QED BY <2>3, <2>4 DEF p
<1>8. Fits(N)
  <2> DEFINE Good == {n \in 0..N : Fits(n)}
  <2> HIDE DEF Fits
  <2>1. 0 \in Good
    BY <1>1, <1>6
  <2>2. \A n \in 1..N : n - 1 \in Good => n \in Good
    BY <1>2, <1>7
  <2>3. 0 \in Nat /\ 1 = 0 + 1
    OBVIOUS
  <2> HIDE DEF Good
  <2>4. N \in Good
    BY <1>1, <2>1, <2>2, <2>3, HoldsThroughout
  <2> QED BY <2>4 DEF Good
<1> QED BY <1>4, <1>8

-----------------------------------------------------------------------------
(* What getAssertion finds.                                                *)

IsRequest(q) == q.rp \in RP /\ q.uv \in BOOLEAN /\ q.allow \in AllowLists

\* What the answer to q may be for.
Allowed(c, q) == /\ about[c].rp = q.rp
                 /\ ~Protected(c, q.uv, q.allow)
                 /\ about[c].rk => c \in Stored

StoredOf(r) == {c \in Stored : about[c].rp = r}

\* All that is stored of a relying party, unless that is too much for a list.
HoldsAll(s, q) == /\ q.allow = <<>>
                  /\ Cardinality(StoredOf(q.rp)) <= MaxList
                  => \A c \in StoredOf(q.rp) : ~Protected(c, q.uv, <<>>) => In(s, c)

\* Where the credentials of an answer to q come from.
Source(q) == IF q.allow = <<>> THEN slots ELSE q.allow

IsListFor(s, q) == /\ s \in Seq(Cred) /\ Len(s) <= MaxList
                   /\ Sorted(s, Len(s))
                   /\ Drawn(s, Source(q))
                   /\ \A i \in 1..Len(s) : /\ Allowed(s[i], q)
                                           /\ q.allow = <<>> => s[i] \in Stored
                   /\ HoldsAll(s, q)

SlotsHold == /\ about \in [Cred -> About]
             /\ slots \in [Slots -> {None} \cup Cred]
             /\ \A i, j \in Slots : /\ slots[i] # None => about[slots[i]].rk
                                    /\ slots[i] = slots[j] /\ slots[i] # None => i = j

LEMMA ListsAre ==
    \A n \in Nat : /\ \A s \in UNION {[1..m -> Cred] : m \in 0..n} : s \in Seq(Cred) /\ Len(s) <= n
                   /\ \A s \in Seq(Cred) : Len(s) <= n => s \in UNION {[1..m -> Cred] : m \in 0..n}
<1> SUFFICES ASSUME NEW n \in Nat
             PROVE  /\ \A s \in UNION {[1..m -> Cred] : m \in 0..n} : s \in Seq(Cred) /\ Len(s) <= n
                    /\ \A s \in Seq(Cred) : Len(s) <= n => s \in UNION {[1..m -> Cred] : m \in 0..n}
  OBVIOUS
<1>1. ASSUME NEW s \in UNION {[1..m -> Cred] : m \in 0..n}
      PROVE  s \in Seq(Cred) /\ Len(s) <= n
  <2>1. PICK m \in 0..n : s \in [1..m -> Cred]
    OBVIOUS
  <2>2. s \in Seq(Cred) /\ DOMAIN s = 1..m
    BY <2>1, SeqDef
  <2>3. Len(s) \in Nat /\ DOMAIN s = 1..Len(s)
    BY <2>2
  <2> QED BY <2>1, <2>2, <2>3
<1>2. ASSUME NEW s \in Seq(Cred), Len(s) <= n
      PROVE  s \in UNION {[1..m -> Cred] : m \in 0..n}
  <2>1. s \in [1..Len(s) -> Cred] /\ Len(s) \in 0..n
    BY <1>2
  <2> QED BY <2>1
<1> QED BY <1>1, <1>2

LEMMA RequestHasList ==
    ASSUME NEW allow \in AllowLists
    PROVE  allow \in Seq(Cred) /\ Len(allow) <= MaxList
<1>1. MaxAllow \in Nat /\ MaxAllow <= MaxList /\ MaxList \in Nat
  BY AssertionAssumption
<1>2. allow \in UNION {[1..m -> Cred] : m \in 0..MaxAllow}
  BY DEF AllowLists
<1>3. allow \in Seq(Cred) /\ Len(allow) <= MaxAllow
  BY <1>1, <1>2, ListsAre
<1> QED BY <1>1, <1>3

LEMMA SlotsAreList ==
    ASSUME SlotsHold
    PROVE  slots \in Seq({None} \cup Cred) /\ Len(slots) = MaxSlots /\ DOMAIN slots = 1..MaxSlots
<1>1. MaxSlots \in Nat /\ slots \in [1..MaxSlots -> {None} \cup Cred]
  BY AssertionAssumption DEF SlotsHold, Slots
<1>2. slots \in Seq({None} \cup Cred) /\ DOMAIN slots = 1..MaxSlots
  BY <1>1, SeqDef
<1>3. Len(slots) \in Nat /\ DOMAIN slots = 1..Len(slots)
  BY <1>2
<1> QED BY <1>1, <1>2, <1>3

\* A credential is in no two places of a list that is as long as its set.
LEMMA LengthIs ==
    ASSUME NEW S, NEW s \in Seq(S), Distinct(s), \A c \in S : In(s, c)
    PROVE  IsFiniteSet(S) /\ Cardinality(S) = Len(s)
<1>1. Len(s) \in Nat /\ s \in [1..Len(s) -> S]
  OBVIOUS
<1>2. s \in Surjection(1..Len(s), S) /\ s \in Injection(1..Len(s), S)
  BY <1>1 DEF Surjection, Injection, IsInjective, Distinct, In
<1>3. IsFiniteSet(1..Len(s)) /\ Cardinality(1..Len(s)) = Len(s)
  BY <1>1, FS_Interval
<1> QED BY <1>2, <1>3, FS_Surjection

\* Without an allowList all the slots are looked at; with one what it names.
LEMMA FoundIs ==
    ASSUME SlotsHold, NEW r \in RP, NEW allow \in AllowLists
    PROVE  LET f == Found(r, allow)
           IN  /\ f \in Seq(Cred) /\ Len(f) <= MaxList
               /\ Drawn(f, IF allow = <<>> THEN slots ELSE allow)
               /\ \A i \in 1..Len(f) : Loads(f[i], r) /\ (allow = <<>> => f[i] \in Stored)
               /\ allow = <<>> /\ Cardinality(StoredOf(r)) <= MaxList
                  => \A c \in StoredOf(r) : In(f, c)
<1> DEFINE f == Found(r, allow)
<1>1. MaxList \in Nat /\ MaxList > 0 /\ MaxSlots \in Nat /\ None \notin Cred
  BY AssertionAssumption
<1>2. CASE allow = <<>>
  <2> DEFINE Of == {c \in Cred : about[c].rp = r}
             s == Only(slots, Of)
             n == IF Len(s) > MaxList THEN MaxList ELSE Len(s)
  <2>1. f = SubSeq(s, 1, n)
    BY <1>2 DEF Found
  <2>2. slots \in Seq({None} \cup Cred) /\ Len(slots) = MaxSlots /\ DOMAIN slots = 1..MaxSlots
    BY SlotsAreList
  <2>3. /\ s \in Seq(Of) /\ Len(s) <= MaxSlots
        /\ \A c : In(s, c) <=> c \in Of /\ In(slots, c)
        /\ Drawn(s, slots)
    <3> HIDE DEF Of
    <3> QED BY <2>2, OnlyIs
  <2>4. \A c \in Cred : In(slots, c) <=> c \in Stored
    BY <1>1, <2>2 DEF In, Stored, Slots
  <2>5. Len(s) \in Nat /\ n \in 0..Len(s) /\ n <= MaxList /\ \A i \in 1..Len(s) : s[i] \in Of
    <3> HIDE DEF Of, s
    <3>1. Len(s) \in Nat /\ \A i \in 1..Len(s) : s[i] \in Of
      BY <2>3
    <3> QED BY <1>1, <3>1
  <2> HIDE DEF Of, s, n
  <2>6. f \in Seq(Of) /\ Len(f) = n /\ \A i \in 1..n : f[i] = s[i] /\ i \in 1..Len(s)
    <3>1. \A i \in 1..n : s[i] \in Of /\ i \in 1..Len(s)
      BY <2>5
    <3> HIDE DEF f
    <3> QED BY <2>1, <2>5, <3>1, SubSeqProperties
  <2>7. \A i \in 1..n : f[i] \in Of /\ f[i] \in Stored
    <3> SUFFICES ASSUME NEW i \in 1..n PROVE f[i] \in Of /\ f[i] \in Stored
      OBVIOUS
    <3>1. In(s, s[i]) /\ f[i] = s[i]
      BY <2>6 DEF In
    <3> QED BY <2>3, <2>4, <3>1 DEF Of
  <2>8. f \in Seq(Cred)
    <3>1. Of \subseteq Cred
      BY DEF Of
    <3> HIDE DEF f
    <3> QED BY <2>6, <3>1
  <2>9. Drawn(f, slots)
    <3> HIDE DEF f
    <3>1. Drawn(f, s)
      BY <2>3, <2>5, <2>6, FrontIsDrawn
    <3> QED BY <2>2, <2>3, <2>6, <3>1, DrawnTwice
  <2>10. ASSUME Cardinality(StoredOf(r)) <= MaxList, NEW c \in StoredOf(r) PROVE In(f, c)
    <3>1. \A d : d \in StoredOf(r) <=> In(s, d)
      BY <1>1, <2>3, <2>4 DEF StoredOf, Stored, Of, SlotsHold
    <3>2. \A i \in 1..Len(s) : s[i] \in StoredOf(r)
      BY <3>1 DEF In
    <3>3. s \in Seq(StoredOf(r))
      BY <2>3, <3>2
    <3>0. Distinct(s)
      <4>1. PICK p : Places(p, s, slots)
        BY <2>3 DEF Drawn
      <4>2. ASSUME NEW i \in 1..Len(s), NEW j \in 1..Len(s), s[i] = s[j] PROVE i = j
        <5>1. p[i] \in Slots /\ p[j] \in Slots /\ slots[p[i]] = slots[p[j]] /\ slots[p[i]] \in Cred
          BY <2>2, <2>5, <4>1, <4>2 DEF Places, Slots, Of
        <5>2. p[i] = p[j]
          BY <1>1, <5>1 DEF SlotsHold
        <5> QED BY <4>1, <5>2 DEF Places
      <4> QED BY <4>2 DEF Distinct
    <3>4. Cardinality(StoredOf(r)) = Len(s)
      BY <3>0, <3>1, <3>3, LengthIs
    <3>5. n = Len(s)
      BY <2>5, <2>10, <3>4, <1>1 DEF n
    <3>6. In(s, c)
      BY <3>1, <2>10
    <3> HIDE DEF f
    <3> QED BY <2>6, <3>5, <3>6 DEF In
  <2> HIDE DEF f
  <2> QED BY <1>2, <2>5, <2>6, <2>7, <2>8, <2>9, <2>10 DEF Loads, Of, f
<1>3. CASE allow # <<>>
  <2> DEFINE L == {c \in Cred : Loads(c, r)}
  <2>1. f = Only(allow, L)
    BY <1>3 DEF Found
  <2>2. allow \in Seq(Cred) /\ Len(allow) <= MaxList
    BY RequestHasList
  <2>3. f \in Seq(L) /\ Len(f) <= Len(allow) /\ Drawn(f, allow)
    <3> HIDE DEF L, f
    <3> QED BY <2>1, <2>2, OnlyIs
  <2> HIDE DEF f
  <2>4. Len(f) \in Nat /\ Len(allow) \in Nat /\ \A i \in 1..Len(f) : f[i] \in L
    BY <2>2, <2>3
  <2>5. f \in Seq(Cred)
    BY <2>3
  <2> QED BY <1>1, <1>3, <2>2, <2>3, <2>4, <2>5 DEF f
<1> QED BY <1>2, <1>3

\* The list getAssertion makes is one for its request.
LEMMA RequestListIs ==
    ASSUME SlotsHold, NEW q, IsRequest(q)
    PROVE  IsListFor(NewestFirst(Only(Found(q.rp, q.allow), Eligible(q.rp, q.uv, q.allow))), q)
<1> DEFINE f == Found(q.rp, q.allow)
           E == Eligible(q.rp, q.uv, q.allow)
           g == Only(f, E)
           s == NewestFirst(g)
<1>1. q.rp \in RP /\ q.allow \in AllowLists
  BY DEF IsRequest
<1>2. /\ f \in Seq(Cred) /\ Len(f) <= MaxList /\ Drawn(f, Source(q))
      /\ \A i \in 1..Len(f) : Loads(f[i], q.rp) /\ (q.allow = <<>> => f[i] \in Stored)
      /\ q.allow = <<>> /\ Cardinality(StoredOf(q.rp)) <= MaxList
         => \A c \in StoredOf(q.rp) : In(f, c)
  BY <1>1, FoundIs DEF Source
<1> HIDE DEF f
<1>3. /\ g \in Seq(E) /\ Len(g) <= Len(f)
      /\ \A c : In(g, c) <=> c \in E /\ In(f, c)
      /\ Drawn(g, f)
  <2> HIDE DEF E
  <2> QED BY <1>2, OnlyIs
<1>4. E \subseteq Cred
  BY DEF Eligible
<1> HIDE DEF E, g
<1>5. g \in Seq(Cred) /\ Len(g) <= MaxList
  <2>1. g \in Seq(Cred) /\ Len(g) \in Nat /\ Len(f) \in Nat
    BY <1>2, <1>3, <1>4
  <2> QED BY <1>2, <1>3, <2>1, AssertionAssumption
<1>6. HaveTimes
  BY AssertionAssumption DEF SlotsHold, HaveTimes, Created, About
<1>7. Reordered(s, g) /\ Sorted(s, Len(g))
  BY <1>5, <1>6, NewestFirstIs
<1> HIDE DEF s
<1>8. /\ s \in Seq(Cred) /\ Len(s) = Len(g)
      /\ \A c : In(s, c) <=> c \in E /\ In(f, c)
  BY <1>3, <1>7 DEF Reordered
<1>9. Drawn(s, Source(q))
  <2>1. Drawn(s, f)
    BY <1>2, <1>3, <1>5, <1>7, <1>8, DrawnTwice DEF Reordered
  <2>2. \E T : Source(q) \in Seq(T)
    BY <1>1, SlotsAreList, RequestHasList DEF Source
  <2> QED BY <1>2, <1>8, <2>1, <2>2, DrawnTwice
<1>10. ASSUME NEW i \in 1..Len(s)
      PROVE  Allowed(s[i], q) /\ (q.allow = <<>> => s[i] \in Stored)
  <2>1. In(s, s[i])
    BY DEF In
  <2>2. s[i] \in E /\ In(f, s[i])
    BY <1>8, <2>1
  <2> QED BY <1>2, <2>2 DEF Allowed, E, Eligible, Loads, In
<1>11. HoldsAll(s, q)
  <2> SUFFICES ASSUME q.allow = <<>>, Cardinality(StoredOf(q.rp)) <= MaxList,
                      NEW c \in StoredOf(q.rp), ~Protected(c, q.uv, <<>>)
               PROVE  In(s, c)
    BY DEF HoldsAll
  <2>1. In(f, c)
    BY <1>2
  <2>2. c \in Cred /\ about[c].rp = q.rp
    BY DEF StoredOf, Stored, SlotsHold
  <2>3. c \in E
    BY <2>2 DEF E, Eligible
  <2> QED BY <1>8, <2>1, <2>3
<1>12. IsListFor(s, q)
  BY <1>5, <1>7, <1>8, <1>9, <1>10, <1>11 DEF IsListFor
<1> QED BY <1>12 DEF s, g, f, E

-----------------------------------------------------------------------------
(* The invariant: credsx is a list for the request, and its first          *)
(* credentialCounter credentials have been given.                          *)

ListHolds ==
    credsx # <<>> =>
       /\ IsRequest(request)
       /\ IsListFor(credsx, request)
       /\ credentialCounter \in 1..(Len(credsx) - 1)
       /\ given \in Seq(Cred) /\ Len(given) = credentialCounter
       /\ \A i \in 1..credentialCounter : given[i] = credsx[i]

AssertionInv == /\ AssertionTypeOK
                /\ SlotsHold
                /\ ListHolds
                /\ GivenNewestFirst
                /\ GivenIsAllowed
                /\ AllGiven

LEMMA EmptyIsList == <<>> \in Lists
<1>1. MaxList \in Nat /\ Len(<<>>) <= MaxList /\ <<>> \in Seq(Cred)
  BY AssertionAssumption
<1>2. \A s \in Seq(Cred) : Len(s) <= MaxList => s \in Lists
  BY <1>1, ListsAre DEF Lists
<1> QED BY <1>1, <1>2

LEMMA NothingIsDrawn == \A t : DrawnFrom(<<>>, t)
<1> SUFFICES ASSUME NEW t PROVE DrawnFrom(<<>>, t)
  OBVIOUS
<1> DEFINE p == [i \in {} |-> i]
<1>1. DOMAIN <<>> = {} /\ p \in [DOMAIN <<>> -> DOMAIN t]
  OBVIOUS
<1> QED BY <1>1 DEF DrawnFrom

LEMMA NothingGiven ==
    ASSUME given = <<>>, request = NoRequest
    PROVE  GivenNewestFirst /\ GivenIsAllowed /\ AllGiven
<1>1. DOMAIN given = {}
  OBVIOUS
<1> QED BY <1>1, NothingIsDrawn DEF GivenNewestFirst, GivenIsAllowed, AllGiven

\* As far as a list has been given, what was given is in order and allowed.
LEMMA GivenFromList ==
    ASSUME NEW s, IsListFor(s, request)', SlotsHold', IsRequest(request)', NEW n \in 1..Len(s),
           given' \in Seq(Cred), Len(given') = n, \A i \in 1..n : given'[i] = s[i]
    PROVE  /\ given' \in Lists
           /\ GivenNewestFirst'
           /\ GivenIsAllowed'
           /\ n = Len(s) => AllGiven'
<1>1. s \in Seq(Cred) /\ Len(s) \in Nat /\ Len(s) <= MaxList /\ MaxList \in Nat
  BY AssertionAssumption DEF IsListFor
<1>2. DOMAIN given' = 1..n /\ \A i \in 1..n : i \in 1..Len(s)
  BY <1>1
<1>3. given' \in Lists
  BY <1>1, ListsAre DEF Lists
<1>4. GivenNewestFirst'
  <2>1. ASSUME NEW i \in 1..n, NEW j \in 1..n, i < j
        PROVE  about'[given'[i]].created >= about'[given'[j]].created
    BY <1>1, <1>2, <2>1 DEF IsListFor, Sorted, Created
  <2>2. PICK t : t = Source(request)'
    OBVIOUS
  <2>3. PICK T : t \in Seq(T)
    <3>1. CASE request'.allow = <<>>
      <4>1. MaxSlots \in Nat /\ slots' \in [1..MaxSlots -> {None} \cup Cred]
        BY AssertionAssumption DEF SlotsHold, Slots
      <4>2. slots' \in Seq({None} \cup Cred)
        BY <4>1, SeqDef
      <4> QED BY <2>2, <3>1, <4>2 DEF Source
    <3>2. CASE request'.allow # <<>>
      <4>1. request'.allow \in Seq(Cred)
        BY RequestHasList DEF IsRequest
      <4> QED BY <2>2, <3>2, <4>1 DEF Source
    <3> QED BY <3>1, <3>2
  <2>4. Drawn(given', s)
    BY <1>1, <1>2, FrontIsDrawn
  <2>5. Drawn(s, t)
    BY <2>2 DEF IsListFor
  <2>6. DrawnFrom(given', t)
    BY <1>1, <2>3, <2>4, <2>5, DrawnTwice, DrawnIsDrawnFrom
  <2>7. \A i, j \in DOMAIN given' :
           i < j => about'[given'[i]].created >= about'[given'[j]].created
    BY <1>2, <2>1
  <2>8. DrawnFrom(given', IF request'.allow = <<>> THEN slots' ELSE request'.allow)
    BY <2>2, <2>6 DEF Source
  <2>9. GivenNewestFirst' <=>
          /\ \A i, j \in DOMAIN given' :
                i < j => about'[given'[i]].created >= about'[given'[j]].created
          /\ DrawnFrom(given', IF request'.allow = <<>> THEN slots' ELSE request'.allow)
    BY DEF GivenNewestFirst, DrawnFrom
  <2> QED BY <2>7, <2>8, <2>9
<1>5. GivenIsAllowed'
  <2>1. \A i \in 1..n : Allowed(given[i], request)'
    BY <1>1, <1>2 DEF IsListFor
  <2> QED BY <1>2, <2>1 DEF GivenIsAllowed, Allowed
<1>6. ASSUME n = Len(s) PROVE AllGiven'
  <2> SUFFICES ASSUME request'.allow = <<>>, Cardinality(StoredOf(request.rp)') <= MaxList
               PROVE  (ToSet(given) = {c \in Stored : /\ about[c].rp = request.rp
                                                      /\ ~Protected(c, request.uv, <<>>)})'
    BY DEF AllGiven, StoredOf
  <2>1. ASSUME NEW c \in ToSet(given')
        PROVE  (c \in Stored /\ about[c].rp = request.rp /\ ~Protected(c, request.uv, <<>>))'
    <3>1. PICK i \in 1..Len(s) : c = s[i]
      BY <1>2 DEF ToSet
    <3> QED BY <3>1 DEF IsListFor, Allowed
  <2>2. ASSUME NEW c \in Stored', (about[c].rp = request.rp /\ ~Protected(c, request.uv, <<>>))'
        PROVE  c \in ToSet(given')
    <3>1. PICK i \in 1..Len(s) : s[i] = c
      BY <2>2 DEF IsListFor, HoldsAll, StoredOf, In
    <3>2. given'[i] = c /\ i \in DOMAIN given'
      BY <1>2, <1>6, <3>1
    <3> QED BY <3>2 DEF ToSet
  <2> QED BY <2>1, <2>2
<1> QED BY <1>3, <1>4, <1>5, <1>6

LEMMA AssertionInitInv == AssertionInit => AssertionInv
<1> SUFFICES ASSUME AssertionInit PROVE AssertionInv
  OBVIOUS
<1> USE DEF AssertionInit
<1>1. <<>> \in Lists
  BY EmptyIsList
<1>2. SlotsHold
  BY DEF SlotsHold
<1>3. AssertionTypeOK
  <2>1. 1 \in 0..MaxList
    BY AssertionAssumption
  <2>2. numberOfCredentialsx = Len(credsx)
    OBVIOUS
  <2> QED BY <1>1, <2>1, <2>2 DEF AssertionTypeOK
<1>4. ListHolds
  BY DEF ListHolds
<1> QED BY <1>2, <1>3, <1>4, NothingGiven DEF AssertionInv

\* What ends a list and forgets the request keeps the invariant if the slots
\* are left in order.
LEMMA ForgetStep ==
    ASSUME AssertionInv, SlotsHold', late' \in BOOLEAN,
           credsx' = <<>>, numberOfCredentialsx' = 0, credentialCounter' \in {0, 1},
           request' = NoRequest, given' = <<>>
    PROVE  AssertionInv'
<1>1. <<>> \in Lists
  BY EmptyIsList
<1>2. AssertionTypeOK'
  BY <1>1, AssertionAssumption DEF AssertionTypeOK, SlotsHold
<1>3. ListHolds'
  BY DEF ListHolds
<1>4. (GivenNewestFirst /\ GivenIsAllowed /\ AllGiven)'
  <2>1. DOMAIN given' = {}
    OBVIOUS
  <2> QED BY <2>1, NothingIsDrawn DEF GivenNewestFirst, GivenIsAllowed, AllGiven
<1> QED BY <1>2, <1>3, <1>4 DEF AssertionInv

LEMMA GetAssertionStep ==
    ASSUME AssertionInv, NEW r \in RP, NEW uv \in BOOLEAN, NEW allow \in AllowLists,
           cbor_get_assertion(r, uv, allow)
    PROVE  AssertionInv'
<1> DEFINE q == [rp |-> r, uv |-> uv, allow |-> allow]
<1>s. PICK s : s = NewestFirst(Only(Found(r, allow), Eligible(r, uv, allow)))
  OBVIOUS
<1>n. PICK n : n = IF Len(allow) > 1 /\ (allow = <<>> \/ \E i \in DOMAIN Found(r, allow) :
                                                            about[Found(r, allow)[i]].rk)
                   THEN 1 ELSE Len(s)
  OBVIOUS
<1>1. /\ s # <<>>
      /\ IF n > 1
         THEN credsx' = s /\ numberOfCredentialsx' = n /\ credentialCounter' = 1
         ELSE credsx' = <<>> /\ numberOfCredentialsx' = 0 /\ credentialCounter' = 0
      /\ late' = FALSE /\ request' = q /\ given' = <<s[1]>>
      /\ about' = about /\ slots' = slots
  BY <1>s, <1>n DEF cbor_get_assertion, reset_gna_state
<1>2. SlotsHold /\ IsRequest(q)
  BY DEF AssertionInv, IsRequest
<1>3. IsListFor(s, q)
  BY <1>s, <1>2, RequestListIs
<1>4. n > 1 => n = Len(s)
  BY <1>n
<1>5. allow = <<>> => n = Len(s)
  BY <1>n
<1>6. /\ s \in Seq(Cred) /\ Len(s) \in Nat /\ Len(s) > 0 /\ Len(s) <= MaxList /\ MaxList \in Nat
      /\ s \in Lists
  <2>1. s \in Seq(Cred) /\ Len(s) <= MaxList /\ MaxList \in Nat
    BY <1>3, AssertionAssumption DEF IsListFor
  <2>2. s \in Lists
    BY <2>1, ListsAre DEF Lists
  <2> QED BY <1>1, <2>1, <2>2, EmptySeq
<1>7. IsListFor(s, request)'
  <2>1. StoredOf(request.rp)' = StoredOf(q.rp)
    BY <1>1 DEF StoredOf, Stored
  <2>2. \A c : Allowed(c, request)' <=> Allowed(c, q)
    BY <1>1 DEF Allowed, Protected, Stored
  <2>3. Source(request)' = Source(q)
    BY <1>1 DEF Source
  <2> QED BY <1>1, <1>3, <2>1, <2>2, <2>3 DEF IsListFor, HoldsAll, Sorted, Created, Protected, Stored
<1>8. given' \in Seq(Cred) /\ Len(given') = 1 /\ given'[1] = s[1] /\ 1 \in 1..Len(s)
  BY <1>1, <1>6
<1>9. given' \in Lists /\ GivenNewestFirst' /\ GivenIsAllowed' /\ (1 = Len(s) => AllGiven')
  <2>1. \A i \in 1..1 : given'[i] = s[i]
    BY <1>8
  <2>2. IsRequest(request)' /\ SlotsHold'
    BY <1>1, <1>2 DEF IsRequest, SlotsHold
  <2> QED BY <1>7, <1>8, <2>1, <2>2, GivenFromList
<1>10. AllGiven'
  <2>1. CASE n > 1
    BY <1>1, <1>4, <2>1 DEF AllGiven
  <2>2. CASE ~(n > 1) /\ allow = <<>>
    <3>1. Len(s) = 1
      BY <1>5, <1>6, <2>2
    <3> QED BY <1>9, <3>1
  <2>3. CASE allow # <<>>
    BY <1>1, <2>3 DEF AllGiven
  <2> QED BY <2>1, <2>2, <2>3
<1>11. SlotsHold'
  BY <1>1, <1>2 DEF SlotsHold
<1>12. ListHolds'
  <2>1. CASE n > 1
    <3>1. credsx' = s /\ credentialCounter' = 1 /\ 1 \in 1..(Len(s) - 1)
      BY <1>1, <1>4, <1>6, <2>1
    <3>2. IsRequest(request)'
      BY <1>1, <1>2 DEF IsRequest
    <3>3. \A i \in 1..1 : given'[i] = s[i]
      BY <1>8
    <3> QED BY <1>7, <1>8, <3>1, <3>2, <3>3 DEF ListHolds
  <2>2. CASE ~(n > 1)
    BY <1>1, <2>2 DEF ListHolds
  <2> QED BY <2>1, <2>2
<1>13. AssertionTypeOK'
  <2>1. credsx' \in Lists /\ numberOfCredentialsx' = Len(credsx') /\ credentialCounter' \in 0..MaxList
    <3>1. CASE n > 1
      BY <1>1, <1>4, <1>6, <3>1
    <3>2. CASE ~(n > 1)
      <4>1. 0 \in 0..MaxList
        BY <1>6
      <4>2. credsx' = <<>> /\ numberOfCredentialsx' = 0 /\ credentialCounter' = 0
        BY <1>1, <3>2
      <4> QED BY <4>1, <4>2, EmptyIsList
    <3> QED BY <3>1, <3>2
  <2>2. about' \in [Cred -> About] /\ slots' \in [Slots -> {None} \cup Cred]
    BY <1>1, <1>2 DEF SlotsHold
  <2> QED BY <1>1, <1>9, <2>1, <2>2 DEF AssertionTypeOK
<1> QED BY <1>9, <1>10, <1>11, <1>12, <1>13 DEF AssertionInv

LEMMA GetNextStep ==
    ASSUME AssertionInv, cbor_get_next_assertion
    PROVE  AssertionInv'
<1>s. PICK s : s = credsx
  OBVIOUS
<1>n. PICK n : n = credentialCounter + 1
  OBVIOUS
<1>1. /\ credentialCounter < numberOfCredentialsx
      /\ given' = Append(given, s[n])
      /\ IF n = numberOfCredentialsx
         THEN credsx' = <<>> /\ numberOfCredentialsx' = 0 /\ credentialCounter' = 0
         ELSE credentialCounter' = n /\ credsx' = credsx /\ numberOfCredentialsx' = numberOfCredentialsx
      /\ about' = about /\ slots' = slots /\ late' \in BOOLEAN /\ request' = request
  BY <1>s, <1>n DEF cbor_get_next_assertion, HasNext, reset_gna_state, AssertionInv, AssertionTypeOK
<1>2. AssertionTypeOK /\ SlotsHold /\ ListHolds
  BY DEF AssertionInv
<1>3. s \in Lists /\ numberOfCredentialsx = Len(s) /\ credentialCounter \in 0..MaxList
  BY <1>s, <1>2 DEF AssertionTypeOK
<1>4. s \in Seq(Cred) /\ Len(s) \in Nat /\ Len(s) <= MaxList /\ MaxList \in Nat
  <2>1. MaxList \in Nat
    BY AssertionAssumption
  <2> QED BY <1>3, <2>1, ListsAre DEF Lists
<1>5. s # <<>>
  BY <1>1, <1>3, <1>4
<1>6. /\ IsRequest(request) /\ IsListFor(s, request)
      /\ credentialCounter \in 1..(Len(s) - 1)
      /\ given \in Seq(Cred) /\ Len(given) = credentialCounter
      /\ \A i \in 1..credentialCounter : given[i] = s[i]
  BY <1>s, <1>2, <1>5 DEF ListHolds
<1>7. n \in 2..Len(s) /\ n \in 1..Len(s) /\ s[n] \in Cred /\ n - 1 = credentialCounter
  BY <1>n, <1>4, <1>6
<1>8. /\ given' \in Seq(Cred) /\ Len(given') = n
      /\ \A i \in 1..n : given'[i] = s[i]
  <2>1. /\ given' \in Seq(Cred) /\ Len(given') = n
        /\ given'[n] = s[n] /\ \A i \in 1..credentialCounter : given'[i] = given[i]
    BY <1>1, <1>6, <1>7, AppendProperties
  <2>2. \A i \in 1..n : i = n \/ i \in 1..credentialCounter
    BY <1>7
  <2> QED BY <1>6, <2>1, <2>2
<1>9. IsListFor(s, request)'
  <2>1. StoredOf(request.rp)' = StoredOf(request.rp)
    BY <1>1 DEF StoredOf, Stored
  <2>2. \A c : Allowed(c, request)' <=> Allowed(c, request)
    BY <1>1 DEF Allowed, Protected, Stored
  <2>3. Source(request)' = Source(request)
    BY <1>1 DEF Source
  <2> QED BY <1>1, <1>6, <2>1, <2>2, <2>3 DEF IsListFor, HoldsAll, Sorted, Created, Protected, Stored
<1>10. IsRequest(request)' /\ SlotsHold'
  BY <1>1, <1>2, <1>6 DEF IsRequest, SlotsHold
<1>11. given' \in Lists /\ GivenNewestFirst' /\ GivenIsAllowed' /\ (n = Len(s) => AllGiven')
  BY <1>7, <1>8, <1>9, <1>10, GivenFromList
<1>12. /\ about' \in [Cred -> About] /\ slots' \in [Slots -> {None} \cup Cred]
       /\ late' \in BOOLEAN
       /\ request' \in {NoRequest} \cup [rp : RP, uv : BOOLEAN, allow : AllowLists]
  BY <1>1, <1>2 DEF AssertionTypeOK
<1>13. CASE n = numberOfCredentialsx
  <2>1. credsx' = <<>> /\ numberOfCredentialsx' = 0 /\ credentialCounter' = 0
    BY <1>1, <1>13
  <2>2. ListHolds'
    BY <2>1 DEF ListHolds
  <2>3. AssertionTypeOK'
    <3>1. 0 \in 0..MaxList
      BY <1>4
    <3> QED BY <1>11, <1>12, <2>1, <3>1, EmptyIsList DEF AssertionTypeOK
  <2> QED BY <1>3, <1>11, <1>10, <1>13, <2>2, <2>3 DEF AssertionInv
<1>14. CASE n # numberOfCredentialsx
  <2>1. credentialCounter' = n /\ credsx' = s /\ numberOfCredentialsx' = Len(s)
    BY <1>s, <1>1, <1>3, <1>14
  <2>2. n \in 1..(Len(s) - 1) /\ n \in 0..MaxList
    BY <1>3, <1>4, <1>7, <1>14
  <2>3. ListHolds'
    BY <1>8, <1>9, <1>10, <2>1, <2>2 DEF ListHolds
  <2>4. AssertionTypeOK'
    BY <1>3, <1>11, <1>12, <2>1, <2>2 DEF AssertionTypeOK
  <2>5. AllGiven'
    BY <2>1, <2>2, <1>4 DEF AllGiven
  <2> QED BY <1>11, <1>10, <2>3, <2>4, <2>5 DEF AssertionInv
<1> QED BY <1>13, <1>14

\* A credential goes to an empty slot and is in no other.
LEMMA StoreCredentialStep ==
    ASSUME AssertionInv, NEW c \in Cred, NEW i \in Slots, StoreCredential(c, i)
    PROVE  AssertionInv'
<1>1. /\ about[c].rk /\ c \notin Stored
      /\ slots' = [slots EXCEPT ![i] = c] /\ about' = about
  BY DEF StoreCredential
<1>2. SlotsHold /\ c # None
  BY AssertionAssumption DEF AssertionInv
<1>3. \A j \in Slots : slots[j] # c /\ slots'[j] = IF j = i THEN c ELSE slots[j]
  BY <1>1, <1>2 DEF Stored, SlotsHold
<1>4. SlotsHold'
  BY <1>1, <1>2, <1>3 DEF SlotsHold
<1> QED BY <1>4, ForgetStep DEF StoreCredential, Other, reset_gna_state, AssertionInv, AssertionTypeOK

LEMMA DeleteCredentialStep ==
    ASSUME AssertionInv, NEW i \in Slots, DeleteCredential(i)
    PROVE  AssertionInv'
<1>1. slots' = [slots EXCEPT ![i] = None] /\ about' = about
  BY DEF DeleteCredential
<1>2. SlotsHold
  BY DEF AssertionInv
<1>3. \A j \in Slots : slots'[j] = IF j = i THEN None ELSE slots[j]
  BY <1>1, <1>2 DEF SlotsHold
<1>4. SlotsHold'
  BY <1>1, <1>2, <1>3 DEF SlotsHold
<1> QED BY <1>4, ForgetStep DEF DeleteCredential, Other, reset_gna_state, AssertionInv, AssertionTypeOK

LEMMA UpdateUserStep ==
    ASSUME AssertionInv, NEW i \in Slots, NEW t \in 0..MaxCreated, UpdateUser(i, t)
    PROVE  AssertionInv'
<1>1. /\ slots[i] # None /\ slots' = slots
      /\ about' = [about EXCEPT ![slots[i]].created = t]
  BY DEF UpdateUser
<1>2. SlotsHold /\ slots[i] \in Cred
  BY <1>1 DEF AssertionInv, SlotsHold
<1>3. about' \in [Cred -> About] /\ \A c \in Cred : about'[c].rk = about[c].rk
  BY <1>1, <1>2 DEF SlotsHold, About
<1>4. SlotsHold'
  BY <1>1, <1>2, <1>3, AssertionAssumption DEF SlotsHold
<1> QED BY <1>4, ForgetStep DEF UpdateUser, Other, reset_gna_state, AssertionInv, AssertionTypeOK

LEMMA AssertionSame ==
    ASSUME AssertionInv, late' \in BOOLEAN,
           UNCHANGED <<about, slots, credsx, numberOfCredentialsx, credentialCounter, request, given>>
    PROVE  AssertionInv'
<1>1. /\ about' = about /\ slots' = slots /\ credsx' = credsx
      /\ numberOfCredentialsx' = numberOfCredentialsx /\ credentialCounter' = credentialCounter
      /\ request' = request /\ given' = given
  OBVIOUS
<1>2. /\ StoredOf(request.rp)' = StoredOf(request.rp)
      /\ \A c : Allowed(c, request)' <=> Allowed(c, request)
      /\ Stored' = Stored
      /\ Source(request)' = Source(request)
  BY <1>1 DEF Allowed, Protected, Stored, StoredOf, Source
<1>3. IsListFor(credsx, request) => IsListFor(credsx, request)'
  BY <1>1, <1>2 DEF IsListFor, HoldsAll, Sorted, Created, Protected
<1>4. AssertionTypeOK' /\ SlotsHold'
  BY <1>1 DEF AssertionInv, AssertionTypeOK, SlotsHold
<1>5. ListHolds'
  BY <1>1, <1>3 DEF AssertionInv, ListHolds, IsRequest
<1>6. GivenNewestFirst' /\ GivenIsAllowed' /\ AllGiven'
  BY <1>1, <1>2 DEF AssertionInv, GivenNewestFirst, DrawnFrom, GivenIsAllowed, AllGiven, Protected
<1> QED BY <1>4, <1>5, <1>6 DEF AssertionInv

THEOREM AssertionInvHolds == AssertionSpec => []AssertionInv
<1>1. ASSUME AssertionInv, [AssertionNext]_vars PROVE AssertionInv'
  <2> USE <1>1
  <2>1. ASSUME NEW r \in RP, NEW uv \in BOOLEAN, NEW allow \in AllowLists,
               cbor_get_assertion(r, uv, allow)
        PROVE  AssertionInv'
    BY <2>1, GetAssertionStep
  <2>2. CASE GetAssertionFails \/ GetNextFails \/ Restart
    <3>1. /\ credsx' = <<>> /\ numberOfCredentialsx' = 0 /\ credentialCounter' \in {0, 1}
          /\ request' = NoRequest /\ given' = <<>> /\ late' \in BOOLEAN
          /\ about' = about /\ slots' = slots
      BY <2>2 DEF GetAssertionFails, GetNextFails, Restart, reset_gna_state,
                  AssertionInv, AssertionTypeOK
    <3>2. SlotsHold'
      BY <3>1 DEF SlotsHold, AssertionInv
    <3> QED BY <3>1, <3>2, ForgetStep
  <2>3. CASE cbor_get_next_assertion
    BY <2>3, GetNextStep
  <2>4. ASSUME NEW i \in Slots, NEW c \in Cred, StoreCredential(c, i)
        PROVE  AssertionInv'
    BY <2>4, StoreCredentialStep
  <2>5. ASSUME NEW i \in Slots, DeleteCredential(i)
        PROVE  AssertionInv'
    BY <2>5, DeleteCredentialStep
  <2>6. ASSUME NEW i \in Slots, NEW t \in 0..MaxCreated, UpdateUser(i, t)
        PROVE  AssertionInv'
    BY <2>6, UpdateUserStep
  <2>7. CASE TimePasses
    BY <2>7, AssertionSame DEF TimePasses
  <2>8. CASE UNCHANGED vars
    BY <2>8, AssertionSame DEF vars, listVars, AssertionInv, AssertionTypeOK
  <2> QED BY <1>1, <2>1, <2>2, <2>3, <2>4, <2>5, <2>6, <2>7, <2>8 DEF AssertionNext
<1> QED BY <1>1, AssertionInitInv, PTL DEF AssertionSpec

\* The sort and the counter: whatever request the list was made for, its
\* credentials come newest first, and none more often than the slots or the
\* allowList have it (cbor_get_next_assertion).
THEOREM GivenNewestFirstHolds == AssertionSpec => []GivenNewestFirst
<1>1. AssertionInv => GivenNewestFirst
  BY DEF AssertionInv
<1> QED BY <1>1, AssertionInvHolds, PTL

\* No command that changes a slot leaves the list behind: what is given later
\* is still stored and still allowed (cbor_parse, reset_gna_state).
THEOREM GivenIsAllowedHolds == AssertionSpec => []GivenIsAllowed
<1>1. AssertionInv => GivenIsAllowed
  BY DEF AssertionInv
<1> QED BY <1>1, AssertionInvHolds, PTL

\* Nothing that is stored gets lost between the slots, the list and the
\* answers, if the list can hold it (cbor_get_assertion).
THEOREM AllGivenHolds == AssertionSpec => []AllGiven
<1>1. AssertionInv => AllGiven
  BY DEF AssertionInv
<1> QED BY <1>1, AssertionInvHolds, PTL
=============================================================================
