-------------------------- MODULE DeviceKeyProofs ---------------------------
(***************************************************************************)
(* The device key is never lost and never exchanged for another, for any   *)
(* number of keys and any length of the queue, if different files reach    *)
(* the flash in the order of the calls (InOrder).  Without that AUT_ENABLE *)
(* may empty ef_keydev before ef_keydev_enc is there.                      *)
(*                                                                         *)
(* What the flash holds now says too little: the writes that wait may      *)
(* spoil it.  The invariant is about every moment the flash will go        *)
(* through, and about what is read, which is the last one.                 *)
(***************************************************************************)
EXTENDS DeviceKey, FlashQueueProofs

\* The files c hold only keys of own, and at least one.
Kept(c, own) ==
    /\ \/ c.keydev.key \in own
       \/ c.keydev \in {Nothing, Raw(Zero)}
    /\ c.enc \in {Nothing} \cup {Locked(k) : k \in own}
    /\ c.keydev.key \in own \/ c.enc # Nothing

\* So do the files at every moment of d.
Safe(d, own) ==
    \E ms : /\ IsHistory(d, Content, ms)
            /\ \A i \in 0..Len(d.order) : Kept(ms[i], own)

\* The files that are read hold the key k and no other.
Reads(d, k) ==
    /\ Read(d, "keydev") = Nothing \/ Read(d, "keydev").key = k
    /\ Read(d, "enc") \in {Nothing, Locked(k)}
    /\ Read(d, "keydev") # Nothing \/ Read(d, "enc") # Nothing

Owned == {key} \cup olds

\* check_keydev_encrypted takes the record f for one of format 1.
Garbles(f) == f.format = "raw" /\ f.key \in OddKeys

\* Nothing has spoilt the files, and changePIN will not: a power cut in the
\* middle of AUT_ENABLE may leave a bare key beside the locked one, but the PIN
\* that changePIN needs has sealed it.
Sound == /\ Safe(disk, Owned)
         /\ Reads(disk, key)
         /\ has_keydev_dec /\ ~misled => keydev_dec = key /\ ef_keydev_enc # Nothing
         /\ session /\ ef_keydev_enc # Nothing => ~Garbles(ef_keydev)

KeyInv == /\ InOrder
          /\ KeyTypeOK
          /\ damaged \/ Sound

-----------------------------------------------------------------------------
\* The files and the records in them.
LEMMA Kinds ==
    /\ DOMAIN Content = {"keydev", "enc"}
    /\ Nothing \in Content["keydev"] /\ Nothing \in Content["enc"]
    /\ Unopenable \in Content["enc"]
    /\ \A k \in Key \cup {Zero, Garbled} :
          /\ Raw(k) \in Content["keydev"] /\ Format1(k) \in Content["keydev"]
          /\ Sealed(k) \in Content["keydev"] /\ Locked(k) \in Content["enc"]
          /\ Raw(k) # Nothing /\ Format1(k) # Nothing /\ Sealed(k) # Nothing
          /\ Locked(k) # Nothing
          /\ Raw(k).key = k /\ Format1(k).key = k /\ Sealed(k).key = k /\ Locked(k).key = k
    /\ \A f \in Content["keydev"] : f.key \in Key \cup {Zero, Garbled}
    /\ \A f \in Content["enc"] : f.key \in Key \cup {Zero, Garbled}
    /\ Nothing.key = Zero
  BY DEF Content, Nothing, Unopenable, Raw, Format1, Sealed, Locked

\* A write of one of the two files: every moment stays as it is and the new
\* contents are one moment more.
LEMMA Written ==
    ASSUME InOrder, NEW d, IsDisk(d, Content),
           NEW f \in {"keydev", "enc"}, NEW v \in Content[f]
    PROVE  LET e == Put(d, f, v)
               r == [g \in DOMAIN Content |-> Read(e, g)]
           IN  /\ IsDisk(e, Content)
               /\ Read(e, f) = v
               /\ \A g \in {"keydev", "enc"} \ {f} : Read(e, g) = Read(d, g)
               /\ \A own : Safe(d, own) /\ Kept(r, own) => Safe(e, own)
<1> DEFINE e == Put(d, f, v)
           r == [g \in DOMAIN Content |-> Read(e, g)]
           n == Len(d.order)
<1>1. /\ IsDisk(e, Content)
      /\ Read(e, f) = v
      /\ \A g \in {"keydev", "enc"} \ {f} : Read(e, g) = Read(d, g)
  BY PutDisk, Kinds
<1>2. ASSUME NEW own, Safe(d, own), Kept(r, own) PROVE Safe(e, own)
  <2>1. PICK ms : /\ IsHistory(d, Content, ms)
                  /\ \A i \in 0..n : Kept(ms[i], own)
    BY <1>2 DEF Safe
  <2>2. /\ n \in Nat /\ Len(e.order) = n + 1
        /\ \E now : /\ IsHistory(e, Content, now)
                    /\ \A i \in 0..n : now[i] = ms[i]
                    /\ now[n + 1] = r
    <3>1. f \in DOMAIN Content /\ IsHistory(d, Content, ms)
      BY <2>1, Kinds
    <3> QED BY <3>1, PutHistory
  <2>3. PICK now : /\ IsHistory(e, Content, now)
                   /\ \A i \in 0..n : now[i] = ms[i]
                   /\ now[n + 1] = r
    BY <2>2
  <2> HIDE DEF e, r, n
  <2>4. \A i \in 0..(n + 1) : i \in 0..n \/ i = n + 1
    BY <2>2
  <2>5. \A i \in 0..(n + 1) : Kept(now[i], own)
    BY <1>2, <2>1, <2>3, <2>4
  <2> QED BY <2>2, <2>3, <2>5 DEF Safe
<1> QED BY <1>1, <1>2

\* Files that hold one key, with nothing to write.
LEMMA SettledKeys ==
    ASSUME NEW c, c = [f \in DOMAIN Content |-> c[f]],
           \A f \in DOMAIN Content : c[f] \in Content[f]
    PROVE  /\ IsDisk(Settled(c), Content)
           /\ \A f \in DOMAIN Content : Read(Settled(c), f) = c[f]
           /\ \A own : Kept(c, own) => Safe(Settled(c), own)
<1>1. /\ IsDisk(Settled(c), Content)
      /\ \A f \in DOMAIN Content : Read(Settled(c), f) = c[f]
  BY SettledDisk
<1> DEFINE ms == [i \in 0..0 |-> c]
<1>2. IsHistory(Settled(c), Content, ms)
  BY SettledHistory
<1>3. Len(Settled(c).order) = 0 /\ \A i \in 0..0 : ms[i] = c
  BY DEF Settled
<1> HIDE DEF ms
<1> QED BY <1>1, <1>2, <1>3 DEF Safe

\* More keys may be held.
LEMMA SafeForMore ==
    ASSUME NEW d, NEW own, NEW more, own \subseteq more, Safe(d, own)
    PROVE  Safe(d, more)
<1>1. \A c : Kept(c, own) => Kept(c, more)
  BY DEF Kept
<1> QED BY <1>1 DEF Safe

\* What is read is one of the moments.
LEMMA ReadIsKept ==
    ASSUME NEW k \in Key, NEW own, k \in own, NEW c, DOMAIN c = DOMAIN Content,
           c.keydev = Nothing \/ c.keydev.key = k,
           c.enc \in {Nothing, Locked(k)},
           c.keydev # Nothing \/ c.enc # Nothing
    PROVE  Kept(c, own)
  BY DEF Kept

\* A record of ef_keydev or ef_keydev_enc is overwritten and the files that
\* are then read still hold the key.
LEMMA WrittenSound ==
    ASSUME InOrder, NEW d, IsDisk(d, Content), NEW f \in {"keydev", "enc"},
           NEW v \in Content[f], NEW own, NEW k \in Key, k \in own, Safe(d, own),
           Reads(Put(d, f, v), k)
    PROVE  Safe(Put(d, f, v), own)
<1> DEFINE e == Put(d, f, v)
           r == [g \in DOMAIN Content |-> Read(e, g)]
<1>1. r.keydev = Read(e, "keydev") /\ r.enc = Read(e, "enc") /\ DOMAIN r = DOMAIN Content
  BY Kinds
<1>2. Safe(d, own) /\ Kept(r, own) => Safe(e, own)
  BY Written
<1> HIDE DEF e, r
<1>3. Kept(r, own)
  BY <1>1, ReadIsKept DEF Reads, e
<1> QED BY <1>2, <1>3 DEF e

\* ef_keydev is overwritten and emptied once its key is in ef_keydev_enc.
LEMMA WipedDisk ==
    ASSUME InOrder, NEW d, IsDisk(d, Content)
    PROVE  LET e == Wiped(d)
           IN  /\ IsDisk(e, Content)
               /\ Read(e, "keydev") = Nothing
               /\ Read(e, "enc") = Read(d, "enc")
               /\ \A own, k : k \in own /\ Safe(d, own) /\ Read(d, "enc") = Locked(k)
                              /\ k \in Key
                                => Safe(e, own)
<1>1. CASE Read(d, "keydev") = Nothing
  BY <1>1 DEF Wiped
<1>2. CASE Read(d, "keydev") # Nothing
  <2> DEFINE z == Put(d, "keydev", Raw(Zero))
             e == Put(z, "keydev", Nothing)
             rz == [g \in DOMAIN Content |-> Read(z, g)]
             re == [g \in DOMAIN Content |-> Read(e, g)]
  <2>1. Wiped(d) = e
    BY <1>2 DEF Wiped
  <2>2. /\ IsDisk(z, Content) /\ Read(z, "keydev") = Raw(Zero)
        /\ Read(z, "enc") = Read(d, "enc")
        /\ \A own : Safe(d, own) /\ Kept(rz, own) => Safe(z, own)
    BY Written, Kinds
  <2> HIDE DEF z
  <2>3. /\ IsDisk(e, Content) /\ Read(e, "keydev") = Nothing
        /\ Read(e, "enc") = Read(z, "enc")
        /\ \A own : Safe(z, own) /\ Kept(re, own) => Safe(e, own)
    BY <2>2, Written, Kinds
  <2>4. /\ rz.keydev = Read(z, "keydev") /\ rz.enc = Read(z, "enc")
        /\ re.keydev = Read(e, "keydev") /\ re.enc = Read(e, "enc")
    BY Kinds
  <2> HIDE DEF e, rz, re
  <2>5. ASSUME NEW own, NEW k \in Key, k \in own, Read(d, "enc") = Locked(k)
        PROVE  Kept(rz, own) /\ Kept(re, own)
    BY <2>2, <2>3, <2>4, <2>5, Kinds DEF Kept
  <2> QED BY <2>1, <2>2, <2>3, <2>5
<1> QED BY <1>1, <1>2

\* The disk of check_keydev_encrypted.
LEMMA SealedDisk ==
    ASSUME InOrder, NEW d, IsDisk(d, Content)
    PROVE  LET e == check_keydev_encrypted(d)
               f == Read(d, "keydev")
           IN  /\ IsDisk(e, Content)
               /\ Read(e, "enc") = Read(d, "enc")
               /\ Read(e, "keydev").key = IF Garbles(f) THEN Garbled ELSE f.key
               /\ ~Garbles(Read(e, "keydev"))
               /\ \A own, k : /\ k \in Key /\ k \in own /\ Safe(d, own) /\ Reads(d, k)
                              /\ ~Garbles(f)
                              => Safe(e, own) /\ Reads(e, k)
<1> DEFINE e == check_keydev_encrypted(d)
           f == Read(d, "keydev")
<1>1. f \in Content["keydev"] /\ f.key \in Key \cup {Zero, Garbled}
  BY ReadIsCopy, Kinds
<1>2. \A k : ~Garbles(Sealed(k))
  BY DEF Garbles, Sealed
<1>3. CASE e = d /\ ~Garbles(f)
  BY <1>3
<1>4. CASE e = Put(d, "keydev", Sealed(f.key)) /\ f.format = "format1"
  <2>1. IsDisk(e, Content) /\ Read(e, "keydev") = Sealed(f.key) /\ Read(e, "enc") = Read(d, "enc")
    BY <1>1, <1>4, Written, Kinds
  <2>2. Sealed(f.key) # Nothing /\ Sealed(f.key).key = f.key /\ f # Nothing /\ ~Garbles(f)
    BY <1>1, <1>4, Kinds DEF Nothing, Garbles
  <2>3. ASSUME NEW own, NEW k \in Key, k \in own, Safe(d, own), Reads(d, k)
        PROVE  Safe(e, own) /\ Reads(e, k)
    <3>1. Reads(e, k)
      BY <2>1, <2>2, <2>3 DEF Reads
    <3> QED BY <1>1, <1>4, <2>3, <3>1, WrittenSound, Kinds
  <2> QED BY <1>2, <2>1, <2>2, <2>3
<1>5. CASE e = Put(d, "keydev", Sealed(Garbled)) /\ Garbles(f)
  <2>1. /\ IsDisk(e, Content) /\ Read(e, "keydev") = Sealed(Garbled)
        /\ Read(e, "enc") = Read(d, "enc")
    BY <1>5, Written, Kinds
  <2> QED BY <1>2, <1>5, <2>1, Kinds
<1>6. \/ e = d /\ ~Garbles(f)
      \/ e = Put(d, "keydev", Sealed(f.key)) /\ f.format = "format1"
      \/ e = Put(d, "keydev", Sealed(Garbled)) /\ Garbles(f)
  BY DEF check_keydev_encrypted, Garbles
<1> QED BY <1>3, <1>4, <1>5, <1>6

-----------------------------------------------------------------------------
(* The actions.                                                            *)

LEMMA UsePinStep == ASSUME KeyInv, UsePin PROVE KeyInv'
<1>1. IsDisk(disk, Content) /\ InOrder /\ key \in Key /\ key \in Owned
  BY DEF KeyInv, KeyTypeOK, Owned
<1>2. /\ IsDisk(disk', Content)
      /\ Read(disk', "enc") = ef_keydev_enc
      /\ Garbles(ef_keydev) => Read(disk', "keydev").key = Garbled
      /\ ~Garbles(Read(disk', "keydev"))
      /\ \A own, k : /\ k \in Key /\ k \in own /\ Safe(disk, own) /\ Reads(disk, k)
                     /\ ~Garbles(ef_keydev)
                     => Safe(disk', own) /\ Reads(disk', k)
  BY <1>1, SealedDisk DEF UsePin, ef_keydev, ef_keydev_enc
<1>3. KeyTypeOK'
  BY <1>2 DEF UsePin, KeyInv, KeyTypeOK
<1>4. Owned' = Owned
  BY DEF UsePin, Owned
<1>5. ASSUME ~damaged' PROVE Sound'
  <2>1. ~damaged /\ ~Garbles(ef_keydev)
    BY <1>2, <1>3, <1>5 DEF UsePin, KeyTypeOK
  <2>2. Sound
    BY <2>1 DEF KeyInv
  <2>3. Safe(disk', Owned) /\ Reads(disk', key)
    BY <1>1, <1>2, <2>1, <2>2 DEF Sound
  <2> QED BY <1>2, <1>4, <2>2, <2>3 DEF UsePin, Sound, ef_keydev, ef_keydev_enc
<1> QED BY <1>1, <1>3, <1>5 DEF KeyInv

LEMMA ChangePinStep == ASSUME KeyInv, ChangePin PROVE KeyInv'
<1> DEFINE d == check_keydev_encrypted(disk)
           k == IF has_keydev_dec THEN keydev_dec ELSE Read(d, "keydev").key
           e == Put(d, "keydev", Format1(k))
<1>1. /\ IsDisk(disk, Content) /\ InOrder /\ key \in Key /\ key \in Owned
      /\ keydev_dec \in Key \cup {Zero, Garbled}
  BY DEF KeyInv, KeyTypeOK, Owned
<1>2. /\ IsDisk(d, Content)
      /\ Read(d, "enc") = ef_keydev_enc
      /\ Read(d, "keydev").key = IF Garbles(ef_keydev) THEN Garbled ELSE ef_keydev.key
      /\ \A own : /\ key \in own /\ Safe(disk, own) /\ Reads(disk, key)
                  /\ ~Garbles(ef_keydev)
                  => Safe(d, own) /\ Reads(d, key)
  BY <1>1, SealedDisk DEF ef_keydev, ef_keydev_enc
<1>3. disk' = check_keydev_encrypted(e) /\ load_keydev # Nothing /\ session
  BY DEF ChangePin
<1> HIDE DEF d
<1>4. k \in Key \cup {Zero, Garbled}
  <2>1. Read(d, "keydev") \in Content["keydev"]
    BY <1>2, ReadIsCopy, Kinds
  <2> QED BY <1>1, <2>1, Kinds
<1> HIDE DEF k
<1>5. /\ IsDisk(e, Content) /\ Read(e, "keydev") = Format1(k)
      /\ Read(e, "enc") = ef_keydev_enc /\ ~Garbles(Read(e, "keydev"))
  <2>1. ~Garbles(Format1(k))
    BY DEF Garbles, Format1
  <2>2. Format1(k) \in Content["keydev"]
    BY <1>4, Kinds
  <2>3. /\ IsDisk(e, Content) /\ Read(e, "keydev") = Format1(k)
        /\ Read(e, "enc") = Read(d, "enc")
    BY <1>1, <1>2, <2>2, Written
  <2> QED BY <1>2, <2>1, <2>3
<1> HIDE DEF e
<1>6. /\ IsDisk(disk', Content)
      /\ Read(disk', "enc") = ef_keydev_enc
      /\ Read(disk', "keydev").key = k
      /\ ~Garbles(Read(disk', "keydev"))
      /\ \A own : key \in own /\ Safe(e, own) /\ Reads(e, key)
                     => Safe(disk', own) /\ Reads(disk', key)
  <2>1. Format1(k).key = k
    BY <1>4, Kinds
  <2> QED BY <1>1, <1>3, <1>5, <2>1, SealedDisk
<1>7. KeyTypeOK'
  BY <1>6 DEF ChangePin, KeyInv, KeyTypeOK
<1>8. Owned' = Owned
  BY DEF ChangePin, Owned
<1>9. ASSUME ~damaged' PROVE Sound'
  <2>1. ~damaged /\ ~misled /\ k # Garbled
    BY <1>6, <1>7, <1>9 DEF ChangePin, KeyTypeOK
  <2>2. Sound
    BY <2>1 DEF KeyInv
  <2>3. k = key /\ ~Garbles(ef_keydev)
    <3>1. CASE has_keydev_dec
      BY <1>3, <2>1, <2>2, <3>1 DEF Sound, k
    <3>2. CASE ~has_keydev_dec
      <4>1. ef_keydev # Nothing
        BY <1>3, <3>2 DEF load_keydev
      <4>2. k = ef_keydev.key /\ ~Garbles(ef_keydev)
        BY <1>2, <2>1, <3>2 DEF k
      <4> QED BY <2>2, <4>1, <4>2 DEF Sound, Reads, ef_keydev
    <3> QED BY <3>1, <3>2
  <2>4. Safe(d, Owned) /\ Reads(d, key)
    BY <1>1, <1>2, <2>2, <2>3 DEF Sound
  <2>5. Reads(e, key)
    BY <1>1, <1>2, <1>5, <2>3, <2>4, Kinds DEF Reads
  <2>6. Safe(e, Owned)
    BY <1>1, <1>2, <1>4, <2>4, <2>5, WrittenSound, Kinds DEF e
  <2>7. Safe(disk', Owned) /\ Reads(disk', key)
    BY <1>1, <1>6, <2>5, <2>6
  <2> QED BY <1>6, <1>8, <2>2, <2>7 DEF ChangePin, Sound, ef_keydev, ef_keydev_enc
<1> QED BY <1>1, <1>7, <1>9 DEF KeyInv

LEMMA KeyAgreementStep == ASSUME KeyInv, KeyAgreement PROVE KeyInv'
BY DEF KeyAgreement, KeyInv, KeyTypeOK, Sound, Owned, ef_keydev, ef_keydev_enc

LEMMA AutEnableStep == ASSUME KeyInv, AutEnable PROVE KeyInv'
<1> DEFINE r == LockRecord(ef_keydev)
           e == Put(disk, "enc", r)
<1>1. IsDisk(disk, Content) /\ InOrder /\ key \in Key /\ key \in Owned
  BY DEF KeyInv, KeyTypeOK, Owned
<1>2. ef_keydev.key \in Key \cup {Zero, Garbled}
  BY <1>1, ReadIsCopy, Kinds DEF ef_keydev
<1>3. r \in Content["enc"] /\ r \in {Unopenable, Locked(ef_keydev.key)}
  BY <1>2, Kinds DEF LockRecord
<1> HIDE DEF r
<1>4. /\ IsDisk(e, Content) /\ Read(e, "enc") = r
      /\ Read(e, "keydev") = ef_keydev
  BY <1>1, <1>3, Written DEF ef_keydev
<1> HIDE DEF e
<1>5. /\ IsDisk(disk', Content)
      /\ Read(disk', "keydev") = Nothing
      /\ Read(disk', "enc") = r
      /\ Safe(e, Owned) /\ r = Locked(key) => Safe(disk', Owned)
  BY <1>1, <1>4, WipedDisk DEF AutEnable, e, r
<1>6. KeyTypeOK'
  BY <1>5 DEF AutEnable, KeyInv, KeyTypeOK
<1>7. Owned' = Owned
  BY DEF AutEnable, Owned
<1>8. ASSUME ~damaged' PROVE Sound'
  <2>1. ~damaged /\ r # Unopenable
    BY <1>6, <1>8 DEF AutEnable, KeyTypeOK, r
  <2>2. Sound
    BY <2>1 DEF KeyInv
  <2>3. ef_keydev # Nothing /\ ef_keydev.key = key
    BY <2>2 DEF AutEnable, Sound, Reads, ef_keydev
  <2>4. r = Locked(key) /\ Locked(key) # Nothing
    BY <1>1, <1>3, <2>1, <2>3, Kinds
  <2>5. Reads(e, key)
    BY <1>4, <2>3, <2>4 DEF Reads
  <2>6. Safe(e, Owned)
    BY <1>1, <1>3, <2>2, <2>5, WrittenSound DEF Sound, e
  <2>7. Safe(disk', Owned) /\ Reads(disk', key)
    BY <1>5, <2>4, <2>6 DEF Reads
  <2>8. ~Garbles(Nothing)
    BY DEF Garbles, Nothing
  <2> QED BY <1>5, <1>7, <2>2, <2>4, <2>7, <2>8 DEF AutEnable, Sound, ef_keydev, ef_keydev_enc
<1> QED BY <1>1, <1>6, <1>8 DEF KeyInv

LEMMA AutDisableStep == ASSUME KeyInv, AutDisable PROVE KeyInv'
<1> DEFINE e == Put(disk, "keydev", Raw(keydev_dec))
<1>1. /\ IsDisk(disk, Content) /\ InOrder /\ key \in Key /\ key \in Owned
      /\ keydev_dec \in Key \cup {Zero, Garbled}
  BY DEF KeyInv, KeyTypeOK, Owned
<1>2. /\ IsDisk(e, Content) /\ Read(e, "keydev") = Raw(keydev_dec)
      /\ Read(e, "enc") = ef_keydev_enc
  BY <1>1, Written, Kinds, SMTT(90) DEF ef_keydev_enc
<1>3. disk' = Put(e, "enc", Nothing)
  BY DEF AutDisable, Restored
<1> HIDE DEF e
<1>4. /\ IsDisk(disk', Content) /\ Read(disk', "keydev") = Raw(keydev_dec)
      /\ Read(disk', "enc") = Nothing
  BY <1>1, <1>2, <1>3, Written, Kinds
<1>5. KeyTypeOK'
  BY <1>4 DEF AutDisable, KeyInv, KeyTypeOK
<1>6. Owned' = Owned
  BY DEF AutDisable, Owned
<1>7. ASSUME ~damaged' PROVE Sound'
  <2>1. ~damaged /\ ~misled
    BY <1>5, <1>7 DEF AutDisable, KeyTypeOK
  <2>2. Sound
    BY <2>1 DEF KeyInv
  <2>3. keydev_dec = key
    BY <2>1, <2>2 DEF AutDisable, Sound
  <2>4. Reads(e, key) /\ Reads(disk', key)
    BY <1>1, <1>2, <1>4, <2>2, <2>3, Kinds DEF Sound, Reads, ef_keydev_enc
  <2>5. Safe(e, Owned)
    BY <1>1, <2>2, <2>4, WrittenSound, Kinds DEF Sound, e
  <2>6. Safe(disk', Owned)
    BY <1>1, <1>2, <1>3, <2>4, <2>5, WrittenSound, Kinds
  <2> QED BY <1>4, <1>6, <2>2, <2>4, <2>6 DEF AutDisable, Sound, ef_keydev, ef_keydev_enc
<1> QED BY <1>1, <1>5, <1>7 DEF KeyInv

LEMMA UnlockStep == ASSUME KeyInv, Unlock PROVE KeyInv'
<1>1. /\ IsDisk(disk, Content) /\ key \in Key
      /\ ef_keydev_enc # Nothing /\ ef_keydev_enc.key \in Key \cup {Zero, Garbled}
  <2>1. IsDisk(disk, Content) /\ key \in Key
    BY DEF KeyInv, KeyTypeOK
  <2>2. ef_keydev_enc \in Content["enc"]
    BY <2>1, ReadIsCopy, Kinds DEF ef_keydev_enc
  <2> QED BY <2>1, <2>2, Kinds DEF Unlock, Nothing
<1>2. KeyTypeOK'
  BY <1>1 DEF Unlock, KeyInv, KeyTypeOK
<1>3. ASSUME ~damaged' PROVE Sound'
  <2>1. Sound
    BY <1>3 DEF Unlock, KeyInv
  <2>2. keydev_dec' = key
    BY <1>1, <2>1, Kinds DEF Unlock, Sound, Reads, ef_keydev_enc
  <2> QED BY <1>1, <2>1, <2>2 DEF Unlock, Sound, Owned, ef_keydev, ef_keydev_enc
<1> QED BY <1>2, <1>3 DEF KeyInv

\* The key that was opened before is gone, and misled says so.
LEMMA UnlockFailsStep == ASSUME KeyInv, UnlockFails PROVE KeyInv'
<1>1. KeyTypeOK'
  BY DEF UnlockFails, KeyInv, KeyTypeOK
<1>2. ASSUME ~damaged' PROVE Sound'
  BY <1>2 DEF UnlockFails, KeyInv, Sound, Owned, ef_keydev, ef_keydev_enc
<1> QED BY <1>1, <1>2 DEF KeyInv

LEMMA RestoreBackupStep == ASSUME KeyInv, RestoreBackup PROVE KeyInv'
<1>1. IsDisk(disk, Content) /\ InOrder /\ key \in Key /\ olds \subseteq Key
  BY DEF KeyInv, KeyTypeOK
<1>2. ASSUME NEW r \in Content["enc"], disk' = Wiped(Put(disk, "enc", r))
      PROVE  /\ IsDisk(disk', Content)
             /\ Read(disk', "keydev") = Nothing
             /\ Read(disk', "enc") = r
             /\ \A own, k : k \in own /\ k \in Key /\ Safe(disk, own) /\ Sound /\ r = Locked(k)
                            /\ key \in own => Safe(disk', own)
  <2> DEFINE e == Put(disk, "enc", r)
             c == [g \in DOMAIN Content |-> Read(e, g)]
  <2>1. /\ IsDisk(e, Content) /\ Read(e, "enc") = r /\ Read(e, "keydev") = ef_keydev
        /\ \A own : Safe(disk, own) /\ Kept(c, own) => Safe(e, own)
    BY <1>1, Written DEF ef_keydev
  <2>2. c.keydev = Read(e, "keydev") /\ c.enc = Read(e, "enc")
    BY Kinds
  <2> HIDE DEF e, c
  <2>3. /\ IsDisk(disk', Content)
        /\ Read(disk', "keydev") = Nothing
        /\ Read(disk', "enc") = r
        /\ \A own, k : k \in own /\ Safe(e, own) /\ r = Locked(k) /\ k \in Key
                          => Safe(disk', own)
    BY <1>1, <1>2, <2>1, WipedDisk DEF e
  <2>4. ASSUME NEW own, NEW k \in Key, k \in own, key \in own, Sound, r = Locked(k)
        PROVE  Kept(c, own)
    BY <2>1, <2>2, <2>4, Kinds DEF Kept, Sound, Reads, ef_keydev
  <2> QED BY <2>1, <2>3, <2>4
<1>3. CASE \E k \in Key : disk' = Wiped(Put(disk, "enc", Locked(k))) /\ key' = k
                          /\ UNCHANGED damaged
  <2>1. PICK k \in Key : disk' = Wiped(Put(disk, "enc", Locked(k))) /\ key' = k
                         /\ UNCHANGED damaged
    BY <1>3
  <2>2. /\ IsDisk(disk', Content)
        /\ Read(disk', "keydev") = Nothing
        /\ Read(disk', "enc") = Locked(k)
        /\ \A own : k \in own /\ Safe(disk, own) /\ Sound /\ key \in own
                     => Safe(disk', own)
    BY <1>2, <2>1, Kinds
  <2>3. KeyTypeOK'
    BY <1>1, <2>1, <2>2 DEF RestoreBackup, KeyInv, KeyTypeOK
  <2>4. Owned \subseteq Owned' /\ k \in Owned' /\ key \in Owned'
    BY <2>1 DEF RestoreBackup, Owned
  <2>5. ASSUME ~damaged' PROVE Sound'
    <3>1. Sound
      BY <2>1, <2>5 DEF KeyInv
    <3>2. Safe(disk, Owned')
      BY <2>4, <3>1, SafeForMore DEF Sound
    <3>3. Safe(disk', Owned')
      BY <2>2, <2>4, <3>1, <3>2
    <3>4. Reads(disk', key')
      BY <2>1, <2>2, Kinds DEF Reads
    <3>5. ~Garbles(Nothing)
      BY DEF Garbles, Nothing
    <3> QED BY <2>2, <3>3, <3>4, <3>5 DEF RestoreBackup, Sound, ef_keydev, ef_keydev_enc
  <2> QED BY <1>1, <2>3, <2>5 DEF KeyInv
<1>4. CASE \E r \in {Unopenable, Nothing} : disk' = Wiped(Put(disk, "enc", r)) /\ key' = key
                                            /\ damaged' = TRUE
  <2>1. PICK r \in {Unopenable, Nothing} : disk' = Wiped(Put(disk, "enc", r)) /\ key' = key
                                           /\ damaged' = TRUE
    BY <1>4
  <2>2. IsDisk(disk', Content)
    BY <1>2, <2>1, Kinds
  <2>3. KeyTypeOK'
    BY <1>1, <2>1, <2>2 DEF RestoreBackup, KeyInv, KeyTypeOK
  <2> QED BY <1>1, <2>1, <2>3 DEF KeyInv
<1> QED BY <1>3, <1>4 DEF RestoreBackup

\* A reset makes a new key and leaves nothing to write.
LEMMA ResetStep == ASSUME KeyInv, cbor_reset PROVE KeyInv'
<1> DEFINE c == [keydev |-> Format1(key'), enc |-> Nothing]
<1>1. key' \in Key
  BY DEF cbor_reset, Fresh
<1>2. /\ c = [f \in DOMAIN Content |-> c[f]]
      /\ \A f \in DOMAIN Content : c[f] \in Content[f]
      /\ c.keydev = Format1(key') /\ c.enc = Nothing
  BY <1>1, Kinds
<1> HIDE DEF c
<1>3. disk' = Settled(c)
  BY DEF cbor_reset, c
<1>4. /\ IsDisk(disk', Content)
      /\ Read(disk', "keydev") = Format1(key') /\ Read(disk', "enc") = Nothing
      /\ Kept(c, {key'}) => Safe(disk', {key'})
  BY <1>2, <1>3, SettledKeys, Kinds
<1>5. KeyTypeOK'
  BY <1>1, <1>4 DEF cbor_reset, KeyInv, KeyTypeOK
<1>6. Sound'
  <2>1. Kept(c, {key'}) /\ Reads(disk', key')
    BY <1>1, <1>2, <1>4, Kinds DEF Kept, Reads
  <2>2. Owned' = {key'}
    BY DEF cbor_reset, Owned
  <2> QED BY <1>4, <2>1, <2>2 DEF cbor_reset, Sound, ef_keydev_enc
<1> QED BY <1>5, <1>6 DEF KeyInv

LEMMA DrainStep == ASSUME KeyInv, Drain PROVE KeyInv'
<1>1. PICK f \in DOMAIN disk.pending : CanDrain(disk, f) /\ disk' = Drained(disk, f)
  BY DEF Drain
<1>2. /\ IsDisk(disk, Content) /\ InOrder /\ key \in Key
      /\ f \in DOMAIN Content
  BY DEF KeyInv, KeyTypeOK, IsDisk
<1>3. /\ IsDisk(disk', Content)
      /\ Read(disk', "keydev") = ef_keydev /\ Read(disk', "enc") = ef_keydev_enc
  <2>1. LET e == Drained(disk, f)
        IN  /\ IsDisk(e, Content)
            /\ \A g \in DOMAIN Content : Read(e, g) = Read(disk, g)
    BY <1>1, <1>2, DrainedDisk
  <2> QED BY <1>1, <2>1, Kinds DEF ef_keydev, ef_keydev_enc
<1>4. KeyTypeOK'
  BY <1>3 DEF Drain, KeyInv, KeyTypeOK
<1>5. ASSUME ~damaged' PROVE Sound'
  <2>1. Sound
    BY <1>5 DEF Drain, KeyInv
  <2>2. PICK ms : /\ IsHistory(disk, Content, ms)
                  /\ \A i \in 0..Len(disk.order) : Kept(ms[i], Owned)
    BY <2>1 DEF Sound, Safe
  <2>3. LET e == Drained(disk, f)
            n == Len(disk.order)
        IN  /\ n \in Nat \ {0}
            /\ Len(e.order) = n - 1
            /\ \E now : /\ IsHistory(e, Content, now)
                        /\ \A i \in 0..(n - 1) : now[i] = ms[i + 1]
    BY <1>1, <1>2, <2>2, DrainedHistory
  <2> DEFINE n == Len(disk.order)
  <2>4. /\ n \in Nat \ {0}
        /\ Len(disk'.order) = n - 1
        /\ \E now : /\ IsHistory(disk', Content, now)
                    /\ \A i \in 0..(n - 1) : now[i] = ms[i + 1]
    BY <1>1, <2>3
  <2>5. PICK now : /\ IsHistory(disk', Content, now)
                   /\ \A i \in 0..(n - 1) : now[i] = ms[i + 1]
    BY <2>4
  <2>6. \A i \in 0..(n - 1) : Kept(now[i], Owned)
    <3>1. \A i \in 0..(n - 1) : i + 1 \in 0..n
      BY <2>4
    <3> QED BY <2>2, <2>5, <3>1
  <2>7. Reads(disk', key)
    BY <1>3, <2>1 DEF Sound, Reads, ef_keydev, ef_keydev_enc
  <2>8. CASE ~IsSettled(disk')
    <3>1. Owned' = Owned /\ Safe(disk', Owned)
      BY <2>4, <2>5, <2>6, <2>8 DEF Drain, Owned, Safe
    <3> QED BY <1>3, <2>1, <2>7, <3>1 DEF Drain, Sound, ef_keydev, ef_keydev_enc
  <2>9. CASE IsSettled(disk')
    <3>1. /\ Len(disk'.order) = 0
          /\ now[0] = [g \in DOMAIN Content |-> Read(disk', g)]
      BY <1>3, <2>5, <2>9, HistoryEnds
    <3>2. /\ now[0].keydev = Read(disk', "keydev") /\ now[0].enc = Read(disk', "enc")
          /\ DOMAIN now[0] = DOMAIN Content
      BY <3>1, Kinds
    <3>3. Kept(now[0], {key})
      BY <1>2, <2>7, <3>2, ReadIsKept DEF Reads
    <3>4. Safe(disk', {key})
      <4>1. \A i \in 0..Len(disk'.order) : Kept(now[i], {key})
        BY <3>1, <3>3
      <4> QED BY <2>5, <4>1 DEF Safe
    <3>5. Owned' = {key}
      BY <2>9 DEF Drain, Owned
    <3> QED BY <1>3, <2>1, <2>7, <3>4, <3>5 DEF Drain, Sound, ef_keydev, ef_keydev_enc
  <2> QED BY <2>8, <2>9
<1> QED BY <1>2, <1>4, <1>5 DEF KeyInv

\* The first moment is what a power cut leaves.
LEMMA FlashIsKept ==
    ASSUME IsDisk(disk, Content), NEW own, Safe(disk, own)
    PROVE  Kept(disk.flash, own)
<1>1. PICK ms : /\ IsHistory(disk, Content, ms)
                /\ \A i \in 0..Len(disk.order) : Kept(ms[i], own)
  BY DEF Safe
<1>2. Len(disk.order) \in Nat /\ ms[0] = disk.flash
  <2>1. IsHistory(disk, Content, ms)
    BY <1>1
  <2>2. LET n == Len(disk.order)
        IN  /\ n \in Nat
            /\ ms[0] = disk.flash
            /\ ms[n] = [f \in DOMAIN Content |-> Read(disk, f)]
            /\ \A i \in 1..n : /\ disk.order[i] \in DOMAIN Content
                               /\ disk.pending[disk.order[i]] # <<>>
            /\ IsSettled(disk) => n = 0
    BY <2>1, HistoryEnds
  <2> QED BY <2>2
<1>3. 0 \in 0..Len(disk.order)
  BY <1>2
<1> QED BY <1>1, <1>2, <1>3

\* A power cut: no new key is made unless the files were spoilt.
LEMMA PowerCycleStep == ASSUME KeyInv, PowerCycle PROVE KeyInv'
<1> DEFINE c == disk.flash
           left == Held(c) \cap Owned
<1>1. /\ IsDisk(disk, Content) /\ InOrder /\ key \in Key /\ Owned \subseteq Key
      /\ damaged \in BOOLEAN
  BY DEF KeyInv, KeyTypeOK, Owned
<1>2. /\ IF NeedsKey(c)
         THEN \E k \in Fresh : disk' = Put(Crashed(disk), "keydev", Format1(k))
         ELSE disk' = Crashed(disk)
      /\ key' \in IF left = {} THEN {key} ELSE left
      /\ damaged' = (damaged \/ c.keydev = Raw(Zero) \/ Cardinality(Held(c)) > 1)
      /\ has_keydev_dec' = FALSE /\ session' = FALSE /\ olds' = {}
  BY DEF PowerCycle, Owned
<1>3. /\ c = [f \in DOMAIN Content |-> c[f]]
      /\ \A f \in DOMAIN Content : c[f] \in Content[f]
  BY <1>1 DEF IsDisk
<1> HIDE DEF c
<1>4. /\ IsDisk(Crashed(disk), Content)
      /\ \A f \in DOMAIN Content : Read(Crashed(disk), f) = c[f]
      /\ \A own : Kept(c, own) => Safe(Crashed(disk), own)
  BY <1>3, SettledKeys DEF Crashed, c
<1>5. IsDisk(disk', Content)
  <2>1. CASE NeedsKey(c)
    <3>1. PICK k \in Fresh : disk' = Put(Crashed(disk), "keydev", Format1(k))
      BY <1>2, <2>1
    <3>2. Format1(k) \in Content["keydev"]
      BY Kinds DEF Fresh
    <3> QED BY <1>1, <1>4, <3>1, <3>2, Written
  <2>2. CASE ~NeedsKey(c)
    BY <1>2, <1>4, <2>2
  <2> QED BY <2>1, <2>2
<1>6. key' \in Key /\ damaged' \in BOOLEAN
  BY <1>1, <1>2
<1>7. KeyTypeOK'
  BY <1>5, <1>6 DEF PowerCycle, KeyTypeOK
<1>8. ASSUME ~damaged' PROVE Sound'
  <2>1. ~damaged /\ c.keydev # Raw(Zero) /\ ~(Cardinality(Held(c)) > 1)
    BY <1>1, <1>2, <1>8
  <2>2. Sound
    BY <2>1 DEF KeyInv
  <2>3. Kept(c, Owned)
    BY <1>1, <2>2, FlashIsKept DEF Sound, c
  <2>4. Held(c) # {} /\ Held(c) \subseteq Owned
    <3>1. c.keydev.key \in Owned \/ c.keydev.key = Zero
      BY <2>3, Kinds DEF Kept, Raw
    <3>2. (c.enc = Nothing /\ c.enc.key = Zero) \/ c.enc.key \in Owned
      BY <1>1, <2>3, Kinds DEF Kept
    <3>3. c.keydev.key \in Owned \/ c.enc.key \in Owned
      BY <2>3, <3>2 DEF Kept
    <3> QED BY <1>1, <3>1, <3>2, <3>3, DeviceKeyAssumption DEF Held
  <2>5. \A a, b \in Held(c) : a = b
    <3> SUFFICES ASSUME NEW a \in Held(c), NEW b \in Held(c), a # b PROVE FALSE
      OBVIOUS
    <3>1. Held(c) = {a, b}
      BY DEF Held
    <3>2. Cardinality({a}) = 1 /\ IsFiniteSet({a})
      BY FS_Singleton
    <3>3. Cardinality({a} \cup {b}) = 1 + 1
      BY <3>2, FS_AddElement
    <3>4. {a} \cup {b} = {a, b}
      OBVIOUS
    <3> QED BY <2>1, <3>1, <3>3, <3>4
  <2>6. key' \in Held(c)
    BY <1>2, <2>4
  <2>7. /\ c.keydev = Nothing \/ c.keydev.key = key'
        /\ c.enc \in {Nothing, Locked(key')}
        /\ c.keydev # Nothing \/ c.enc # Nothing
    <3>1. c.keydev.key \in Owned => c.keydev.key \in Held(c)
      BY <1>1 DEF Held
    <3>2. \A k \in Owned : c.enc = Locked(k) => k \in Held(c)
      BY <1>1, Kinds DEF Held
    <3>3. c.keydev # Nothing \/ c.enc # Nothing
      BY <1>1, <2>3, Kinds, DeviceKeyAssumption DEF Kept
    <3>4. c.keydev = Nothing \/ c.keydev.key \in Owned
      BY <2>1, <2>3 DEF Kept
    <3>5. c.enc = Nothing \/ \E k \in Owned : c.enc = Locked(k)
      BY <2>3 DEF Kept
    <3> QED BY <2>5, <2>6, <3>1, <3>2, <3>3, <3>4, <3>5
  <2>8. disk' = Crashed(disk)
    BY <1>2, <2>7 DEF NeedsKey
  <2>9. Kept(c, {key'})
    BY <1>3, <1>6, <2>7, ReadIsKept
  <2>10. Safe(disk', {key'}) /\ Reads(disk', key')
    BY <1>4, <2>7, <2>8, <2>9, Kinds DEF Reads
  <2>11. Owned' = {key'}
    BY <1>2 DEF Owned
  <2> QED BY <1>2, <2>10, <2>11 DEF Sound
<1> QED BY <1>1, <1>7, <1>8 DEF KeyInv

LEMMA InitInv == ASSUME InOrder, Init PROVE KeyInv
<1>1. PICK f \in {Format1(key), Raw(key)} : disk = Settled([keydev |-> f, enc |-> Nothing])
  BY DEF Init
<1> DEFINE c == [keydev |-> f, enc |-> Nothing]
<1>2. key \in Key /\ olds = {} /\ Owned = {key}
  BY DEF Init, Owned
<1>3. /\ c = [g \in DOMAIN Content |-> c[g]]
      /\ \A g \in DOMAIN Content : c[g] \in Content[g]
      /\ c.keydev = f /\ c.enc = Nothing /\ f # Nothing /\ f.key = key
  BY <1>2, Kinds
<1> HIDE DEF c
<1>4. disk = Settled(c)
  BY <1>1 DEF c
<1>5. /\ IsDisk(disk, Content)
      /\ Read(disk, "keydev") = f /\ Read(disk, "enc") = Nothing
      /\ Kept(c, {key}) => Safe(disk, {key})
  BY <1>3, <1>4, SettledKeys, Kinds
<1>6. KeyTypeOK
  BY <1>2, <1>5 DEF Init, KeyTypeOK
<1>7. Kept(c, {key}) /\ Reads(disk, key)
  BY <1>3, <1>5 DEF Kept, Reads
<1> QED BY <1>2, <1>5, <1>6, <1>7 DEF Init, KeyInv, Sound

LEMMA Inductive == InOrder /\ Spec => []KeyInv
<1>1. ASSUME KeyInv, [Next]_keyVars PROVE KeyInv'
  <2>1. CASE UNCHANGED keyVars
    BY <1>1, <2>1 DEF keyVars, KeyInv, KeyTypeOK, Sound, Owned, ef_keydev, ef_keydev_enc
  <2>2. CASE Next
    BY <1>1, <2>2, UsePinStep, ChangePinStep, KeyAgreementStep, AutEnableStep,
       AutDisableStep, UnlockStep, UnlockFailsStep, RestoreBackupStep, ResetStep,
       DrainStep, PowerCycleStep DEF Next
  <2> QED BY <1>1, <2>1, <2>2
<1>2. InOrder /\ Init => KeyInv
  BY InitInv
<1> QED BY <1>1, <1>2, PTL DEF Spec

-----------------------------------------------------------------------------
(* The theorems.                                                           *)

\* load_keydev gives the device key or an error, never another key.
THEOREM RightKeyOrNoneHolds == InOrder /\ Spec => []RightKeyOrNone
<1>1. ASSUME KeyInv PROVE RightKeyOrNone
  <2> SUFFICES ASSUME ~misled, ~damaged, load_keydev # Nothing
               PROVE  load_keydev.key = key
    BY DEF RightKeyOrNone
  <2>1. Sound
    BY <1>1 DEF KeyInv
  <2>2. CASE has_keydev_dec
    BY <2>1, <2>2 DEF Sound, load_keydev, Nothing
  <2>3. CASE ~has_keydev_dec
    <3>1. ef_keydev # Nothing /\ load_keydev = [ef_keydev EXCEPT !.format = "loaded"]
      BY <2>3 DEF load_keydev
    <3>2. ef_keydev.key = key
      BY <2>1, <3>1 DEF Sound, Reads, ef_keydev
    <3>3. load_keydev.key = ef_keydev.key
      BY <3>1
    <3> QED BY <3>2, <3>3
  <2> QED BY <2>2, <2>3
<1> QED BY <1>1, Inductive, PTL

\* No power cut finds the flash without the key, whatever command it cuts off
\* (cbor_config.c, cbor_vendor.c and encrypt_keydev_f1).
THEOREM KeySurvivesHolds == InOrder /\ Spec => []KeySurvives
<1>1. ASSUME KeyInv PROVE KeySurvives
  <2> SUFFICES ASSUME ~damaged PROVE Held(disk.flash) \cap Owned # {}
    BY DEF KeySurvives, Owned
  <2>1. Kept(disk.flash, Owned) /\ Owned \subseteq Key
    BY <1>1, FlashIsKept DEF KeyInv, KeyTypeOK, Sound, Owned
  <2>2. disk.flash.keydev.key \in Owned \/ disk.flash.enc.key \in Owned
    BY <2>1, Kinds DEF Kept
  <2> QED BY <2>1, <2>2 DEF Held
<1> QED BY <1>1, Inductive, PTL
=============================================================================
