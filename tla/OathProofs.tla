----------------------------- MODULE OathProofs ------------------------------
(***************************************************************************)
(* The safety properties of Oath, for every number of slots, retries and   *)
(* keys and every order of the flash writes.                               *)
(***************************************************************************)
EXTENDS Oath, FlashQueueProofs

-----------------------------------------------------------------------------
(* The inductive invariant.  The properties speak of what is read; they    *)
(* survive a power cut because of what they say here of every version of a *)
(* file.  A key never leaves the slot it was put into, and the last version *)
(* of it there, be it in the flash or still to be written, is ahead of     *)
(* every imf that was answered for.                                        *)

Version(i) == Versions(disk, i)

\* A check of the PIN that may compare it has paid with a retry.
CheckIsPaid ==
    pc # "idle" => /\ wrong + 1 <= MaxRetries
                   /\ file_has_data(EF_OTP_PIN) =>
                        wrong + 1 + file(EF_OTP_PIN) <= MaxRetries

Holds(v, k) == v # NoData /\ v.key = k

LastImfMovesOn ==
    \A i \in Slots : \A n \in 1..Len(Version(i)) :
        LET c == Version(i)[n]
        IN  /\ c # NoData /\ c.hotp /\ c.key \notin torn
            /\ \A m \in (n + 1)..Len(Version(i)) : ~Holds(Version(i)[m], c.key)
            => c.imf >= next[c.key]

KeyStaysInSlot ==
    \A i, j \in Slots : i # j =>
        \A n \in 1..Len(Version(i)), m \in 1..Len(Version(j)) :
            Version(i)[n] # NoData => ~Holds(Version(j)[m], Version(i)[n].key)

KeysArePut ==
    /\ \A i \in Slots : \A n \in 1..Len(Version(i)) :
          Version(i)[n] # NoData => Version(i)[n].key <= keys
    /\ \A k \in 1..MaxKeys : k > keys => next[k] = 0

SlotInv == LastImfMovesOn /\ KeyStaysInSlot /\ KeysArePut

OathInv == /\ OathTypeOK
           /\ OtpPinBudget
           /\ CheckIsPaid
           /\ CodeIsProved
           /\ NoPlainKey
           /\ SlotInv

-----------------------------------------------------------------------------
\* The files and what they may hold.
LEMMA Kinds ==
    /\ DOMAIN Contents = Files
    /\ Slots \subseteq Files /\ Slots \subseteq Nat
    /\ EF_OTP_PIN \in Files \ Slots
    /\ EF_OATH_CODE \in Files \ Slots
    /\ EF_OATH_CODE # EF_OTP_PIN
    /\ \A f \in Files : f \in Slots \/ f = EF_OTP_PIN \/ f = EF_OATH_CODE
    /\ Contents[EF_OTP_PIN] = {NoData} \cup 0..MaxRetries
    /\ Contents[EF_OATH_CODE] = {NoData} \cup CodeKey
    /\ \A i \in Slots : Contents[i] = {NoData} \cup Credential
    /\ 1 \in Slots
  BY OathAssumption DEF Contents, Files, Slots, EF_OTP_PIN, EF_OATH_CODE

LEMMA FilesAreFinite == IsFiniteSet(Files)
<1>1. IsFiniteSet(Slots)
  BY OathAssumption, FS_Interval DEF Slots
<1>2. IsFiniteSet((Slots \cup {EF_OTP_PIN}) \cup {EF_OATH_CODE})
  BY <1>1, FS_AddElement
<1>3. Files = (Slots \cup {EF_OTP_PIN}) \cup {EF_OATH_CODE}
  BY DEF Files
<1> QED BY <1>2, <1>3

\* What the handlers read.
LEMMA ReadFiles ==
    ASSUME IsDisk(disk, Contents)
    PROVE  /\ \A f \in Files : file(f) \in Contents[f] /\ file(f) \in Copies(disk, f)
           /\ \A i \in Slots : file_has_data(i) => file(i) \in Credential
           /\ file_has_data(EF_OTP_PIN) => file(EF_OTP_PIN) \in 0..MaxRetries
           /\ file_has_data(EF_OATH_CODE) => file(EF_OATH_CODE) \in CodeKey
  BY Kinds, ReadIsCopy DEF file, file_has_data

LEMMA SlotVersions ==
    ASSUME IsDisk(disk, Contents), NEW i \in Slots
    PROVE  /\ Len(Version(i)) \in Nat \ {0}
           /\ Version(i) \in Seq({NoData} \cup Credential)
           /\ \A n \in 1..Len(Version(i)) : Version(i)[n] \in {NoData} \cup Credential
           /\ file(i) = Version(i)[Len(Version(i))]
           /\ Version(i)[1] = disk.flash[i]
  BY Kinds, VersionsOf DEF Version, file

\* find_oath_cred finds a credential of that name, and a new one gets a slot
\* that has no file.
LEMMA LowestSlot ==
    ASSUME NEW S \in SUBSET Slots, S # {}
    PROVE  Lowest(S) \in S
<1>1. \E m \in S : \A k \in S : m <= k
  BY Kinds, HasLowest
<1> QED BY <1>1 DEF Lowest

LEMMA FoundSlot ==
    ASSUME NEW n, Named(n) # {}
    PROVE  /\ find_oath_cred(n) \in Slots
           /\ file_has_data(find_oath_cred(n))
<1>1. Named(n) \subseteq Present /\ Present \subseteq Slots
  BY DEF Named, Present
<1>2. find_oath_cred(n) \in Present
  BY <1>1, LowestSlot DEF find_oath_cred
<1> QED BY <1>1, <1>2 DEF Present

-----------------------------------------------------------------------------
(* The slots.                                                              *)

\* The slots of W get new versions of the credentials that are there, or are
\* emptied; only keys of those are answered for.
LEMMA SameKeys ==
    ASSUME OathInv, IsDisk(disk', Contents), keys' = keys, torn' = torn,
           next' \in [1..MaxKeys -> 0..MaxImf],
           NEW W \in SUBSET Slots, NEW c,
           \A i \in W : /\ Version(i)' = Append(Version(i), c[i])
                        /\ c[i] \in {NoData} \cup Credential
                        /\ c[i] # NoData => /\ file_has_data(i)
                                            /\ c[i].key = file(i).key
                                            /\ c[i].hotp /\ c[i].key \notin torn
                                                 => c[i].imf >= next'[c[i].key],
           \A i \in Slots \ W : Version(i)' = Version(i),
           \A k \in 1..MaxKeys : next'[k] # next[k] => \E i \in W : Holds(c[i], k)
    PROVE  SlotInv'
<1> DEFINE V(i) == Version(i)
           N(i) == Version(i)'
<1>1. /\ IsDisk(disk, Contents) /\ keys \in 0..MaxKeys
      /\ next \in [1..MaxKeys -> 0..MaxImf]
  BY DEF OathInv, OathTypeOK
<1>2. \A i \in Slots : /\ V(i) \in Seq({NoData} \cup Credential)
                       /\ Len(V(i)) \in Nat \ {0}
                       /\ \A n \in 1..Len(V(i)) : V(i)[n] \in {NoData} \cup Credential
                       /\ file(i) = V(i)[Len(V(i))]
  BY <1>1, SlotVersions
<1>3. \A i \in Slots : /\ i \in W => /\ Len(N(i)) = Len(V(i)) + 1
                                     /\ N(i)[Len(V(i)) + 1] = c[i]
                       /\ i \notin W => N(i) = V(i)
                       /\ \A n \in 1..Len(V(i)) : N(i)[n] = V(i)[n]
  BY <1>2
<1> HIDE DEF V, N
<1>4. ASSUME NEW i \in Slots, NEW n \in 1..Len(N(i)), N(i)[n] # NoData
      PROVE  \E p \in 1..Len(V(i)) : Holds(V(i)[p], N(i)[n].key)
  <2>1. CASE n \in 1..Len(V(i))
    BY <1>3, <1>4, <2>1 DEF Holds
  <2>2. CASE n \notin 1..Len(V(i))
    <3>1. i \in W /\ n = Len(V(i)) + 1
      BY <1>2, <1>3, <2>2
    <3>2. N(i)[n] = c[i]
      BY <1>3, <3>1
    <3>3. Holds(file(i), N(i)[n].key)
      BY <1>4, <3>1, <3>2 DEF Holds, file_has_data
    <3> QED BY <1>2, <3>3
  <2> QED BY <2>1, <2>2
<1>5. KeyStaysInSlot'
  <2> SUFFICES ASSUME NEW i \in Slots, NEW j \in Slots, i # j,
                      NEW n \in 1..Len(N(i)), NEW m \in 1..Len(N(j)),
                      N(i)[n] # NoData, Holds(N(j)[m], N(i)[n].key)
               PROVE  FALSE
    BY DEF KeyStaysInSlot, N
  <2>1. PICK p \in 1..Len(V(i)) : Holds(V(i)[p], N(i)[n].key)
    BY <1>4
  <2>2. PICK q \in 1..Len(V(j)) : Holds(V(j)[q], N(j)[m].key)
    BY <1>4 DEF Holds
  <2> QED BY <2>1, <2>2 DEF OathInv, SlotInv, KeyStaysInSlot, Holds, V
<1>6. KeysArePut'
  <2>1. ASSUME NEW i \in Slots, NEW n \in 1..Len(N(i)), N(i)[n] # NoData
        PROVE  N(i)[n].key <= keys
    <3>1. PICK p \in 1..Len(V(i)) : Holds(V(i)[p], N(i)[n].key)
      BY <1>4, <2>1
    <3> QED BY <3>1 DEF OathInv, SlotInv, KeysArePut, Holds, V
  <2>2. ASSUME NEW k \in 1..MaxKeys, k > keys
        PROVE  next'[k] = 0
    <3>1. ASSUME NEW i \in W, Holds(c[i], k) PROVE FALSE
      <4>1. N(i)[Len(V(i)) + 1] = c[i] /\ Len(V(i)) + 1 \in 1..Len(N(i))
        BY <1>2, <1>3
      <4>2. c[i].key <= keys /\ c[i].key = k
        BY <2>1, <3>1, <4>1 DEF Holds
      <4> QED BY <1>1, <2>2, <4>2
    <3>2. next'[k] = next[k]
      BY <3>1
    <3> QED BY <2>2, <3>2 DEF OathInv, SlotInv, KeysArePut
  <2> QED BY <2>1, <2>2 DEF KeysArePut, N
<1>7. LastImfMovesOn'
  <2> SUFFICES ASSUME NEW i \in Slots, NEW n \in 1..Len(N(i)),
                      N(i)[n] # NoData, N(i)[n].hotp, N(i)[n].key \notin torn,
                      \A m \in (n + 1)..Len(N(i)) : ~Holds(N(i)[m], N(i)[n].key)
               PROVE  N(i)[n].imf >= next'[N(i)[n].key]
    BY DEF LastImfMovesOn, N
  <2>1. CASE n \notin 1..Len(V(i))
    <3>1. i \in W /\ N(i)[n] = c[i]
      BY <1>2, <1>3, <2>1
    <3> QED BY <3>1
  <2>2. CASE n \in 1..Len(V(i))
    <3> DEFINE v == V(i)[n]
    <3>1. N(i)[n] = v /\ v \in Credential
      BY <1>2, <1>3, <2>2
    <3>2. v.key \in 1..MaxKeys
      BY <3>1 DEF Credential
    <3>3. \A m \in (n + 1)..Len(V(i)) : ~Holds(V(i)[m], v.key)
      <4> SUFFICES ASSUME NEW m \in (n + 1)..Len(V(i)) PROVE ~Holds(V(i)[m], v.key)
        OBVIOUS
      <4>1. m \in 1..Len(V(i)) /\ m \in (n + 1)..Len(N(i))
        BY <1>2, <1>3, <2>2
      <4> QED BY <1>3, <3>1, <4>1
    <3>4. v.imf >= next[v.key]
      BY <2>2, <3>1, <3>3 DEF OathInv, SlotInv, LastImfMovesOn, V
    <3>5. ASSUME NEW j \in W, Holds(c[j], v.key) PROVE FALSE
      <4>1. CASE j = i
        <5>1. Len(V(i)) + 1 \in (n + 1)..Len(N(i)) /\ N(i)[Len(V(i)) + 1] = c[i]
          BY <1>2, <1>3, <2>2, <4>1
        <5> QED BY <3>1, <3>5, <4>1, <5>1
      <4>2. CASE j # i
        <5>1. Holds(file(j), v.key) /\ Len(V(j)) \in 1..Len(V(j))
          BY <1>2, <3>5 DEF Holds, file_has_data
        <5> QED BY <1>2, <2>2, <3>1, <4>2, <5>1
                DEF OathInv, SlotInv, KeyStaysInSlot, V
      <4> QED BY <4>1, <4>2
    <3>6. next'[v.key] = next[v.key]
      BY <3>2, <3>5
    <3> QED BY <3>1, <3>4, <3>6
  <2> QED BY <2>1, <2>2
<1> QED BY <1>5, <1>6, <1>7 DEF SlotInv

\* PUT brings a key that is nowhere yet.
LEMMA NewKey ==
    ASSUME OathInv, IsDisk(disk', Contents), torn' = torn, next' = next,
           keys < MaxKeys, keys' = keys + 1,
           NEW f \in Slots, NEW c \in Credential, c.key = keys + 1, c.imf = 0,
           Version(f)' = Append(Version(f), c),
           \A i \in Slots \ {f} : Version(i)' = Version(i)
    PROVE  SlotInv'
<1> DEFINE V(i) == Version(i)
           N(i) == Version(i)'
<1>1. /\ IsDisk(disk, Contents) /\ keys \in 0..MaxKeys
      /\ next \in [1..MaxKeys -> 0..MaxImf]
      /\ MaxKeys \in Nat /\ MaxImf \in Nat
  BY OathAssumption DEF OathInv, OathTypeOK
<1>2. \A i \in Slots : /\ V(i) \in Seq({NoData} \cup Credential)
                       /\ Len(V(i)) \in Nat \ {0}
                       /\ \A n \in 1..Len(V(i)) : V(i)[n] \in {NoData} \cup Credential
  BY <1>1, SlotVersions
<1>3. /\ Len(N(f)) = Len(V(f)) + 1 /\ N(f)[Len(V(f)) + 1] = c
      /\ \A i \in Slots \ {f} : N(i) = V(i)
      /\ \A n \in 1..Len(V(f)) : N(f)[n] = V(f)[n]
  BY <1>2
<1> HIDE DEF V, N
<1>4. ASSUME NEW i \in Slots, NEW n \in 1..Len(N(i)), N(i)[n] # NoData
      PROVE  \/ i = f /\ n = Len(V(f)) + 1 /\ N(i)[n] = c
             \/ n \in 1..Len(V(i)) /\ N(i)[n] = V(i)[n] /\ N(i)[n].key \in 1..keys
  <2>1. CASE i = f /\ n = Len(V(f)) + 1
    BY <1>3, <2>1
  <2>2. CASE ~(i = f /\ n = Len(V(f)) + 1)
    <3>1. n \in 1..Len(V(i)) /\ N(i)[n] = V(i)[n]
      BY <1>2, <1>3, <2>2
    <3>2. V(i)[n].key <= keys
      BY <1>4, <3>1 DEF OathInv, SlotInv, KeysArePut, V
    <3>3. V(i)[n].key \in 1..MaxKeys
      BY <1>2, <1>4, <3>1 DEF Credential
    <3> QED BY <1>1, <3>1, <3>2, <3>3
  <2> QED BY <2>1, <2>2
<1>5. KeyStaysInSlot'
  <2> SUFFICES ASSUME NEW i \in Slots, NEW j \in Slots, i # j,
                      NEW n \in 1..Len(N(i)), NEW m \in 1..Len(N(j)),
                      N(i)[n] # NoData, Holds(N(j)[m], N(i)[n].key)
               PROVE  FALSE
    BY DEF KeyStaysInSlot, N
  <2>1. N(j)[m] # NoData /\ N(j)[m].key = N(i)[n].key
    BY DEF Holds
  <2>2. n \in 1..Len(V(i)) /\ N(i)[n] = V(i)[n] /\ m \in 1..Len(V(j)) /\ N(j)[m] = V(j)[m]
    BY <1>1, <1>4, <2>1, SMTT(90)
  <2> QED BY <2>1, <2>2 DEF OathInv, SlotInv, KeyStaysInSlot, Holds, V
<1>6. KeysArePut'
  <2>1. \A i \in Slots : \A n \in 1..Len(N(i)) : N(i)[n] # NoData => N(i)[n].key <= keys + 1
    BY <1>1, <1>4, SMTT(90)
  <2>2. \A k \in 1..MaxKeys : k > keys + 1 => next[k] = 0
    BY <1>1 DEF OathInv, SlotInv, KeysArePut
  <2> QED BY <2>1, <2>2 DEF KeysArePut, N
<1>7. LastImfMovesOn'
  <2> SUFFICES ASSUME NEW i \in Slots, NEW n \in 1..Len(N(i)),
                      N(i)[n] # NoData, N(i)[n].hotp, N(i)[n].key \notin torn,
                      \A m \in (n + 1)..Len(N(i)) : ~Holds(N(i)[m], N(i)[n].key)
               PROVE  N(i)[n].imf >= next[N(i)[n].key]
    BY DEF LastImfMovesOn, N
  <2>1. CASE i = f /\ n = Len(V(f)) + 1 /\ N(i)[n] = c
    <3>1. keys + 1 \in 1..MaxKeys /\ keys + 1 > keys
      BY <1>1
    <3>2. next[keys + 1] = 0
      BY <3>1 DEF OathInv, SlotInv, KeysArePut
    <3> QED BY <2>1, <3>2
  <2>2. CASE n \in 1..Len(V(i)) /\ N(i)[n] = V(i)[n]
    <3>1. \A m \in (n + 1)..Len(V(i)) : m \in (n + 1)..Len(N(i)) /\ N(i)[m] = V(i)[m]
      BY <1>2, <1>3, <2>2, SMTT(90)
    <3> QED BY <2>2, <3>1 DEF OathInv, SlotInv, LastImfMovesOn, V
  <2> QED BY <1>4, <2>1, <2>2
<1> QED BY <1>5, <1>6, <1>7 DEF SlotInv

\* Nothing is done to the slots.
LEMMA SameSlots ==
    ASSUME OathInv, IsDisk(disk', Contents), keys' = keys, torn' = torn, next' = next,
           \A i \in Slots : Version(i)' = Version(i)
    PROVE  SlotInv'
<1>1. next \in [1..MaxKeys -> 0..MaxImf]
  BY DEF OathInv, OathTypeOK
<1> DEFINE W == {}
           c == <<>>
<1>2. /\ W \in SUBSET Slots
      /\ \A i \in W : /\ Version(i)' = Append(Version(i), c[i])
                      /\ c[i] \in {NoData} \cup Credential
                      /\ c[i] # NoData => /\ file_has_data(i)
                                          /\ c[i].key = file(i).key
                                          /\ c[i].hotp /\ c[i].key \notin torn
                                               => c[i].imf >= next'[c[i].key]
      /\ \A i \in Slots \ W : Version(i)' = Version(i)
      /\ \A k \in 1..MaxKeys : next'[k] # next[k] => \E i \in W : Holds(c[i], k)
  OBVIOUS
<1> HIDE DEF W, c
<1> QED BY <1>1, <1>2, SameKeys

\* core0 writes the oldest version of a slot.
LEMMA DrainSlots ==
    ASSUME OathInv, Drain, IsDisk(disk', Contents)
    PROVE  SlotInv'
<1> DEFINE V(i) == Version(i)
           N(i) == Version(i)'
<1>1. /\ IsDisk(disk, Contents)
      /\ keys' = keys /\ torn' = torn /\ next' = next
  BY DEF OathInv, OathTypeOK, Drain
<1>2. PICK f \in Files : CanDrain(disk, f) /\ disk' = Drained(disk, f)
  BY DEF Drain
<1>3. CASE f \notin Slots
  <2>1. f \in DOMAIN Contents /\ \A i \in Slots : i \in DOMAIN Contents \ {f}
    BY <1>2, <1>3, Kinds
  <2>2. \A g \in DOMAIN Contents \ {f} : Versions(disk', g) = Versions(disk, g)
    BY <1>1, <1>2, <2>1, DrainedVersions
  <2>3. \A i \in Slots : Version(i)' = Version(i)
    BY <2>1, <2>2 DEF Version
  <2> QED BY <1>1, <2>3, SameSlots
<1>4. CASE f \in Slots
  <2>1. N(f) = Tail(V(f)) /\ Len(V(f)) >= 2 /\ \A i \in Slots \ {f} : N(i) = V(i)
    BY <1>1, <1>2, <1>4, Kinds, DrainedVersions DEF Version
  <2>2. \A i \in Slots : V(i) \in Seq({NoData} \cup Credential) /\ Len(V(i)) \in Nat \ {0}
    BY <1>1, SlotVersions
  <2> HIDE DEF V, N
  <2>3. Len(N(f)) = Len(V(f)) - 1 /\ \A n \in 1..Len(N(f)) : N(f)[n] = V(f)[n + 1]
    <3>1. V(f) # <<>>
      BY <1>4, <2>1, <2>2, EmptySeq
    <3> QED BY <1>4, <2>1, <2>2, <3>1, HeadTailProperties
  <2>4. ASSUME NEW i \in Slots
        PROVE  \A n \in 1..Len(N(i)) :
                  \E p \in 1..Len(V(i)) : /\ N(i)[n] = V(i)[p]
                                          /\ \A m \in (p + 1)..Len(V(i)) :
                                               \E q \in (n + 1)..Len(N(i)) : N(i)[q] = V(i)[m]
    <3> SUFFICES ASSUME NEW n \in 1..Len(N(i))
                 PROVE  \E p \in 1..Len(V(i)) : /\ N(i)[n] = V(i)[p]
                                                /\ \A m \in (p + 1)..Len(V(i)) :
                                                     \E q \in (n + 1)..Len(N(i)) : N(i)[q] = V(i)[m]
      OBVIOUS
    <3>1. CASE i # f
      <4>1. n \in 1..Len(V(i)) /\ N(i) = V(i)
        BY <2>1, <3>1
      <4> QED BY <4>1
    <3>2. CASE i = f
      <4>1. n + 1 \in 1..Len(V(f)) /\ N(f)[n] = V(f)[n + 1]
        BY <1>4, <2>2, <2>3, <3>2
      <4>2. ASSUME NEW m \in ((n + 1) + 1)..Len(V(f))
            PROVE  \E q \in (n + 1)..Len(N(f)) : N(f)[q] = V(f)[m]
        <5>1. /\ m - 1 \in (n + 1)..Len(N(f)) /\ m - 1 \in 1..Len(N(f))
              /\ (m - 1) + 1 = m
          BY <1>4, <2>2, <2>3, <3>2
        <5>2. N(f)[m - 1] = V(f)[(m - 1) + 1]
          BY <2>3, <5>1
        <5> QED BY <5>1, <5>2
      <4> QED BY <3>2, <4>1, <4>2
    <3> QED BY <3>1, <3>2
  <2>5. LastImfMovesOn'
    <3> SUFFICES ASSUME NEW i \in Slots, NEW n \in 1..Len(N(i)),
                        N(i)[n] # NoData, N(i)[n].hotp, N(i)[n].key \notin torn,
                        \A m \in (n + 1)..Len(N(i)) : ~Holds(N(i)[m], N(i)[n].key)
                 PROVE  N(i)[n].imf >= next[N(i)[n].key]
      BY <1>1 DEF LastImfMovesOn, N
    <3>1. PICK p \in 1..Len(V(i)) : /\ N(i)[n] = V(i)[p]
                                    /\ \A m \in (p + 1)..Len(V(i)) :
                                         \E q \in (n + 1)..Len(N(i)) : N(i)[q] = V(i)[m]
      BY <2>4
    <3>2. \A m \in (p + 1)..Len(V(i)) : ~Holds(V(i)[m], V(i)[p].key)
      BY <3>1
    <3> QED BY <3>1, <3>2 DEF OathInv, SlotInv, LastImfMovesOn, V
  <2>6. KeyStaysInSlot'
    <3> SUFFICES ASSUME NEW i \in Slots, NEW j \in Slots, i # j,
                        NEW n \in 1..Len(N(i)), NEW m \in 1..Len(N(j)),
                        N(i)[n] # NoData
                 PROVE  ~Holds(N(j)[m], N(i)[n].key)
      BY DEF KeyStaysInSlot, N
    <3>1. PICK p \in 1..Len(V(i)) : N(i)[n] = V(i)[p]
      BY <2>4
    <3>2. PICK q \in 1..Len(V(j)) : N(j)[m] = V(j)[q]
      BY <2>4
    <3> QED BY <3>1, <3>2 DEF OathInv, SlotInv, KeyStaysInSlot, V
  <2>7. KeysArePut'
    <3>1. \A i \in Slots : \A n \in 1..Len(N(i)) : N(i)[n] # NoData => N(i)[n].key <= keys
      BY <2>4 DEF OathInv, SlotInv, KeysArePut, V
    <3> QED BY <1>1, <3>1 DEF OathInv, SlotInv, KeysArePut, N
  <2> QED BY <2>5, <2>6, <2>7 DEF SlotInv
<1> QED BY <1>3, <1>4

\* After a power cut each slot holds what the flash held, whose imf counts
\* unless a later version with the same key was lost.
LEMMA PowerCycleSlots ==
    ASSUME OathInv, PowerCycle
    PROVE  SlotInv'
<1> DEFINE V(i) == Version(i)
           N(i) == Version(i)'
<1>1. /\ IsDisk(disk, Contents) /\ disk' = Crashed(disk)
      /\ keys' = keys /\ torn' = torn \cup PendingKeys /\ next' = next
  BY DEF OathInv, OathTypeOK, PowerCycle
<1>2. \A i \in Slots : N(i) = <<V(i)[1]>> /\ 1 \in 1..Len(V(i))
  <2>1. disk.flash = [f \in DOMAIN Contents |-> disk.flash[f]]
    BY <1>1 DEF IsDisk
  <2>2. \A i \in Slots : N(i) = <<disk.flash[i]>>
    BY <1>1, <2>1, Kinds, SettledVersions DEF Crashed, Version
  <2> QED BY <1>1, <2>2, SlotVersions
<1>3. \A i \in Slots : Len(N(i)) = 1 /\ N(i)[1] = V(i)[1]
  BY <1>2
<1>4. LastImfMovesOn'
  <2> SUFFICES ASSUME NEW i \in Slots,
                      N(i)[1] # NoData, N(i)[1].hotp, N(i)[1].key \notin torn \cup PendingKeys
               PROVE  N(i)[1].imf >= next[N(i)[1].key]
    <3> HIDE DEF N
    <3> QED BY <1>1, <1>3 DEF LastImfMovesOn, N
  <2> DEFINE v == V(i)[1]
  <2>1. v \in Credential /\ v.key \in 1..MaxKeys
    <3>1. v \in {NoData} \cup Credential
      BY <1>1, <1>2, SlotVersions
    <3> QED BY <1>3, <3>1 DEF Credential
  <2>2. ASSUME NEW m \in 2..Len(V(i)), Holds(V(i)[m], v.key)
        PROVE  FALSE
    <3>1. V(i)[m] = disk.pending[i][m - 1] /\ m - 1 \in 1..Len(disk.pending[i])
      BY <1>1, Kinds, VersionsOf DEF Version
    <3>2. disk.pending[i] \in Seq(Contents[i])
      BY <1>1, Kinds DEF IsDisk
    <3>3. V(i)[m] \in Range(disk.pending[i])
      BY <3>1, <3>2 DEF Range
    <3>4. v.key \in PendingKeys
      BY <2>1, <2>2, <3>3 DEF PendingKeys, Holds
    <3> QED BY <1>3, <3>4
  <2>3. \A m \in (1 + 1)..Len(V(i)) : ~Holds(V(i)[m], v.key)
    <3>1. 1 + 1 = 2
      OBVIOUS
    <3> QED BY <2>2, <3>1
  <2>4. v # NoData /\ v.hotp /\ v.key \notin torn
    BY <1>3
  <2> QED BY <1>2, <1>3, <2>3, <2>4 DEF OathInv, SlotInv, LastImfMovesOn
<1>5. KeyStaysInSlot'
  <2> HIDE DEF N
  <2>1. \A i, j \in Slots : i # j => (N(i)[1] # NoData => ~Holds(N(j)[1], N(i)[1].key))
    BY <1>2, <1>3 DEF OathInv, SlotInv, KeyStaysInSlot
  <2> QED BY <1>3, <2>1 DEF KeyStaysInSlot, N
<1>6. KeysArePut'
  <2> HIDE DEF N
  <2>1. \A i \in Slots : N(i)[1] # NoData => N(i)[1].key <= keys
    BY <1>2, <1>3 DEF OathInv, SlotInv, KeysArePut
  <2>2. \A i \in Slots : \A n \in 1..Len(N(i)) : N(i)[n] # NoData => N(i)[n].key <= keys'
    BY <1>1, <1>3, <2>1
  <2> QED BY <1>1, <2>2 DEF OathInv, SlotInv, KeysArePut, N
<1> QED BY <1>4, <1>5, <1>6 DEF SlotInv

-----------------------------------------------------------------------------
(* What the kinds of writes do to what is read.                            *)

\* The imf that is read is ahead of every answer given.
LEMMA ReadImf == ASSUME OathInv PROVE ImfMovesOn
<1> SUFFICES ASSUME NEW i \in Slots, file_has_data(i), file(i).hotp, file(i).key \notin torn
             PROVE  file(i).imf >= next[file(i).key]
  BY DEF ImfMovesOn, Present
<1>1. /\ Len(Version(i)) \in Nat \ {0}
      /\ file(i) = Version(i)[Len(Version(i))]
  BY SlotVersions DEF OathInv, OathTypeOK
<1>2. Len(Version(i)) \in 1..Len(Version(i))
      /\ (Len(Version(i)) + 1)..Len(Version(i)) = {}
  BY <1>1
<1> QED BY <1>1, <1>2 DEF OathInv, SlotInv, LastImfMovesOn, file_has_data

\* A credential is written, or its file emptied.
LEMMA SlotWrite ==
    ASSUME OathInv, NEW f \in Slots, NEW c \in {NoData} \cup Credential,
           disk' = Put(disk, f, c)
    PROVE  /\ IsDisk(disk', Contents)
           /\ file(f)' = c
           /\ \A g \in Files \ {f} : file(g)' = file(g)
           /\ Copies(disk, EF_OTP_PIN)' = Copies(disk, EF_OTP_PIN)
           /\ Version(f)' = Append(Version(f), c)
           /\ \A i \in Slots \ {f} : Version(i)' = Version(i)
<1>1. IsDisk(disk, Contents) /\ f \in DOMAIN Contents /\ c \in Contents[f]
  BY Kinds DEF OathInv, OathTypeOK
<1>2. /\ IsDisk(disk', Contents)
      /\ Read(disk', f) = c
      /\ \A g \in Files \ {f} : Read(disk', g) = Read(disk, g)
      /\ Copies(disk', EF_OTP_PIN) = Copies(disk, EF_OTP_PIN)
  BY <1>1, PutDisk, Kinds
<1>3. /\ Version(f)' = Append(Version(f), c)
      /\ \A i \in Slots \ {f} : Version(i)' = Version(i)
  BY <1>1, PutVersions, Kinds DEF Version
<1> QED BY <1>2, <1>3 DEF file

\* EF_OTP_PIN or EF_OATH_CODE is written.
LEMMA OtherWrite ==
    ASSUME OathInv, NEW f \in {EF_OTP_PIN, EF_OATH_CODE}, NEW c \in Contents[f],
           disk' = Put(disk, f, c), keys' = keys, torn' = torn, next' = next
    PROVE  /\ IsDisk(disk', Contents)
           /\ file(f)' = c
           /\ \A g \in Files \ {f} : file(g)' = file(g)
           /\ Copies(disk, f)' = Copies(disk, f) \cup {c}
           /\ \A g \in Files \ {f} : Copies(disk, g)' = Copies(disk, g)
           /\ SlotInv'
<1>1. IsDisk(disk, Contents) /\ f \in DOMAIN Contents
  BY Kinds DEF OathInv, OathTypeOK
<1>2. /\ IsDisk(disk', Contents)
      /\ Read(disk', f) = c
      /\ \A g \in Files \ {f} : Read(disk', g) = Read(disk, g)
      /\ Copies(disk', f) = Copies(disk, f) \cup {c}
      /\ \A g \in Files \ {f} : Copies(disk', g) = Copies(disk, g)
  BY <1>1, PutDisk, Kinds
<1>3. \A i \in Slots : Version(i)' = Version(i)
  BY <1>1, PutVersions, Kinds DEF Version
<1>4. SlotInv'
  BY <1>2, <1>3, SameSlots
<1> QED BY <1>2, <1>4 DEF file

\* Sealing the secret of a file keeps all else.
LEMMA SealedFile ==
    ASSUME OathInv, NEW f \in Plain
    PROVE  /\ f \in Files \ {EF_OTP_PIN}
           /\ Sealed(file(f)) \in Contents[f]
           /\ Sealed(file(f)).sealed
           /\ Sealed(file(f)).key = file(f).key
           /\ f \in Slots => /\ Sealed(file(f)) \in Credential
                             /\ Sealed(file(f)).hotp = file(f).hotp
                             /\ Sealed(file(f)).imf = file(f).imf
<1>1. f \in Files \ {EF_OTP_PIN} /\ file_has_data(f)
  BY DEF Plain
<1>2. IsDisk(disk, Contents)
  BY DEF OathInv, OathTypeOK
<1>3. CASE f \in Slots
  <2>1. file(f) \in Credential
    BY <1>1, <1>2, <1>3, ReadFiles
  <2> QED BY <1>1, <1>3, <2>1, Kinds DEF Sealed, Credential
<1>4. CASE f = EF_OATH_CODE
  <2>1. file(f) \in CodeKey
    BY <1>1, <1>2, <1>4, ReadFiles
  <2>2. Sealed(file(f)) \in CodeKey
    BY <2>1 DEF Sealed, CodeKey
  <2> QED BY <1>1, <1>4, <2>1, <2>2, Kinds DEF Sealed, CodeKey
<1> QED BY <1>1, <1>3, <1>4, Kinds

\* All or some of the secrets are migrated.
LEMMA Migration ==
    ASSUME OathInv, NEW S \in SUBSET Plain, disk' = oath_migrate_secrets(S),
           keys' = keys, torn' = torn, next' = next
    PROVE  /\ IsDisk(disk', Contents)
           /\ \A f \in Files : file(f)' = IF f \in S THEN Sealed(file(f)) ELSE file(f)
           /\ Copies(disk, EF_OTP_PIN)' = Copies(disk, EF_OTP_PIN)
           /\ SlotInv'
<1> DEFINE v == [f \in S |-> Sealed(file(f))]
<1>1. disk' = PutAll(disk, v) /\ DOMAIN v = S
  BY DEF oath_migrate_secrets
<1>2. /\ IsDisk(disk, Contents) /\ S \subseteq Files \ {EF_OTP_PIN}
      /\ \A f \in S : v[f] \in Contents[f]
      /\ next \in [1..MaxKeys -> 0..MaxImf]
  BY SealedFile DEF OathInv, OathTypeOK
<1>3. IsFiniteSet(S)
  BY <1>2, FilesAreFinite, FS_Subset
<1>4. \A f \in S : v[f] = Sealed(file(f))
  OBVIOUS
<1>5. /\ DOMAIN v \subseteq DOMAIN Contents /\ IsFiniteSet(DOMAIN v)
       /\ \A f \in DOMAIN v : v[f] \in Contents[f]
  BY <1>2, <1>3, Kinds
<1> HIDE DEF v
<1>6. /\ IsDisk(disk', Contents)
      /\ \A f \in S : Read(disk', f) = v[f]
      /\ \A f \in Files \ S : Read(disk', f) = Read(disk, f)
      /\ \A f \in Files \ S : Copies(disk', f) = Copies(disk, f)
  <2>1. LET e == PutAll(disk, v)
        IN  /\ IsDisk(e, Contents)
            /\ \A f \in DOMAIN v : Read(e, f) = v[f]
            /\ \A f \in DOMAIN Contents \ DOMAIN v : /\ Read(e, f) = Read(disk, f)
                                                     /\ Copies(e, f) = Copies(disk, f)
    BY <1>2, <1>5, PutAllDisk
  <2> QED BY <1>1, <2>1, Kinds
<1>7. /\ \A f \in S : Versions(disk', f) = Append(Versions(disk, f), v[f])
      /\ \A f \in Files \ S : Versions(disk', f) = Versions(disk, f)
  <2>1. LET e == PutAll(disk, v)
        IN  /\ \A f \in DOMAIN v : Versions(e, f) = Append(Versions(disk, f), v[f])
            /\ \A f \in DOMAIN Contents \ DOMAIN v : Versions(e, f) = Versions(disk, f)
    BY <1>2, <1>5, PutAllVersions
  <2> QED BY <1>1, <2>1, Kinds
<1>8. SlotInv'
  <2> DEFINE W == S \cap Slots
  <2>1. \A i \in W : /\ Version(i)' = Append(Version(i), v[i])
                     /\ v[i] \in {NoData} \cup Credential
                     /\ v[i] # NoData => /\ file_has_data(i)
                                         /\ v[i].key = file(i).key
                                         /\ v[i].hotp /\ v[i].key \notin torn
                                              => v[i].imf >= next[v[i].key]
    <3> SUFFICES ASSUME NEW i \in W
                 PROVE  /\ Version(i)' = Append(Version(i), v[i])
                        /\ v[i] \in {NoData} \cup Credential
                        /\ v[i] # NoData => /\ file_has_data(i)
                                            /\ v[i].key = file(i).key
                                            /\ v[i].hotp /\ v[i].key \notin torn
                                                 => v[i].imf >= next[v[i].key]
      OBVIOUS
    <3>1. file_has_data(i)
      BY DEF Plain
    <3>2. file(i).hotp /\ file(i).key \notin torn => file(i).imf >= next[file(i).key]
      BY <3>1, ReadImf DEF ImfMovesOn, Present
    <3> QED BY <1>4, <1>7, <3>1, <3>2, SealedFile DEF Version
  <2>2. \A i \in Slots \ W : Version(i)' = Version(i)
    BY <1>7, Kinds DEF Version
  <2> HIDE DEF W
  <2>3. W \in SUBSET Slots
    BY DEF W
  <2> QED BY <1>2, <1>6, <2>1, <2>2, <2>3, SameKeys, ZenonT(120)
<1> QED BY <1>2, <1>4, <1>6, <1>8, Kinds DEF file

-----------------------------------------------------------------------------
(* The actions.                                                            *)

\* The parts that a write of a slot leaves alone.
LEMMA SlotCommandInv ==
    ASSUME OathInv, Authorised, NEW f \in Slots, NEW c \in {NoData} \cup Credential,
           disk' = Put(disk, f, c), c = NoData \/ ~migrated \/ c.sealed,
           UNCHANGED <<selected, validated, migrated, pc, proof, wrong, torn>>,
           keys' \in 0..MaxKeys, next' \in [1..MaxKeys -> 0..MaxImf], SlotInv'
    PROVE  OathInv'
<1>1. /\ IsDisk(disk', Contents)
      /\ file(f)' = c
      /\ \A g \in Files \ {f} : file(g)' = file(g)
      /\ Copies(disk, EF_OTP_PIN)' = Copies(disk, EF_OTP_PIN)
  BY SlotWrite
<1>2. OathTypeOK'
  BY <1>1 DEF OathInv, OathTypeOK
<1>3. OtpPinBudget' /\ CheckIsPaid'
  BY <1>1 DEF OathInv, OtpPinBudget, CheckIsPaid, Authorised, CanStart
<1>4. CodeIsProved'
  BY <1>1, Kinds DEF OathInv, CodeIsProved, file_has_data
<1>5. NoPlainKey'
  <2>1. \A g \in Slots \cup {EF_OATH_CODE} :
          migrated /\ file_has_data(g)' => (file(g).sealed)'
    BY <1>1, Kinds DEF OathInv, NoPlainKey, Present, file_has_data
  <2> QED BY <2>1 DEF NoPlainKey, Present
<1> QED BY <1>2, <1>3, <1>4, <1>5 DEF OathInv

LEMMA PutStep == ASSUME OathInv, cmd_put PROVE OathInv'
<1> DEFINE sent(n, hotp) ==
             [name |-> n, key |-> keys + 1, hotp |-> hotp, imf |-> 0, sealed |-> FALSE]
<1>1. PICK n \in Name, hotp \in BOOLEAN :
        IF Named(n) # {}
        THEN disk' = oath_put_credential_data(find_oath_cred(n), sent(n, hotp))
        ELSE /\ Present # Slots
             /\ disk' = oath_put_credential_data(Lowest(Slots \ Present), sent(n, hotp))
  BY DEF cmd_put
<1> DEFINE c == sent(n, hotp)
           new == [c EXCEPT !.sealed = TRUE]
<1>2. keys \in 0..MaxKeys /\ keys + 1 \in 1..MaxKeys /\ 0 \in 0..MaxImf
  BY OathAssumption DEF cmd_put, OathInv, OathTypeOK
<1>3. c \in Credential /\ c.key = keys + 1 /\ c.imf = 0
  BY <1>2 DEF Credential
<1>4. PICK f \in Slots : disk' = Put(disk, f, new)
  <2> HIDE DEF sent
  <2>1. CASE Named(n) # {}
    BY <1>1, <2>1, FoundSlot DEF oath_put_credential_data
  <2>2. CASE Named(n) = {}
    <3>1. Slots \ Present \in SUBSET Slots /\ Slots \ Present # {}
      BY <1>1, <2>2 DEF Present
    <3> QED BY <1>1, <2>2, <3>1, LowestSlot DEF oath_put_credential_data
  <2> QED BY <2>1, <2>2
<1> HIDE DEF c
<1>5. new \in Credential /\ new.key = keys + 1 /\ new.imf = 0 /\ new.sealed
  BY <1>3 DEF Credential
<1> HIDE DEF new
<1>6. SlotInv'
  BY <1>4, <1>5, SlotWrite, NewKey DEF cmd_put
<1> QED BY <1>2, <1>4, <1>5, <1>6, SlotCommandInv DEF cmd_put, OathInv, OathTypeOK

\* DELETE, RENAME and CALCULATE write a credential that is there.
LEMMA KnownKeyStep ==
    ASSUME OathInv, Authorised, NEW f \in Slots, file_has_data(f),
           NEW c \in {NoData} \cup Credential, disk' = Put(disk, f, c),
           UNCHANGED <<selected, validated, migrated, pc, keys, proof, wrong, torn>>,
           next' \in [1..MaxKeys -> 0..MaxImf],
           c # NoData => /\ c.key = file(f).key
                         /\ c.sealed = file(f).sealed
                         /\ c.hotp /\ c.key \notin torn => c.imf >= next'[c.key],
           \A k \in 1..MaxKeys : next'[k] # next[k] => Holds(c, k)
    PROVE  OathInv'
<1>1. c = NoData \/ ~migrated \/ c.sealed
  BY DEF OathInv, NoPlainKey, Present
<1>2. SlotInv'
  <2> DEFINE W == {f}
             v == [i \in W |-> c]
  <2>1. /\ W \in SUBSET Slots
        /\ \A i \in W : /\ Version(i)' = Append(Version(i), v[i])
                        /\ v[i] \in {NoData} \cup Credential
                        /\ v[i] # NoData => /\ file_has_data(i)
                                            /\ v[i].key = file(i).key
                                            /\ v[i].hotp /\ v[i].key \notin torn
                                                 => v[i].imf >= next'[v[i].key]
        /\ \A i \in Slots \ W : Version(i)' = Version(i)
        /\ \A k \in 1..MaxKeys : next'[k] # next[k] => \E i \in W : Holds(v[i], k)
    BY SlotWrite
  <2> HIDE DEF W, v
  <2> QED BY <2>1, SlotWrite, SameKeys
<1> QED BY <1>1, <1>2, SlotCommandInv DEF OathInv, OathTypeOK

\* CALCULATE answers for a key and cannot store its imf.
LEMMA UnstoredAnswer ==
    ASSUME OathInv, NEW f \in Slots, file_has_data(f), NEW v \in 0..MaxImf,
           next' = [next EXCEPT ![file(f).key] = v], torn' = torn \cup {file(f).key},
           UNCHANGED <<disk, selected, validated, migrated, pc, keys, proof, wrong>>
    PROVE  OathInv'
<1> DEFINE k == file(f).key
<1>1. IsDisk(disk, Contents) /\ next \in [1..MaxKeys -> 0..MaxImf] /\ torn \subseteq 1..MaxKeys
  BY DEF OathInv, OathTypeOK
<1>2. /\ file(f) = Version(f)[Len(Version(f))] /\ Len(Version(f)) \in 1..Len(Version(f))
      /\ file(f) # NoData /\ k \in 1..MaxKeys
  BY <1>1, SlotVersions, ReadFiles DEF file_has_data, Credential
<1>3. k <= keys /\ keys \in Nat
  BY <1>2 DEF OathInv, SlotInv, KeysArePut, OathTypeOK
<1> HIDE DEF k
<1>4. /\ next' \in [1..MaxKeys -> 0..MaxImf] /\ torn' \subseteq 1..MaxKeys
      /\ \A m \in 1..MaxKeys : m # k => next'[m] = next[m]
  BY <1>1, <1>2 DEF k
<1>5. \A i \in Slots : Version(i)' = Version(i)
  BY DEF Version
<1>6. LastImfMovesOn'
  <2> SUFFICES ASSUME NEW i \in Slots, NEW n \in 1..Len(Version(i)), NEW c, c = Version(i)[n],
                      c # NoData, c.hotp, c.key \notin torn',
                      \A m \in (n + 1)..Len(Version(i)) : ~Holds(Version(i)[m], c.key)
               PROVE  c.imf >= next'[c.key]
    BY <1>5 DEF LastImfMovesOn
  <2>1. c.key \in 1..MaxKeys
    BY <1>1, SlotVersions DEF Credential
  <2>2. c.key # k /\ c.key \notin torn
    BY DEF k
  <2>3. c.imf >= next[c.key]
    BY <2>2 DEF OathInv, SlotInv, LastImfMovesOn
  <2> QED BY <1>4, <2>1, <2>2, <2>3
<1>7. KeyStaysInSlot' /\ KeysArePut'
  <2>1. \A m \in 1..MaxKeys : m > keys => m # k
    BY <1>3
  <2>2. KeysArePut'
    BY <1>4, <1>5, <2>1 DEF OathInv, SlotInv, KeysArePut
  <2> QED BY <1>5, <2>2 DEF OathInv, SlotInv, KeyStaysInSlot
<1>8. OathTypeOK' /\ OtpPinBudget'
  BY <1>4 DEF OathInv, OathTypeOK, OtpPinBudget
<1>9. CheckIsPaid' /\ CodeIsProved' /\ NoPlainKey'
  BY DEF OathInv, CheckIsPaid, CodeIsProved, NoPlainKey, Present, file_has_data, file
<1> QED BY <1>6, <1>7, <1>8, <1>9 DEF OathInv, SlotInv

LEMMA KnownKeySteps == ASSUME OathInv, cmd_delete \/ cmd_rename \/ cmd_calculate PROVE OathInv'
<1>1. IsDisk(disk, Contents) /\ next \in [1..MaxKeys -> 0..MaxImf]
  BY DEF OathInv, OathTypeOK
<1>2. CASE cmd_delete
  <2>1. PICK n \in Name : Named(n) # {} /\ disk' = Put(disk, find_oath_cred(n), NoData)
    BY <1>2 DEF cmd_delete
  <2> QED BY <1>1, <1>2, <2>1, FoundSlot, KnownKeyStep DEF cmd_delete
<1>3. CASE cmd_rename
  <2>1. PICK n \in Name, new \in Name :
          Named(n) # {} /\ disk' = Put(disk, find_oath_cred(n), Renamed(find_oath_cred(n), new))
    BY <1>3 DEF cmd_rename
  <2> DEFINE f == find_oath_cred(n)
             c == Renamed(f, new)
  <2>2. f \in Slots /\ file_has_data(f) /\ file(f) \in Credential
    BY <1>1, <2>1, FoundSlot, ReadFiles
  <2> HIDE DEF f
  <2>3. /\ c \in Credential /\ c.key = file(f).key /\ c.sealed = file(f).sealed
        /\ c.hotp = file(f).hotp /\ c.imf = file(f).imf
    BY <2>2 DEF Renamed, Credential
  <2>4. file(f).hotp /\ file(f).key \notin torn => file(f).imf >= next[file(f).key]
    BY <2>2, ReadImf DEF ImfMovesOn, Present
  <2>5. disk' = Put(disk, f, c)
    BY <2>1 DEF f
  <2> HIDE DEF c
  <2>6. UNCHANGED <<selected, validated, migrated, pc, keys, proof, wrong, torn, next>>
        /\ Authorised
    BY <1>3 DEF cmd_rename
  <2> QED BY <1>1, <2>2, <2>3, <2>4, <2>5, <2>6, KnownKeyStep
<1>4. CASE cmd_calculate
  <2>1. PICK n \in Name :
          /\ Named(n) # {}
          /\ LET f == find_oath_cred(n)
                 c == file(f)
             IN  /\ c.hotp
                 /\ c.imf < MaxImf
                 /\ next' = [next EXCEPT ![c.key] = c.imf + 1]
                 /\ \/ disk' = Put(disk, f, [c EXCEPT !.imf = @ + 1]) /\ torn' = torn
                    \/ disk' = disk /\ torn' = torn \cup {c.key}
    BY <1>4 DEF cmd_calculate
  <2> DEFINE f == find_oath_cred(n)
             b == file(f)
             c == [b EXCEPT !.imf = @ + 1]
  <2>2. f \in Slots /\ file_has_data(f) /\ file(f) \in Credential
    BY <1>1, <2>1, FoundSlot, ReadFiles
  <2>3. /\ b.imf < MaxImf /\ next' = [next EXCEPT ![b.key] = b.imf + 1]
        /\ \/ disk' = Put(disk, f, c) /\ torn' = torn
           \/ disk' = disk /\ torn' = torn \cup {b.key}
    BY <2>1
  <2> HIDE DEF f
  <2>4. /\ c \in Credential /\ c.key = b.key /\ c.sealed = b.sealed
        /\ c.imf = b.imf + 1 /\ b.key \in 1..MaxKeys /\ b.imf + 1 \in 0..MaxImf
    BY <2>2, <2>3, OathAssumption DEF Credential
  <2> HIDE DEF b, c
  <2>5. /\ next' \in [1..MaxKeys -> 0..MaxImf] /\ next'[c.key] = c.imf
        /\ \A k \in 1..MaxKeys : next'[k] # next[k] => k = c.key
    BY <1>1, <2>3, <2>4
  <2>6. \A k \in 1..MaxKeys : next'[k] # next[k] => c = NoData \/ Holds(c, k)
    BY <2>5 DEF Holds
  <2>7. c # NoData => c.imf >= next'[c.key]
    BY <2>4, <2>5 DEF Credential
  <2>8. Authorised /\ UNCHANGED <<selected, validated, migrated, pc, keys, proof, wrong>>
    BY <1>4 DEF cmd_calculate
  <2>9. c # NoData
    BY <2>4, NoDataAssumption
  <2>10. CASE disk' = Put(disk, f, c) /\ torn' = torn
    BY <2>2, <2>4, <2>5, <2>6, <2>7, <2>8, <2>9, <2>10, KnownKeyStep DEF b
  <2>11. CASE disk' = disk /\ torn' = torn \cup {b.key}
    BY <2>2, <2>3, <2>4, <2>8, <2>11, UnstoredAnswer DEF b
  <2> QED BY <2>3, <2>10, <2>11
<1> QED BY <1>2, <1>3, <1>4

\* Selecting the applet, whether all secrets can be migrated or not.
LEMMA SelectSteps == ASSUME OathInv, oath_select \/ SelectFails PROVE OathInv'
<1>1. PICK S \in SUBSET Plain :
        /\ disk' = IF migrated THEN disk ELSE oath_migrate_secrets(S)
        /\ migrated' => migrated \/ S = Plain
  BY DEF oath_select, SelectFails
<1>2. /\ pc = "idle" /\ pc' = "idle" /\ validated' = OpenAtSelect /\ proof' = "none"
      /\ UNCHANGED <<keys, wrong, next, torn>>
      /\ selected' \in BOOLEAN /\ migrated' \in BOOLEAN
  BY DEF oath_select, SelectFails, OathInv, OathTypeOK
<1>3. migrated' = migrated \/ migrated' = TRUE
  BY DEF oath_select, SelectFails
<1>4. /\ IsDisk(disk', Contents)
      /\ \A f \in Files : \/ file(f)' = file(f) /\ (f \in Plain => migrated \/ ~migrated')
                          \/ f \in Plain /\ file(f)' = Sealed(file(f))
      /\ Copies(disk, EF_OTP_PIN)' = Copies(disk, EF_OTP_PIN)
      /\ SlotInv'
  <2>1. CASE migrated
    <3>1. disk' = disk /\ IsDisk(disk, Contents)
      BY <1>1, <2>1 DEF OathInv, OathTypeOK
    <3>2. \A i \in Slots : Version(i)' = Version(i)
      BY <3>1 DEF Version
    <3> QED BY <1>2, <2>1, <3>1, <3>2, SameSlots DEF file
  <2>2. CASE ~migrated
    <3>1. /\ IsDisk(disk', Contents)
          /\ \A f \in Files : file(f)' = IF f \in S THEN Sealed(file(f)) ELSE file(f)
          /\ Copies(disk, EF_OTP_PIN)' = Copies(disk, EF_OTP_PIN)
          /\ SlotInv'
      BY <1>1, <1>2, <2>2, Migration
    <3> QED BY <1>1, <2>2, <3>1
  <2> QED BY <2>1, <2>2
<1>5. OathTypeOK'
  <2>1. validated' \in BOOLEAN
    BY <1>2 DEF OpenAtSelect
  <2> QED BY <1>2, <1>4, <2>1 DEF OathInv, OathTypeOK
<1>6. OtpPinBudget' /\ CheckIsPaid'
  BY <1>2, <1>4 DEF OathInv, OtpPinBudget, CheckIsPaid
<1>7. CodeIsProved'
  <2>1. validated' => ~file_has_data(EF_OATH_CODE)
    BY <1>2 DEF OpenAtSelect
  <2>2. ~file_has_data(EF_OATH_CODE) => ~file_has_data(EF_OATH_CODE)'
    BY <1>4, Kinds DEF Plain, file_has_data
  <2> QED BY <2>1, <2>2 DEF CodeIsProved
<1>8. NoPlainKey'
  <2> SUFFICES ASSUME migrated', NEW f \in Slots \cup {EF_OATH_CODE}, file_has_data(f)'
               PROVE  (file(f).sealed)'
    BY DEF NoPlainKey, Present
  <2>1. f \in Files \ {EF_OTP_PIN}
    BY Kinds
  <2>2. CASE f \in Plain /\ file(f)' = Sealed(file(f))
    BY <2>2, SealedFile
  <2>3. CASE file(f)' = file(f) /\ f \notin Plain
    BY <2>1, <2>3 DEF Plain, file_has_data
  <2>4. CASE file(f)' = file(f) /\ migrated
    BY <2>1, <2>4 DEF OathInv, NoPlainKey, Present, file_has_data
  <2> QED BY <1>4, <2>1, <2>2, <2>3, <2>4
<1> QED BY <1>4, <1>5, <1>6, <1>7, <1>8 DEF OathInv

\* The commands about the access code.
LEMMA CodeSteps == ASSUME OathInv, cmd_set_code \/ RemoveCode PROVE OathInv'
<1>1. /\ pc = "idle" /\ pc' = "idle" /\ proof' \in {"none", proof}
      /\ validated' \in {FALSE, validated}
      /\ UNCHANGED <<selected, migrated, keys, wrong, next, torn>>
  BY DEF cmd_set_code, RemoveCode, Authorised, CanStart
<1>2. \/ disk' = disk /\ ~file_has_data(EF_OATH_CODE) /\ proof' = proof
      \/ \E c \in Contents[EF_OATH_CODE] :
           /\ disk' = Put(disk, EF_OATH_CODE, c)
           /\ c # NoData => c.sealed /\ ~validated'
  <2>1. ASSUME NEW c \in Code, disk' = Put(disk, EF_OATH_CODE, [key |-> c, sealed |-> TRUE])
        PROVE  \E d \in Contents[EF_OATH_CODE] :
                 disk' = Put(disk, EF_OATH_CODE, d) /\ d.sealed
    <3>1. [key |-> c, sealed |-> TRUE] \in CodeKey
      BY DEF CodeKey
    <3> QED BY <2>1, <3>1, Kinds
  <2>2. CASE cmd_set_code
    BY <2>1, <2>2 DEF cmd_set_code
  <2>3. CASE RemoveCode
    <3>1. NoData \in Contents[EF_OATH_CODE]
      BY Kinds
    <3> QED BY <2>3, <3>1 DEF RemoveCode
  <2> QED BY <2>2, <2>3
<1>3. CASE disk' = disk /\ ~file_has_data(EF_OATH_CODE) /\ proof' = proof
  <2>1. /\ \A f \in Files : file(f)' = file(f)
        /\ \A i \in Slots : Version(i)' = Version(i)
    BY <1>3 DEF file, Version
  <2>2. IsDisk(disk', Contents)
    BY <1>3 DEF OathInv, OathTypeOK
  <2>3. SlotInv'
    BY <1>1, <2>1, <2>2, SameSlots
  <2>4. OathTypeOK'
    BY <1>1, <1>3 DEF OathInv, OathTypeOK
  <2>5. OtpPinBudget' /\ CheckIsPaid'
    BY <1>1, <1>3 DEF OathInv, OtpPinBudget, CheckIsPaid
  <2>6. CodeIsProved'
    BY <1>1, <1>3, <2>1, Kinds DEF OathInv, CodeIsProved, file_has_data
  <2>7. NoPlainKey'
    BY <1>1, <2>1, Kinds DEF OathInv, NoPlainKey, Present, file_has_data
  <2> QED BY <2>3, <2>4, <2>5, <2>6, <2>7 DEF OathInv
<1>4. ASSUME NEW c \in Contents[EF_OATH_CODE], disk' = Put(disk, EF_OATH_CODE, c),
             c # NoData => c.sealed /\ ~validated'
      PROVE  OathInv'
  <2>1. /\ IsDisk(disk', Contents)
        /\ file(EF_OATH_CODE)' = c
        /\ \A g \in Files \ {EF_OATH_CODE} : file(g)' = file(g)
        /\ \A g \in Files \ {EF_OATH_CODE} : Copies(disk, g)' = Copies(disk, g)
        /\ SlotInv'
    BY <1>1, <1>4, OtherWrite
  <2>2. OathTypeOK'
    BY <1>1, <2>1 DEF OathInv, OathTypeOK
  <2>3. OtpPinBudget' /\ CheckIsPaid'
    BY <1>1, <2>1, Kinds DEF OathInv, OtpPinBudget, CheckIsPaid
  <2>4. CodeIsProved'
    BY <1>4, <2>1 DEF CodeIsProved, file_has_data
  <2>5. NoPlainKey'
    <3>1. \A g \in Slots \cup {EF_OATH_CODE} :
            migrated /\ file_has_data(g)' => (file(g).sealed)'
      BY <1>4, <2>1, Kinds DEF OathInv, NoPlainKey, Present, file_has_data
    <3> QED BY <1>1, <3>1 DEF NoPlainKey, Present
  <2> QED BY <2>1, <2>2, <2>3, <2>4, <2>5 DEF OathInv
<1> QED BY <1>2, <1>3, <1>4

\* RESET empties every file.
LEMMA ResetStep == ASSUME OathInv, cmd_reset PROVE OathInv'
<1> DEFINE S == {f \in Files : file_has_data(f)}
           v == [f \in S |-> NoData]
<1>1. /\ disk' = PutAll(disk, v) /\ validated' = TRUE /\ wrong' = 0 /\ pc = "idle"
      /\ UNCHANGED <<selected, migrated, pc, keys, proof, next, torn>>
  BY DEF cmd_reset, CanStart
<1>2. /\ IsDisk(disk, Contents) /\ next \in [1..MaxKeys -> 0..MaxImf]
      /\ DOMAIN v = S /\ S \subseteq Files /\ IsFiniteSet(S)
      /\ \A f \in S : v[f] = NoData
  BY FilesAreFinite, FS_Subset DEF OathInv, OathTypeOK
<1>3. \A f \in Files : NoData \in Contents[f]
  BY Kinds
<1>4. /\ DOMAIN v \subseteq DOMAIN Contents /\ IsFiniteSet(DOMAIN v)
      /\ \A f \in DOMAIN v : v[f] \in Contents[f]
  BY <1>2, <1>3, Kinds
<1> HIDE DEF v
<1>5. LET e == PutAll(disk, v)
      IN  /\ IsDisk(e, Contents)
          /\ \A f \in DOMAIN v : /\ Read(e, f) = v[f]
                                 /\ Copies(e, f) = Copies(disk, f) \cup {v[f]}
          /\ \A f \in DOMAIN Contents \ DOMAIN v : /\ Read(e, f) = Read(disk, f)
                                                   /\ Copies(e, f) = Copies(disk, f)
  BY <1>2, <1>4, PutAllDisk
<1>6. LET e == PutAll(disk, v)
      IN  /\ \A f \in DOMAIN v : Versions(e, f) = Append(Versions(disk, f), v[f])
          /\ \A f \in DOMAIN Contents \ DOMAIN v : Versions(e, f) = Versions(disk, f)
  BY <1>2, <1>4, PutAllVersions
<1>7. /\ IsDisk(disk', Contents)
      /\ \A f \in Files : file(f)' = NoData
      /\ Copies(disk, EF_OTP_PIN)' \subseteq Copies(disk, EF_OTP_PIN) \cup {NoData}
  BY <1>1, <1>2, <1>5, Kinds DEF file, file_has_data
<1>8. SlotInv'
  <2> DEFINE W == S \cap Slots
  <2>1. /\ \A i \in W : Version(i)' = Append(Version(i), v[i]) /\ v[i] = NoData
        /\ \A i \in Slots \ W : Version(i)' = Version(i)
        /\ W \in SUBSET Slots
    BY <1>1, <1>2, <1>6, Kinds DEF Version
  <2> HIDE DEF W
  <2> QED BY <1>1, <1>2, <1>7, <2>1, SameKeys
<1>9. OathTypeOK'
  BY <1>1, <1>7, OathAssumption DEF OathInv, OathTypeOK
<1>10. OtpPinBudget'
  <2>1. \A w \in Copies(disk, EF_OTP_PIN) : w \in {NoData} \cup 0..MaxRetries
    BY <1>2, Kinds, ReadIsCopy
  <2> QED BY <1>1, <1>7, <2>1 DEF OtpPinBudget
<1>11. CheckIsPaid' /\ CodeIsProved' /\ NoPlainKey'
  BY <1>1, <1>7, Kinds DEF CheckIsPaid, CodeIsProved, NoPlainKey, Present, file_has_data
<1> QED BY <1>8, <1>9, <1>10, <1>11 DEF OathInv

\* A write of EF_OTP_PIN: a retry less before a check, or all of them.
LEMMA PinSteps ==
    ASSUME OathInv, NEW r \in 0..MaxRetries, disk' = Put(disk, EF_OTP_PIN, r),
           wrong' \in 0..MaxRetries, wrong' = 0 \/ wrong' = wrong, wrong' + r <= MaxRetries,
           pc' \in {"idle", "verify", "change"},
           pc' # "idle" => wrong' + 1 <= MaxRetries /\ wrong' + 1 + r <= MaxRetries,
           \/ UNCHANGED <<validated, proof>>
           \/ validated' = TRUE /\ proof' = "PIN",
           UNCHANGED <<selected, migrated, keys, next, torn>>
    PROVE  OathInv'
<1>1. r \in Contents[EF_OTP_PIN] /\ r # NoData /\ r \in Nat /\ MaxRetries \in Nat
  BY Kinds, NoDataAssumption, OathAssumption
<1>2. /\ IsDisk(disk', Contents)
      /\ file(EF_OTP_PIN)' = r
      /\ \A g \in Files \ {EF_OTP_PIN} : file(g)' = file(g)
      /\ Copies(disk, EF_OTP_PIN)' = Copies(disk, EF_OTP_PIN) \cup {r}
      /\ SlotInv'
  BY <1>1, OtherWrite
<1>3. OathTypeOK'
  BY <1>2 DEF OathInv, OathTypeOK
<1>4. OtpPinBudget'
  <2>1. \A w \in Copies(disk, EF_OTP_PIN) : w # NoData => w \in 0..MaxRetries
    BY Kinds, ReadIsCopy DEF OathInv, OathTypeOK
  <2>2. \A w \in Copies(disk, EF_OTP_PIN) : w # NoData => wrong' + w <= MaxRetries
    BY <1>1, <2>1 DEF OathInv, OtpPinBudget
  <2> QED BY <1>2, <2>2 DEF OtpPinBudget
<1>5. CheckIsPaid'
  BY <1>2 DEF CheckIsPaid, file_has_data
<1>6. CodeIsProved' /\ NoPlainKey'
  BY <1>2, Kinds DEF OathInv, CodeIsProved, NoPlainKey, Present, file_has_data
<1> QED BY <1>2, <1>3, <1>4, <1>5, <1>6 DEF OathInv

\* The check has paid: one more wrong PIN fits into the budget.
LEMMA Paid ==
    ASSUME OathInv, NEW cmd, cmd # "idle", Counted(cmd)
    PROVE  /\ wrong + 1 \in 0..MaxRetries
           /\ \A w \in Copies(disk, EF_OTP_PIN) : w # NoData => wrong + 1 + w <= MaxRetries
<1>1. pc # "idle" /\ IsSettled(disk) /\ IsDisk(disk, Contents) /\ wrong \in 0..MaxRetries
  BY DEF Counted, OathInv, OathTypeOK
<1>2. Copies(disk, EF_OTP_PIN) = {file(EF_OTP_PIN)}
  BY <1>1, Kinds, SettledReads DEF file
<1> QED BY <1>1, <1>2, OathAssumption DEF OathInv, CheckIsPaid, file_has_data

LEMMA PinCommands ==
    ASSUME OathInv,
           cmd_set_otp_pin \/ BeginCheck("verify") \/ BeginCheck("change")
             \/ cmd_verify_otp_pin \/ cmd_change_otp_pin
    PROVE  OathInv'
<1>1. MaxRetries \in 0..MaxRetries /\ wrong \in 0..MaxRetries /\ 0 \in 0..MaxRetries
      /\ 0 + MaxRetries <= MaxRetries /\ pc \in {"idle", "verify", "change"}
  BY OathAssumption DEF OathInv, OathTypeOK
<1>2. CASE cmd_set_otp_pin
  BY <1>1, <1>2, PinSteps DEF cmd_set_otp_pin, Authorised, CanStart
<1>3. CASE cmd_verify_otp_pin \/ cmd_change_otp_pin
  BY <1>1, <1>3, PinSteps DEF cmd_verify_otp_pin, cmd_change_otp_pin
<1>4. CASE BeginCheck("verify") \/ BeginCheck("change")
  <2> DEFINE r == file(EF_OTP_PIN)
  <2>1. /\ file_has_data(EF_OTP_PIN) /\ r > 0 /\ disk' = Put(disk, EF_OTP_PIN, r - 1)
        /\ pc' \in {"verify", "change"}
        /\ UNCHANGED <<selected, validated, migrated, keys, proof, wrong, next, torn>>
    BY <1>4 DEF BeginCheck
  <2>2. r \in 0..MaxRetries /\ r \in Copies(disk, EF_OTP_PIN)
    BY <2>1, Kinds, ReadFiles DEF OathInv, OathTypeOK
  <2>3. wrong + r <= MaxRetries
    BY <2>1, <2>2 DEF OathInv, OtpPinBudget, file_has_data
  <2> HIDE DEF r
  <2>4. r - 1 \in 0..MaxRetries /\ wrong + (r - 1) <= MaxRetries
        /\ wrong + 1 <= MaxRetries /\ wrong + 1 + (r - 1) <= MaxRetries
    BY <1>1, <2>1, <2>2, <2>3, OathAssumption
  <2> QED BY <1>1, <2>1, <2>4, PinSteps
<1> QED BY <1>2, <1>3, <1>4

\* No file is written.
LEMMA NoWrite ==
    ASSUME OathInv, disk' = disk, UNCHANGED <<selected, migrated, keys, next, torn>>,
           pc' \in {"idle", pc}, validated' \in BOOLEAN,
           wrong' \in 0..MaxRetries, OtpPinBudget',
           pc' # "idle" => wrong' = wrong,
           proof' \in {"none", "PIN"} \cup Code, CodeIsProved'
    PROVE  OathInv'
<1>1. /\ \A f \in Files : file(f)' = file(f)
      /\ \A i \in Slots : Version(i)' = Version(i)
  BY DEF file, Version
<1>2. IsDisk(disk', Contents)
  BY DEF OathInv, OathTypeOK
<1>3. SlotInv'
  BY <1>1, <1>2, SameSlots
<1>4. OathTypeOK'
  BY DEF OathInv, OathTypeOK
<1>5. CheckIsPaid' /\ NoPlainKey'
  BY <1>1, Kinds DEF OathInv, CheckIsPaid, NoPlainKey, Present, file_has_data
<1> QED BY <1>3, <1>4, <1>5 DEF OathInv

LEMMA NoWriteSteps ==
    ASSUME OathInv,
           cmd_validate \/ VerifyBlocked \/ StorageError
             \/ Mismatch("verify") \/ Mismatch("change") \/ UNCHANGED vars
    PROVE  OathInv'
<1>1. \A f \in Files : disk' = disk => file(f)' = file(f)
  BY DEF file
<1>2. CASE cmd_validate
  <2>1. disk' = disk /\ wrong' = wrong /\ selected' = selected
        /\ proof' = IF file_has_data(EF_OATH_CODE) THEN file(EF_OATH_CODE).key ELSE proof
    BY <1>2 DEF cmd_validate
  <2>2. OtpPinBudget'
    BY <2>1 DEF OathInv, OtpPinBudget
  <2>3. CodeIsProved'
    BY <1>1, <2>1, Kinds DEF CodeIsProved, file_has_data
  <2>4. proof' \in {"none", "PIN"} \cup Code
    BY <2>1, ReadFiles DEF OathInv, OathTypeOK, CodeKey
  <2> QED BY <1>2, <2>1, <2>2, <2>3, <2>4, NoWrite DEF cmd_validate, OathInv, OathTypeOK
<1>3. CASE VerifyBlocked
  <2>1. OtpPinBudget' /\ CodeIsProved'
    BY <1>3 DEF VerifyBlocked, OathInv, OtpPinBudget, CodeIsProved
  <2> QED BY <1>3, <2>1, NoWrite DEF VerifyBlocked, OathInv, OathTypeOK
<1>4. CASE StorageError \/ UNCHANGED vars
  <2>1. UNCHANGED <<disk, selected, validated, migrated, keys, proof, wrong, next, torn>>
        /\ pc' \in {"idle", pc}
    BY <1>4 DEF StorageError, vars
  <2>2. OtpPinBudget'
    BY <2>1 DEF OathInv, OtpPinBudget
  <2>3. CodeIsProved'
    BY <1>1, <2>1, Kinds DEF OathInv, CodeIsProved, file_has_data
  <2> QED BY <2>1, <2>2, <2>3, NoWrite DEF OathInv, OathTypeOK
<1>5. CASE Mismatch("verify") \/ Mismatch("change")
  <2>1. /\ wrong + 1 \in 0..MaxRetries
        /\ \A w \in Copies(disk, EF_OTP_PIN) : w # NoData => wrong + 1 + w <= MaxRetries
    BY <1>5, Paid DEF Mismatch
  <2>2. /\ disk' = disk /\ wrong' = wrong + 1 /\ pc' = "idle"
        /\ UNCHANGED <<selected, migrated, keys, next, torn>>
        /\ \/ validated' = FALSE /\ proof' = "none"
           \/ UNCHANGED <<validated, proof>>
    BY <1>5 DEF Mismatch
  <2>3. OtpPinBudget'
    BY <2>1, <2>2 DEF OtpPinBudget
  <2>4. CodeIsProved'
    BY <1>1, <2>2, Kinds DEF OathInv, CodeIsProved, file_has_data
  <2> QED BY <2>1, <2>2, <2>3, <2>4, NoWrite DEF OathInv, OathTypeOK
<1> QED BY <1>2, <1>3, <1>4, <1>5

\* A write that reaches the flash is not noticed by any handler.
LEMMA DrainStep == ASSUME OathInv, Drain PROVE OathInv'
<1>1. PICK f \in Files : CanDrain(disk, f) /\ disk' = Drained(disk, f)
  BY DEF Drain
<1>2. UNCHANGED <<selected, validated, migrated, pc, keys, proof, wrong, next, torn>>
  BY DEF Drain
<1>3. /\ IsDisk(disk', Contents)
      /\ \A g \in Files : file(g)' = file(g)
      /\ Copies(disk, EF_OTP_PIN)' \subseteq Copies(disk, EF_OTP_PIN)
  BY <1>1, DrainedDisk, Kinds DEF OathInv, OathTypeOK, file
<1>4. SlotInv'
  BY <1>3, DrainSlots
<1>5. OathTypeOK'
  BY <1>2, <1>3 DEF OathInv, OathTypeOK
<1>6. OtpPinBudget' /\ CheckIsPaid'
  BY <1>2, <1>3, Kinds DEF OathInv, OtpPinBudget, CheckIsPaid, file_has_data
<1>7. CodeIsProved' /\ NoPlainKey'
  BY <1>2, <1>3, Kinds DEF OathInv, CodeIsProved, NoPlainKey, Present, file_has_data
<1> QED BY <1>4, <1>5, <1>6, <1>7 DEF OathInv

LEMMA PowerCycleStep == ASSUME OathInv, PowerCycle PROVE OathInv'
<1>1. /\ disk' = Crashed(disk) /\ selected' = FALSE /\ validated' = TRUE /\ migrated' = FALSE
      /\ pc' = "idle" /\ proof' = "none" /\ torn' = torn \cup PendingKeys
      /\ UNCHANGED <<keys, wrong, next>>
  BY DEF PowerCycle
<1>2. /\ IsDisk(disk', Contents)
      /\ Copies(disk, EF_OTP_PIN)' \subseteq Copies(disk, EF_OTP_PIN)
  BY <1>1, CrashedDisk, Kinds DEF OathInv, OathTypeOK
<1>3. OathTypeOK'
  <2>1. PendingKeys \subseteq 1..MaxKeys
    BY DEF PendingKeys
  <2> QED BY <1>1, <1>2, <2>1 DEF OathInv, OathTypeOK
<1>4. OtpPinBudget' /\ CheckIsPaid' /\ CodeIsProved' /\ NoPlainKey'
  BY <1>1, <1>2 DEF OathInv, OtpPinBudget, CheckIsPaid, CodeIsProved, NoPlainKey
<1> QED BY <1>3, <1>4, PowerCycleSlots DEF OathInv

\* The invariant is inductive.
LEMMA NextOathInv == ASSUME OathInv, [Next]_vars PROVE OathInv'
<1>1. CASE oath_select \/ SelectFails
  BY <1>1, SelectSteps
<1>2. CASE cmd_put
  BY <1>2, PutStep
<1>3. CASE cmd_delete \/ cmd_rename \/ cmd_calculate
  BY <1>3, KnownKeySteps
<1>4. CASE cmd_set_code \/ RemoveCode
  BY <1>4, CodeSteps
<1>5. CASE cmd_reset
  BY <1>5, ResetStep
<1>6. CASE cmd_set_otp_pin \/ BeginCheck("verify") \/ BeginCheck("change")
             \/ cmd_verify_otp_pin \/ cmd_change_otp_pin
  BY <1>6, PinCommands
<1>7. CASE cmd_validate \/ VerifyBlocked \/ StorageError
             \/ Mismatch("verify") \/ Mismatch("change") \/ UNCHANGED vars
  BY <1>7, NoWriteSteps
<1>8. CASE Drain
  BY <1>8, DrainStep
<1>9. CASE PowerCycle
  BY <1>9, PowerCycleStep
<1> QED BY <1>1, <1>2, <1>3, <1>4, <1>5, <1>6, <1>7, <1>8, <1>9 DEF Next

\* It holds of a new device and of one of older firmware.
LEMMA InitOathInv == ASSUME Init PROVE OathInv
<1>1. PICK old \in {NoData} \cup {OldCredential(n) : n \in Name},
           code \in {NoData} \cup [key : Code, sealed : {FALSE}],
           pin \in {NoData, MaxRetries} :
        /\ disk = Settled([f \in Files |-> CASE f = 1 -> old
                                              [] f = EF_OATH_CODE -> code
                                              [] f = EF_OTP_PIN -> pin
                                              [] OTHER -> NoData])
        /\ keys = IF old = NoData THEN 0 ELSE 1
  BY DEF Init
<1> DEFINE c == [f \in Files |-> CASE f = 1 -> old
                                   [] f = EF_OATH_CODE -> code
                                   [] f = EF_OTP_PIN -> pin
                                   [] OTHER -> NoData]
<1>2. /\ c[1] = old /\ c[EF_OATH_CODE] = code /\ c[EF_OTP_PIN] = pin
      /\ \A f \in Slots \ {1} : c[f] = NoData
      /\ c = [f \in DOMAIN Contents |-> c[f]]
      /\ disk = Settled(c)
  <2>1. 1 \in Files /\ 1 # EF_OATH_CODE /\ 1 # EF_OTP_PIN
    BY Kinds
  <2>2. \A f \in Slots : f # EF_OATH_CODE /\ f # EF_OTP_PIN /\ f \in Files
    BY Kinds
  <2> QED BY <1>1, <2>1, <2>2, Kinds
<1> HIDE DEF c
<1>3. old \in {NoData} \cup Credential
  <2>1. 1 \in 1..MaxKeys /\ 0 \in 0..MaxImf
    BY OathAssumption
  <2>2. \A n \in Name : OldCredential(n) \in Credential
    BY <2>1 DEF OldCredential, Credential
  <2> QED BY <2>2
<1>4. \A f \in DOMAIN Contents : c[f] \in Contents[f]
  <2>1. code \in {NoData} \cup CodeKey
    BY DEF CodeKey
  <2>2. pin \in {NoData} \cup 0..MaxRetries
    BY OathAssumption
  <2> QED BY <1>2, <1>3, <2>1, <2>2, Kinds
<1>5. /\ IsDisk(disk, Contents)
      /\ \A f \in Files : file(f) = c[f] /\ Copies(disk, f) = {c[f]}
  BY <1>2, <1>4, SettledDisk, Kinds DEF file
<1>6. \A i \in Slots : Version(i) = <<c[i]>>
  BY <1>2, SettledVersions, Kinds DEF Version
<1>7. OathTypeOK
  <2>1. /\ keys \in 0..MaxKeys /\ wrong \in 0..MaxRetries
        /\ 0 \in 0..MaxImf
    BY <1>1, OathAssumption DEF Init
  <2>2. next \in [1..MaxKeys -> 0..MaxImf] /\ torn \subseteq 1..MaxKeys
    BY <2>1 DEF Init
  <2> QED BY <1>5, <2>1, <2>2 DEF Init, OathTypeOK
<1>8. OtpPinBudget /\ CheckIsPaid /\ CodeIsProved /\ NoPlainKey
  BY <1>2, <1>5, Kinds, OathAssumption
     DEF Init, OtpPinBudget, CheckIsPaid, CodeIsProved, NoPlainKey
<1>9. SlotInv
  <2>1. \A i \in Slots : Len(Version(i)) = 1 /\ Version(i)[1] = c[i]
    BY <1>6
  <2>2. next = [k \in 1..MaxKeys |-> 0]
    BY DEF Init
  <2>3. LastImfMovesOn
    <3>1. \A i \in Slots : c[i] # NoData => c[i].imf \in Nat /\ c[i].key \in 1..MaxKeys
      BY <1>2, <1>3, OathAssumption DEF Credential
    <3> QED BY <2>1, <2>2, <3>1 DEF LastImfMovesOn
  <2>4. KeyStaysInSlot
    <3> SUFFICES ASSUME NEW i \in Slots, NEW j \in Slots, i # j,
                        NEW n \in 1..Len(Version(i)), NEW m \in 1..Len(Version(j))
                 PROVE  Version(i)[n] = NoData \/ Version(j)[m] = NoData
      BY DEF KeyStaysInSlot, Holds
    <3>1. n = 1 /\ m = 1
      <4>1. Len(Version(i)) = 1 /\ Len(Version(j)) = 1
        BY <2>1
      <4>2. n \in 1..1 /\ m \in 1..1
        BY <4>1
      <4> QED BY <4>2
    <3>2. Version(i)[n] = c[i] /\ Version(j)[m] = c[j]
      BY <2>1, <3>1
    <3>3. i \in Slots \ {1} \/ j \in Slots \ {1}
      OBVIOUS
    <3>4. c[i] = NoData \/ c[j] = NoData
      BY <1>2, <3>3
    <3> QED BY <3>2, <3>4
  <2>5. KeysArePut
    <3>1. \A i \in Slots : c[i] # NoData => c[i].key <= keys
      BY <1>1, <1>2 DEF OldCredential
    <3> QED BY <2>1, <2>2, <3>1 DEF KeysArePut
  <2> QED BY <2>3, <2>4, <2>5 DEF SlotInv
<1> QED BY <1>7, <1>8, <1>9 DEF OathInv

LEMMA OathInductive == Spec => []OathInv
  BY InitOathInv, NextOathInv, PTL DEF Spec

-----------------------------------------------------------------------------
(* The theorems.                                                           *)

\* Wrong PINs are paid for with retries that are in the flash, through slow
\* writes and power cuts (oath_check_pin).
THEOREM OtpPinBudgetHolds == Spec => []OtpPinBudget
<1>1. OathInv => OtpPinBudget
  BY DEF OathInv
<1> QED BY <1>1, OathInductive, PTL

\* With an access code set the applet is only open to who proved that code or
\* the PIN (oath_select, cmd_set_code, cmd_validate, cmd_verify_otp_pin).
THEOREM CodeIsProvedHolds == Spec => []CodeIsProved
<1>1. OathInv => CodeIsProved
  BY DEF OathInv
<1> QED BY <1>1, OathInductive, PTL

\* No imf of a key is answered for twice, whatever happens to the slot, but
\* for keys a power cut took a write of or whose imf could not be stored
\* (cmd_calculate).
THEOREM ImfMovesOnHolds == Spec => []ImfMovesOn
  BY ReadImf, OathInductive, PTL

\* No path stores a key in plain once the secrets are migrated
\* (oath_put_credential_data, oath_migrate_secrets).
THEOREM NoPlainKeyHolds == Spec => []NoPlainKey
<1>1. OathInv => NoPlainKey
  BY DEF OathInv
<1> QED BY <1>1, OathInductive, PTL
=============================================================================
