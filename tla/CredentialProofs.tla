-------------------------- MODULE CredentialProofs --------------------------
(***************************************************************************)
(* The slots of the resident credentials and of the records of relying     *)
(* parties do not get into each other's way, for any number of slots,      *)
(* users and relying parties, any bounds, and writes of different files    *)
(* landing in any order: a power cut may combine any version of one slot   *)
(* with any version of another, so the invariant relates all of them.      *)
(*                                                                         *)
(* The counts follow the credentials when different files land in order:   *)
(* then a power cut leaves one of the moments the flash goes through.      *)
(***************************************************************************)
EXTENDS CredentialManagement, FlashQueueProofs

IsCred(c) == c \notin {Absent, Broken}

UserOf(c) == [rp |-> c.rp, user |-> c.user]

AnyUser == [rp : RP, user : User]

\* Whatever two slots may hold after a power cut, it is of different users
\* (but for the slots out), and two records are of different relying parties.
UsersApart(d, out) ==
    \A i, j \in Slots \ out : i # j =>
      \A a \in Copies(d, CredFile(i)), b \in Copies(d, CredFile(j)) :
         IsCred(a) /\ IsCred(b) => UserOf(a) # UserOf(b)

RecordsApart(d) ==
    \A i, j \in Slots : i # j =>
      \A a \in Copies(d, RpFile(i)), b \in Copies(d, RpFile(j)) :
         a # Absent /\ b # Absent => a.rp # b.rp

\* A version of a credential is followed by one of the same user, unless that
\* user is among who.
May(a, b, who) == IsCred(a) => \/ IsCred(b) /\ UserOf(b) = UserOf(a)
                               \/ UserOf(a) \in who

OnlyAsked(d, who) ==
    \A i \in Slots : LET v == Versions(d, CredFile(i))
                     IN  \A k \in 1..(Len(v) - 1) : May(v[k], v[k + 1], who)

Sound(d, who, out) == /\ IsDisk(d, Contents)
                      /\ UsersApart(d, out)
                      /\ RecordsApart(d)
                      /\ OnlyAsked(d, who)

HistoriesOK == asked \subseteq AnyUser /\ unsure \subseteq Slots

\* What is going to be written belongs into its slot, and what is deleted is
\* gone once everything is in the flash.
OpFits ==
    /\ op.step = "records" =>
         /\ IsCred(ram[CredFile(op.slot)]) => UserOf(ram[CredFile(op.slot)]) = UserOf(op.cred)
         /\ \A j \in Slots \ unsure : op.slot \notin unsure \cup {j} =>
              (IsCred(ram[CredFile(j)]) => UserOf(ram[CredFile(j)]) # UserOf(op.cred))
    /\ op.step = "delete" => ram[CredFile(op.slot)] = Absent

StoreInv == /\ StoreTypeOK
            /\ Sound(disk, asked, unsure)
            /\ OpFits
            /\ StateNamesCredentials

-----------------------------------------------------------------------------
\* The files and what they may hold.
LEMMA Names ==
    /\ DOMAIN Contents = Files
    /\ StateFile \in Files /\ Contents[StateFile] = StoreState
    /\ \A i \in Slots :
         /\ CredFile(i) \in Files /\ Contents[CredFile(i)] = {Absent, Broken} \cup Credential
         /\ RpFile(i) \in Files /\ Contents[RpFile(i)] = {Absent} \cup RpRecord
         /\ OlderFile(i) \in Files /\ Contents[OlderFile(i)] = {Absent} \cup Credential
         /\ StateFile \notin {CredFile(i), RpFile(i), OlderFile(i)}
         /\ \A j \in Slots : /\ CredFile(i) # RpFile(j)
                             /\ OlderFile(i) \notin {CredFile(j), RpFile(j)}
                             /\ CredFile(i) = CredFile(j) => i = j
                             /\ RpFile(i) = RpFile(j) => i = j
<1>1. /\ DOMAIN Contents = Files
      /\ StateFile \in Files
      /\ \A i \in Slots : CredFile(i) \in Files /\ RpFile(i) \in Files /\ OlderFile(i) \in Files
  BY DEF Contents, Files
<1>2. /\ StateFile[1] = "EF_DEV_STATE"
      /\ \A i \in Slots : /\ CredFile(i)[1] = "EF_CRED" /\ CredFile(i)[2] = i
                          /\ RpFile(i)[1] = "EF_RP" /\ RpFile(i)[2] = i
                          /\ OlderFile(i)[1] = "older"
  BY DEF StateFile, CredFile, RpFile, OlderFile
<1> QED
  <2>1. Contents[StateFile] = StoreState
    BY <1>1, <1>2 DEF Contents
  <2>2. ASSUME NEW i \in Slots
        PROVE  /\ Contents[CredFile(i)] = {Absent, Broken} \cup Credential
               /\ Contents[RpFile(i)] = {Absent} \cup RpRecord
               /\ Contents[OlderFile(i)] = {Absent} \cup Credential
    BY <1>1, <1>2 DEF Contents
  <2> QED BY <1>1, <1>2, <2>1, <2>2

\* What the handlers see in a file.
LEMMA Seen ==
    ASSUME StoreTypeOK
    PROVE  /\ \A f \in Files : ram[f] = Read(disk, f)
           /\ \A i \in Slots : /\ ram[CredFile(i)] \in {Absent, Broken} \cup Credential
                               /\ ram[RpFile(i)] \in {Absent} \cup RpRecord
                               /\ ram[CredFile(i)] \in Copies(disk, CredFile(i))
                               /\ ram[RpFile(i)] \in Copies(disk, RpFile(i))
<1>1. IsDisk(disk, Contents)
  BY DEF StoreTypeOK
<1>2. \A f \in Files : ram[f] = Read(disk, f)
  BY DEF ram
<1>3. \A f \in Files : Read(disk, f) \in Copies(disk, f) /\ Copies(disk, f) \subseteq Contents[f]
  BY <1>1, ReadIsCopy, Names
<1> QED BY <1>2, <1>3, Names

\* The lowest of some slots is one of them.
LEMMA LowestSlot ==
    ASSUME NEW S \in SUBSET Slots, S # {} PROVE Min(S) \in S
<1>1. S \in SUBSET Nat
  BY DEF Slots
<1>2. \E m \in S : \A k \in S : m <= k
  BY <1>1, HasLowest
<1> QED BY <1>2 DEF Min

\* A credential is told from an empty and from a broken slot.
LEMMA Told ==
    /\ \A c \in Credential : IsCred(c) /\ UserOf(c) \in [rp : RP, user : User]
    /\ ~IsCred(Absent) /\ ~IsCred(Broken)
    /\ \A c \in {Absent, Broken} \cup Credential : IsCred(c) => c \in Credential
    /\ \A c \in RpRecord : c # Absent
  BY AbsentAssumption DEF IsCred, UserOf, Credential

LEMMA SameUser ==
    \A a, b : UserOf(a) = UserOf(b) <=> a.rp = b.rp /\ a.user = b.user
<1> TAKE a, b
<1>1. ASSUME UserOf(a) = UserOf(b) PROVE a.rp = b.rp /\ a.user = b.user
  <2>1. UserOf(a).rp = UserOf(b).rp /\ UserOf(a).user = UserOf(b).user
    BY <1>1
  <2> QED BY <2>1 DEF UserOf
<1> QED BY <1>1 DEF UserOf

\* The store state depends on nothing but the slots.
LEMMA SameDescribed ==
    ASSUME NEW v, NEW w, \A i \in Slots : v[CredFile(i)] = w[CredFile(i)]
    PROVE  Described(v) = Described(w)
  BY DEF Described, Stored

-----------------------------------------------------------------------------
(* What the operations on the disk do to the slots.                        *)

\* A write into slot i that suits the other slots and what was in it.
LEMMA CredWrite ==
    ASSUME NEW d, NEW who, NEW out, Sound(d, who, out), NEW i \in Slots,
           NEW c \in {Absent, Broken} \cup Credential,
           May(Read(d, CredFile(i)), c, who),
           \A j \in Slots \ out : i \notin out \cup {j} =>
              \A b \in Copies(d, CredFile(j)) : IsCred(c) /\ IsCred(b) => UserOf(b) # UserOf(c)
    PROVE  LET e == Put(d, CredFile(i), c)
           IN  /\ Sound(e, who, out)
               /\ Read(e, CredFile(i)) = c
               /\ \A f \in Files \ {CredFile(i)} : /\ Read(e, f) = Read(d, f)
                                                   /\ Copies(e, f) = Copies(d, f)
<1> DEFINE e == Put(d, CredFile(i), c)
           g == CredFile(i)
<1>1. IsDisk(d, Contents) /\ g \in DOMAIN Contents /\ c \in Contents[g]
  BY Names DEF Sound
<1>2. /\ IsDisk(e, Contents)
      /\ Read(e, g) = c
      /\ Copies(e, g) = Copies(d, g) \cup {c}
      /\ \A f \in DOMAIN Contents \ {g} : /\ Read(e, f) = Read(d, f)
                                          /\ Copies(e, f) = Copies(d, f)
  BY <1>1, PutDisk
<1>3. /\ Versions(e, g) = Append(Versions(d, g), c)
      /\ \A f \in DOMAIN Contents \ {g} : Versions(e, f) = Versions(d, f)
  BY <1>1, PutVersions
<1>4. \A j \in Slots : /\ RpFile(j) \in DOMAIN Contents \ {g}
                       /\ j # i => CredFile(j) \in DOMAIN Contents \ {g}
  BY Names
<1> HIDE DEF e
<1>5. UsersApart(e, out)
  <2> SUFFICES ASSUME NEW j \in Slots \ out, NEW k \in Slots \ out, j # k,
                      NEW a \in Copies(e, CredFile(j)), NEW b \in Copies(e, CredFile(k)),
                      IsCred(a), IsCred(b)
               PROVE  UserOf(a) # UserOf(b)
    BY DEF UsersApart
  <2>1. CASE a \in Copies(d, CredFile(j)) /\ b \in Copies(d, CredFile(k))
    BY <2>1 DEF Sound, UsersApart
  <2>2. CASE j = i /\ a = c
    <3>1. b \in Copies(d, CredFile(k)) /\ k \in Slots \ out /\ i \notin out \cup {k}
      BY <1>2, <1>4, <2>2
    <3> QED BY <2>2, <3>1
  <2>3. CASE k = i /\ b = c
    <3>1. a \in Copies(d, CredFile(j)) /\ j \in Slots \ out /\ i \notin out \cup {j}
      BY <1>2, <1>4, <2>3
    <3> QED BY <2>3, <3>1
  <2> QED BY <1>2, <1>4, <2>1, <2>2, <2>3
<1>6. RecordsApart(e)
  BY <1>2, <1>4 DEF Sound, RecordsApart
<1>7. OnlyAsked(e, who)
  <2> SUFFICES ASSUME NEW j \in Slots
               PROVE  \A k \in 1..(Len(Versions(e, CredFile(j))) - 1) :
                         May(Versions(e, CredFile(j))[k], Versions(e, CredFile(j))[k + 1], who)
    BY DEF OnlyAsked
  <2>1. CASE j # i
    BY <1>3, <1>4, <2>1 DEF Sound, OnlyAsked
  <2>2. CASE j = i
    <3> DEFINE v == Versions(d, g)
               n == Len(v)
               w == Versions(e, g)
    <3>1. /\ v \in Seq(Contents[g]) /\ n \in Nat \ {0}
          /\ Read(d, g) = v[n]
      BY <1>1, VersionsOf
    <3>2. \A k \in 1..(n - 1) : May(v[k], v[k + 1], who)
      BY DEF Sound, OnlyAsked
    <3>3. w = Append(v, c)
      BY <1>3
    <3> HIDE DEF v, w
    <3>4. Len(w) = n + 1 /\ w[n + 1] = c /\ \A k \in 1..n : w[k] = v[k]
      BY <3>1, <3>3
    <3> HIDE DEF n
    <3>5. ASSUME NEW k \in 1..n PROVE May(w[k], w[k + 1], who)
      <4>1. CASE k = n
        BY <3>1, <3>4, <4>1
      <4>2. CASE k # n
        <5>1. k \in 1..(n - 1) /\ k + 1 \in 1..n
          BY <3>1, <4>2
        <5> QED BY <3>2, <3>4, <5>1
      <4> QED BY <4>1, <4>2
    <3> QED BY <2>2, <3>1, <3>4, <3>5 DEF w
  <2> QED BY <2>1, <2>2
<1> QED BY <1>2, <1>5, <1>6, <1>7, Names DEF Sound, e

\* A record in the place of an old one of the same relying party, or of one
\* that has no other.
LEMMA RecordWrite ==
    ASSUME NEW d, NEW who, NEW out, Sound(d, who, out), NEW i \in Slots,
           NEW c \in {Absent} \cup RpRecord,
           \A j \in Slots \ {i} : \A b \in Copies(d, RpFile(j)) :
              c # Absent /\ b # Absent => b.rp # c.rp
    PROVE  LET e == Put(d, RpFile(i), c)
           IN  /\ Sound(e, who, out)
               /\ Read(e, RpFile(i)) = c
               /\ \A f \in Files \ {RpFile(i)} : Read(e, f) = Read(d, f)
<1> DEFINE e == Put(d, RpFile(i), c)
           g == RpFile(i)
<1>1. IsDisk(d, Contents) /\ g \in DOMAIN Contents /\ c \in Contents[g]
  BY Names DEF Sound
<1>2. /\ IsDisk(e, Contents)
      /\ Read(e, g) = c
      /\ Copies(e, g) = Copies(d, g) \cup {c}
      /\ \A f \in DOMAIN Contents \ {g} : /\ Read(e, f) = Read(d, f)
                                          /\ Copies(e, f) = Copies(d, f)
  BY <1>1, PutDisk
<1>3. \A f \in DOMAIN Contents \ {g} : Versions(e, f) = Versions(d, f)
  BY <1>1, PutVersions
<1>4. \A j \in Slots : /\ CredFile(j) \in DOMAIN Contents \ {g}
                       /\ j # i => RpFile(j) \in DOMAIN Contents \ {g}
  BY Names
<1> HIDE DEF e
<1>5. UsersApart(e, out)
  BY <1>2, <1>4 DEF Sound, UsersApart
<1>6. RecordsApart(e)
  <2> SUFFICES ASSUME NEW j \in Slots, NEW k \in Slots, j # k,
                      NEW a \in Copies(e, RpFile(j)), NEW b \in Copies(e, RpFile(k)),
                      a # Absent, b # Absent
               PROVE  a.rp # b.rp
    BY DEF RecordsApart
  <2>1. CASE a \in Copies(d, RpFile(j)) /\ b \in Copies(d, RpFile(k))
    BY <2>1 DEF Sound, RecordsApart
  <2>2. CASE j = i /\ a = c
    <3>1. b \in Copies(d, RpFile(k)) /\ k \in Slots \ {i}
      BY <1>2, <1>4, <2>2
    <3> QED BY <2>2, <3>1
  <2>3. CASE k = i /\ b = c
    <3>1. a \in Copies(d, RpFile(j)) /\ j \in Slots \ {i}
      BY <1>2, <1>4, <2>3
    <3> QED BY <2>3, <3>1
  <2> QED BY <1>2, <1>4, <2>1, <2>2, <2>3
<1>7. OnlyAsked(e, who)
  BY <1>3, <1>4 DEF Sound, OnlyAsked
<1> QED BY <1>2, <1>5, <1>6, <1>7, Names DEF Sound, e

\* The store state may hold what is drawn for any credentials.
LEMMA StateValue ==
    ASSUME NEW d, IsDisk(d, Contents)
    PROVE  Described([f \in Files |-> Read(d, f)]) \in StoreState
<1> DEFINE v == [f \in Files |-> Read(d, f)]
<1>1. \A i \in Slots : v[CredFile(i)] \in {Absent, Broken} \cup Credential
  <2> TAKE i \in Slots
  <2>1. Read(d, CredFile(i)) \in {Absent, Broken} \cup Credential
    BY Names, ReadIsCopy
  <2> QED BY <2>1, Names
<1>2. Described(v) \in StoreState
  <2> HIDE DEF v
  <2> SUFFICES ASSUME NEW i \in Stored(v)
               PROVE  [rp |-> v[CredFile(i)].rp, user |-> v[CredFile(i)].user,
                       info |-> v[CredFile(i)].info] \in [rp : RP, user : User, info : Info]
    BY DEF Described, StoreState
  <2>1. v[CredFile(i)] \in Credential
    BY <1>1 DEF Stored
  <2> QED BY <2>1 DEF Credential
<1> QED BY <1>2

\* Neither the store state nor an older version is a slot or a record.
LEMMA OtherWrite ==
    ASSUME NEW d, NEW who, NEW out, Sound(d, who, out),
           NEW g \in Files, NEW c \in Contents[g],
           \A i \in Slots : g # CredFile(i) /\ g # RpFile(i)
    PROVE  LET e == Put(d, g, c)
           IN  /\ Sound(e, who, out)
               /\ Read(e, g) = c
               /\ \A f \in Files \ {g} : /\ Read(e, f) = Read(d, f)
                                        /\ Copies(e, f) = Copies(d, f)
<1> DEFINE e == Put(d, g, c)
<1>1. IsDisk(d, Contents) /\ DOMAIN Contents = Files
  BY Names DEF Sound
<1>2. /\ IsDisk(e, Contents)
      /\ Read(e, g) = c
      /\ \A f \in DOMAIN Contents \ {g} : /\ Read(e, f) = Read(d, f)
                                          /\ Copies(e, f) = Copies(d, f)
  BY <1>1, PutDisk
<1>3. \A f \in DOMAIN Contents \ {g} : Versions(e, f) = Versions(d, f)
  BY <1>1, PutVersions
<1>4. \A i \in Slots : /\ CredFile(i) \in DOMAIN Contents \ {g}
                       /\ RpFile(i) \in DOMAIN Contents \ {g}
  BY Names
<1> HIDE DEF e
<1>5. Sound(e, who, out)
  BY <1>2, <1>3, <1>4 DEF Sound, UsersApart, RecordsApart, OnlyAsked
<1> QED BY <1>1, <1>2, <1>5 DEF e

LEMMA OlderWrite ==
    ASSUME NEW d, NEW who, NEW out, Sound(d, who, out), NEW i \in Slots,
           NEW u \in {Absent} \cup Credential
    PROVE  LET e == OlderIs(d, i, u)
           IN  /\ Sound(e, who, out)
               /\ \A f \in Files \ {OlderFile(i)} : /\ Read(e, f) = Read(d, f)
                                                   /\ Copies(e, f) = Copies(d, f)
<1>1. /\ OlderFile(i) \in Files /\ u \in Contents[OlderFile(i)]
      /\ \A j \in Slots : OlderFile(i) # CredFile(j) /\ OlderFile(i) # RpFile(j)
  BY Names
<1>2. CASE OlderIs(d, i, u) = d
  BY <1>2
<1>3. CASE OlderIs(d, i, u) = Put(d, OlderFile(i), u)
  BY <1>1, <1>3, OtherWrite
<1> QED BY <1>2, <1>3 DEF OlderIs

\* The last write of a command that is done: the store state.
LEMMA StateWrite ==
    ASSUME NEW d, NEW who, NEW out, Sound(d, who, out)
    PROVE  LET e == dev_state_update(d)
           IN  /\ Sound(e, who, out)
               /\ Read(e, StateFile) = Described([f \in Files |-> Read(e, f)])
               /\ \A f \in Files \ {StateFile} : Read(e, f) = Read(d, f)
<1> DEFINE v == [f \in Files |-> Read(d, f)]
           e == Put(d, StateFile, Described(v))
<1>3. Described(v) \in StoreState
  BY StateValue DEF Sound
<1> HIDE DEF v
<1>4. /\ Sound(e, who, out)
      /\ Read(e, StateFile) = Described(v)
      /\ \A f \in Files \ {StateFile} : Read(e, f) = Read(d, f)
  BY <1>3, Names, OtherWrite
<1>6. \A i \in Slots : CredFile(i) \in Files \ {StateFile}
  BY Names
<1>7. e = dev_state_update(d)
  BY DEF dev_state_update, v
<1> HIDE DEF e
<1>9. Described(v) = Described([f \in Files |-> Read(e, f)])
  <2>1. \A i \in Slots : v[CredFile(i)] = [f \in Files |-> Read(e, f)][CredFile(i)]
    BY <1>4, <1>6 DEF v
  <2> QED BY <2>1, SameDescribed
<1> QED BY <1>4, <1>7, <1>9

\* Names once asked for may be joined by others, and are not needed any more
\* when nothing waits to be written; more slots may be left out.
LEMMA StillSound ==
    ASSUME NEW d, NEW who, NEW out, Sound(d, who, out), NEW more,
           NEW others, out \subseteq others
    PROVE  /\ who \subseteq more => Sound(d, more, others)
           /\ IsSettled(d) => Sound(d, more, others)
<1>0. UsersApart(d, others)
  BY DEF Sound, UsersApart
<1>1. CASE who \subseteq more
  BY <1>0, <1>1 DEF Sound, OnlyAsked, May
<1>2. CASE IsSettled(d)
  <2>1. IsDisk(d, Contents)
    BY DEF Sound
  <2>2. ASSUME NEW i \in Slots PROVE Len(Versions(d, CredFile(i))) = 1
    <3>1. CredFile(i) \in DOMAIN Contents
      BY Names
    <3>2. Len(Versions(d, CredFile(i))) = Len(d.pending[CredFile(i)]) + 1
      BY <2>1, <3>1, VersionsOf
    <3>3. d.pending[CredFile(i)] = <<>>
      BY <1>2, <2>1, <3>1 DEF IsSettled, IsDisk
    <3> QED BY <3>2, <3>3
  <2>3. OnlyAsked(d, more)
    BY <2>2 DEF OnlyAsked
  <2> QED BY <1>0, <2>3 DEF Sound
<1> QED BY <1>1, <1>2

\* A slot that holds no credential is apart from the others.
LEMMA SureAgain ==
    ASSUME NEW d, NEW who, NEW out, Sound(d, who, out), NEW i \in Slots,
           \A a \in Copies(d, CredFile(i)) : ~IsCred(a)
    PROVE  Sound(d, who, out \ {i})
  BY DEF Sound, UsersApart

LEMMA SoundDrained ==
    ASSUME NEW d, NEW who, NEW out, Sound(d, who, out), NEW f \in Files, CanDrain(d, f)
    PROVE  LET e == Drained(d, f)
           IN  /\ Sound(e, who, out)
               /\ \A g \in Files : Read(e, g) = Read(d, g)
<1> DEFINE e == Drained(d, f)
<1>1. IsDisk(d, Contents) /\ f \in DOMAIN Contents
  BY Names DEF Sound
<1>2. /\ IsDisk(e, Contents)
      /\ \A g \in DOMAIN Contents : /\ Read(e, g) = Read(d, g)
                                    /\ Copies(e, g) \subseteq Copies(d, g)
  BY <1>1, DrainedDisk
<1>3. /\ Versions(e, f) = Tail(Versions(d, f))
      /\ Len(Versions(d, f)) >= 2
      /\ \A g \in DOMAIN Contents \ {f} : Versions(e, g) = Versions(d, g)
  BY <1>1, DrainedVersions
<1> HIDE DEF e
<1>4. UsersApart(e, out) /\ RecordsApart(e)
  <2>1. \A i \in Slots : /\ Copies(e, CredFile(i)) \subseteq Copies(d, CredFile(i))
                         /\ Copies(e, RpFile(i)) \subseteq Copies(d, RpFile(i))
    BY <1>2, Names
  <2> QED BY <2>1 DEF Sound, UsersApart, RecordsApart
<1>5. OnlyAsked(e, who)
  <2> SUFFICES ASSUME NEW i \in Slots
               PROVE  \A k \in 1..(Len(Versions(e, CredFile(i))) - 1) :
                         May(Versions(e, CredFile(i))[k], Versions(e, CredFile(i))[k + 1], who)
    BY DEF OnlyAsked
  <2>1. CASE CredFile(i) # f
    BY <1>3, <2>1, Names DEF Sound, OnlyAsked
  <2>2. CASE CredFile(i) = f
    <3> DEFINE v == Versions(d, f)
               n == Len(v)
               w == Versions(e, f)
    <3>1. v \in Seq(Contents[f]) /\ n \in Nat \ {0}
      BY <1>1, VersionsOf
    <3>2. \A k \in 1..(n - 1) : May(v[k], v[k + 1], who)
      BY <2>2 DEF Sound, OnlyAsked
    <3>3. w = Tail(v) /\ n >= 2
      BY <1>3
    <3> HIDE DEF v, w
    <3>4. Len(w) = n - 1 /\ \A k \in 1..(n - 1) : w[k] = v[k + 1]
      BY <3>1, <3>3
    <3> HIDE DEF n
    <3>5. ASSUME NEW k \in 1..(n - 2) PROVE May(w[k], w[k + 1], who)
      <4>1. /\ k \in 1..(n - 1) /\ k + 1 \in 1..(n - 1)
            /\ (n - 1) - 1 = n - 2
        BY <3>1
      <4>2. w[k] = v[k + 1] /\ w[k + 1] = v[(k + 1) + 1]
        BY <3>4, <4>1
      <4> QED BY <3>2, <4>1, <4>2
    <3>6. Len(w) - 1 = n - 2
      BY <3>1, <3>4
    <3> QED BY <2>2, <3>5, <3>6 DEF w
  <2> QED BY <2>1, <2>2
<1> QED BY <1>2, <1>4, <1>5, Names DEF Sound, e

\* After a power cut nothing is to be asked for any more.
LEMMA SoundCrashed ==
    ASSUME NEW d, NEW who, NEW out, Sound(d, who, out)
    PROVE  LET e == Crashed(d)
           IN  /\ Sound(e, {}, out)
               /\ \A f \in Files : /\ Read(e, f) = d.flash[f]
                                   /\ Copies(e, f) = {d.flash[f]}
<1> DEFINE e == Crashed(d)
<1>1. IsDisk(d, Contents)
  BY DEF Sound
<1>2. /\ d.flash = [f \in DOMAIN Contents |-> d.flash[f]]
      /\ \A f \in DOMAIN Contents : d.flash[f] \in Contents[f]
  BY <1>1 DEF IsDisk
<1>3. /\ IsDisk(e, Contents)
      /\ \A f \in DOMAIN Contents : Read(e, f) = d.flash[f] /\ Copies(e, f) = {d.flash[f]}
  BY <1>2, SettledDisk DEF Crashed
<1>4. \A f \in DOMAIN Contents : Versions(e, f) = <<d.flash[f]>>
  BY <1>2, SettledVersions DEF Crashed
<1> HIDE DEF e
<1>5. UsersApart(e, out) /\ RecordsApart(e)
  <2>1. \A f \in DOMAIN Contents : Copies(e, f) \subseteq Copies(d, f)
    BY <1>3 DEF Copies
  <2>2. \A i \in Slots : /\ Copies(e, CredFile(i)) \subseteq Copies(d, CredFile(i))
                         /\ Copies(e, RpFile(i)) \subseteq Copies(d, RpFile(i))
    BY <2>1, Names
  <2> QED BY <2>2 DEF Sound, UsersApart, RecordsApart
<1>6. OnlyAsked(e, {})
  <2>1. \A i \in Slots : Len(Versions(e, CredFile(i))) = 1
    BY <1>4, Names
  <2> QED BY <2>1 DEF OnlyAsked
<1> QED BY <1>3, <1>5, <1>6, Names DEF Sound, e

\* The records of older firmware keep their relying parties and counts.
LEMMA OldRecords ==
    ASSUME NEW d, IsDisk(d, Contents)
    PROVE  \E v : /\ credential_migrate_rp_secure(d) = PutAll(d, v)
                  /\ DOMAIN v \subseteq {RpFile(i) : i \in Slots}
                  /\ IsFiniteSet(DOMAIN v)
                  /\ \A f \in DOMAIN v : /\ d.flash[f] \in RpRecord
                                         /\ v[f] \in RpRecord
                                         /\ v[f].rp = d.flash[f].rp
                                         /\ v[f].count = d.flash[f].count
<1> DEFINE old == {i \in Slots : d.flash[RpFile(i)] # Absent /\ ~d.flash[RpFile(i)].secure}
           T == {RpFile(i) : i \in old}
           v == [f \in T |-> [d.flash[f] EXCEPT !.secure = TRUE]]
<1>1. ASSUME NEW f \in DOMAIN v
      PROVE  /\ d.flash[f] \in RpRecord
             /\ v[f] \in RpRecord
             /\ v[f].rp = d.flash[f].rp
             /\ v[f].count = d.flash[f].count
  <2>1. d.flash[f] \in RpRecord
    BY Names DEF IsDisk
  <2>2. v[f] = [d.flash[f] EXCEPT !.secure = TRUE]
    OBVIOUS
  <2> HIDE DEF v
  <2> QED BY <2>1, <2>2 DEF RpRecord
<1>2. IsFiniteSet(DOMAIN v)
  <2>1. IsFiniteSet(Slots)
    <3>1. 0 \in Int /\ MaxSlots - 1 \in Int
      BY StoreAssumption
    <3> QED BY <3>1, FS_Interval DEF Slots
  <2>2. IsFiniteSet(old)
    BY <2>1, FS_Subset
  <2>3. IsFiniteSet(T)
    <3> DEFINE g == [i \in old |-> RpFile(i)]
    <3>1. g \in Surjection(old, T)
      BY DEF Surjection
    <3> HIDE DEF g, T, old
    <3> QED BY <2>2, <3>1, FS_Surjection
  <2> QED BY <2>3
<1>3. DOMAIN v \subseteq {RpFile(i) : i \in Slots}
  OBVIOUS
<1>4. credential_migrate_rp_secure(d) = PutAll(d, v)
  BY DEF credential_migrate_rp_secure
<1> HIDE DEF v
<1> QED BY <1>1, <1>2, <1>3, <1>4

LEMMA SoundMigrated ==
    ASSUME NEW d, NEW who, NEW out, Sound(d, who, out)
    PROVE  LET e == credential_migrate_rp_secure(d)
           IN  /\ Sound(e, who, out)
               /\ \A i \in Slots : Read(e, CredFile(i)) = Read(d, CredFile(i))
               /\ Read(e, StateFile) = Read(d, StateFile)
<1>1. IsDisk(d, Contents)
  BY DEF Sound
<1>2. PICK v : /\ credential_migrate_rp_secure(d) = PutAll(d, v)
               /\ DOMAIN v \subseteq {RpFile(i) : i \in Slots}
               /\ IsFiniteSet(DOMAIN v)
               /\ \A f \in DOMAIN v : /\ d.flash[f] \in RpRecord
                                      /\ v[f] \in RpRecord
                                      /\ v[f].rp = d.flash[f].rp
                                      /\ v[f].count = d.flash[f].count
  BY <1>1, OldRecords
<1> DEFINE e == PutAll(d, v)
<1>3. DOMAIN v \subseteq DOMAIN Contents /\ \A f \in DOMAIN v : v[f] \in Contents[f]
  BY <1>2, Names
<1>4. /\ IsDisk(e, Contents)
      /\ \A f \in DOMAIN v : Copies(e, f) = Copies(d, f) \cup {v[f]}
      /\ \A f \in DOMAIN Contents \ DOMAIN v : /\ Read(e, f) = Read(d, f)
                                               /\ Copies(e, f) = Copies(d, f)
  BY <1>1, <1>2, <1>3, PutAllDisk
<1>5. \A f \in DOMAIN Contents \ DOMAIN v : Versions(e, f) = Versions(d, f)
  BY <1>1, <1>3, PutAllVersions
<1> HIDE DEF e
<1>6. /\ StateFile \in DOMAIN Contents \ DOMAIN v
      /\ \A i \in Slots : CredFile(i) \in DOMAIN Contents \ DOMAIN v
  BY <1>2, Names
<1>7. ASSUME NEW i \in Slots, NEW a \in Copies(e, RpFile(i)), a # Absent
       PROVE  \E b \in Copies(d, RpFile(i)) : b # Absent /\ b.rp = a.rp
  <2>1. CASE RpFile(i) \notin DOMAIN v
    BY <1>4, <1>7, <2>1, Names
  <2>2. CASE RpFile(i) \in DOMAIN v
    <3>1. d.flash[RpFile(i)] # Absent /\ v[RpFile(i)].rp = d.flash[RpFile(i)].rp
      BY <1>2, <2>2, Told
    <3>2. a \in Copies(d, RpFile(i)) \cup {v[RpFile(i)]}
      BY <1>4, <2>2
    <3> QED BY <1>7, <3>1, <3>2 DEF Copies
  <2> QED BY <2>1, <2>2
<1>8. RecordsApart(e)
  <2> SUFFICES ASSUME NEW j \in Slots, NEW k \in Slots, j # k,
                      NEW a \in Copies(e, RpFile(j)), NEW b \in Copies(e, RpFile(k)),
                      a # Absent, b # Absent
               PROVE  a.rp # b.rp
    BY DEF RecordsApart
  <2>1. PICK x \in Copies(d, RpFile(j)) : x # Absent /\ x.rp = a.rp
    BY <1>7
  <2>2. PICK y \in Copies(d, RpFile(k)) : y # Absent /\ y.rp = b.rp
    BY <1>7
  <2> QED BY <2>1, <2>2 DEF Sound, RecordsApart
<1>9. UsersApart(e, out) /\ OnlyAsked(e, who)
  BY <1>4, <1>5, <1>6 DEF Sound, UsersApart, OnlyAsked
<1> QED BY <1>2, <1>4, <1>6, <1>8, <1>9 DEF Sound, e

-----------------------------------------------------------------------------
(* How a handler ends or goes on.                                          *)

LEMMA DoneInv ==
    ASSUME StoreInv, NEW d, Done(d), Sound(d, asked', unsure'), HistoriesOK'
    PROVE  StoreInv'
<1>1. disk' = dev_state_update(d) /\ op' = Idle /\ torn' = FALSE /\ mishaps' = mishaps
  BY DEF Done
<1>2. /\ Sound(disk', asked', unsure')
      /\ Read(disk', StateFile) = Described([f \in Files |-> Read(disk', f)])
  BY <1>1, StateWrite
<1>3. StoreTypeOK'
  BY <1>1, <1>2 DEF StoreInv, StoreTypeOK, Sound, HistoriesOK, AnyUser
<1>4. OpFits'
  BY <1>1 DEF OpFits, Idle
<1>5. StateNamesCredentials'
  <2>1. ram'[StateFile] = Read(disk', StateFile) /\ ram' = [f \in Files |-> Read(disk', f)]
    BY Names DEF ram
  <2> QED BY <1>2, <2>1 DEF StateNamesCredentials
<1> QED BY <1>2, <1>3, <1>4, <1>5 DEF StoreInv, Sound, UsersApart, RecordsApart, OnlyAsked

LEMMA FailedInv ==
    ASSUME StoreInv, NEW d, Failed(d), Sound(d, asked', unsure'), HistoriesOK'
    PROVE  StoreInv'
<1>1. /\ disk' = d /\ op' = Idle /\ torn' = TRUE
      /\ mishaps < MaxMishaps /\ mishaps' = mishaps + 1
  BY DEF Failed
<1>2. mishaps \in 0..MaxMishaps /\ MaxMishaps \in Nat
  BY StoreAssumption DEF StoreInv, StoreTypeOK
<1>3. mishaps' \in 0..MaxMishaps
  BY <1>1, <1>2
<1>4. StoreTypeOK'
  BY <1>1, <1>3 DEF StoreInv, StoreTypeOK, Sound, HistoriesOK, AnyUser
<1>5. OpFits' /\ StateNamesCredentials'
  BY <1>1 DEF OpFits, Idle, StateNamesCredentials
<1> QED BY <1>1, <1>4, <1>5 DEF StoreInv

LEMMA WaitingInv ==
    ASSUME StoreInv, NEW d, NEW step \in {"records", "store", "replace", "delete"},
           NEW i \in Slots, NEW c \in Credential, Waiting(d, step, i, c),
           Sound(d, asked', unsure'), HistoriesOK',
           step = "records" =>
             /\ IsCred(Read(d, CredFile(i))) => UserOf(Read(d, CredFile(i))) = UserOf(c)
             /\ \A j \in Slots \ unsure' : i \notin unsure' \cup {j} =>
                  (IsCred(Read(d, CredFile(j))) => UserOf(Read(d, CredFile(j))) # UserOf(c)),
           step = "delete" => Read(d, CredFile(i)) = Absent
    PROVE  StoreInv'
<1>1. /\ disk' = d /\ op' = [step |-> step, slot |-> i, cred |-> c]
      /\ mishaps' = mishaps /\ torn' = torn
  BY DEF Waiting
<1>2. op'.step = step /\ op'.slot = i /\ op'.cred = c /\ op' # Idle
  BY <1>1 DEF Idle
<1>3. StoreTypeOK'
  BY <1>1 DEF StoreInv, StoreTypeOK, Sound, HistoriesOK, AnyUser
<1>4. \A j \in Slots : ram'[CredFile(j)] = Read(d, CredFile(j))
  BY <1>1, Names DEF ram
<1>5. OpFits'
  BY <1>2, <1>4 DEF OpFits
<1>6. StateNamesCredentials'
  BY <1>2 DEF StateNamesCredentials
<1> QED BY <1>1, <1>3, <1>5, <1>6 DEF StoreInv

-----------------------------------------------------------------------------
(* The actions.                                                            *)

\* What a command finds when it starts: the slots are of different users.
LEMMA FirstOfUser ==
    ASSUME StoreInv, NEW i \in Slots, IsCred(ram[CredFile(i)]),
           NEW c \in Credential, UserOf(c) = UserOf(ram[CredFile(i)])
    PROVE  \A j \in Slots \ unsure : i \notin unsure \cup {j} =>
              /\ \A b \in Copies(disk, CredFile(j)) : IsCred(b) => UserOf(b) # UserOf(c)
              /\ IsCred(ram[CredFile(j)]) => UserOf(ram[CredFile(j)]) # UserOf(c)
  BY Seen DEF StoreInv, Sound, UsersApart

\* asked' after a command that is not about to delete or replace.
LEMMA StillAskedSound ==
    ASSUME StoreInv, NEW more \in SUBSET AnyUser
    PROVE  /\ Sound(disk, StillAsked \cup more, unsure)
           /\ StillAsked \cup more \subseteq AnyUser
           /\ unsure \subseteq Slots
<1>1. asked \subseteq AnyUser /\ unsure \subseteq Slots /\ Sound(disk, asked, unsure)
  BY DEF StoreInv, StoreTypeOK, AnyUser
<1>2. CASE IsSettled(disk)
  BY <1>1, <1>2, StillSound DEF StillAsked
<1>3. CASE ~IsSettled(disk)
  <2>1. asked \subseteq asked \cup more
    OBVIOUS
  <2>2. Sound(disk, asked \cup more, unsure)
    BY <1>1, <2>1, StillSound
  <2> QED BY <1>1, <1>3, <2>2 DEF StillAsked
<1> QED BY <1>2, <1>3

LEMMA StoreNewInv ==
    ASSUME StoreInv, NEW r \in RP, NEW u \in User, NEW x \in Info, StoreNew(r, u, x)
    PROVE  StoreInv'
<1> DEFINE i == Min(FreeSlots)
           c == NewCredential(r, u, x)
<1>1. i \in Slots /\ ram[CredFile(i)] = Absent
  <2>1. FreeSlots # {} /\ FreeSlots \in SUBSET Slots
    BY DEF StoreNew, FreeSlots
  <2>2. i \in FreeSlots
    BY <2>1, LowestSlot
  <2> QED BY <2>1, <2>2 DEF FreeSlots
<1>2. c \in Credential /\ c.rp = r /\ c.user = u
  BY DEF NewCredential, Credential
<1>3. /\ Waiting(disk, "records", i, c) /\ OfUser(ram, r, u) = {}
      /\ asked' = StillAsked /\ unsure' = unsure
  BY DEF StoreNew
<1> HIDE DEF i, c
<1>4. StoreTypeOK /\ Sound(disk, asked', unsure') /\ HistoriesOK'
  <2>1. {} \in SUBSET AnyUser /\ StillAsked \cup {} = StillAsked
    OBVIOUS
  <2>2. /\ Sound(disk, StillAsked \cup {}, unsure)
        /\ StillAsked \cup {} \subseteq AnyUser /\ unsure \subseteq Slots
    BY <2>1, StillAskedSound
  <2> QED BY <1>3, <2>1, <2>2 DEF StoreInv, HistoriesOK
<1>5. \A j \in Slots : Read(disk, CredFile(j)) = ram[CredFile(j)]
  BY <1>4, Seen, Names
<1>6. ASSUME NEW j \in Slots, IsCred(ram[CredFile(j)])
      PROVE  UserOf(ram[CredFile(j)]) # UserOf(c)
  <2>1. ~(ram[CredFile(j)].rp = r /\ ram[CredFile(j)].user = u)
    BY <1>3, <1>6 DEF OfUser, OfRp, Stored, IsCred
  <2> QED BY <1>2, <2>1, SameUser
<1>7. "records" = "records" =>
        /\ IsCred(Read(disk, CredFile(i))) =>
             UserOf(Read(disk, CredFile(i))) = UserOf(c)
        /\ \A j \in Slots \ unsure' : i \notin unsure' \cup {j} =>
             (IsCred(Read(disk, CredFile(j))) => UserOf(Read(disk, CredFile(j))) # UserOf(c))
  BY <1>1, <1>5, <1>6, Told
<1> QED BY <1>1, <1>2, <1>3, <1>4, <1>7, WaitingInv

\* A write of the slot of the user it is for, in the format that is there.
LEMMA InSlot ==
    ASSUME StoreInv, NEW i \in Slots, IsCred(ram[CredFile(i)]),
           NEW who, NEW out, Sound(disk, who, out), unsure \subseteq out,
           NEW c \in Credential \cup {Absent, Broken},
           \/ c \in Credential /\ UserOf(c) = UserOf(ram[CredFile(i)])
           \/ c \in {Absent, Broken} /\ UserOf(ram[CredFile(i)]) \in who
    PROVE  LET e == Put(disk, CredFile(i), c)
           IN  /\ Sound(e, who, out)
               /\ Read(e, CredFile(i)) = c
               /\ \A f \in Files \ {CredFile(i)} : /\ Read(e, f) = Read(disk, f)
                                                   /\ Copies(e, f) = Copies(disk, f)
<1>1. StoreTypeOK /\ ram[CredFile(i)] = Read(disk, CredFile(i))
  BY Seen, Names DEF StoreInv
<1>2. May(Read(disk, CredFile(i)), c, who)
  BY <1>1, Told DEF May
<1>3. \A j \in Slots \ out : i \notin out \cup {j} =>
         \A b \in Copies(disk, CredFile(j)) : IsCred(c) /\ IsCred(b) => UserOf(b) # UserOf(c)
  <2>1. CASE c \in Credential /\ UserOf(c) = UserOf(ram[CredFile(i)])
    BY <2>1, FirstOfUser
  <2>2. CASE c \in {Absent, Broken}
    BY <2>2, Told
  <2> QED BY <2>1, <2>2
<1> QED BY <1>2, <1>3, CredWrite

LEMMA StoreAgainInv ==
    ASSUME StoreInv, NEW r \in RP, NEW u \in User, NEW x \in Info, StoreAgain(r, u, x)
    PROVE  StoreInv'
<1> DEFINE i == Min(OfUser(ram, r, u))
           f == CredFile(i)
           c == [NewCredential(r, u, x) EXCEPT !.legacy = ram[f].legacy]
<1>1. /\ Asked({c}) /\ unsure' = unsure
      /\ \/ c.legacy /\ Done(Put(disk, f, c))
         \/ \E d \in {disk, Put(disk, f, Broken)} : Waiting(d, "records", i, c) \/ Failed(d)
  BY DEF StoreAgain
<1>2. i \in Slots /\ IsCred(ram[f]) /\ ram[f].rp = r /\ ram[f].user = u
  <2>1. OfUser(ram, r, u) # {} /\ OfUser(ram, r, u) \in SUBSET Slots
    BY DEF StoreAgain, OfUser, OfRp, Stored
  <2>2. i \in OfUser(ram, r, u)
    BY <2>1, LowestSlot
  <2> QED BY <2>1, <2>2 DEF OfUser, OfRp, Stored, IsCred
<1>3. StoreTypeOK /\ ram[f] \in Credential
  BY <1>2, Seen, Told DEF StoreInv
<1>4. c \in Credential /\ c.rp = r /\ c.user = u
  <2>1. ram[f].legacy \in BOOLEAN
    BY <1>3 DEF Credential
  <2> QED BY <2>1 DEF NewCredential, Credential
<1> HIDE DEF c
<1>5. UserOf(c) = UserOf(ram[f])
  BY <1>2, <1>4, SameUser
<1> HIDE DEF i
<1>6. /\ asked' = StillAsked \cup {UserOf(c)}
      /\ Sound(disk, asked', unsure') /\ HistoriesOK'
  <2>1. asked' = StillAsked \cup {UserOf(c)}
    BY <1>1 DEF Asked, UserOf
  <2>2. {UserOf(c)} \in SUBSET AnyUser
    BY <1>4, Told DEF AnyUser
  <2> QED BY <1>1, <2>1, <2>2, StillAskedSound DEF HistoriesOK
<1>7. \A j \in Slots : Read(disk, CredFile(j)) = ram[CredFile(j)]
  BY <1>3, Seen, Names
<1>8. \A j \in Slots \ unsure : i \notin unsure \cup {j} =>
         (IsCred(ram[CredFile(j)]) => UserOf(ram[CredFile(j)]) # UserOf(c))
  BY <1>2, <1>4, <1>5, FirstOfUser
<1>9. CASE Done(Put(disk, f, c))
  <2>1. Sound(Put(disk, f, c), asked', unsure')
    BY <1>1, <1>2, <1>4, <1>5, <1>6, InSlot
  <2> QED BY <1>6, <1>9, <2>1, DoneInv
<1>10. ASSUME NEW d \in {disk, Put(disk, f, Broken)}
       PROVE  /\ Sound(d, asked', unsure')
              /\ IsCred(Read(d, f)) => UserOf(Read(d, f)) = UserOf(c)
              /\ \A j \in Slots \ unsure' : i \notin unsure' \cup {j} =>
                   (IsCred(Read(d, CredFile(j))) => UserOf(Read(d, CredFile(j))) # UserOf(c))
  <2>1. CASE d = disk
    BY <1>1, <1>2, <1>5, <1>6, <1>7, <1>8, <2>1
  <2>2. CASE d = Put(disk, f, Broken)
    <3>1. /\ Sound(d, asked', unsure') /\ Read(d, f) = Broken
          /\ \A g \in Files \ {f} : Read(d, g) = Read(disk, g)
      BY <1>1, <1>2, <1>5, <1>6, <2>2, InSlot
    <3>2. \A j \in Slots \ {i} : CredFile(j) \in Files \ {f}
      BY <1>2, Names
    <3> QED BY <1>1, <1>7, <1>8, <3>1, <3>2, Told
  <2> QED BY <2>1, <2>2
<1>11. CASE \E d \in {disk, Put(disk, f, Broken)} : Waiting(d, "records", i, c)
  <2>1. PICK d \in {disk, Put(disk, f, Broken)} : Waiting(d, "records", i, c)
    BY <1>11
  <2>2. "records" = "records" =>
          /\ IsCred(Read(d, CredFile(i))) => UserOf(Read(d, CredFile(i))) = UserOf(c)
          /\ \A j \in Slots \ unsure' : i \notin unsure' \cup {j} =>
               (IsCred(Read(d, CredFile(j))) => UserOf(Read(d, CredFile(j))) # UserOf(c))
    BY <1>10
  <2> QED BY <1>2, <1>4, <1>6, <1>10, <2>1, <2>2, WaitingInv
<1>12. CASE \E d \in {disk, Put(disk, f, Broken)} : Failed(d)
  BY <1>6, <1>10, <1>12, FailedInv
<1> QED BY <1>1, <1>9, <1>11, <1>12

\* In the step "records" the credential goes where OpFits says, whatever else
\* is written first.
LEMMA RecordsFit ==
    ASSUME StoreInv, op.step = "records", IsSettled(disk), NEW d, Sound(d, asked, unsure),
           \A j \in Slots : /\ Read(d, CredFile(j)) = ram[CredFile(j)]
                            /\ Copies(d, CredFile(j)) = Copies(disk, CredFile(j))
    PROVE  /\ Sound(Put(d, CredFile(op.slot), op.cred), asked, unsure)
           /\ op.slot \in Slots /\ op.cred \in Credential
<1> DEFINE i == op.slot
           f == CredFile(i)
           c == op.cred
<1>1. i \in Slots /\ c \in Credential /\ StoreTypeOK
  <2>1. op # Idle
    BY DEF Idle
  <2> QED BY <2>1 DEF StoreInv, StoreTypeOK
<1>2. May(Read(d, f), c, asked)
  BY <1>1, Told DEF StoreInv, OpFits, May
<1>3. \A j \in Slots \ unsure : i \notin unsure \cup {j} =>
         \A b \in Copies(d, CredFile(j)) : IsCred(c) /\ IsCred(b) => UserOf(b) # UserOf(c)
  <2> TAKE j \in Slots \ unsure
  <2>1. Copies(d, CredFile(j)) = {ram[CredFile(j)]}
    <3>1. IsDisk(disk, Contents) /\ CredFile(j) \in DOMAIN Contents
      BY <1>1, Names DEF StoreTypeOK
    <3>2. Copies(disk, CredFile(j)) = {Read(disk, CredFile(j))}
      BY <3>1, SettledReads
    <3>3. ram[CredFile(j)] = Read(disk, CredFile(j))
      BY <1>1, Seen, Names
    <3> QED BY <3>2, <3>3
  <2> QED BY <2>1 DEF StoreInv, OpFits
<1> HIDE DEF i, c
<1>4. Sound(Put(d, f, c), asked, unsure)
  BY <1>1, <1>2, <1>3, CredWrite
<1> QED BY <1>1, <1>4 DEF i, c

\* What an older version leaves alone.
LEMMA Beneath ==
    ASSUME StoreInv, NEW i \in Slots, NEW u \in {Absent} \cup Credential
    PROVE  LET d == OlderIs(disk, i, u)
           IN  /\ Sound(d, asked, unsure)
               /\ \A j \in Slots : /\ Read(d, CredFile(j)) = ram[CredFile(j)]
                                   /\ Copies(d, CredFile(j)) = Copies(disk, CredFile(j))
                                   /\ Read(d, RpFile(j)) = ram[RpFile(j)]
                                   /\ Copies(d, RpFile(j)) = Copies(disk, RpFile(j))
<1> DEFINE d == OlderIs(disk, i, u)
<1>1. Sound(disk, asked, unsure) /\ StoreTypeOK
  BY DEF StoreInv
<1>2. /\ Sound(d, asked, unsure)
      /\ \A f \in Files \ {OlderFile(i)} : Read(d, f) = Read(disk, f) /\ Copies(d, f) = Copies(disk, f)
  BY <1>1, OlderWrite
<1> HIDE DEF d
<1>3. \A j \in Slots : /\ CredFile(j) \in Files \ {OlderFile(i)}
                       /\ RpFile(j) \in Files \ {OlderFile(i)}
                       /\ ram[CredFile(j)] = Read(disk, CredFile(j))
                       /\ ram[RpFile(j)] = Read(disk, RpFile(j))
  BY <1>1, Seen, Names
<1> QED BY <1>2, <1>3 DEF d

LEMMA HistoriesStay == ASSUME StoreInv, UNCHANGED <<asked, unsure>> PROVE HistoriesOK'
  BY DEF StoreInv, StoreTypeOK, HistoriesOK, AnyUser

LEMMA WriteManifestInv == ASSUME StoreInv, WriteManifest PROVE StoreInv'
<1> DEFINE i == op.slot
           u == IF ram[CredFile(i)] = Broken THEN Absent ELSE ram[CredFile(i)]
           d == OlderIs(disk, i, u)
           e == Put(d, CredFile(i), op.cred)
<1>1. /\ op.step = "records" /\ IsSettled(disk) /\ ram[CredFile(i)] # Absent
      /\ Waiting(e, "replace", i, op.cred) /\ UNCHANGED <<asked, unsure>>
  BY DEF WriteManifest, Synced
<1>2. i \in Slots /\ StoreTypeOK
  <2>1. op # Idle
    BY <1>1 DEF Idle
  <2> QED BY <2>1 DEF StoreInv, StoreTypeOK
<1>3. u \in {Absent} \cup Credential
  BY <1>1, <1>2, Seen
<1> HIDE DEF u
<1>4. /\ Sound(d, asked, unsure)
      /\ \A j \in Slots : /\ Read(d, CredFile(j)) = ram[CredFile(j)]
                          /\ Copies(d, CredFile(j)) = Copies(disk, CredFile(j))
  BY <1>2, <1>3, Beneath
<1> HIDE DEF d
<1>5. Sound(e, asked', unsure') /\ op.cred \in Credential
  BY <1>1, <1>4, RecordsFit
<1> HIDE DEF e, i
<1> QED BY <1>1, <1>2, <1>5, HistoriesStay, WaitingInv

LEMMA WriteMarkerInv == ASSUME StoreInv, WriteMarker PROVE StoreInv'
<1> DEFINE i == op.slot
           e == Put(disk, CredFile(i), op.cred)
<1>1. /\ op.step = "records" /\ IsSettled(disk) /\ UNCHANGED <<asked, unsure>>
      /\ Waiting(e, "store", i, op.cred) \/ Failed(OlderIs(disk, i, op.cred))
  BY DEF WriteMarker, Synced
<1>2. StoreTypeOK /\ Sound(disk, asked, unsure)
  BY DEF StoreInv
<1>3. \A j \in Slots : Read(disk, CredFile(j)) = ram[CredFile(j)]
  BY <1>2, Seen, Names
<1>4. Sound(e, asked', unsure') /\ op.cred \in Credential /\ i \in Slots
  BY <1>1, <1>2, <1>3, RecordsFit
<1> HIDE DEF e, i
<1>5. CASE Waiting(e, "store", i, op.cred)
  BY <1>1, <1>4, <1>5, HistoriesStay, WaitingInv
<1>6. CASE Failed(OlderIs(disk, i, op.cred))
  <2>1. Sound(OlderIs(disk, i, op.cred), asked', unsure')
    BY <1>1, <1>4, Beneath
  <2> QED BY <1>1, <1>6, <2>1, HistoriesStay, FailedInv
<1> QED BY <1>1, <1>5, <1>6

\* credential_store changes the first record it finds, and only if there is
\* none a new one: everything is in the flash then, so no version of another
\* record can come back.
LEMMA CountUpSound ==
    ASSUME StoreInv, IsSettled(disk), NEW d, NEW who, NEW out, Sound(d, who, out),
           \A j \in Slots : /\ Read(d, RpFile(j)) = ram[RpFile(j)]
                            /\ Copies(d, RpFile(j)) = Copies(disk, RpFile(j)),
           NEW r \in RP, RpRecords(ram, r) # {} \/ FreeRpSlots # {}
    PROVE  Sound(CountUp(d, r), who, out)
<1>1. StoreTypeOK
  BY DEF StoreInv
<1>2. CASE RpRecords(ram, r) # {}
  <2> DEFINE i == Min(RpRecords(ram, r))
             c == [ram[RpFile(i)] EXCEPT !.count = (ram[RpFile(i)].count + 1) % CountMod]
  <2>1. i \in Slots /\ ram[RpFile(i)] # Absent /\ ram[RpFile(i)].rp = r
    <3>1. RpRecords(ram, r) \in SUBSET Slots
      BY DEF RpRecords
    <3>2. i \in RpRecords(ram, r)
      BY <1>2, <3>1, LowestSlot
    <3> QED BY <3>2 DEF RpRecords
  <2>2. CountUp(d, r) = Put(d, RpFile(i), c)
    BY <1>2 DEF CountUp
  <2>3. ram[RpFile(i)] \in RpRecord /\ ram[RpFile(i)] \in Copies(d, RpFile(i))
    BY <1>1, <2>1, Seen
  <2>4. (ram[RpFile(i)].count + 1) % CountMod \in 0..(CountMod - 1)
    <3>1. ram[RpFile(i)].count \in Nat /\ CountMod \in Nat \ {0}
      BY <2>3, StoreAssumption DEF RpRecord
    <3> HIDE DEF i
    <3> QED BY <3>1
  <2>5. c \in RpRecord /\ c.rp = r
    BY <2>1, <2>3, <2>4 DEF RpRecord
  <2> HIDE DEF c, i
  <2>6. \A j \in Slots \ {i} : \A b \in Copies(d, RpFile(j)) :
           c # Absent /\ b # Absent => b.rp # c.rp
    BY <1>1, <2>1, <2>3, <2>5 DEF Sound, RecordsApart
  <2> QED BY <1>1, <2>1, <2>2, <2>5, <2>6, RecordWrite
<1>3. CASE RpRecords(ram, r) = {}
  <2> DEFINE i == Min(FreeRpSlots)
             c == [rp |-> r, count |-> 1, secure |-> TRUE]
  <2>1. i \in Slots
    <3>1. FreeRpSlots \in SUBSET Slots /\ FreeRpSlots # {}
      BY <1>3 DEF FreeRpSlots
    <3>2. i \in FreeRpSlots
      BY <3>1, LowestSlot
    <3> QED BY <3>1, <3>2
  <2>2. CountUp(d, r) = Put(d, RpFile(i), c)
    BY <1>3 DEF CountUp
  <2>3. c \in RpRecord /\ c.rp = r
    BY StoreAssumption DEF RpRecord
  <2> HIDE DEF c, i
  <2>4. \A j \in Slots \ {i} : \A b \in Copies(d, RpFile(j)) :
           c # Absent /\ b # Absent => b.rp # c.rp
    <3> TAKE j \in Slots \ {i}
    <3>1. IsDisk(disk, Contents) /\ RpFile(j) \in DOMAIN Contents
      BY <1>1, Names DEF StoreTypeOK
    <3>2. Copies(disk, RpFile(j)) = {Read(disk, RpFile(j))}
      BY <3>1, SettledReads
    <3>3. Read(disk, RpFile(j)) = ram[RpFile(j)]
      BY <1>1, Seen, Names
    <3> QED BY <1>3, <2>3, <3>2, <3>3 DEF RpRecords
  <2> QED BY <1>1, <2>1, <2>2, <2>3, <2>4, RecordWrite
<1> QED BY <1>2, <1>3

\* deleteCredential counts down, or empties, the record it finds; nothing else
\* is written to the records between its start and then.
LEMMA CountDownSound ==
    ASSUME StoreInv, NEW d, NEW who, NEW out, Sound(d, who, out), NEW r \in RP,
           \A i \in Slots : /\ Read(d, RpFile(i)) = ram[RpFile(i)]
                            /\ Copies(d, RpFile(i)) = Copies(disk, RpFile(i))
    PROVE  Sound(CountDown(d, r), who, out)
<1>1. StoreTypeOK
  BY DEF StoreInv
<1>2. CASE RpRecords(ram, r) = {}
  BY <1>2 DEF CountDown
<1>3. CASE RpRecords(ram, r) # {}
  <2> DEFINE i == Min(RpRecords(ram, r))
             n == (ram[RpFile(i)].count - 1) % CountMod
             c == IF n = 0 THEN Absent ELSE [ram[RpFile(i)] EXCEPT !.count = n]
  <2>1. i \in Slots /\ ram[RpFile(i)] # Absent /\ ram[RpFile(i)].rp = r
    <3>1. RpRecords(ram, r) \in SUBSET Slots
      BY DEF RpRecords
    <3>2. i \in RpRecords(ram, r)
      BY <1>3, <3>1, LowestSlot
    <3> QED BY <3>2 DEF RpRecords
  <2>2. CountDown(d, r) = Put(d, RpFile(i), c)
    BY <1>3 DEF CountDown
  <2>3. ram[RpFile(i)] \in RpRecord /\ ram[RpFile(i)] \in Copies(d, RpFile(i))
    BY <1>1, <2>1, Seen
  <2>4. n \in 0..(CountMod - 1)
    <3>1. ram[RpFile(i)].count \in Nat /\ CountMod \in Nat \ {0}
      BY <2>3, StoreAssumption DEF RpRecord
    <3> HIDE DEF i
    <3> QED BY <3>1
  <2> HIDE DEF n
  <2>5. c \in {Absent} \cup RpRecord /\ (c # Absent => c.rp = r)
    BY <2>1, <2>3, <2>4 DEF RpRecord
  <2> HIDE DEF c, i
  <2>6. \A j \in Slots \ {i} : \A b \in Copies(d, RpFile(j)) :
           c # Absent /\ b # Absent => b.rp # c.rp
    BY <2>1, <2>3, <2>5 DEF Sound, RecordsApart
  <2> QED BY <2>1, <2>2, <2>5, <2>6, RecordWrite
<1> QED BY <1>2, <1>3

LEMMA FinishStoreInv == ASSUME StoreInv, FinishStore PROVE StoreInv'
<1> DEFINE d == OlderIs(disk, op.slot, Absent)
           r == op.cred.rp
<1>1. /\ op.step = "store" /\ IsSettled(disk) /\ UNCHANGED <<asked, unsure>>
      /\ \/ /\ RpRecords(ram, r) # {} \/ FreeRpSlots # {}
            /\ Done(CountUp(d, r))
         \/ Failed(d)
  BY DEF FinishStore, Synced
<1>2. r \in RP /\ op.slot \in Slots
  <2>1. op # Idle
    BY <1>1 DEF Idle
  <2> QED BY <2>1 DEF StoreInv, StoreTypeOK, Credential
<1>3. /\ Sound(d, asked', unsure')
      /\ \A j \in Slots : /\ Read(d, RpFile(j)) = ram[RpFile(j)]
                          /\ Copies(d, RpFile(j)) = Copies(disk, RpFile(j))
  BY <1>1, <1>2, Beneath
<1> HIDE DEF d, r
<1>4. CASE /\ RpRecords(ram, r) # {} \/ FreeRpSlots # {}
           /\ Done(CountUp(d, r))
  <2>1. Sound(CountUp(d, r), asked', unsure')
    BY <1>1, <1>2, <1>3, <1>4, CountUpSound
  <2> QED BY <1>1, <1>4, <2>1, HistoriesStay, DoneInv
<1>5. CASE Failed(d)
  BY <1>1, <1>3, <1>5, HistoriesStay, FailedInv
<1> QED BY <1>1, <1>4, <1>5

\* The container is gone, and with it what an older version could show.
LEMMA FinishDeleteInv == ASSUME StoreInv, FinishDelete PROVE StoreInv'
<1> DEFINE i == op.slot
           r == op.cred.rp
<1>1. /\ op.step = "delete" /\ IsSettled(disk) /\ Done(CountDown(disk, r))
      /\ asked' = asked /\ unsure' = unsure \ {i}
  BY DEF FinishDelete, Synced
<1>2. StoreTypeOK /\ Sound(disk, asked, unsure) /\ HistoriesOK'
  BY <1>1 DEF StoreInv, StoreTypeOK, HistoriesOK, AnyUser
<1>3. r \in RP /\ i \in Slots
  <2>1. op # Idle
    BY <1>1 DEF Idle
  <2> QED BY <1>2, <2>1 DEF StoreTypeOK, Credential
<1>4. \A j \in Slots : Read(disk, RpFile(j)) = ram[RpFile(j)]
  BY <1>2, Seen, Names
<1>5. \A a \in Copies(disk, CredFile(i)) : ~IsCred(a)
  <2>1. IsDisk(disk, Contents) /\ CredFile(i) \in DOMAIN Contents
    BY <1>2, <1>3, Names DEF StoreTypeOK
  <2>2. Copies(disk, CredFile(i)) = {Read(disk, CredFile(i))}
    BY <1>1, <2>1, SettledReads
  <2>3. Read(disk, CredFile(i)) = Absent
    BY <1>1, <1>2, <1>3, Seen, Names DEF StoreInv, OpFits
  <2> QED BY <2>2, <2>3, Told
<1> HIDE DEF i, r
<1>6. Sound(disk, asked', unsure')
  BY <1>1, <1>2, <1>3, <1>5, SureAgain
<1>7. Sound(CountDown(disk, r), asked', unsure')
  BY <1>3, <1>4, <1>6, CountDownSound
<1> QED BY <1>1, <1>2, <1>7, DoneInv

\* Before a deletion: those who lose a credential by it are among who.
LEMMA AskedBefore ==
    ASSUME StoreInv, NEW cs \in SUBSET Credential, Asked(cs)
    PROVE  /\ Sound(disk, asked', unsure)
           /\ asked' \subseteq AnyUser /\ unsure \subseteq Slots
           /\ \A c \in cs : UserOf(c) \in asked'
<1>1. asked' = StillAsked \cup {UserOf(c) : c \in cs}
  BY DEF Asked, UserOf
<1>2. {UserOf(c) : c \in cs} \in SUBSET AnyUser
  BY Told DEF AnyUser
<1> QED BY <1>1, <1>2, StillAskedSound

LEMMA DeleteSingleFileInv ==
    ASSUME StoreInv, NEW i \in Slots, DeleteSingleFile(i) PROVE StoreInv'
<1> DEFINE f == CredFile(i)
           c == ram[f]
<1>1. Asked({c}) /\ Done(CountDown(Put(disk, f, Absent), c.rp)) /\ unsure' = unsure
  BY DEF DeleteSingleFile
<1>2. IsCred(c)
  BY DEF DeleteSingleFile, Stored, IsCred
<1>3. StoreTypeOK /\ c \in Credential
  BY <1>2, Seen, Told DEF StoreInv
<1>4. UserOf(c) \in asked' /\ Sound(disk, asked', unsure') /\ HistoriesOK'
  BY <1>1, <1>3, AskedBefore DEF HistoriesOK
<1>5. \A j \in Slots : /\ Read(disk, RpFile(j)) = ram[RpFile(j)]
                       /\ RpFile(j) \in Files \ {f}
  BY <1>3, Seen, Names
<1>6. /\ Sound(Put(disk, f, Absent), asked', unsure')
      /\ \A g \in Files \ {f} : /\ Read(Put(disk, f, Absent), g) = Read(disk, g)
                                /\ Copies(Put(disk, f, Absent), g) = Copies(disk, g)
  BY <1>1, <1>2, <1>4, InSlot
<1>7. c.rp \in RP
  BY <1>3 DEF Credential
<1>8. Sound(CountDown(Put(disk, f, Absent), c.rp), asked', unsure')
  BY <1>5, <1>6, <1>7, CountDownSound
<1> QED BY <1>1, <1>4, <1>8, DoneInv

\* The older version of a container is a credential.
LEMMA OlderVersion ==
    ASSUME StoreInv, NEW i \in Slots,
           NEW u \in IF InOrder THEN {ram[OlderFile(i)]} ELSE Copies(disk, OlderFile(i))
    PROVE  u \in {Absent} \cup Credential
<1>1. IsDisk(disk, Contents) /\ OlderFile(i) \in DOMAIN Contents /\ OlderFile(i) \in Files
  BY Names DEF StoreInv, StoreTypeOK
<1>2. /\ Read(disk, OlderFile(i)) \in Copies(disk, OlderFile(i))
      /\ Copies(disk, OlderFile(i)) \subseteq Contents[OlderFile(i)]
  BY <1>1, ReadIsCopy
<1>3. ram[OlderFile(i)] = Read(disk, OlderFile(i))
  BY <1>1 DEF ram
<1> QED BY <1>2, <1>3, Names

\* The version that is deleted and the one it may uncover are of users who are
\* asked for; the slot is left out if they are not the same.
LEMMA DeletionSound ==
    ASSUME StoreInv, NEW i \in Slots, IsCred(ram[CredFile(i)]),
           NEW who, NEW out, Sound(disk, who, out), UserOf(ram[CredFile(i)]) \in who,
           NEW u \in {Absent} \cup Credential, u # Absent => UserOf(u) \in who,
           u # Absent /\ i \notin out => UserOf(u) = UserOf(ram[CredFile(i)])
    PROVE  /\ Sound(ContainerDeleted(i, u), who, out)
           /\ Read(ContainerDeleted(i, u), CredFile(i)) = Absent
<1> DEFINE f == CredFile(i)
           c == ram[f]
           a == IF u \in {Absent, c} THEN disk ELSE Put(disk, f, u)
           b == IF InOrder THEN a ELSE OlderIs(a, i, c)
           d == Put(b, f, Broken)
           e == OlderIs(d, i, Absent)
<1>1. /\ StoreTypeOK /\ c \in Credential /\ c = Read(disk, f)
      /\ c \in Copies(disk, f)
      /\ f \in Files \ {OlderFile(i)} /\ ContainerDeleted(i, u) = Put(e, f, Absent)
  BY Seen, Told, Names DEF StoreInv, ContainerDeleted
<1>2. \A x \in {Absent, Broken} : /\ \A y : UserOf(y) \in who \/ ~IsCred(y) => May(y, x, who)
                                  /\ ~IsCred(x)
  BY Told DEF May
<1>3. /\ Sound(a, who, out)
      /\ Read(a, f) \in Credential /\ UserOf(Read(a, f)) \in who
  <2>1. CASE u \in {Absent, c}
    BY <1>1, <2>1
  <2>2. CASE u \notin {Absent, c}
    <3>1. May(Read(disk, f), u, who)
      BY <1>1 DEF May
    <3>2. \A j \in Slots \ out : i \notin out \cup {j} =>
             \A y \in Copies(disk, CredFile(j)) : IsCred(u) /\ IsCred(y) => UserOf(y) # UserOf(u)
      BY <1>1, <2>2 DEF Sound, UsersApart
    <3>3. Sound(Put(disk, f, u), who, out) /\ Read(Put(disk, f, u), f) = u
      BY <2>2, <3>1, <3>2, CredWrite
    <3> QED BY <2>2, <3>3
  <2> QED BY <2>1, <2>2
<1> HIDE DEF a, c
<1>4. /\ Sound(b, who, out)
      /\ UserOf(Read(b, f)) \in who
  <2>1. /\ Sound(OlderIs(a, i, c), who, out)
        /\ \A g \in Files \ {OlderFile(i)} : Read(OlderIs(a, i, c), g) = Read(a, g)
    BY <1>1, <1>3, OlderWrite
  <2> QED BY <1>1, <1>3, <2>1
<1> HIDE DEF b
<1>5. Sound(d, who, out) /\ Read(d, f) = Broken
  BY <1>2, <1>4, CredWrite
<1> HIDE DEF d
<1>6. Sound(e, who, out) /\ Read(e, f) = Broken
  <2>1. /\ Sound(e, who, out)
        /\ \A g \in Files \ {OlderFile(i)} : Read(e, g) = Read(d, g)
    BY <1>5, OlderWrite
  <2> QED BY <1>1, <1>5, <2>1
<1> HIDE DEF e
<1>7. Sound(Put(e, f, Absent), who, out) /\ Read(Put(e, f, Absent), f) = Absent
  BY <1>2, <1>6, CredWrite
<1> QED BY <1>1, <1>7

LEMMA DeleteContainerInv ==
    ASSUME StoreInv, NEW i \in Slots, DeleteContainer(i) PROVE StoreInv'
<1> DEFINE c == ram[CredFile(i)]
<1>1. PICK u \in IF InOrder THEN {ram[OlderFile(i)]} ELSE Copies(disk, OlderFile(i)) :
        /\ Waiting(ContainerDeleted(i, u), "delete", i, c)
        /\ Asked({c, u} \ {Absent})
        /\ unsure' = IF u = Absent \/ <<u.rp, u.user>> = <<c.rp, c.user>>
                     THEN unsure ELSE unsure \cup {i}
  BY DEF DeleteContainer
<1>2. IsCred(c)
  BY DEF DeleteContainer, Stored, IsCred
<1>3. c \in Credential /\ u \in {Absent} \cup Credential
  BY <1>2, Seen, Told, OlderVersion DEF StoreInv
<1> HIDE DEF c
<1>4. /\ Sound(disk, asked', unsure) /\ asked' \subseteq AnyUser /\ unsure \subseteq Slots
      /\ UserOf(c) \in asked' /\ (u # Absent => UserOf(u) \in asked')
  <2>1. {c, u} \ {Absent} \in SUBSET Credential /\ c # Absent
    BY <1>2, <1>3, Told
  <2>2. /\ Sound(disk, asked', unsure) /\ asked' \subseteq AnyUser /\ unsure \subseteq Slots
        /\ \A x \in {c, u} \ {Absent} : UserOf(x) \in asked'
    BY <1>1, <2>1, AskedBefore
  <2> QED BY <2>1, <2>2
<1>5. /\ unsure \subseteq unsure' /\ unsure' \subseteq Slots
      /\ u # Absent /\ i \notin unsure' => UserOf(u) = UserOf(c)
  BY <1>1, <1>4, SameUser
<1>6. Sound(disk, asked', unsure')
  BY <1>4, <1>5, StillSound
<1>7. /\ Sound(ContainerDeleted(i, u), asked', unsure')
      /\ Read(ContainerDeleted(i, u), CredFile(i)) = Absent
  BY <1>2, <1>3, <1>4, <1>5, <1>6, DeletionSound DEF c
<1>8. HistoriesOK'
  BY <1>4, <1>5 DEF HistoriesOK
<1> QED BY <1>1, <1>3, <1>6, <1>7, <1>8, WaitingInv

LEMMA UpdateUserInv ==
    ASSUME StoreInv, NEW i \in Slots, NEW x \in Info, UpdateUser(i, x) PROVE StoreInv'
<1> DEFINE f == CredFile(i)
           c == [ram[f] EXCEPT !.info = x]
<1>1. /\ asked' = StillAsked /\ unsure' = unsure
      /\ Done(Put(disk, f, c)) \/ Waiting(disk, "records", i, c)
  BY DEF UpdateUser
<1>2. IsCred(ram[f])
  BY DEF UpdateUser, Stored, IsCred
<1>3. StoreTypeOK /\ ram[f] \in Credential
  BY <1>2, Seen, Told DEF StoreInv
<1>4. c \in Credential /\ c.rp = ram[f].rp /\ c.user = ram[f].user
  BY <1>3 DEF Credential
<1> HIDE DEF c
<1>5. UserOf(c) = UserOf(ram[f])
  BY <1>4, SameUser
<1>6. Sound(disk, asked', unsure') /\ HistoriesOK'
  <2>1. {} \in SUBSET AnyUser /\ StillAsked \cup {} = StillAsked
    OBVIOUS
  <2>2. /\ Sound(disk, StillAsked \cup {}, unsure)
        /\ StillAsked \cup {} \subseteq AnyUser /\ unsure \subseteq Slots
    BY <2>1, StillAskedSound
  <2> QED BY <1>1, <2>1, <2>2 DEF HistoriesOK
<1>7. CASE Done(Put(disk, f, c))
  <2>1. Sound(Put(disk, f, c), asked', unsure')
    BY <1>1, <1>2, <1>4, <1>5, <1>6, InSlot
  <2> QED BY <1>6, <1>7, <2>1, DoneInv
<1>8. CASE Waiting(disk, "records", i, c)
  <2>1. \A j \in Slots : Read(disk, CredFile(j)) = ram[CredFile(j)]
    BY <1>3, Seen, Names
  <2>2. \A j \in Slots \ unsure : i \notin unsure \cup {j} =>
           (IsCred(ram[CredFile(j)]) => UserOf(ram[CredFile(j)]) # UserOf(c))
    BY <1>2, <1>4, <1>5, FirstOfUser
  <2>3. "records" = "records" =>
          /\ IsCred(Read(disk, f)) => UserOf(Read(disk, f)) = UserOf(c)
          /\ \A j \in Slots \ unsure' : i \notin unsure' \cup {j} =>
               (IsCred(Read(disk, CredFile(j))) => UserOf(Read(disk, CredFile(j))) # UserOf(c))
    BY <1>1, <1>5, <2>1, <2>2
  <2> QED BY <1>4, <1>6, <1>8, <2>3, WaitingInv
<1> QED BY <1>1, <1>7, <1>8

LEMMA DrainInv == ASSUME StoreInv, Drain PROVE StoreInv'
<1>1. PICK f \in Files : CanDrain(disk, f) /\ disk' = Drained(disk, f)
  BY DEF Drain
<1>2. UNCHANGED <<op, mishaps, torn, asked, unsure>>
  BY DEF Drain
<1>3. /\ Sound(disk', asked, unsure)
      /\ \A g \in Files : Read(disk', g) = Read(disk, g)
  BY <1>1, SoundDrained DEF StoreInv
<1>4. ram' = ram
  BY <1>3 DEF ram
<1> QED BY <1>2, <1>3, <1>4 DEF StoreInv, StoreTypeOK, Sound, OpFits, StateNamesCredentials

LEMMA PowerCycleInv == ASSUME StoreInv, PowerCycle PROVE StoreInv'
<1> DEFINE d == Crashed(disk)
<1>1. /\ disk' \in {d, credential_migrate_rp_secure(d)}
      /\ op' = Idle /\ asked' = {} /\ unsure' = unsure
      /\ \/ op = Idle /\ IsSettled(disk) /\ mishaps' = mishaps /\ torn' = torn
         \/ mishaps < MaxMishaps /\ mishaps' = mishaps + 1 /\ torn' = TRUE
  BY DEF PowerCycle
<1>2. /\ Sound(d, {}, unsure)
      /\ \A f \in Files : Read(d, f) = disk.flash[f]
  BY SoundCrashed DEF StoreInv
<1> HIDE DEF d
<1>3. /\ Sound(disk', {}, unsure)
      /\ \A i \in Slots : Read(disk', CredFile(i)) = disk.flash[CredFile(i)]
      /\ Read(disk', StateFile) = disk.flash[StateFile]
  <2>1. CASE disk' = d
    BY <1>2, <2>1, Names
  <2>2. CASE disk' = credential_migrate_rp_secure(d)
    <3>1. /\ Sound(disk', {}, unsure)
          /\ \A i \in Slots : Read(disk', CredFile(i)) = Read(d, CredFile(i))
          /\ Read(disk', StateFile) = Read(d, StateFile)
      BY <1>2, <2>2, SoundMigrated
    <3> QED BY <1>2, <3>1, Names
  <2> QED BY <1>1, <2>1, <2>2
<1>4. mishaps' \in 0..MaxMishaps
  BY <1>1, StoreAssumption DEF StoreInv, StoreTypeOK
<1>5. StoreTypeOK'
  BY <1>1, <1>3, <1>4 DEF StoreInv, StoreTypeOK, Sound
<1>6. OpFits'
  BY <1>1 DEF OpFits, Idle
<1>7. StateNamesCredentials'
  <2> SUFFICES ASSUME ~torn', op = Idle, IsSettled(disk), ~torn
               PROVE  ram'[StateFile] = Described(ram')
    BY <1>1 DEF StateNamesCredentials
  <2>1. ram[StateFile] = Described(ram)
    BY DEF StoreInv, StateNamesCredentials
  <2>2. \A f \in Files : ram[f] = disk.flash[f]
    BY Names DEF StoreInv, StoreTypeOK, IsDisk, IsSettled, Read, ram
  <2>3. /\ \A i \in Slots : ram'[CredFile(i)] = ram[CredFile(i)]
        /\ ram'[StateFile] = ram[StateFile]
    BY <1>3, <2>2, Names DEF ram
  <2> QED BY <2>1, <2>3, SameDescribed
<1> QED BY <1>1, <1>3, <1>5, <1>6, <1>7 DEF StoreInv

-----------------------------------------------------------------------------
(* The invariant and what it shows.                                        *)

\* The files a device starts with.
LEMMA InitialStore ==
    ASSUME StoreInit
    PROVE  \E w : \E cs \in [Slots -> {Absent} \cup Credential],
                   rs \in [Slots -> {Absent} \cup RpRecord] :
              /\ LegacyStore(cs, rs)
              /\ disk = Settled(w)
              /\ w = [f \in DOMAIN Contents |-> w[f]]
              /\ \A f \in DOMAIN Contents : w[f] \in Contents[f]
              /\ w[StateFile] = Described(w)
              /\ \A i \in Slots : w[CredFile(i)] = cs[i] /\ w[RpFile(i)] = rs[i]
<1> DEFINE file(cs, rs, f) == CASE f[1] = "EF_CRED" -> cs[f[2]]
                                [] f[1] = "EF_RP" -> rs[f[2]]
                                [] f[1] = "older" -> Absent
                                [] f[1] = "EF_DEV_STATE" -> {}
           files(cs, rs) == [f \in Files |-> file(cs, rs, f)]
<1>1. PICK cs \in [Slots -> {Absent} \cup Credential],
           rs \in [Slots -> {Absent} \cup RpRecord] :
        /\ LegacyStore(cs, rs)
        /\ disk = Settled([files(cs, rs) EXCEPT ![StateFile] = Described(files(cs, rs))])
  BY DEF StoreInit
<1> DEFINE v == files(cs, rs)
           w == [v EXCEPT ![StateFile] = Described(v)]
<1>2. \A i \in Slots : v[CredFile(i)] = cs[i] /\ v[RpFile(i)] = rs[i] /\ v[OlderFile(i)] = Absent
  <2> TAKE i \in Slots
  <2>1. /\ CredFile(i) \in Files /\ CredFile(i)[1] = "EF_CRED" /\ CredFile(i)[2] = i
        /\ RpFile(i) \in Files /\ RpFile(i)[1] = "EF_RP" /\ RpFile(i)[2] = i
        /\ OlderFile(i) \in Files /\ OlderFile(i)[1] = "older"
    BY Names DEF CredFile, RpFile, OlderFile
  <2> QED BY <2>1
<1>3. v = [f \in Files |-> v[f]]
  <2> HIDE DEF file
  <2> QED OBVIOUS
<1> HIDE DEF v
<1>4. Described(v) \in StoreState
  <2> SUFFICES ASSUME NEW i \in Stored(v)
               PROVE  [rp |-> v[CredFile(i)].rp, user |-> v[CredFile(i)].user,
                       info |-> v[CredFile(i)].info] \in [rp : RP, user : User, info : Info]
    BY DEF Described, StoreState
  <2>1. v[CredFile(i)] \in Credential
    BY <1>2 DEF Stored
  <2> QED BY <2>1 DEF Credential
<1>5. /\ w = [f \in DOMAIN Contents |-> w[f]]
      /\ w[StateFile] = Described(v)
      /\ \A i \in Slots : w[CredFile(i)] = cs[i] /\ w[RpFile(i)] = rs[i] /\ w[OlderFile(i)] = Absent
  <2>1. DOMAIN v = Files /\ DOMAIN Contents = Files /\ StateFile \in Files
    BY <1>3, Names
  <2>2. ASSUME NEW i \in Slots
        PROVE  w[CredFile(i)] = cs[i] /\ w[RpFile(i)] = rs[i] /\ w[OlderFile(i)] = Absent
    <3>1. /\ {CredFile(i), RpFile(i), OlderFile(i)} \subseteq Files
          /\ StateFile \notin {CredFile(i), RpFile(i), OlderFile(i)}
      BY Names
    <3> QED BY <1>2, <2>1, <3>1
  <2> QED BY <2>1, <2>2
<1> HIDE DEF w
<1>6. \A f \in DOMAIN Contents : w[f] \in Contents[f]
  <2>1. w[StateFile] \in Contents[StateFile]
    BY <1>4, <1>5, Names
  <2>2. ASSUME NEW i \in Slots
        PROVE  /\ w[CredFile(i)] \in Contents[CredFile(i)]
               /\ w[RpFile(i)] \in Contents[RpFile(i)]
               /\ w[OlderFile(i)] \in Contents[OlderFile(i)]
    BY <1>1, <1>5, Names
  <2>3. ASSUME NEW f \in DOMAIN Contents
        PROVE  f = StateFile \/ \E i \in Slots : f \in {CredFile(i), RpFile(i), OlderFile(i)}
    BY Names DEF Files
  <2> QED BY <2>1, <2>2, <2>3
<1>7. w[StateFile] = Described(w)
  BY <1>2, <1>5, SameDescribed
<1>8. disk = Settled(w)
  BY <1>1 DEF w, v
<1> QED BY <1>1, <1>5, <1>6, <1>7, <1>8

LEMMA InitInv == ASSUME StoreInit PROVE StoreInv
<1>1. PICK w : \E cs \in [Slots -> {Absent} \cup Credential],
                  rs \in [Slots -> {Absent} \cup RpRecord] :
                 /\ LegacyStore(cs, rs)
                 /\ disk = Settled(w)
                 /\ w = [f \in DOMAIN Contents |-> w[f]]
                 /\ \A f \in DOMAIN Contents : w[f] \in Contents[f]
                 /\ w[StateFile] = Described(w)
                 /\ \A i \in Slots : w[CredFile(i)] = cs[i] /\ w[RpFile(i)] = rs[i]
  BY InitialStore
<1>2. PICK cs \in [Slots -> {Absent} \cup Credential],
           rs \in [Slots -> {Absent} \cup RpRecord] :
        LegacyStore(cs, rs) /\ \A i \in Slots : w[CredFile(i)] = cs[i] /\ w[RpFile(i)] = rs[i]
  BY <1>1
<1>3. \A i \in Slots : w[CredFile(i)] = cs[i] /\ w[RpFile(i)] = rs[i]
  BY <1>2
<1>4. /\ IsDisk(disk, Contents)
      /\ \A f \in DOMAIN Contents : Read(disk, f) = w[f] /\ Copies(disk, f) = {w[f]}
  <2>1. LET e == Settled(w)
        IN  /\ IsDisk(e, Contents)
            /\ \A f \in DOMAIN Contents : Read(e, f) = w[f] /\ Copies(e, f) = {w[f]}
    BY <1>1, SettledDisk
  <2> QED BY <1>1, <2>1
<1>5. \A f \in DOMAIN Contents : Versions(disk, f) = <<w[f]>>
  BY <1>1, SettledVersions
<1>6. UsersApart(disk, unsure)
  <2> SUFFICES ASSUME NEW i \in Slots, NEW j \in Slots, i # j, IsCred(cs[i]), IsCred(cs[j])
               PROVE  UserOf(cs[i]) # UserOf(cs[j])
    BY <1>3, <1>4, Names DEF UsersApart
  <2>1. <<cs[i].rp, cs[i].user>> # <<cs[j].rp, cs[j].user>>
    BY <1>2 DEF LegacyStore, IsCred
  <2> QED BY <2>1, SameUser
<1>7. RecordsApart(disk)
  <2>1. \A i \in Slots : Copies(disk, RpFile(i)) = {rs[i]}
    BY <1>3, <1>4, Names
  <2>2. \A i, j \in Slots : rs[i] # Absent /\ rs[j] # Absent /\ i # j => rs[i].rp # rs[j].rp
    BY <1>2 DEF LegacyStore
  <2> QED BY <2>1, <2>2 DEF RecordsApart
<1>8. OnlyAsked(disk, asked)
  <2>1. \A i \in Slots : Len(Versions(disk, CredFile(i))) = 1
    BY <1>5, Names
  <2> QED BY <2>1 DEF OnlyAsked
<1>9. op = Idle /\ mishaps = 0 /\ torn = FALSE /\ asked = {} /\ unsure = {}
  BY DEF StoreInit
<1>10. StoreTypeOK
  <2>1. mishaps \in 0..MaxMishaps
    BY <1>9, StoreAssumption
  <2>2. torn \in BOOLEAN /\ asked \subseteq [rp : RP, user : User] /\ unsure \subseteq Slots
    BY <1>9
  <2> QED BY <1>4, <1>9, <2>1, <2>2 DEF StoreTypeOK
<1>11. OpFits
  BY <1>9 DEF OpFits, Idle
<1>12. StateNamesCredentials
  <2>1. ram[StateFile] = Described(w) /\ \A i \in Slots : ram[CredFile(i)] = w[CredFile(i)]
    BY <1>1, <1>4, Names DEF ram
  <2> QED BY <2>1, SameDescribed DEF StateNamesCredentials
<1> QED BY <1>4, <1>6, <1>7, <1>8, <1>10, <1>11, <1>12 DEF StoreInv, Sound

LEMMA FinishInPlaceInv == ASSUME StoreInv, FinishInPlace PROVE StoreInv'
<1>1. /\ op.step = "replace" /\ Done(OlderIs(disk, op.slot, Absent))
      /\ UNCHANGED <<asked, unsure>>
  BY DEF FinishInPlace, Synced
<1>2. op.slot \in Slots
  <2>1. op # Idle
    BY <1>1 DEF Idle
  <2> QED BY <2>1 DEF StoreInv, StoreTypeOK
<1>3. Sound(OlderIs(disk, op.slot, Absent), asked', unsure')
  BY <1>1, <1>2, Beneath
<1> QED BY <1>1, <1>3, HistoriesStay, DoneInv

LEMMA CommitTimeoutInv == ASSUME StoreInv, CommitTimeout PROVE StoreInv'
<1>1. Failed(disk) /\ UNCHANGED <<asked, unsure>>
  BY DEF CommitTimeout
<1>2. Sound(disk, asked', unsure')
  BY <1>1 DEF StoreInv
<1> QED BY <1>1, <1>2, HistoriesStay, FailedInv

LEMMA NextInv == ASSUME StoreInv, [StoreNext]_storeVars PROVE StoreInv'
<1>1. CASE \E r \in RP, u \in User, x \in Info : StoreNew(r, u, x) \/ StoreAgain(r, u, x)
  BY <1>1, StoreNewInv, StoreAgainInv
<1>2. CASE WriteManifest \/ WriteMarker \/ FinishStore \/ FinishInPlace \/ FinishDelete
  BY <1>2, WriteManifestInv, WriteMarkerInv, FinishStoreInv, FinishInPlaceInv, FinishDeleteInv
<1>3. CASE \E i \in Slots : \/ DeleteSingleFile(i) \/ DeleteContainer(i)
                           \/ \E x \in Info : UpdateUser(i, x)
  BY <1>3, DeleteSingleFileInv, DeleteContainerInv, UpdateUserInv
<1>4. CASE CommitTimeout \/ Drain \/ PowerCycle
  BY <1>4, CommitTimeoutInv, DrainInv, PowerCycleInv
<1>5. CASE UNCHANGED storeVars
  <2>1. ram' = ram
    BY <1>5 DEF storeVars, ram
  <2> QED BY <1>5, <2>1
          DEF storeVars, StoreInv, StoreTypeOK, OpFits, StateNamesCredentials
<1> QED BY <1>1, <1>2, <1>3, <1>4, <1>5 DEF StoreNext, StoreCommand

LEMMA StoreInvariant == StoreSpec => []StoreInv
  BY InitInv, NextInv, PTL DEF StoreSpec

\* What the handlers see of a slot and what a power cut would leave of it are
\* two of its versions.
LEMMA TwoVersions ==
    ASSUME StoreInv, NEW v \in {ram, flash}, NEW i \in Slots
    PROVE  /\ v[CredFile(i)] \in Copies(disk, CredFile(i))
           /\ v[RpFile(i)] \in Copies(disk, RpFile(i))
<1>1. CASE v = ram
  BY <1>1, Seen DEF StoreInv
<1>2. CASE v = flash
  BY <1>2 DEF flash, Copies
<1> QED BY <1>1, <1>2

\* The flash changes when core0 writes to it, and in no other step.
LEMMA OnlyDrainWrites == ASSUME [StoreNext]_storeVars, ~Drain PROVE flash' = flash
<1>1. /\ \A d, f, v : Put(d, f, v).flash = d.flash
      /\ \A d, v : PutAll(d, v).flash = d.flash
      /\ \A d : Crashed(d).flash = d.flash
  BY DEF Put, PutAll, Crashed, Settled
<1>2. \A d, r : CountUp(d, r).flash = d.flash /\ CountDown(d, r).flash = d.flash
  BY <1>1 DEF CountUp, CountDown
<1>3. \A d : dev_state_update(d).flash = d.flash
  BY <1>1 DEF dev_state_update
<1>4. \A d : Done(d) \/ Failed(d) => disk'.flash = d.flash
  BY <1>3 DEF Done, Failed
<1>5. \A d, step, i, c : Waiting(d, step, i, c) => disk'.flash = d.flash
  BY DEF Waiting
<1>6. CASE \E r \in RP, u \in User, x \in Info : StoreNew(r, u, x) \/ StoreAgain(r, u, x)
  <2>1. PICK r \in RP, u \in User, x \in Info : StoreNew(r, u, x) \/ StoreAgain(r, u, x)
    BY <1>6
  <2>2. CASE StoreNew(r, u, x)
    BY <1>5, <2>2 DEF StoreNew, flash
  <2>3. CASE StoreAgain(r, u, x)
    <3> DEFINE i == Min(OfUser(ram, r, u))
               f == CredFile(i)
               c == [NewCredential(r, u, x) EXCEPT !.legacy = ram[f].legacy]
    <3>1. \/ Done(Put(disk, f, c))
          \/ \E d \in {disk, Put(disk, f, Broken)} : Waiting(d, "records", i, c) \/ Failed(d)
      BY <2>3 DEF StoreAgain
    <3> HIDE DEF i, f, c
    <3> QED BY <1>1, <1>4, <1>5, <3>1 DEF flash
  <2> QED BY <2>1, <2>2, <2>3
<1>13. \A d, i, v : OlderIs(d, i, v).flash = d.flash
  BY <1>1 DEF OlderIs
<1>7. CASE WriteManifest \/ WriteMarker
  BY <1>1, <1>4, <1>5, <1>7, <1>13 DEF WriteManifest, WriteMarker, flash
<1>8. CASE FinishStore \/ FinishInPlace \/ FinishDelete \/ CommitTimeout
  BY <1>2, <1>4, <1>8, <1>13 DEF FinishStore, FinishInPlace, FinishDelete, CommitTimeout, flash
<1>9. ASSUME NEW i \in Slots, DeleteSingleFile(i) \/ DeleteContainer(i) PROVE flash' = flash
  <2>1. CASE DeleteSingleFile(i)
    BY <1>1, <1>2, <1>4, <2>1 DEF DeleteSingleFile, flash
  <2>2. CASE DeleteContainer(i)
    <3>1. \A u : ContainerDeleted(i, u).flash = disk.flash
      BY <1>1, <1>13 DEF ContainerDeleted
    <3> QED BY <1>5, <2>2, <3>1 DEF DeleteContainer, flash
  <2> QED BY <1>9, <2>1, <2>2
<1>10. ASSUME NEW i \in Slots, NEW x \in Info, UpdateUser(i, x) PROVE flash' = flash
  BY <1>1, <1>4, <1>5, <1>10 DEF UpdateUser, flash
<1>11. CASE PowerCycle
  <2>1. disk' \in {Crashed(disk), credential_migrate_rp_secure(Crashed(disk))}
    BY <1>11 DEF PowerCycle
  <2>2. \A d : credential_migrate_rp_secure(d).flash = d.flash
    BY <1>1 DEF credential_migrate_rp_secure
  <2> QED BY <1>1, <2>1, <2>2 DEF flash
<1>12. CASE UNCHANGED storeVars
  BY <1>12 DEF storeVars, flash
<1> QED BY <1>6, <1>7, <1>8, <1>9, <1>10, <1>11, <1>12 DEF StoreNext, StoreCommand

\* No user ever has two credentials at one relying party (credential_store),
\* neither in what the handlers see nor in what a power cut leaves, in
\* whatever order files reach the flash, but for containers whose deletion
\* beside another user's older version was not finished.
THEOREM OneCredentialPerUserHolds == StoreSpec => []OneCredentialPerUser
<1>1. ASSUME StoreInv PROVE OneCredentialPerUser
  <2> SUFFICES ASSUME NEW v \in {ram, flash},
                      NEW i \in Stored(v) \ unsure, NEW j \in Stored(v) \ unsure,
                      v[CredFile(i)].rp = v[CredFile(j)].rp,
                      v[CredFile(i)].user = v[CredFile(j)].user, i # j
               PROVE  FALSE
    BY DEF OneCredentialPerUser
  <2>1. i \in Slots \ unsure /\ j \in Slots \ unsure /\ IsCred(v[CredFile(i)]) /\ IsCred(v[CredFile(j)])
    BY DEF Stored, IsCred
  <2>2. v[CredFile(i)] \in Copies(disk, CredFile(i)) /\ v[CredFile(j)] \in Copies(disk, CredFile(j))
    BY <1>1, <2>1, TwoVersions
  <2>3. UserOf(v[CredFile(i)]) # UserOf(v[CredFile(j)])
    BY <1>1, <2>1, <2>2 DEF StoreInv, Sound, UsersApart
  <2> QED BY <2>3, SameUser
<1> QED BY <1>1, StoreInvariant, PTL

\* No relying party ever has two records (credential_store changes the first
\* one it finds, so a second would never be counted).
THEOREM OneRecordPerRpHolds == StoreSpec => []OneRecordPerRp
<1>1. ASSUME StoreInv PROVE OneRecordPerRp
  <2> SUFFICES ASSUME NEW v \in {ram, flash}, NEW r \in RP
               PROVE  Cardinality(RpRecords(v, r)) <= 1
    BY DEF OneRecordPerRp
  <2>1. ASSUME NEW i \in RpRecords(v, r), NEW j \in RpRecords(v, r) PROVE i = j
    <3>1. /\ i \in Slots /\ j \in Slots /\ v[RpFile(i)] # Absent /\ v[RpFile(j)] # Absent
          /\ v[RpFile(i)].rp = v[RpFile(j)].rp
      BY DEF RpRecords
    <3>2. v[RpFile(i)] \in Copies(disk, RpFile(i)) /\ v[RpFile(j)] \in Copies(disk, RpFile(j))
      BY <1>1, <3>1, TwoVersions
    <3> QED BY <1>1, <3>1, <3>2 DEF StoreInv, Sound, RecordsApart
  <2>2. CASE RpRecords(v, r) = {}
    BY <2>2, FS_EmptySet
  <2>3. CASE RpRecords(v, r) # {}
    <3>1. PICK i : RpRecords(v, r) = {i}
      BY <2>1, <2>3
    <3>2. Cardinality(RpRecords(v, r)) = 1
      BY <3>1, FS_Singleton
    <3> QED BY <3>2
  <2> QED BY <2>2, <2>3
<1> QED BY <1>1, StoreInvariant, PTL

\* After each command that is done the store state is the one drawn for the
\* credentials that are there (dev_state_update in every handler).
THEOREM StateNamesCredentialsHolds == StoreSpec => []StateNamesCredentials
  BY StoreInvariant, PTL DEF StoreInv

\* No credential disappears from the flash unless it was to be deleted or
\* replaced: no command writes into the slot of another user.
THEOREM OnlyAskedIsLostHolds == StoreSpec => OnlyAskedIsLost
<1> DEFINE Kept == \A i \in Stored(flash) :
                      LET c == flash[CredFile(i)]
                      IN  OfUser(flash', c.rp, c.user) # {} \/ [rp |-> c.rp, user |-> c.user] \in asked
<1>1. ASSUME StoreInv, StoreInv', [StoreNext]_storeVars PROVE [Kept]_storeVars
  <2> SUFFICES ASSUME NEW i \in Stored(flash)
               PROVE  \/ OfUser(flash', flash[CredFile(i)].rp, flash[CredFile(i)].user) # {}
                      \/ UserOf(flash[CredFile(i)]) \in asked
    BY DEF UserOf
  <2> DEFINE g == CredFile(i)
             c == flash[g]
  <2>1. i \in Slots /\ IsCred(c)
    BY DEF Stored, IsCred
  <2>2. /\ IsDisk(disk, Contents) /\ g \in DOMAIN Contents
        /\ \A j \in Slots : CredFile(j) \in DOMAIN Contents
    BY <1>1, <2>1, Names DEF StoreInv, Sound
  <2>3. ASSUME IsCred(flash'[g]), UserOf(flash'[g]) = UserOf(c)
        PROVE  OfUser(flash', c.rp, c.user) # {}
    <3>1. i \in OfUser(flash', c.rp, c.user)
      BY <2>1, <2>3, SameUser DEF OfUser, OfRp, Stored, IsCred
    <3> QED BY <3>1
  <2>4. CASE flash'[g] = flash[g]
    BY <2>1, <2>3, <2>4
  <2>5. CASE Drain
    <3>1. PICK f \in Files : CanDrain(disk, f) /\ disk' = Drained(disk, f)
      BY <2>5 DEF Drain
    <3>2. CASE f # g
      <4>1. flash'[g] = flash[g]
        BY <2>2, <3>1, <3>2 DEF Drained, flash, IsDisk
      <4> QED BY <2>4, <4>1
    <3>3. CASE f = g
      <4> DEFINE q == Versions(disk, g)
      <4>1. /\ q \in Seq(Contents[g]) /\ Len(q) >= 2
            /\ q[1] = flash[g] /\ q[2] = disk.pending[g][2 - 1]
        BY <2>2, <3>1, <3>3, VersionsOf, DrainedVersions DEF flash
      <4>2. flash'[g] = disk.pending[g][1]
        BY <2>2, <3>1, <3>3 DEF Drained, flash, IsDisk
      <4>3. 1 \in 1..(Len(q) - 1) /\ 1 + 1 = 2 /\ 2 - 1 = 1
        BY <4>1
      <4>4. May(q[1], q[2], asked)
        BY <1>1, <2>1, <4>3 DEF StoreInv, Sound, OnlyAsked
      <4>5. May(c, flash'[g], asked)
        BY <4>1, <4>2, <4>3, <4>4
      <4> HIDE DEF q, c
      <4> QED BY <2>1, <2>3, <4>5 DEF c, May
    <3> QED BY <3>2, <3>3
  <2>6. CASE ~Drain
    <3>1. flash' = flash
      BY <1>1, <2>6, OnlyDrainWrites
    <3> QED BY <2>4, <3>1
  <2> QED BY <2>5, <2>6
<1> QED BY <1>1, StoreInvariant, PTL DEF StoreSpec, OnlyAskedIsLost

-----------------------------------------------------------------------------
(* The counts, when different files reach the flash in the order of the    *)
(* calls: then a power cut leaves one of the moments the flash goes        *)
(* through, and in each of them a count is out by no more than one for     *)
(* every earlier mishap and one for the cut.                               *)

\* What the handlers read from d.
Now(d) == [f \in Files |-> Read(d, f)]

\* The count of r is that of its credentials and o, give or take k.
FollowsBy(v, r, o, k) == \E x \in (0 - k)..k : Count(v, r) = Cardinality(OfRp(v, r)) + o + x

Drifts(d, k) == \E ms : /\ IsHistory(d, Contents, ms)
                        /\ \A i \in 0..Len(d.order), r \in RP : FollowsBy(ms[i], r, 0, k)

\* A record is emptied rather than left with a count of 0.
NoZero(d) == \A i \in Slots : \A c \in Copies(d, RpFile(i)) : c # Absent => c.count # 0

\* A disk whose flash will never be out by more than k.
Counted(d, k) == NoZero(d) /\ Drifts(d, k)

\* What the handler that waits still owes the count of r.
Due(v, o, r) ==
    IF o = Idle THEN 0
    ELSE IF o.cred.rp # r THEN 0
    ELSE IF o.step = "store" THEN 0 - 1
    ELSE IF o.step = "delete" \/ (o.step = "records" /\ v[CredFile(o.slot)] = Broken) THEN 1
    ELSE 0

CountInv == /\ Counted(disk, mishaps + 1)
            /\ \A r \in RP : FollowsBy(ram, r, Due(ram, op, r), mishaps)

\* The sets of slots are finite.
LEMMA Finite ==
    \A v, r : /\ IsFiniteSet(OfRp(v, r)) /\ Cardinality(OfRp(v, r)) \in Nat
              /\ OfRp(v, r) \subseteq Slots
<1> TAKE v, r
<1>1. 0 \in Int /\ MaxSlots - 1 \in Int
  BY StoreAssumption
<1>2. IsFiniteSet(Slots)
  BY <1>1, FS_Interval DEF Slots
<1>3. OfRp(v, r) \subseteq Slots
  BY DEF OfRp, Stored
<1>4. IsFiniteSet(OfRp(v, r))
  BY <1>2, <1>3, FS_Subset
<1> QED BY <1>3, <1>4, FS_CardinalityType

\* A count depends on the records, the number of credentials on the slots.
SameRecords(v, w) ==
    \A i \in Slots : /\ v[RpFile(i)] = Absent <=> w[RpFile(i)] = Absent
                     /\ v[RpFile(i)] # Absent => /\ v[RpFile(i)].rp = w[RpFile(i)].rp
                                                /\ v[RpFile(i)].count = w[RpFile(i)].count

LEMMA SameCount ==
    ASSUME NEW v, NEW w, NEW r, SameRecords(v, w) PROVE Count(v, r) = Count(w, r)
<1>1. RpRecords(v, r) = RpRecords(w, r)
  BY DEF RpRecords, SameRecords
<1>2. CASE RpRecords(v, r) = {}
  BY <1>1, <1>2 DEF Count
<1>3. CASE RpRecords(v, r) # {}
  <2> DEFINE m == Min(RpRecords(v, r))
  <2>1. RpRecords(v, r) \in SUBSET Slots
    BY DEF RpRecords
  <2>2. m \in Slots /\ v[RpFile(m)] # Absent
    <3>1. m \in RpRecords(v, r)
      BY <1>3, <2>1, LowestSlot
    <3> QED BY <3>1 DEF RpRecords
  <2>3. Count(v, r) = v[RpFile(m)].count
    BY <1>3 DEF Count
  <2>4. Count(w, r) = w[RpFile(m)].count
    BY <1>1, <1>3 DEF Count
  <2> QED BY <2>2, <2>3, <2>4 DEF SameRecords
<1> QED BY <1>2, <1>3

LEMMA SameCreds ==
    ASSUME NEW v, NEW w, NEW r, \A i \in Slots : v[CredFile(i)] = w[CredFile(i)]
    PROVE  OfRp(v, r) = OfRp(w, r)
  BY DEF OfRp, Stored

\* One credential more, one less, or another of the same relying party.
LEMMA OtherCred ==
    ASSUME NEW v, NEW w, NEW i \in Slots, NEW r,
           \A j \in Slots \ {i} : v[CredFile(j)] = w[CredFile(j)]
    PROVE  LET a == IsCred(v[CredFile(i)]) /\ v[CredFile(i)].rp = r
               b == IsCred(w[CredFile(i)]) /\ w[CredFile(i)].rp = r
           IN  /\ a /\ b => Cardinality(OfRp(w, r)) = Cardinality(OfRp(v, r))
               /\ ~a /\ ~b => Cardinality(OfRp(w, r)) = Cardinality(OfRp(v, r))
               /\ ~a /\ b => Cardinality(OfRp(w, r)) = Cardinality(OfRp(v, r)) + 1
               /\ a /\ ~b => Cardinality(OfRp(v, r)) = Cardinality(OfRp(w, r)) + 1
<1> DEFINE a == IsCred(v[CredFile(i)]) /\ v[CredFile(i)].rp = r
           b == IsCred(w[CredFile(i)]) /\ w[CredFile(i)].rp = r
           A == OfRp(v, r)
           B == OfRp(w, r)
<1>1. /\ i \in A <=> a
      /\ i \in B <=> b
      /\ \A j \in Slots \ {i} : j \in A <=> j \in B
      /\ A \subseteq Slots /\ B \subseteq Slots
  BY DEF OfRp, Stored, IsCred
<1>2. IsFiniteSet(A) /\ IsFiniteSet(B)
  BY Finite
<1> HIDE DEF a, b, A, B
<1>3. CASE a <=> b
  <2>1. A = B
    BY <1>1, <1>3
  <2> QED BY <1>3, <2>1 DEF a, b, A, B
<1>4. CASE ~a /\ b
  <2>1. B = A \cup {i} /\ i \notin A
    BY <1>1, <1>4
  <2>2. Cardinality(B) = Cardinality(A) + 1
    BY <1>2, <2>1, FS_AddElement
  <2> QED BY <1>4, <2>2 DEF a, b, A, B
<1>5. CASE a /\ ~b
  <2>1. A = B \cup {i} /\ i \notin B
    BY <1>1, <1>5
  <2>2. Cardinality(A) = Cardinality(B) + 1
    BY <1>2, <2>1, FS_AddElement
  <2> QED BY <1>5, <2>2 DEF a, b, A, B
<1> QED BY <1>3, <1>4, <1>5

\* Where records are of different relying parties the count is that of the
\* only one.
LEMMA CountIs ==
    ASSUME NEW d, NEW who, NEW out, Sound(d, who, out), NEW r
    PROVE  /\ RpRecords(Now(d), r) = {} => Count(Now(d), r) = 0
           /\ \A i \in RpRecords(Now(d), r) : /\ i \in Slots
                                              /\ Read(d, RpFile(i)) \in RpRecord
                                              /\ Read(d, RpFile(i)).rp = r
                                              /\ RpRecords(Now(d), r) = {i}
                                              /\ Count(Now(d), r) = Read(d, RpFile(i)).count
           /\ Count(Now(d), r) \in 0..(CountMod - 1)
<1>1. \A i \in Slots : /\ Now(d)[RpFile(i)] = Read(d, RpFile(i))
                       /\ Read(d, RpFile(i)) \in Copies(d, RpFile(i))
                       /\ Read(d, RpFile(i)) \in {Absent} \cup RpRecord
  <2> TAKE i \in Slots
  <2>1. RpFile(i) \in DOMAIN Contents /\ RpFile(i) \in Files
    BY Names
  <2>2. Read(d, RpFile(i)) \in Copies(d, RpFile(i)) /\ Copies(d, RpFile(i)) \subseteq Contents[RpFile(i)]
    BY <2>1, ReadIsCopy DEF Sound
  <2> QED BY <2>1, <2>2, Names DEF Now
<1>2. \A i \in RpRecords(Now(d), r) : /\ i \in Slots
                                      /\ Read(d, RpFile(i)) # Absent
                                      /\ Read(d, RpFile(i)).rp = r
  BY <1>1 DEF RpRecords
<1>3. \A i, j \in RpRecords(Now(d), r) : i = j
  BY <1>1, <1>2 DEF Sound, RecordsApart
<1>4. ASSUME NEW i \in RpRecords(Now(d), r)
      PROVE  /\ i \in Slots
             /\ Read(d, RpFile(i)) \in RpRecord
             /\ Read(d, RpFile(i)).rp = r
             /\ RpRecords(Now(d), r) = {i}
             /\ Count(Now(d), r) = Read(d, RpFile(i)).count
  <2>1. RpRecords(Now(d), r) = {i} /\ i \in Slots
    BY <1>2, <1>3
  <2>2. Min(RpRecords(Now(d), r)) \in RpRecords(Now(d), r)
    <3>1. RpRecords(Now(d), r) \in SUBSET Slots /\ RpRecords(Now(d), r) # {}
      BY <2>1
    <3> QED BY <3>1, LowestSlot
  <2>3. Count(Now(d), r) = Now(d)[RpFile(i)].count
    BY <2>1, <2>2 DEF Count
  <2> QED BY <1>1, <1>2, <2>1, <2>3
<1>5. RpRecords(Now(d), r) = {} => Count(Now(d), r) = 0
  BY DEF Count
<1>6. Count(Now(d), r) \in 0..(CountMod - 1)
  <2>1. CASE RpRecords(Now(d), r) = {}
    BY <1>5, <2>1, StoreAssumption
  <2>2. CASE RpRecords(Now(d), r) # {}
    BY <1>4, <2>2 DEF RpRecord
  <2> QED BY <2>1, <2>2
<1> QED BY <1>4, <1>5, <1>6
-----------------------------------------------------------------------------
(* How far a count is out, and what a write does to it.                    *)

\* Whoever follows with something due follows with one mishap more.
LEMMA Slack ==
    ASSUME NEW v, NEW r, NEW k \in Nat, NEW o \in {0 - 1, 0, 1},
           FollowsBy(v, r, o, k), Count(v, r) \in Nat
    PROVE  /\ FollowsBy(v, r, 0, k + 1)
           /\ FollowsBy(v, r, o, k + 1)
<1> DEFINE c == Count(v, r)
           n == Cardinality(OfRp(v, r))
<1>1. n \in Nat
  BY Finite
<1>2. PICK x \in (0 - k)..k : c = n + o + x
  BY DEF FollowsBy
<1> HIDE DEF c, n
<1>3. x \in (0 - (k + 1))..(k + 1) /\ o + x \in (0 - (k + 1))..(k + 1) /\ c = n + 0 + (o + x)
  BY <1>1, <1>2
<1> QED BY <1>2, <1>3 DEF FollowsBy, c, n

LEMMA DueRange == \A v, o, r : Due(v, o, r) \in {0 - 1, 0, 1}
  BY DEF Due

LEMMA PutCounted ==
    ASSUME InOrder, NEW d, NEW who, NEW out, Sound(d, who, out), NEW k, Counted(d, k),
           NEW f \in Files, NEW v \in Contents[f],
           \A i \in Slots : f = RpFile(i) /\ v # Absent => v.count # 0,
           \A r \in RP : FollowsBy(Now(Put(d, f, v)), r, 0, k)
    PROVE  Counted(Put(d, f, v), k)
<1> DEFINE e == Put(d, f, v)
           n == Len(d.order)
<1>1. IsDisk(d, Contents) /\ f \in DOMAIN Contents /\ DOMAIN Contents = Files
  BY Names DEF Sound
<1>2. PICK ms : /\ IsHistory(d, Contents, ms)
                /\ \A i \in 0..n, r \in RP : FollowsBy(ms[i], r, 0, k)
  BY DEF Counted, Drifts
<1>3. /\ n \in Nat
      /\ Len(e.order) = n + 1
      /\ \E now : /\ IsHistory(e, Contents, now)
                  /\ \A i \in 0..n : now[i] = ms[i]
                  /\ now[n + 1] = [g \in DOMAIN Contents |-> Read(e, g)]
  BY <1>1, <1>2, PutHistory
<1>4. PICK now : /\ IsHistory(e, Contents, now)
                 /\ \A i \in 0..n : now[i] = ms[i]
                 /\ now[n + 1] = [g \in DOMAIN Contents |-> Read(e, g)]
  BY <1>3
<1>5. /\ Copies(e, f) = Copies(d, f) \cup {v}
      /\ \A g \in DOMAIN Contents \ {f} : Copies(e, g) = Copies(d, g)
  BY <1>1, PutDisk
<1> HIDE DEF e, n
<1>6. now[n + 1] = Now(e)
  BY <1>1, <1>4 DEF Now
<1>7. ASSUME NEW i \in 0..(n + 1), NEW r \in RP PROVE FollowsBy(now[i], r, 0, k)
  <2>1. CASE i = n + 1
    BY <1>6, <2>1 DEF e
  <2>2. CASE i # n + 1
    <3>1. i \in 0..n
      BY <1>3, <2>2
    <3> QED BY <1>2, <1>4, <3>1
  <2> QED BY <2>1, <2>2
<1>8. Drifts(e, k)
  BY <1>3, <1>4, <1>7 DEF Drifts
<1>9. NoZero(e)
  BY <1>1, <1>5, Names DEF Counted, NoZero
<1> QED BY <1>8, <1>9 DEF Counted, e

LEMMA DrainCounted ==
    ASSUME InOrder, NEW d, NEW who, NEW out, Sound(d, who, out), NEW k, Counted(d, k),
           NEW f \in Files, CanDrain(d, f)
    PROVE  Counted(Drained(d, f), k)
<1> DEFINE e == Drained(d, f)
           n == Len(d.order)
<1>1. IsDisk(d, Contents) /\ f \in DOMAIN Contents /\ DOMAIN Contents = Files
  BY Names DEF Sound
<1>2. PICK ms : /\ IsHistory(d, Contents, ms)
                /\ \A i \in 0..n, r \in RP : FollowsBy(ms[i], r, 0, k)
  BY DEF Counted, Drifts
<1>3. /\ n \in Nat \ {0}
      /\ Len(e.order) = n - 1
      /\ \E now : /\ IsHistory(e, Contents, now)
                  /\ \A i \in 0..(n - 1) : now[i] = ms[i + 1]
  BY <1>1, <1>2, DrainedHistory
<1>4. PICK now : /\ IsHistory(e, Contents, now)
                 /\ \A i \in 0..(n - 1) : now[i] = ms[i + 1]
  BY <1>3
<1>5. \A g \in DOMAIN Contents : Copies(e, g) \subseteq Copies(d, g)
  BY <1>1, DrainedDisk
<1> HIDE DEF e, n
<1>6. ASSUME NEW i \in 0..(n - 1), NEW r \in RP PROVE FollowsBy(now[i], r, 0, k)
  <2>1. i + 1 \in 0..n
    BY <1>3
  <2> QED BY <1>2, <1>4, <2>1
<1>7. Drifts(e, k)
  BY <1>3, <1>4, <1>6 DEF Drifts
<1>8. NoZero(e)
  BY <1>1, <1>5, Names DEF Counted, NoZero
<1> QED BY <1>7, <1>8 DEF Counted, e

\* Room for one more mishap.
LEMMA StillCounted ==
    ASSUME NEW d, NEW who, NEW out, Sound(d, who, out), NEW k \in Nat, Counted(d, k)
    PROVE  Counted(d, k + 1)
<1>1. PICK ms : /\ IsHistory(d, Contents, ms)
                /\ \A i \in 0..Len(d.order), r \in RP : FollowsBy(ms[i], r, 0, k)
  BY DEF Counted, Drifts
<1>2. ASSUME NEW v, NEW r \in RP, FollowsBy(v, r, 0, k) PROVE FollowsBy(v, r, 0, k + 1)
  <2>1. PICK x \in (0 - k)..k : Count(v, r) = Cardinality(OfRp(v, r)) + 0 + x
    BY <1>2 DEF FollowsBy
  <2>2. x \in (0 - (k + 1))..(k + 1)
    OBVIOUS
  <2> QED BY <2>1, <2>2 DEF FollowsBy
<1> QED BY <1>1, <1>2 DEF Counted, Drifts

\* Only the record in slot i is another one; it is of r, which has no other.
OneRecordDiffers(v, w, i, r) ==
    /\ \A j \in Slots : v[CredFile(j)] = w[CredFile(j)]
    /\ \A j \in Slots \ {i} : v[RpFile(j)] = w[RpFile(j)]
    /\ v[RpFile(i)] # Absent => v[RpFile(i)].rp = r
    /\ w[RpFile(i)] # Absent => w[RpFile(i)].rp = r
    /\ \A j \in Slots \ {i} : v[RpFile(j)] # Absent => v[RpFile(j)].rp # r

LEMMA RecordCounts ==
    ASSUME NEW v, NEW w, NEW i \in Slots, NEW r, OneRecordDiffers(v, w, i, r)
    PROVE  /\ \A q : OfRp(w, q) = OfRp(v, q)
           /\ \A q : q # r => Count(w, q) = Count(v, q)
           /\ w[RpFile(i)] = Absent => Count(w, r) = 0
           /\ w[RpFile(i)] # Absent => Count(w, r) = w[RpFile(i)].count
<1>1. \A q : OfRp(w, q) = OfRp(v, q)
  BY DEF OneRecordDiffers, OfRp, Stored
<1>2. ASSUME NEW q, q # r PROVE Count(w, q) = Count(v, q)
  <2> DEFINE S == RpRecords(v, q)
  <2>1. RpRecords(w, q) = S /\ S \in SUBSET Slots /\ i \notin S
    BY <1>2 DEF OneRecordDiffers, RpRecords
  <2>2. CASE S = {}
    BY <2>1, <2>2 DEF Count
  <2>3. CASE S # {}
    <3>1. Min(S) \in Slots \ {i}
      BY <2>1, <2>3, LowestSlot
    <3>2. Count(v, q) = v[RpFile(Min(S))].count
      BY <2>3 DEF Count
    <3>3. Count(w, q) = w[RpFile(Min(S))].count
      BY <2>1, <2>3 DEF Count
    <3> QED BY <3>1, <3>2, <3>3 DEF OneRecordDiffers
  <2> QED BY <2>2, <2>3
<1>3. ASSUME w[RpFile(i)] = Absent PROVE Count(w, r) = 0
  <2>1. RpRecords(w, r) = {}
    BY <1>3 DEF OneRecordDiffers, RpRecords
  <2> QED BY <2>1 DEF Count
<1>4. ASSUME w[RpFile(i)] # Absent PROVE Count(w, r) = w[RpFile(i)].count
  <2>1. RpRecords(w, r) = {i}
    BY <1>4 DEF OneRecordDiffers, RpRecords
  <2>2. {i} \in SUBSET Slots /\ {i} # {}
    OBVIOUS
  <2>3. Min({i}) \in {i}
    BY <2>2, LowestSlot
  <2>4. Min(RpRecords(w, r)) = i
    BY <2>1, <2>3
  <2> QED BY <2>1, <2>4 DEF Count
<1> QED BY <1>1, <1>2, <1>3, <1>4

\* A new record for r, or none, that settles what was due.
LEMMA SettleDue ==
    ASSUME InOrder, NEW d, NEW who, NEW out, Sound(d, who, out), mishaps \in Nat, Counted(d, mishaps + 1),
           NEW i \in Slots, NEW c \in {Absent} \cup RpRecord, NEW r \in RP,
           Read(d, RpFile(i)) # Absent => Read(d, RpFile(i)).rp = r,
           c # Absent => c.rp = r /\ c.count # 0,
           \A j \in Slots \ {i} : Read(d, RpFile(j)) # Absent => Read(d, RpFile(j)).rp # r,
           \A q \in RP : q # r => FollowsBy(Now(d), q, 0, mishaps),
           \E x \in (0 - mishaps)..mishaps :
              (IF c = Absent THEN 0 ELSE c.count) = Cardinality(OfRp(Now(d), r)) + 0 + x
    PROVE  LET e == Put(d, RpFile(i), c)
           IN  /\ Counted(e, mishaps + 1)
               /\ \A q \in RP : FollowsBy(Now(e), q, 0, mishaps)
<1> DEFINE f == RpFile(i)
           e == Put(d, f, c)
           v == Now(d)
           w == Now(e)
<1>1. IsDisk(d, Contents) /\ f \in DOMAIN Contents /\ c \in Contents[f] /\ f \in Files
  BY Names DEF Sound
<1>2. /\ IsDisk(e, Contents)
      /\ Read(e, f) = c
      /\ \A g \in DOMAIN Contents \ {f} : Read(e, g) = Read(d, g)
  BY <1>1, PutDisk
<1> HIDE DEF e, f
<1>3. /\ \A j \in Slots : /\ v[CredFile(j)] = Read(d, CredFile(j))
                          /\ w[CredFile(j)] = v[CredFile(j)]
                          /\ v[RpFile(j)] = Read(d, RpFile(j))
      /\ \A j \in Slots \ {i} : w[RpFile(j)] = v[RpFile(j)]
      /\ w[RpFile(i)] = c
  BY <1>1, <1>2, Names DEF Now, f
<1> HIDE DEF v, w
<1>4. /\ \A q : OfRp(w, q) = OfRp(v, q)
      /\ \A q : q # r => Count(w, q) = Count(v, q)
      /\ w[RpFile(i)] = Absent => Count(w, r) = 0
      /\ w[RpFile(i)] # Absent => Count(w, r) = w[RpFile(i)].count
  <2>1. OneRecordDiffers(v, w, i, r)
    BY <1>3 DEF OneRecordDiffers
  <2>2. i \in Slots
    OBVIOUS
  <2> QED BY ONLY <2>1, <2>2, RecordCounts
<1>5. ASSUME NEW q \in RP
      PROVE  FollowsBy(w, q, 0, mishaps) /\ Count(w, q) \in Nat
  <2>1. CASE q = r
    <3>1. Count(w, r) = IF c = Absent THEN 0 ELSE c.count
      BY <1>3, <1>4
    <3>2. Count(w, r) \in Nat
      BY <3>1 DEF RpRecord
    <3> QED BY <1>4, <2>1, <3>1, <3>2 DEF FollowsBy, v
  <2>2. CASE q # r
    <3>1. Count(v, q) \in Nat
      BY CountIs, StoreAssumption DEF v
    <3> QED BY <1>4, <2>2, <3>1 DEF FollowsBy, v
  <2> QED BY <2>1, <2>2
<1>6. \A q \in RP : FollowsBy(w, q, 0, mishaps + 1)
  BY <1>5, Slack
<1>7. \A j \in Slots : f = RpFile(j) /\ c # Absent => c.count # 0
  OBVIOUS
<1>8. Counted(e, mishaps + 1)
  <2>1. \A q \in RP : FollowsBy(Now(Put(d, f, c)), q, 0, mishaps + 1)
    BY <1>6 DEF w, e
  <2> QED BY <1>1, <1>7, <2>1, PutCounted DEF e
<1> QED BY <1>5, <1>8 DEF w, e, f
\* The count of a relying party that NoCountWraps bounds does not wrap when
\* its new credential is counted.
LEMMA CountUpCounted ==
    ASSUME InOrder, StoreInv, NEW d, NEW who, NEW out, Sound(d, who, out), Counted(d, mishaps + 1),
           NoCountWraps, NEW r \in RP, RpRecords(ram, r) # {} \/ FreeRpSlots # {},
           \A j \in Slots : /\ ram[CredFile(j)] = Read(d, CredFile(j))
                            /\ ram[RpFile(j)] = Read(d, RpFile(j)),
           FollowsBy(Now(d), r, 0 - 1, mishaps),
           \A q \in RP : q # r => FollowsBy(Now(d), q, 0, mishaps)
    PROVE  LET e == CountUp(d, r)
           IN  /\ Counted(e, mishaps + 1)
               /\ \A q \in RP : FollowsBy(Now(e), q, 0, mishaps)
<1>0. /\ OfRp(Now(d), r) = OfRp(ram, r)
      /\ Count(Now(d), r) = Count(ram, r)
  <2>1. \A j \in Slots : /\ ram[CredFile(j)] = Now(d)[CredFile(j)]
                         /\ ram[RpFile(j)] = Now(d)[RpFile(j)]
    BY Names DEF Now
  <2> QED BY <2>1, SameCount, SameCreds DEF SameRecords
<1>1. /\ StoreTypeOK /\ mishaps \in Nat
      /\ \A j \in Slots : ram[RpFile(j)] = Read(d, RpFile(j))
  BY DEF StoreInv, StoreTypeOK
<1> DEFINE n == Cardinality(OfRp(ram, r))
<1>2. n \in Nat /\ n + mishaps < CountMod
  BY Finite DEF NoCountWraps
<1>3. PICK x \in (0 - mishaps)..mishaps : Count(ram, r) = n + (0 - 1) + x
  BY <1>0 DEF FollowsBy
<1>4. Count(ram, r) \in 0..(CountMod - 1) /\ CountMod \in Nat \ {0, 1}
  BY <1>0, CountIs, StoreAssumption
<1> HIDE DEF n
<1>5. /\ Count(ram, r) + 1 = n + 0 + x
      /\ Count(ram, r) + 1 \in 1..(CountMod - 1)
      /\ (Count(ram, r) + 1) % CountMod = Count(ram, r) + 1
  <2> DEFINE m == Count(ram, r)
  <2>1. m \in Nat /\ m = n + (0 - 1) + x /\ x <= mishaps /\ x \in Int
    BY <1>1, <1>3, <1>4
  <2> HIDE DEF m
  <2>2. m + 1 = n + 0 + x /\ m + 1 <= n + mishaps
    BY <1>1, <1>2, <2>1
  <2>3. m + 1 \in 1..(CountMod - 1)
    BY <1>1, <1>2, <1>4, <2>1, <2>2
  <2>4. (m + 1) % CountMod = m + 1
    BY <1>4, <2>3
  <2> QED BY <2>2, <2>3, <2>4 DEF m
<1>6. CASE RpRecords(ram, r) # {}
  <2> DEFINE i == Min(RpRecords(ram, r))
             c == [ram[RpFile(i)] EXCEPT !.count = (ram[RpFile(i)].count + 1) % CountMod]
  <2>1. i \in RpRecords(ram, r)
    <3>1. RpRecords(ram, r) \in SUBSET Slots
      BY DEF RpRecords
    <3> QED BY <1>6, <3>1, LowestSlot
  <2>2. CountUp(d, r) = Put(d, RpFile(i), c)
    BY <1>6 DEF CountUp
  <2> HIDE DEF i
  <2>3. /\ i \in Slots /\ ram[RpFile(i)] \in RpRecord /\ ram[RpFile(i)].rp = r
        /\ Count(ram, r) = ram[RpFile(i)].count
        /\ RpRecords(ram, r) = {i}
    <3>1. RpRecords(ram, r) = RpRecords(Now(d), r)
      BY <1>1, Names DEF RpRecords, Now
    <3> QED BY <1>0, <1>1, <2>1, <3>1, CountIs
  <2>4. c \in RpRecord /\ c.rp = r /\ c.count = Count(ram, r) + 1
    BY <1>5, <2>3 DEF RpRecord
  <2> HIDE DEF c
  <2>5. \A j \in Slots \ {i} : ram[RpFile(j)] # Absent => ram[RpFile(j)].rp # r
    BY <2>3 DEF RpRecords
  <2>6. c # Absent /\ c.count # 0
    BY <1>5, <2>4, Told
  <2>7. c.count = Cardinality(OfRp(Now(d), r)) + 0 + x
    BY <1>0, <1>5, <2>4 DEF n
  <2>8. LET e == Put(d, RpFile(i), c)
        IN  /\ Counted(e, mishaps + 1)
            /\ \A q \in RP : FollowsBy(Now(e), q, 0, mishaps)
    BY <1>1, <2>3, <2>4, <2>5, <2>6, <2>7, SettleDue
  <2> QED BY <2>2, <2>8
<1>7. CASE RpRecords(ram, r) = {}
  <2> DEFINE i == Min(FreeRpSlots)
             c == [rp |-> r, count |-> 1, secure |-> TRUE]
  <2>1. i \in Slots /\ ram[RpFile(i)] = Absent
    <3>1. FreeRpSlots \in SUBSET Slots /\ FreeRpSlots # {}
      BY <1>7 DEF FreeRpSlots
    <3>2. i \in FreeRpSlots
      BY <3>1, LowestSlot
    <3> QED BY <3>2 DEF FreeRpSlots
  <2>2. CountUp(d, r) = Put(d, RpFile(i), c)
    BY <1>7 DEF CountUp
  <2>3. c \in RpRecord /\ c.rp = r /\ c.count = 1
    BY StoreAssumption DEF RpRecord
  <2> HIDE DEF c, i
  <2>4. Count(ram, r) = 0
    BY <1>7 DEF Count
  <2>5. \A j \in Slots \ {i} : ram[RpFile(j)] # Absent => ram[RpFile(j)].rp # r
    BY <1>7 DEF RpRecords
  <2>6. c # Absent /\ c.count # 0
    BY <2>3, Told
  <2>7. c.count = Cardinality(OfRp(Now(d), r)) + 0 + x
    BY <1>0, <1>5, <2>3, <2>4 DEF n
  <2>8. LET e == Put(d, RpFile(i), c)
        IN  /\ Counted(e, mishaps + 1)
            /\ \A q \in RP : FollowsBy(Now(e), q, 0, mishaps)
    BY <1>1, <2>1, <2>3, <2>5, <2>6, <2>7, SettleDue
  <2> QED BY <2>2, <2>8
<1> QED BY <1>6, <1>7

\* A record that is there has a count, so counting down does not wrap either;
\* without one the credentials of r are all due to earlier mishaps.
LEMMA CountDownCounted ==
    ASSUME InOrder, StoreInv, NEW d, NEW who, NEW out, Sound(d, who, out), Counted(d, mishaps + 1),
           NEW r \in RP,
           \A i \in Slots : ram[RpFile(i)] = Read(d, RpFile(i)),
           FollowsBy(Now(d), r, 1, mishaps),
           \A q \in RP : q # r => FollowsBy(Now(d), q, 0, mishaps)
    PROVE  LET e == CountDown(d, r)
           IN  /\ Counted(e, mishaps + 1)
               /\ \A q \in RP : FollowsBy(Now(e), q, 0, mishaps)
<1> DEFINE v == Now(d)
           n == Cardinality(OfRp(v, r))
<1>1. mishaps \in Nat /\ CountMod \in Nat \ {0, 1}
  BY StoreAssumption DEF StoreInv, StoreTypeOK
<1>2. \A j \in Slots : ram[RpFile(j)] = v[RpFile(j)]
  BY Names DEF Now
<1>3. n \in Nat
  BY Finite
<1>4. PICK x \in (0 - mishaps)..mishaps : Count(v, r) = n + 1 + x
  BY DEF FollowsBy
<1> HIDE DEF n, v
<1>5. RpRecords(ram, r) = RpRecords(v, r)
  BY <1>2 DEF RpRecords
<1>6. CASE RpRecords(ram, r) = {}
  <2>1. CountDown(d, r) = d
    BY <1>6 DEF CountDown
  <2>2. Count(v, r) = 0
    BY <1>5, <1>6 DEF Count
  <2>3. x + 1 \in (0 - mishaps)..mishaps /\ 0 = n + 0 + (x + 1)
    BY <1>1, <1>3, <1>4, <2>2
  <2>4. FollowsBy(v, r, 0, mishaps)
    BY <2>2, <2>3 DEF FollowsBy, n
  <2> QED BY <2>1, <2>4 DEF v
<1>7. CASE RpRecords(ram, r) # {}
  <2> DEFINE i == Min(RpRecords(ram, r))
             m == (ram[RpFile(i)].count - 1) % CountMod
             c == IF m = 0 THEN Absent ELSE [ram[RpFile(i)] EXCEPT !.count = m]
  <2>1. i \in RpRecords(v, r)
    <3>1. RpRecords(ram, r) \in SUBSET Slots
      BY DEF RpRecords
    <3> QED BY <1>5, <1>7, <3>1, LowestSlot
  <2>2. CountDown(d, r) = Put(d, RpFile(i), c)
    BY <1>7 DEF CountDown
  <2> HIDE DEF i
  <2>3. /\ i \in Slots /\ Read(d, RpFile(i)) \in RpRecord /\ Read(d, RpFile(i)).rp = r
        /\ Count(v, r) = Read(d, RpFile(i)).count
        /\ RpRecords(v, r) = {i}
    BY <2>1, CountIs DEF v
  <2>4. Count(v, r) \in 1..(CountMod - 1)
    <3>1. IsDisk(d, Contents) /\ RpFile(i) \in DOMAIN Contents
      BY <2>3, Names DEF Sound
    <3>2. Read(d, RpFile(i)) \in Copies(d, RpFile(i))
      BY <3>1, ReadIsCopy
    <3>3. Read(d, RpFile(i)).count # 0
      BY <2>3, <3>2, Told DEF Counted, NoZero
    <3>4. Count(v, r) \in 0..(CountMod - 1)
      BY <2>3 DEF RpRecord
    <3> QED BY <1>1, <2>3, <3>3, <3>4
  <2>5. m = Count(v, r) - 1 /\ m \in 0..(CountMod - 1)
    <3> DEFINE k == Count(v, r)
    <3>1. m = (k - 1) % CountMod
      BY <2>3
    <3> HIDE DEF k
    <3>2. k \in 1..(CountMod - 1)
      BY <2>4 DEF k
    <3>3. (k - 1) % CountMod = k - 1
      BY <1>1, <3>2
    <3>4. k - 1 \in 0..(CountMod - 1)
      BY <1>1, <3>2
    <3> HIDE DEF m
    <3> QED BY <3>1, <3>3, <3>4 DEF k
  <2> HIDE DEF m
  <2>6. /\ c \in {Absent} \cup RpRecord
        /\ c # Absent => c.rp = r /\ c.count # 0
        /\ (IF c = Absent THEN 0 ELSE c.count) = m
    <3>1. CASE m = 0
      BY <3>1
    <3>2. CASE m # 0
      <4>1. c \in RpRecord /\ c.rp = r /\ c.count = m
        BY <2>3, <2>5, <3>2 DEF RpRecord
      <4> QED BY <3>2, <4>1, Told
    <3> QED BY <3>1, <3>2
  <2> HIDE DEF c
  <2>7. \A j \in Slots \ {i} : Read(d, RpFile(j)) # Absent => Read(d, RpFile(j)).rp # r
    BY <1>2, <2>3 DEF RpRecords
  <2>8. m = n + 0 + x
    BY <1>3, <1>4, <2>4, <2>5
  <2>9. (IF c = Absent THEN 0 ELSE c.count) = Cardinality(OfRp(Now(d), r)) + 0 + x
    BY <2>6, <2>8 DEF n, v
  <2>10. LET e == Put(d, RpFile(i), c)
         IN  /\ Counted(e, mishaps + 1)
             /\ \A q \in RP : FollowsBy(Now(e), q, 0, mishaps)
    BY <1>1, <2>3, <2>6, <2>7, <2>9, SettleDue
  <2> QED BY <2>2, <2>10
<1> QED BY <1>6, <1>7
-----------------------------------------------------------------------------
(* How a handler ends or goes on, and the credentials it writes.           *)

LEMMA DoneCounted ==
    ASSUME InOrder, StoreInv, NEW d, NEW who, NEW out, Sound(d, who, out), Counted(d, mishaps + 1),
           \A q \in RP : FollowsBy(Now(d), q, 0, mishaps), Done(d)
    PROVE  CountInv'
<1> DEFINE x == Described([f \in Files |-> Read(d, f)])
           e == Put(d, StateFile, x)
<1>1. disk' = e /\ op' = Idle /\ mishaps' = mishaps
  BY DEF Done, dev_state_update
<1>2. IsDisk(d, Contents) /\ x \in Contents[StateFile] /\ StateFile \in DOMAIN Contents
  BY Names, StateValue DEF Sound
<1> HIDE DEF x
<1>3. \A f \in DOMAIN Contents \ {StateFile} : Read(e, f) = Read(d, f)
  BY <1>2, PutDisk
<1> HIDE DEF e
<1>4. ASSUME NEW q \in RP
      PROVE  /\ FollowsBy(Now(e), q, 0, mishaps)
             /\ FollowsBy(Now(e), q, 0, mishaps + 1)
  <2>1. \A i \in Slots : /\ Now(d)[CredFile(i)] = Now(e)[CredFile(i)]
                         /\ Now(d)[RpFile(i)] = Now(e)[RpFile(i)]
    BY <1>3, Names DEF Now
  <2>2. OfRp(Now(d), q) = OfRp(Now(e), q) /\ Count(Now(d), q) = Count(Now(e), q)
    BY <2>1, SameCount, SameCreds DEF SameRecords
  <2>3. FollowsBy(Now(e), q, 0, mishaps)
    BY <2>2 DEF FollowsBy
  <2>4. Count(Now(e), q) \in Nat
    BY <2>2, CountIs, StoreAssumption
  <2>5. mishaps \in Nat
    BY DEF StoreInv, StoreTypeOK
  <2> QED BY <2>3, <2>4, <2>5, Slack
<1>5. Counted(e, mishaps + 1)
  <2>1. \A i \in Slots : StateFile # RpFile(i)
    BY Names
  <2>2. \A q \in RP : FollowsBy(Now(Put(d, StateFile, x)), q, 0, mishaps + 1)
    BY <1>4 DEF e
  <2> QED BY <1>2, <2>1, <2>2, Names, PutCounted DEF e
<1>6. ram' = Now(e)
  BY <1>1 DEF ram, Now
<1>7. \A q \in RP : Due(ram', op', q) = 0
  BY <1>1 DEF Due
<1> QED BY <1>1, <1>4, <1>5, <1>6, <1>7 DEF CountInv

LEMMA FailedCounted ==
    ASSUME StoreInv, NEW d, NEW who, NEW out, Sound(d, who, out), Counted(d, mishaps + 1),
           \A q \in RP : \E o \in {0 - 1, 0, 1} : FollowsBy(Now(d), q, o, mishaps), Failed(d)
    PROVE  CountInv'
<1>1. disk' = d /\ op' = Idle /\ mishaps' = mishaps + 1
  BY DEF Failed
<1>2. mishaps \in Nat
  BY DEF StoreInv, StoreTypeOK
<1>3. \A q \in RP : FollowsBy(Now(d), q, 0, mishaps + 1)
  <2>1. \A q \in RP : Count(Now(d), q) \in Nat
    BY CountIs, StoreAssumption
  <2> QED BY <1>2, <2>1, Slack
<1>4. Counted(d, (mishaps + 1) + 1)
  <2>1. mishaps + 1 \in Nat
    BY <1>2
  <2> QED BY <2>1, StillCounted
<1>5. ram' = Now(d)
  BY <1>1 DEF ram, Now
<1>6. \A q \in RP : Due(ram', op', q) = 0
  BY <1>1 DEF Due
<1> QED BY <1>1, <1>3, <1>4, <1>5, <1>6 DEF CountInv

LEMMA WaitingCounted ==
    ASSUME NEW d, NEW step, NEW i, NEW c, Counted(d, mishaps + 1), Waiting(d, step, i, c),
           \A q \in RP :
              FollowsBy(Now(d), q, Due(Now(d), [step |-> step, slot |-> i, cred |-> c], q), mishaps)
    PROVE  CountInv'
<1>1. disk' = d /\ op' = [step |-> step, slot |-> i, cred |-> c] /\ mishaps' = mishaps
  BY DEF Waiting
<1>2. ram' = Now(d)
  BY <1>1 DEF ram, Now
<1> QED BY <1>1, <1>2 DEF CountInv

\* What a write into slot i adds to what is due to the count of q.
Gain(a, b, q) ==
    LET was == IsCred(a) /\ a.rp = q
        is == IsCred(b) /\ b.rp = q
    IN  IF was /\ ~is THEN 1 ELSE IF ~was /\ is THEN 0 - 1 ELSE 0

\* A write of slot i changes no record, and the number of credentials by that.
LEMMA CredWrites ==
    ASSUME NEW d, NEW who, NEW out, Sound(d, who, out), NEW i \in Slots,
           NEW c \in {Absent, Broken} \cup Credential, NEW q
    PROVE  LET e == Put(d, CredFile(i), c)
               g == Gain(Read(d, CredFile(i)), c, q)
           IN  /\ SameRecords(Now(d), Now(e))
               /\ g \in {0 - 1, 0, 1}
               /\ Cardinality(OfRp(Now(d), q)) = Cardinality(OfRp(Now(e), q)) + g
<1> DEFINE f == CredFile(i)
           e == Put(d, f, c)
           v == Now(d)
           w == Now(e)
           was == IsCred(v[f]) /\ v[f].rp = q
           is == IsCred(w[f]) /\ w[f].rp = q
           m == Cardinality(OfRp(v, q))
           n == Cardinality(OfRp(w, q))
           g == Gain(Read(d, f), c, q)
<1>1. IsDisk(d, Contents) /\ f \in DOMAIN Contents /\ c \in Contents[f] /\ f \in Files
  BY Names DEF Sound
<1>2. /\ Read(e, f) = c
      /\ \A h \in DOMAIN Contents \ {f} : Read(e, h) = Read(d, h)
  BY <1>1, PutDisk
<1> HIDE DEF e
<1>3. /\ \A j \in Slots \ {i} : w[CredFile(j)] = v[CredFile(j)]
      /\ \A j \in Slots : w[RpFile(j)] = v[RpFile(j)]
      /\ v[f] = Read(d, f) /\ w[f] = c
  BY <1>1, <1>2, Names DEF Now
<1> HIDE DEF v, w
<1>4. SameRecords(v, w)
  BY <1>3 DEF SameRecords
<1>5. /\ was /\ is => n = m
      /\ ~was /\ ~is => n = m
      /\ ~was /\ is => n = m + 1
      /\ was /\ ~is => m = n + 1
  BY <1>3, OtherCred
<1>6. m \in Nat /\ n \in Nat
  BY Finite
<1>7. g = IF was /\ ~is THEN 1 ELSE IF ~was /\ is THEN 0 - 1 ELSE 0
  BY <1>3 DEF Gain
<1> HIDE DEF was, is, m, n, g
<1>8. g \in {0 - 1, 0, 1} /\ m = n + g
  <2>1. CASE was /\ ~is
    BY <1>5, <1>6, <1>7, <2>1
  <2>2. CASE ~was /\ is
    BY <1>5, <1>6, <1>7, <2>2
  <2>3. CASE was <=> is
    BY <1>5, <1>6, <1>7, <2>3
  <2> QED BY <2>1, <2>2, <2>3
<1> QED BY <1>4, <1>8 DEF e, v, w, m, n, g

LEMMA CredCounts ==
    ASSUME NEW d, NEW who, NEW out, Sound(d, who, out), NEW i \in Slots,
           NEW c \in {Absent, Broken} \cup Credential,
           NEW k \in Nat, NEW q, NEW o \in {0 - 1, 0, 1}, FollowsBy(Now(d), q, o, k)
    PROVE  LET e == Put(d, CredFile(i), c)
           IN  /\ FollowsBy(Now(e), q, o + Gain(Read(d, CredFile(i)), c, q), k)
               /\ Count(Now(e), q) \in Nat
<1> DEFINE e == Put(d, CredFile(i), c)
           m == Cardinality(OfRp(Now(d), q))
           n == Cardinality(OfRp(Now(e), q))
           g == Gain(Read(d, CredFile(i)), c, q)
<1>1. SameRecords(Now(d), Now(e)) /\ g \in {0 - 1, 0, 1} /\ m = n + g
  BY CredWrites
<1> HIDE DEF e, g
<1>2. Count(Now(e), q) = Count(Now(d), q)
  BY <1>1, SameCount
<1>3. m \in Nat /\ n \in Nat
  BY Finite
<1>4. PICK x \in (0 - k)..k : Count(Now(d), q) = m + o + x
  BY DEF FollowsBy
<1> HIDE DEF m, n
<1>5. Count(Now(e), q) = n + (o + g) + x
  BY <1>1, <1>2, <1>3, <1>4
<1>6. FollowsBy(Now(e), q, o + g, k)
  BY <1>5 DEF FollowsBy, n
<1>7. Count(Now(d), q) \in Nat
  BY CountIs, StoreAssumption
<1> QED BY <1>2, <1>6, <1>7 DEF g, e

LEMMA CredCounted ==
    ASSUME InOrder, NEW d, NEW who, NEW out, Sound(d, who, out), NEW k \in Nat, Counted(d, k + 1),
           NEW i \in Slots, NEW c \in {Absent, Broken} \cup Credential,
           \A q \in RP : \E o \in {0 - 1, 0, 1} :
              /\ FollowsBy(Now(d), q, o, k)
              /\ o + Gain(Read(d, CredFile(i)), c, q) \in {0 - 1, 0, 1}
    PROVE  Counted(Put(d, CredFile(i), c), k + 1)
<1> DEFINE f == CredFile(i)
           e == Put(d, f, c)
<1>1. f \in Files /\ c \in Contents[f] /\ \A j \in Slots : f # RpFile(j)
  BY Names
<1>2. ASSUME NEW q \in RP PROVE FollowsBy(Now(e), q, 0, k + 1)
  <2>1. PICK o \in {0 - 1, 0, 1} : /\ FollowsBy(Now(d), q, o, k)
                                  /\ o + Gain(Read(d, f), c, q) \in {0 - 1, 0, 1}
    OBVIOUS
  <2>2. /\ FollowsBy(Now(e), q, o + Gain(Read(d, f), c, q), k)
        /\ Count(Now(e), q) \in Nat
    BY <2>1, CredCounts
  <2> QED BY <2>1, <2>2, Slack
<1> QED BY <1>1, <1>2, PutCounted

\* Gains add up.
LEMMA GainSums ==
    \A a, b, c, q : /\ Gain(a, b, q) \in {0 - 1, 0, 1}
                    /\ Gain(a, b, q) + Gain(b, c, q) = Gain(a, c, q)
                    /\ Gain(a, a, q) = 0
  BY DEF Gain

\* The older versions are not counted.
LEMMA OlderCounts ==
    ASSUME NEW d, NEW who, NEW out, Sound(d, who, out), NEW i \in Slots,
           NEW u \in {Absent} \cup Credential
    PROVE  LET e == OlderIs(d, i, u)
           IN  /\ SameRecords(Now(d), Now(e))
               /\ \A q : OfRp(Now(e), q) = OfRp(Now(d), q) /\ Count(Now(e), q) = Count(Now(d), q)
               /\ \A j \in Slots : /\ Read(e, CredFile(j)) = Read(d, CredFile(j))
                                   /\ Read(e, RpFile(j)) = Read(d, RpFile(j))
<1> DEFINE e == OlderIs(d, i, u)
<1>1. \A f \in Files \ {OlderFile(i)} : Read(e, f) = Read(d, f)
  BY OlderWrite
<1> HIDE DEF e
<1>2. \A j \in Slots : CredFile(j) \in Files \ {OlderFile(i)} /\ RpFile(j) \in Files \ {OlderFile(i)}
  BY Names
<1>3. \A j \in Slots : /\ Read(e, CredFile(j)) = Read(d, CredFile(j))
                       /\ Read(e, RpFile(j)) = Read(d, RpFile(j))
                       /\ Now(d)[CredFile(j)] = Now(e)[CredFile(j)]
                       /\ Now(d)[RpFile(j)] = Now(e)[RpFile(j)]
  BY <1>1, <1>2 DEF Now
<1>4. SameRecords(Now(d), Now(e))
  BY <1>3 DEF SameRecords
<1>5. \A q : OfRp(Now(d), q) = OfRp(Now(e), q) /\ Count(Now(d), q) = Count(Now(e), q)
  BY <1>3, <1>4, SameCount, SameCreds
<1> QED BY <1>3, <1>4, <1>5 DEF e

LEMMA OlderCounted ==
    ASSUME InOrder, NEW d, NEW who, NEW out, Sound(d, who, out), NEW k \in Nat, Counted(d, k + 1),
           NEW i \in Slots, NEW u \in {Absent} \cup Credential,
           \A q \in RP : \E o \in {0 - 1, 0, 1} : FollowsBy(Now(d), q, o, k)
    PROVE  Counted(OlderIs(d, i, u), k + 1)
<1> DEFINE f == OlderFile(i)
           e == Put(d, f, u)
<1>1. CASE OlderIs(d, i, u) = d
  BY <1>1
<1>2. CASE OlderIs(d, i, u) = e
  <2>1. f \in Files /\ u \in Contents[f] /\ \A j \in Slots : f # RpFile(j)
    BY Names
  <2>2. ASSUME NEW q \in RP PROVE FollowsBy(Now(e), q, 0, k + 1)
    <3>1. PICK o \in {0 - 1, 0, 1} : FollowsBy(Now(d), q, o, k)
      OBVIOUS
    <3>2. OfRp(Now(e), q) = OfRp(Now(d), q) /\ Count(Now(e), q) = Count(Now(d), q)
      BY <1>2, OlderCounts
    <3>3. Count(Now(d), q) \in Nat
      BY CountIs, StoreAssumption
    <3>4. FollowsBy(Now(d), q, 0, k + 1)
      BY <3>1, <3>3, Slack
    <3> QED BY <3>2, <3>4 DEF FollowsBy
  <2>3. Counted(e, k + 1)
    <3> HIDE DEF f
    <3> QED BY <2>1, <2>2, PutCounted
  <2> QED BY <1>2, <2>3
<1> QED BY <1>1, <1>2 DEF OlderIs
-----------------------------------------------------------------------------
(* The actions and the counts.                                             *)

LEMMA Counting ==
    ASSUME StoreInv
    PROVE  /\ mishaps \in Nat
           /\ StoreTypeOK
           /\ Sound(disk, AnyUser, Slots)
           /\ ram = Now(disk)
           /\ \A i \in Slots : /\ ram[CredFile(i)] = Read(disk, CredFile(i))
                               /\ ram[RpFile(i)] = Read(disk, RpFile(i))
<1>1. /\ Sound(disk, asked, unsure) /\ StoreTypeOK
      /\ asked \subseteq AnyUser /\ unsure \subseteq Slots
  BY DEF StoreInv, StoreTypeOK, AnyUser
<1>2. Sound(disk, AnyUser, Slots)
  BY <1>1, StillSound
<1> QED BY <1>1, <1>2, Names DEF StoreTypeOK, ram, Now

\* A handler starts when nothing is due.
LEMMA NothingDue ==
    ASSUME StoreInv, CountInv, op = Idle
    PROVE  \A q \in RP : FollowsBy(ram, q, 0, mishaps)
  BY DEF CountInv, Due

LEMMA StoreNewCounted ==
    ASSUME InOrder, StoreInv, CountInv,
           NEW r \in RP, NEW u \in User, NEW x \in Info, StoreNew(r, u, x)
    PROVE  CountInv'
<1> DEFINE i == Min(FreeSlots)
           c == NewCredential(r, u, x)
           o == [step |-> "records", slot |-> i, cred |-> c]
<1>1. i \in Slots /\ ram[CredFile(i)] = Absent
  <2>1. FreeSlots # {} /\ FreeSlots \in SUBSET Slots
    BY DEF StoreNew, FreeSlots
  <2>2. i \in FreeSlots
    BY <2>1, LowestSlot
  <2> QED BY <2>1, <2>2 DEF FreeSlots
<1>2. op = Idle /\ Waiting(disk, "records", i, c)
  BY DEF StoreNew, CanStart
<1> HIDE DEF i, c
<1>3. \A q : Due(Now(disk), o, q) = 0
  BY <1>1, Counting, AbsentAssumption DEF Due
<1> HIDE DEF o
<1>4. \A q \in RP : FollowsBy(Now(disk), q, Due(Now(disk), o, q), mishaps)
  BY <1>2, <1>3, Counting, NothingDue
<1> QED BY <1>2, <1>4, WaitingCounted DEF CountInv, o

\* A credential that is written over another of its user.
LEMMA InSlotCounted ==
    ASSUME InOrder, StoreInv, CountInv, op = Idle, NEW i \in Slots, IsCred(ram[CredFile(i)]),
           NEW c \in Credential \cup {Absent, Broken},
           c \in Credential => UserOf(c) = UserOf(ram[CredFile(i)])
    PROVE  LET e == Put(disk, CredFile(i), c)
           IN  /\ Sound(e, AnyUser, Slots)
               /\ Counted(e, mishaps + 1)
               /\ Read(e, CredFile(i)) = c
               /\ \A j \in Slots : /\ Read(e, RpFile(j)) = ram[RpFile(j)]
                                   /\ Copies(e, RpFile(j)) = Copies(disk, RpFile(j))
               /\ \A q \in RP : FollowsBy(Now(e), q,
                                    IF c \notin Credential /\ q = ram[CredFile(i)].rp THEN 1 ELSE 0,
                                    mishaps)
<1> DEFINE f == CredFile(i)
           e == Put(disk, f, c)
           g(q) == IF c \notin Credential /\ q = ram[f].rp THEN 1 ELSE 0
<1>1. /\ mishaps \in Nat /\ StoreTypeOK /\ Sound(disk, AnyUser, Slots) /\ ram = Now(disk)
      /\ ram[f] = Read(disk, f)
      /\ \A j \in Slots : ram[RpFile(j)] = Read(disk, RpFile(j))
  BY Counting
<1>2. ram[f] \in Credential /\ UserOf(ram[f]) \in AnyUser /\ unsure \subseteq Slots
  BY <1>1, Seen, Told DEF AnyUser, StoreTypeOK
<1>3. /\ Sound(e, AnyUser, Slots) /\ Read(e, f) = c
      /\ \A h \in Files \ {f} : Read(e, h) = Read(disk, h) /\ Copies(e, h) = Copies(disk, h)
  BY <1>1, <1>2, InSlot
<1>4. \A q : Gain(Read(disk, f), c, q) = g(q)
  <2> TAKE q
  <2>1. CASE c \in Credential
    <3>1. c.rp = ram[f].rp /\ IsCred(c)
      BY <2>1, SameUser, Told
    <3> QED BY <1>1, <2>1, <3>1 DEF Gain
  <2>2. CASE c \notin Credential
    <3>1. ~IsCred(c)
      BY <2>2, Told
    <3> QED BY <1>1, <2>2, <3>1 DEF Gain
  <2> QED BY <2>1, <2>2
<1>5. \A q \in RP : FollowsBy(Now(disk), q, 0, mishaps)
  BY <1>1, NothingDue
<1> HIDE DEF e
<1>6. ASSUME NEW q \in RP
      PROVE  /\ FollowsBy(Now(e), q, g(q), mishaps)
             /\ 0 + Gain(Read(disk, f), c, q) \in {0 - 1, 0, 1}
  <2>1. 0 \in {0 - 1, 0, 1} /\ 0 + Gain(Read(disk, f), c, q) = g(q)
    BY <1>4
  <2>2. FollowsBy(Now(e), q, 0 + Gain(Read(disk, f), c, q), mishaps)
    BY <1>1, <1>5, <2>1, CredCounts DEF e
  <2> QED BY <2>1, <2>2
<1>7. Counted(e, mishaps + 1)
  <2>1. \A q \in RP : \E o \in {0 - 1, 0, 1} :
           /\ FollowsBy(Now(disk), q, o, mishaps)
           /\ o + Gain(Read(disk, f), c, q) \in {0 - 1, 0, 1}
    BY <1>5, <1>6
  <2> QED BY <1>1, <2>1, CredCounted DEF CountInv, e
<1> HIDE DEF f
<1>8. \A j \in Slots : RpFile(j) \in Files \ {f}
  BY Names DEF f
<1> QED BY <1>1, <1>3, <1>6, <1>7, <1>8 DEF e, f

LEMMA StoreAgainCounted ==
    ASSUME InOrder, StoreInv, CountInv,
           NEW r \in RP, NEW u \in User, NEW x \in Info, StoreAgain(r, u, x)
    PROVE  CountInv'
<1> DEFINE i == Min(OfUser(ram, r, u))
           f == CredFile(i)
           c == [NewCredential(r, u, x) EXCEPT !.legacy = ram[f].legacy]
           b == Put(disk, f, Broken)
           o == [step |-> "records", slot |-> i, cred |-> c]
<1>1. /\ op = Idle
      /\ \/ Done(Put(disk, f, c))
         \/ \E d \in {disk, b} : Waiting(d, "records", i, c) \/ Failed(d)
  BY DEF StoreAgain, CanStart
<1>2. i \in Slots /\ IsCred(ram[f]) /\ ram[f].rp = r /\ ram[f].user = u
  <2>1. OfUser(ram, r, u) # {} /\ OfUser(ram, r, u) \in SUBSET Slots
    BY DEF StoreAgain, OfUser, OfRp, Stored
  <2>2. i \in OfUser(ram, r, u)
    BY <2>1, LowestSlot
  <2> QED BY <2>1, <2>2 DEF OfUser, OfRp, Stored, IsCred
<1>3. /\ StoreTypeOK /\ ram[f] \in Credential /\ Sound(disk, AnyUser, Slots)
      /\ ram = Now(disk) /\ f \in Files
  BY <1>2, Seen, Told, Counting, Names
<1>4. c \in Credential /\ c.rp = r /\ c.user = u
  <2>1. ram[f].legacy \in BOOLEAN
    BY <1>3 DEF Credential
  <2> QED BY <2>1 DEF NewCredential, Credential
<1> HIDE DEF c, i
<1>5. UserOf(c) = UserOf(ram[f])
  BY <1>2, <1>4, SameUser
<1>6. CASE Done(Put(disk, f, c))
  <2>1. LET e == Put(disk, f, c)
        IN  /\ Sound(e, AnyUser, Slots) /\ Counted(e, mishaps + 1)
            /\ \A q \in RP : FollowsBy(Now(e), q,
                                 IF c \notin Credential /\ q = ram[f].rp THEN 1 ELSE 0, mishaps)
    BY <1>1, <1>2, <1>4, <1>5, InSlotCounted
  <2> QED BY <1>4, <1>6, <2>1, DoneCounted
<1>7. /\ Sound(b, AnyUser, Slots) /\ Counted(b, mishaps + 1) /\ Now(b)[f] = Broken
      /\ \A q \in RP : FollowsBy(Now(b), q, IF q = r THEN 1 ELSE 0, mishaps)
  <2>1. Broken \notin Credential
    BY Told
  <2>2. LET e == Put(disk, f, Broken)
        IN  /\ Sound(e, AnyUser, Slots) /\ Counted(e, mishaps + 1) /\ Read(e, f) = Broken
            /\ \A q \in RP : FollowsBy(Now(e), q,
                                 IF Broken \notin Credential /\ q = ram[f].rp THEN 1 ELSE 0, mishaps)
    BY <1>1, <1>2, <2>1, InSlotCounted
  <2> HIDE DEF f
  <2> QED BY <1>2, <1>3, <2>1, <2>2 DEF Now
<1> HIDE DEF b
<1>8. ASSUME NEW d \in {disk, b}
      PROVE  /\ Sound(d, AnyUser, Slots) /\ Counted(d, mishaps + 1)
             /\ \A q \in RP : /\ Due(Now(d), o, q) \in {0 - 1, 0, 1}
                              /\ FollowsBy(Now(d), q, Due(Now(d), o, q), mishaps)
  <2>1. CASE d = disk
    <3>1. \A q : Due(Now(d), o, q) = 0
      BY <1>2, <1>3, <2>1 DEF Due, IsCred
    <3> QED BY <1>1, <1>3, <2>1, <3>1, NothingDue DEF CountInv
  <2>2. CASE d = b
    <3>1. \A q : Due(Now(d), o, q) = IF q = r THEN 1 ELSE 0
      BY <1>4, <1>7, <2>2 DEF Due, Idle
    <3> QED BY <1>7, <2>2, <3>1
  <2> QED BY <2>1, <2>2
<1>9. ASSUME NEW d \in {disk, b}, Waiting(d, "records", i, c) PROVE CountInv'
  <2>1. \A q \in RP :
           FollowsBy(Now(d), q, Due(Now(d), [step |-> "records", slot |-> i, cred |-> c], q), mishaps)
    BY <1>8
  <2> QED BY <1>8, <1>9, <2>1, WaitingCounted
<1>10. ASSUME NEW d \in {disk, b}, Failed(d) PROVE CountInv'
  <2>1. \A q \in RP : \E y \in {0 - 1, 0, 1} : FollowsBy(Now(d), q, y, mishaps)
    BY <1>8
  <2> QED BY <1>8, <1>10, <2>1, FailedCounted
<1> QED BY <1>1, <1>6, <1>9, <1>10
\* What is due while a handler waits.
LEMMA DueNow ==
    ASSUME StoreInv, CountInv, op # Idle
    PROVE  /\ op.slot \in Slots /\ op.cred \in Credential /\ op.cred.rp \in RP
           /\ \A q \in RP : FollowsBy(Now(disk), q, Due(ram, op, q), mishaps)
           /\ \A q : q # op.cred.rp => Due(ram, op, q) = 0
           /\ op.step = "store" => Due(ram, op, op.cred.rp) = 0 - 1
           /\ op.step = "delete" => Due(ram, op, op.cred.rp) = 1
           /\ op.step = "replace" => Due(ram, op, op.cred.rp) = 0
           /\ op.step = "records" =>
                Due(ram, op, op.cred.rp) = IF ram[CredFile(op.slot)] = Broken THEN 1 ELSE 0
<1>1. /\ op.slot \in Slots /\ op.cred \in Credential /\ op.cred.rp \in RP
  BY DEF StoreInv, StoreTypeOK, Credential
<1>2. \A q \in RP : FollowsBy(Now(disk), q, Due(ram, op, q), mishaps)
  BY Counting DEF CountInv
<1> QED BY <1>1, <1>2 DEF Due

\* What is due before a container gets its new version, and after.
LEMMA WriteDue ==
    ASSUME StoreInv, op.step = "records", NEW step \in {"store", "replace"},
           step = "store" <=> ram[CredFile(op.slot)] = Absent, NEW v, NEW q
    PROVE  LET o == [step |-> step, slot |-> op.slot, cred |-> op.cred]
               g == Gain(ram[CredFile(op.slot)], op.cred, q)
           IN  Due(ram, op, q) + g = Due(v, o, q)
<1> DEFINE a == ram[CredFile(op.slot)]
           c == op.cred
           o == [step |-> step, slot |-> op.slot, cred |-> c]
           g == Gain(a, c, q)
           due == Due(ram, op, q)
<1> SUFFICES due + g = Due(v, o, q)
  OBVIOUS
<1>1. op # Idle
  BY DEF Idle
<1>2. c \in Credential
  BY <1>1 DEF StoreInv, StoreTypeOK
<1>3. IsCred(a) => a.rp = c.rp
  BY SameUser DEF StoreInv, OpFits
<1>4. Due(v, o, q) = IF q = c.rp /\ a = Absent THEN 0 - 1 ELSE 0
  BY DEF Due, Idle
<1>5. g = IF q # c.rp \/ IsCred(a) THEN 0 ELSE 0 - 1
  BY <1>2, <1>3, Told DEF Gain
<1>6. due = IF q = c.rp /\ a = Broken THEN 1 ELSE 0
  BY <1>1 DEF Due
<1>7. IsCred(a) <=> a # Absent /\ a # Broken
  BY DEF IsCred
<1> HIDE DEF due, g, a, c, o
<1>8. CASE q # c.rp
  BY <1>4, <1>5, <1>6, <1>8
<1>9. CASE q = c.rp /\ a = Absent
  BY <1>4, <1>5, <1>6, <1>7, <1>9, AbsentAssumption
<1>10. CASE q = c.rp /\ a = Broken
  BY <1>4, <1>5, <1>6, <1>7, <1>10, AbsentAssumption
<1>11. CASE q = c.rp /\ IsCred(a)
  BY <1>4, <1>5, <1>6, <1>7, <1>11
<1> QED BY <1>7, <1>8, <1>9, <1>10, <1>11 DEF due, g, a, c, o

\* The older version of a container changes while a handler waits.
LEMMA BeneathCounted ==
    ASSUME InOrder, StoreInv, CountInv, NEW i \in Slots, NEW u \in {Absent} \cup Credential
    PROVE  LET d == OlderIs(disk, i, u)
           IN  /\ Sound(d, asked, unsure)
               /\ Counted(d, mishaps + 1)
               /\ \A q \in RP : FollowsBy(Now(d), q, Due(ram, op, q), mishaps)
               /\ \A j \in Slots : /\ ram[CredFile(j)] = Read(d, CredFile(j))
                                   /\ ram[RpFile(j)] = Read(d, RpFile(j))
                                   /\ Copies(d, RpFile(j)) = Copies(disk, RpFile(j))
<1> DEFINE d == OlderIs(disk, i, u)
<1>1. /\ mishaps \in Nat /\ Sound(disk, asked, unsure) /\ ram = Now(disk)
      /\ Counted(disk, mishaps + 1)
      /\ \A q \in RP : FollowsBy(Now(disk), q, Due(ram, op, q), mishaps)
  BY Counting DEF StoreInv, CountInv
<1>2. /\ Sound(d, asked, unsure)
      /\ \A j \in Slots : /\ Read(d, CredFile(j)) = ram[CredFile(j)]
                           /\ Read(d, RpFile(j)) = ram[RpFile(j)]
                           /\ Copies(d, RpFile(j)) = Copies(disk, RpFile(j))
  BY Beneath
<1>3. \A q : OfRp(Now(d), q) = OfRp(Now(disk), q) /\ Count(Now(d), q) = Count(Now(disk), q)
  BY <1>1, OlderCounts
<1>4. \A q \in RP : \E o \in {0 - 1, 0, 1} : FollowsBy(Now(disk), q, o, mishaps)
  BY <1>1, DueRange
<1>5. Counted(d, mishaps + 1)
  BY <1>1, <1>4, OlderCounted
<1> HIDE DEF d
<1>6. \A q \in RP : FollowsBy(Now(d), q, Due(ram, op, q), mishaps)
  BY <1>1, <1>3 DEF FollowsBy
<1> QED BY <1>2, <1>5, <1>6 DEF d

LEMMA ContainerCounted ==
    ASSUME InOrder, StoreInv, op.step = "records", NEW step \in {"store", "replace"},
           step = "store" <=> ram[CredFile(op.slot)] = Absent,
           NEW d, NEW who, NEW out, Sound(d, who, out), Counted(d, mishaps + 1),
           \A q \in RP : FollowsBy(Now(d), q, Due(ram, op, q), mishaps),
           ram[CredFile(op.slot)] = Read(d, CredFile(op.slot)),
           Waiting(Put(d, CredFile(op.slot), op.cred), step, op.slot, op.cred)
    PROVE  CountInv'
<1> DEFINE i == op.slot
           f == CredFile(i)
           c == op.cred
           e == Put(d, f, c)
           o == [step |-> step, slot |-> i, cred |-> c]
           g(q) == Gain(Read(d, f), c, q)
           due(q) == Due(ram, op, q)
<1>1. mishaps \in Nat /\ i \in Slots /\ c \in {Absent, Broken} \cup Credential
  <2>1. op # Idle
    BY DEF Idle
  <2> QED BY <2>1 DEF StoreInv, StoreTypeOK
<1>2. \A q : due(q) \in {0 - 1, 0, 1} /\ due(q) + g(q) = Due(Now(e), o, q)
  BY DueRange, WriteDue
<1>3. \A q : due(q) + g(q) \in {0 - 1, 0, 1}
  BY <1>2, DueRange
<1>4. \A q \in RP : FollowsBy(Now(e), q, due(q) + g(q), mishaps)
  <2> HIDE DEF due, i, c
  <2> TAKE q \in RP
  <2>1. due(q) \in {0 - 1, 0, 1} /\ FollowsBy(Now(d), q, due(q), mishaps)
    BY <1>2 DEF due
  <2> QED BY <1>1, <2>1, CredCounts
<1>5. Counted(e, mishaps + 1)
  <2>1. \A q \in RP : \E y \in {0 - 1, 0, 1} :
           /\ FollowsBy(Now(d), q, y, mishaps)
           /\ y + Gain(Read(d, f), c, q) \in {0 - 1, 0, 1}
    BY <1>2, <1>3
  <2> HIDE DEF i, c
  <2> QED BY <1>1, <2>1, CredCounted
<1>6. \A q \in RP : FollowsBy(Now(e), q, Due(Now(e), o, q), mishaps)
  BY <1>2, <1>4
<1> HIDE DEF e, i, c
<1> QED BY <1>5, <1>6, WaitingCounted DEF e, i, c

LEMMA WriteManifestCounted ==
    ASSUME InOrder, StoreInv, CountInv, WriteManifest PROVE CountInv'
<1> DEFINE i == op.slot
           u == IF ram[CredFile(i)] = Broken THEN Absent ELSE ram[CredFile(i)]
           d == OlderIs(disk, i, u)
<1>1. /\ op.step = "records" /\ op # Idle /\ ram[CredFile(i)] # Absent
      /\ Waiting(Put(d, CredFile(i), op.cred), "replace", i, op.cred)
  BY DEF WriteManifest, Synced, Idle
<1>2. i \in Slots /\ u \in {Absent} \cup Credential
  BY <1>1, Counting, Seen, DueNow
<1> HIDE DEF u
<1>3. /\ Sound(d, asked, unsure) /\ Counted(d, mishaps + 1)
      /\ \A q \in RP : FollowsBy(Now(d), q, Due(ram, op, q), mishaps)
      /\ ram[CredFile(i)] = Read(d, CredFile(i))
  BY <1>2, BeneathCounted
<1> HIDE DEF d
<1> QED BY <1>1, <1>3, ContainerCounted

LEMMA WriteMarkerCounted ==
    ASSUME InOrder, StoreInv, CountInv, WriteMarker PROVE CountInv'
<1> DEFINE i == op.slot
           d == OlderIs(disk, i, op.cred)
<1>1. /\ op.step = "records" /\ op # Idle /\ ram[CredFile(i)] = Absent
      /\ \/ Waiting(Put(disk, CredFile(i), op.cred), "store", i, op.cred)
         \/ Failed(d)
  BY DEF WriteMarker, Synced, Idle
<1>2. /\ i \in Slots /\ op.cred \in Credential
      /\ Sound(disk, AnyUser, Slots) /\ Counted(disk, mishaps + 1)
      /\ \A q \in RP : FollowsBy(Now(disk), q, Due(ram, op, q), mishaps)
      /\ ram[CredFile(i)] = Read(disk, CredFile(i))
  BY <1>1, Counting, DueNow DEF CountInv
<1>3. CASE Waiting(Put(disk, CredFile(i), op.cred), "store", i, op.cred)
  BY <1>1, <1>2, <1>3, ContainerCounted
<1>4. CASE Failed(d)
  <2>1. /\ Sound(d, asked, unsure) /\ Counted(d, mishaps + 1)
        /\ \A q \in RP : FollowsBy(Now(d), q, Due(ram, op, q), mishaps)
    BY <1>2, BeneathCounted
  <2>2. \A q \in RP : \E y \in {0 - 1, 0, 1} : FollowsBy(Now(d), q, y, mishaps)
    BY <2>1, DueRange
  <2> HIDE DEF d
  <2> QED BY <1>4, <2>1, <2>2, FailedCounted
<1> QED BY <1>1, <1>3, <1>4

LEMMA FinishStoreCounted ==
    ASSUME InOrder, StoreInv, CountInv, NoCountWraps, FinishStore PROVE CountInv'
<1> DEFINE r == op.cred.rp
           d == OlderIs(disk, op.slot, Absent)
<1>1. /\ op.step = "store" /\ op # Idle /\ IsSettled(disk)
      /\ \/ (RpRecords(ram, r) # {} \/ FreeRpSlots # {}) /\ Done(CountUp(d, r))
         \/ Failed(d)
  BY DEF FinishStore, Synced, Idle
<1>2. /\ r \in RP /\ op.slot \in Slots
      /\ \A q \in RP : Due(ram, op, q) = IF q = r THEN 0 - 1 ELSE 0
  BY <1>1, DueNow
<1>3. /\ Sound(d, asked, unsure) /\ Counted(d, mishaps + 1)
      /\ \A q \in RP : FollowsBy(Now(d), q, Due(ram, op, q), mishaps)
      /\ \A j \in Slots : /\ ram[CredFile(j)] = Read(d, CredFile(j))
                           /\ ram[RpFile(j)] = Read(d, RpFile(j))
                           /\ Copies(d, RpFile(j)) = Copies(disk, RpFile(j))
  BY <1>2, BeneathCounted
<1> HIDE DEF d, r
<1>4. /\ FollowsBy(Now(d), r, 0 - 1, mishaps)
      /\ \A q \in RP : q # r => FollowsBy(Now(d), q, 0, mishaps)
  BY <1>2, <1>3
<1>5. CASE /\ RpRecords(ram, r) # {} \/ FreeRpSlots # {}
           /\ Done(CountUp(d, r))
  <2>1. LET e == CountUp(d, r)
        IN  /\ Counted(e, mishaps + 1)
            /\ \A q \in RP : FollowsBy(Now(e), q, 0, mishaps)
    BY <1>2, <1>3, <1>4, <1>5, CountUpCounted
  <2>2. Sound(CountUp(d, r), asked, unsure)
    BY <1>1, <1>2, <1>3, <1>5, CountUpSound
  <2> QED BY <1>5, <2>1, <2>2, DoneCounted
<1>6. CASE Failed(d)
  <2>1. \A q \in RP : \E y \in {0 - 1, 0, 1} : FollowsBy(Now(d), q, y, mishaps)
    BY <1>4
  <2> QED BY <1>3, <1>6, <2>1, FailedCounted
<1> QED BY <1>1, <1>5, <1>6

LEMMA FinishInPlaceCounted ==
    ASSUME InOrder, StoreInv, CountInv, FinishInPlace PROVE CountInv'
<1> DEFINE d == OlderIs(disk, op.slot, Absent)
<1>1. op.step = "replace" /\ op # Idle /\ Done(d)
  BY DEF FinishInPlace, Synced, Idle
<1>2. op.slot \in Slots /\ \A q \in RP : Due(ram, op, q) = 0
  BY <1>1, DueNow
<1>3. /\ Sound(d, asked, unsure) /\ Counted(d, mishaps + 1)
      /\ \A q \in RP : FollowsBy(Now(d), q, Due(ram, op, q), mishaps)
  BY <1>2, BeneathCounted
<1>4. \A q \in RP : FollowsBy(Now(d), q, 0, mishaps)
  BY <1>2, <1>3
<1> HIDE DEF d
<1> QED BY <1>1, <1>3, <1>4, DoneCounted

LEMMA FinishDeleteCounted ==
    ASSUME InOrder, StoreInv, CountInv, FinishDelete PROVE CountInv'
<1> DEFINE r == op.cred.rp
<1>1. op.step = "delete" /\ op # Idle /\ Done(CountDown(disk, r))
  BY DEF FinishDelete, Synced, Idle
<1>2. /\ r \in RP /\ Sound(disk, asked, unsure) /\ Counted(disk, mishaps + 1)
      /\ FollowsBy(Now(disk), r, 1, mishaps)
      /\ \A q \in RP : q # r => FollowsBy(Now(disk), q, 0, mishaps)
      /\ \A j \in Slots : ram[RpFile(j)] = Read(disk, RpFile(j))
  BY <1>1, Counting, DueNow DEF CountInv, StoreInv
<1>3. LET e == CountDown(disk, r)
      IN  /\ Counted(e, mishaps + 1)
          /\ \A q \in RP : FollowsBy(Now(e), q, 0, mishaps)
  BY <1>2, CountDownCounted
<1>4. Sound(CountDown(disk, r), asked, unsure)
  BY <1>2, CountDownSound
<1> QED BY <1>1, <1>3, <1>4, DoneCounted

LEMMA DeleteSingleFileCounted ==
    ASSUME InOrder, StoreInv, CountInv, NEW i \in Slots, DeleteSingleFile(i) PROVE CountInv'
<1> DEFINE f == CredFile(i)
           c == ram[f]
           a == Put(disk, f, Absent)
<1>1. op = Idle /\ Done(CountDown(a, c.rp))
  BY DEF DeleteSingleFile, CanStart
<1>2. IsCred(c)
  BY DEF DeleteSingleFile, Stored, IsCred
<1>3. c \in Credential /\ c.rp \in RP /\ mishaps \in Nat
  <2>1. c \in Credential
    BY <1>2, Seen, Told, Counting
  <2> QED BY <2>1, Counting DEF Credential
<1>4. Absent \notin Credential
  BY Told
<1>5. /\ Sound(a, AnyUser, Slots) /\ Counted(a, mishaps + 1)
      /\ \A j \in Slots : /\ Read(a, RpFile(j)) = ram[RpFile(j)]
                           /\ Copies(a, RpFile(j)) = Copies(disk, RpFile(j))
      /\ \A q \in RP : FollowsBy(Now(a), q,
                           IF Absent \notin Credential /\ q = c.rp THEN 1 ELSE 0, mishaps)
  BY <1>1, <1>2, <1>4, InSlotCounted
<1>6. /\ FollowsBy(Now(a), c.rp, 1, mishaps)
      /\ \A q \in RP : q # c.rp => FollowsBy(Now(a), q, 0, mishaps)
  BY <1>3, <1>4, <1>5
<1> HIDE DEF a, c
<1>7. LET b == CountDown(a, c.rp)
      IN  /\ Counted(b, mishaps + 1)
          /\ \A q \in RP : FollowsBy(Now(b), q, 0, mishaps)
  BY <1>3, <1>5, <1>6, CountDownCounted
<1>8. Sound(CountDown(a, c.rp), AnyUser, Slots)
  BY <1>3, <1>5, CountDownSound
<1> QED BY <1>1, <1>7, <1>8, DoneCounted

\* In the middle of a deletion: each count is out by what slot i shows instead
\* of the credential c that was in it.
Between(d, i, c) ==
    /\ Sound(d, AnyUser, Slots)
    /\ Counted(d, mishaps + 1)
    /\ \A q \in RP : FollowsBy(Now(d), q, Gain(c, Read(d, CredFile(i)), q), mishaps)

LEMMA AnyWrite ==
    ASSUME NEW d, Sound(d, AnyUser, Slots), NEW i \in Slots,
           NEW y \in {Absent, Broken} \cup Credential
    PROVE  /\ Sound(Put(d, CredFile(i), y), AnyUser, Slots)
           /\ Read(Put(d, CredFile(i), y), CredFile(i)) = y
<1> DEFINE x == Read(d, CredFile(i))
<1>1. x \in {Absent, Broken} \cup Credential
  <2>1. IsDisk(d, Contents) /\ CredFile(i) \in DOMAIN Contents
    BY Names DEF Sound
  <2> QED BY <2>1, ReadIsCopy, Names
<1>2. May(x, y, AnyUser)
  BY <1>1, Told DEF May, AnyUser
<1> HIDE DEF x
<1>3. \A j \in Slots \ Slots : i \notin Slots \cup {j} =>
         \A b \in Copies(d, CredFile(j)) : IsCred(y) /\ IsCred(b) => UserOf(b) # UserOf(y)
  OBVIOUS
<1> QED BY <1>2, <1>3, CredWrite DEF x

LEMMA WriteBetween ==
    ASSUME InOrder, mishaps \in Nat, NEW i \in Slots, NEW c, NEW d, Between(d, i, c),
           NEW y \in {Absent, Broken} \cup Credential
    PROVE  /\ Between(Put(d, CredFile(i), y), i, c)
           /\ Read(Put(d, CredFile(i), y), CredFile(i)) = y
<1> DEFINE x == Read(d, CredFile(i))
           e == Put(d, CredFile(i), y)
<1>1. Sound(e, AnyUser, Slots) /\ Read(e, CredFile(i)) = y
  BY AnyWrite DEF Between
<1>2. \A q : /\ Gain(c, x, q) \in {0 - 1, 0, 1} /\ Gain(c, y, q) \in {0 - 1, 0, 1}
             /\ Gain(c, x, q) + Gain(x, y, q) = Gain(c, y, q)
  BY GainSums
<1>3. /\ Sound(d, AnyUser, Slots) /\ Counted(d, mishaps + 1)
      /\ \A q \in RP : FollowsBy(Now(d), q, Gain(c, x, q), mishaps)
  BY DEF Between
<1>4. Counted(e, mishaps + 1)
  <2>1. \A q \in RP : \E o \in {0 - 1, 0, 1} :
           /\ FollowsBy(Now(d), q, o, mishaps)
           /\ o + Gain(x, y, q) \in {0 - 1, 0, 1}
    BY <1>2, <1>3
  <2> QED BY <1>3, <2>1, CredCounted
<1>5. \A q \in RP : FollowsBy(Now(e), q, Gain(c, y, q), mishaps)
  <2> TAKE q \in RP
  <2>1. FollowsBy(Now(e), q, Gain(c, x, q) + Gain(x, y, q), mishaps)
    BY <1>2, <1>3, CredCounts
  <2> QED BY <1>2, <2>1
<1> HIDE DEF e
<1> QED BY <1>1, <1>4, <1>5 DEF Between, e

LEMMA OlderBetween ==
    ASSUME InOrder, mishaps \in Nat, NEW i \in Slots, NEW c, NEW d, Between(d, i, c),
           NEW u \in {Absent} \cup Credential
    PROVE  Between(OlderIs(d, i, u), i, c)
<1> DEFINE x == Read(d, CredFile(i))
           e == OlderIs(d, i, u)
<1>1. /\ Sound(d, AnyUser, Slots) /\ Counted(d, mishaps + 1)
      /\ \A q \in RP : FollowsBy(Now(d), q, Gain(c, x, q), mishaps)
  BY DEF Between
<1>2. /\ Sound(e, AnyUser, Slots) /\ Read(e, CredFile(i)) = x
      /\ \A q : OfRp(Now(e), q) = OfRp(Now(d), q) /\ Count(Now(e), q) = Count(Now(d), q)
  BY <1>1, OlderWrite, OlderCounts
<1>3. Counted(e, mishaps + 1)
  <2>1. \A q \in RP : \E o \in {0 - 1, 0, 1} : FollowsBy(Now(d), q, o, mishaps)
    BY <1>1, GainSums
  <2> QED BY <1>1, <2>1, OlderCounted
<1> HIDE DEF e, x
<1>4. \A q \in RP : FollowsBy(Now(e), q, Gain(c, x, q), mishaps)
  BY <1>1, <1>2 DEF FollowsBy
<1> QED BY <1>2, <1>3, <1>4 DEF Between, e

LEMMA DeleteContainerCounted ==
    ASSUME InOrder, StoreInv, CountInv, NEW i \in Slots, DeleteContainer(i) PROVE CountInv'
<1> DEFINE f == CredFile(i)
           c == ram[f]
<1>1. op = Idle /\ IsCred(c)
  BY DEF DeleteContainer, CanStart, Stored, IsCred
<1>2. PICK u \in {ram[OlderFile(i)]} : Waiting(ContainerDeleted(i, u), "delete", i, c)
  BY DEF DeleteContainer
<1>3. /\ u \in {Absent} \cup Credential /\ c \in Credential
      /\ mishaps \in Nat /\ c = Read(disk, f)
  BY <1>1, <1>2, OlderVersion, Counting, Seen, Told
<1>4. Between(disk, i, c)
  <2>1. \A q \in RP : FollowsBy(Now(disk), q, 0, mishaps)
    BY <1>1, Counting, NothingDue
  <2> QED BY <1>3, <2>1, Counting, GainSums DEF Between, CountInv
<1> DEFINE a == IF u \in {Absent, c} THEN disk ELSE Put(disk, f, u)
           b == Put(a, f, Broken)
           d == OlderIs(b, i, Absent)
           e == Put(d, f, Absent)
           o == [step |-> "delete", slot |-> i, cred |-> c]
<1>5. ContainerDeleted(i, u) = e
  BY DEF ContainerDeleted
<1> HIDE DEF c
<1>6. Between(a, i, c)
  <2>1. u \notin {Absent, c} => u \in Credential
    BY <1>3
  <2> QED BY <1>3, <1>4, <2>1, WriteBetween
<1> HIDE DEF a
<1>7. Between(b, i, c)
  BY <1>3, <1>6, WriteBetween
<1> HIDE DEF b
<1>8. Between(d, i, c)
  BY <1>3, <1>7, OlderBetween
<1> HIDE DEF d
<1>9. Between(e, i, c) /\ Read(e, f) = Absent
  BY <1>3, <1>8, WriteBetween
<1> HIDE DEF e
<1>10. \A q : Gain(c, Absent, q) = Due(Now(e), o, q)
  BY <1>3, Told DEF Gain, Due, Idle
<1>11. /\ Counted(e, mishaps + 1)
       /\ \A q \in RP : FollowsBy(Now(e), q, Due(Now(e), o, q), mishaps)
  BY <1>9, <1>10 DEF Between
<1> QED BY <1>2, <1>5, <1>11, WaitingCounted

LEMMA UpdateUserCounted ==
    ASSUME InOrder, StoreInv, CountInv, NEW i \in Slots, NEW x \in Info, UpdateUser(i, x)
    PROVE  CountInv'
<1> DEFINE f == CredFile(i)
           c == [ram[f] EXCEPT !.info = x]
           o == [step |-> "records", slot |-> i, cred |-> c]
<1>1. op = Idle /\ (Done(Put(disk, f, c)) \/ Waiting(disk, "records", i, c))
  BY DEF UpdateUser, CanStart
<1>2. IsCred(ram[f])
  BY DEF UpdateUser, Stored, IsCred
<1>3. ram[f] \in Credential /\ ram = Now(disk)
  BY <1>2, Seen, Told, Counting
<1>4. c \in Credential /\ c.rp = ram[f].rp /\ c.user = ram[f].user
  BY <1>3 DEF Credential
<1> HIDE DEF c
<1>5. UserOf(c) = UserOf(ram[f])
  BY <1>4, SameUser
<1>6. CASE Done(Put(disk, f, c))
  <2>1. LET e == Put(disk, f, c)
        IN  /\ Sound(e, AnyUser, Slots) /\ Counted(e, mishaps + 1)
            /\ \A q \in RP : FollowsBy(Now(e), q,
                                 IF c \notin Credential /\ q = ram[f].rp THEN 1 ELSE 0, mishaps)
    BY <1>1, <1>2, <1>4, <1>5, InSlotCounted
  <2> QED BY <1>4, <1>6, <2>1, DoneCounted
<1>7. CASE Waiting(disk, "records", i, c)
  <2>1. \A q : Due(Now(disk), o, q) = 0
    BY <1>2, <1>3 DEF Due, IsCred
  <2>2. \A q \in RP : FollowsBy(Now(disk), q, Due(Now(disk), o, q), mishaps)
    BY <1>1, <1>3, <2>1, NothingDue
  <2> QED BY <1>7, <2>2, WaitingCounted DEF CountInv
<1> QED BY <1>1, <1>6, <1>7

LEMMA CommitTimeoutCounted ==
    ASSUME StoreInv, CountInv, CommitTimeout PROVE CountInv'
<1>1. op # Idle /\ Failed(disk)
  BY DEF CommitTimeout
<1>2. Sound(disk, asked, unsure) /\ Counted(disk, mishaps + 1)
  BY DEF StoreInv, CountInv
<1>3. \A q \in RP : \E y \in {0 - 1, 0, 1} : FollowsBy(Now(disk), q, y, mishaps)
  BY <1>1, DueNow, DueRange
<1> QED BY <1>1, <1>2, <1>3, FailedCounted

LEMMA DrainKeepsCounts ==
    ASSUME InOrder, StoreInv, CountInv, Drain PROVE CountInv'
<1>1. PICK f \in Files : CanDrain(disk, f) /\ disk' = Drained(disk, f)
  BY DEF Drain
<1>2. op' = op /\ mishaps' = mishaps /\ Sound(disk, asked, unsure)
  BY DEF Drain, StoreInv
<1>3. \A g \in Files : Read(disk', g) = Read(disk, g)
  BY <1>1, <1>2, SoundDrained
<1>4. ram' = ram
  BY <1>3 DEF ram
<1>5. Counted(disk', mishaps + 1)
  BY <1>1, <1>2, DrainCounted DEF CountInv
<1> QED BY <1>2, <1>4, <1>5 DEF CountInv
\* A power cut leaves a moment the flash has gone to; the start-up rewrites
\* records and changes neither relying parties nor counts.
LEMMA CutCounted ==
    ASSUME InOrder, StoreInv, NEW k \in Nat, NoZero(disk),
           \A q \in RP : FollowsBy(flash, q, 0, k),
           NEW e \in {Crashed(disk), credential_migrate_rp_secure(Crashed(disk))}
    PROVE  Counted(e, k + 1) /\ \A q \in RP : FollowsBy(Now(e), q, 0, k)
<1> DEFINE c == flash
           d == Crashed(disk)
<1>1. /\ Sound(d, {}, unsure)
      /\ \A f \in Files : Read(d, f) = c[f] /\ Copies(d, f) = {c[f]}
  BY SoundCrashed DEF StoreInv, flash
<1>2. /\ IsDisk(disk, Contents) /\ IsDisk(d, Contents) /\ DOMAIN Contents = Files
      /\ c = [f \in DOMAIN Contents |-> c[f]]
      /\ d = Settled(c) /\ d.flash = c /\ Len(d.order) = 0
  BY <1>1, Names DEF Sound, StoreInv, IsDisk, Crashed, Settled, flash
<1>3. NoZero(d)
  <2>1. \A f \in Files : Copies(d, f) \subseteq Copies(disk, f)
    BY <1>1 DEF Copies, flash
  <2> QED BY <2>1, Names DEF NoZero
<1>4. Now(d) = c
  BY <1>1, <1>2 DEF Now
<1> HIDE DEF c, d
<1>5. CASE e = d
  <2> DEFINE ms == [i \in 0..0 |-> c]
  <2>1. IsHistory(d, Contents, ms)
    BY <1>2, SettledHistory
  <2>2. ms = [i \in 0..0 |-> ms[i]] /\ \A i \in 0..0 : ms[i] = c
    OBVIOUS
  <2> HIDE DEF ms
  <2>3. Drifts(d, k)
    <3>1. \A i \in 0..Len(d.order) : ms[i] = flash
      BY <1>2, <2>2 DEF c
    <3> QED BY <2>1, <3>1 DEF Drifts
  <2> QED BY <1>1, <1>3, <1>4, <1>5, <2>3, StillCounted DEF Counted, c
<1>6. CASE e = credential_migrate_rp_secure(d)
  <2>1. PICK v : /\ credential_migrate_rp_secure(d) = PutAll(d, v)
                 /\ DOMAIN v \subseteq {RpFile(i) : i \in Slots}
                 /\ IsFiniteSet(DOMAIN v)
                 /\ \A f \in DOMAIN v : /\ d.flash[f] \in RpRecord
                                        /\ v[f] \in RpRecord
                                        /\ v[f].rp = d.flash[f].rp
                                        /\ v[f].count = d.flash[f].count
    BY <1>2, OldRecords, ZenonT(120)
  <2>2. DOMAIN v \subseteq DOMAIN Contents /\ \A f \in DOMAIN v : v[f] \in Contents[f]
    BY <2>1, Names
  <2>3. e = PutAll(Settled(c), v) /\ e = PutAll(d, v)
    BY <1>2, <1>6, <2>1
  <2>4. PICK ms : IsHistory(e, Contents, ms) /\ OneByOne(e, Contents, ms, c, v)
    <3>1. c = [f \in DOMAIN Contents |-> c[f]]
      BY <1>2
    <3>2. DOMAIN v \subseteq DOMAIN Contents /\ IsFiniteSet(DOMAIN v)
      BY <2>1, <2>2
    <3>3. LET m == PutAll(Settled(c), v)
          IN  \E ms : IsHistory(m, Contents, ms) /\ OneByOne(m, Contents, ms, c, v)
      BY <3>1, <3>2, PutAllHistory
    <3> QED BY <2>3, <3>3
  <2>5. ASSUME NEW i \in 0..Len(e.order), NEW q \in RP PROVE FollowsBy(ms[i], q, 0, k)
    <3>1. \A j \in Slots : /\ CredFile(j) \in DOMAIN Contents /\ RpFile(j) \in DOMAIN Contents
                          /\ CredFile(j) \notin DOMAIN v
      BY <2>1, Names
    <3>2. \A j \in Slots : c[CredFile(j)] = ms[i][CredFile(j)]
      BY <2>4, <3>1 DEF OneByOne
    <3>3. SameRecords(c, ms[i])
      <4> SUFFICES ASSUME NEW j \in Slots
                   PROVE  /\ c[RpFile(j)] = Absent <=> ms[i][RpFile(j)] = Absent
                          /\ c[RpFile(j)] # Absent =>
                               /\ c[RpFile(j)].rp = ms[i][RpFile(j)].rp
                               /\ c[RpFile(j)].count = ms[i][RpFile(j)].count
        BY DEF SameRecords
      <4>1. CASE ms[i][RpFile(j)] = c[RpFile(j)]
        BY <4>1
      <4>2. CASE ms[i][RpFile(j)] # c[RpFile(j)]
        <5>1. RpFile(j) \in DOMAIN v /\ ms[i][RpFile(j)] = v[RpFile(j)]
          BY <2>4, <3>1, <4>2 DEF OneByOne
        <5> QED BY <1>2, <2>1, <5>1, Told
      <4> QED BY <4>1, <4>2
    <3>4. Count(c, q) = Count(ms[i], q) /\ OfRp(c, q) = OfRp(ms[i], q)
      BY <3>2, <3>3, SameCount, SameCreds
    <3>5. FollowsBy(c, q, 0, k)
      BY DEF c
    <3> QED BY <3>4, <3>5 DEF FollowsBy
  <2>6. Sound(e, {}, unsure)
    BY <1>1, <1>6, SoundMigrated
  <2>7. NoZero(e)
    <3>1. /\ \A f \in DOMAIN v : Copies(e, f) = Copies(d, f) \cup {v[f]}
          /\ \A f \in DOMAIN Contents \ DOMAIN v : Copies(e, f) = Copies(d, f)
      BY <1>2, <2>1, <2>2, <2>3, PutAllDisk, SMTT(90)
    <3> SUFFICES ASSUME NEW j \in Slots, NEW x \in Copies(e, RpFile(j)), x # Absent
                 PROVE  x.count # 0
      BY DEF NoZero
    <3>2. RpFile(j) \in DOMAIN Contents /\ RpFile(j) \in Files
      BY Names
    <3>3. CASE x \in Copies(d, RpFile(j))
      BY <1>3, <3>3 DEF NoZero
    <3>4. CASE RpFile(j) \in DOMAIN v /\ x = v[RpFile(j)]
      <4>1. d.flash[RpFile(j)] # Absent /\ x.count = d.flash[RpFile(j)].count
        BY <2>1, <3>4, Told
      <4>2. d.flash[RpFile(j)] \in Copies(d, RpFile(j))
        BY DEF Copies
      <4> QED BY <1>3, <4>1, <4>2 DEF NoZero
    <3> QED BY <3>1, <3>2, <3>3, <3>4
  <2>8. Counted(e, k)
    BY <2>4, <2>5, <2>7 DEF Counted, Drifts
  <2>9. \A q \in RP : FollowsBy(Now(e), q, 0, k)
    <3>1. IsDisk(e, Contents)
      BY <2>6 DEF Sound
    <3>2. Len(e.order) \in Nat /\ ms[Len(e.order)] = [f \in DOMAIN Contents |-> Read(e, f)]
      BY <2>4, <3>1, HistoryEnds
    <3>3. ms[Len(e.order)] = Now(e)
      BY <1>2, <3>2 DEF Now
    <3> QED BY <2>5, <3>2, <3>3
  <2> QED BY <2>6, <2>8, <2>9, StillCounted
<1> QED BY <1>5, <1>6 DEF d

LEMMA PowerCycleCounted ==
    ASSUME InOrder, StoreInv, CountInv, PowerCycle PROVE CountInv'
<1>1. /\ disk' \in {Crashed(disk), credential_migrate_rp_secure(Crashed(disk))}
      /\ op' = Idle
      /\ \/ op = Idle /\ IsSettled(disk) /\ mishaps' = mishaps
         \/ mishaps' = mishaps + 1
  BY DEF PowerCycle
<1>2. mishaps \in Nat /\ ram = Now(disk) /\ IsDisk(disk, Contents)
  BY Counting DEF Sound
<1>3. mishaps' \in Nat /\ \A q \in RP : FollowsBy(flash, q, 0, mishaps')
  <2>1. CASE op = Idle /\ IsSettled(disk) /\ mishaps' = mishaps
    <3>1. \A f \in Files : ram[f] = flash[f]
      BY <1>2, <2>1, Names DEF IsDisk, IsSettled, Read, ram, flash
    <3>2. \A q : Count(ram, q) = Count(flash, q) /\ OfRp(ram, q) = OfRp(flash, q)
      <4>1. \A j \in Slots : /\ ram[CredFile(j)] = flash[CredFile(j)]
                            /\ ram[RpFile(j)] = flash[RpFile(j)]
        BY <3>1, Names
      <4> QED BY <4>1, SameCount, SameCreds DEF SameRecords
    <3> QED BY <1>2, <2>1, <3>2, NothingDue DEF FollowsBy
  <2>2. CASE mishaps' = mishaps + 1
    <3>1. PICK ms : /\ IsHistory(disk, Contents, ms)
                    /\ \A i \in 0..Len(disk.order), q \in RP :
                          FollowsBy(ms[i], q, 0, mishaps + 1)
      BY DEF CountInv, Counted, Drifts
    <3>2. LET n == Len(disk.order)
          IN  /\ n \in Nat
              /\ ms[0] = disk.flash
              /\ ms[n] = [f \in DOMAIN Contents |-> Read(disk, f)]
              /\ \A i \in 1..n : /\ disk.order[i] \in DOMAIN Contents
                                 /\ disk.pending[disk.order[i]] # <<>>
              /\ IsSettled(disk) => n = 0
      <4>1. IsDisk(disk, Contents) /\ IsHistory(disk, Contents, ms)
        BY <1>2, <3>1
      <4> QED BY <4>1, HistoryEnds
    <3>3. 0 \in 0..Len(disk.order) /\ ms[0] = flash
      BY <3>2 DEF flash
    <3> QED BY <1>2, <2>2, <3>1, <3>3
  <2> QED BY <1>1, <2>1, <2>2
<1>4. Counted(disk', mishaps' + 1) /\ \A q \in RP : FollowsBy(Now(disk'), q, 0, mishaps')
  BY <1>1, <1>3, CutCounted DEF CountInv, Counted
<1>5. ram' = Now(disk')
  BY DEF ram, Now
<1> QED BY <1>1, <1>4, <1>5 DEF CountInv, Due
LEMMA InitCounted == ASSUME StoreInit, NoCountWraps PROVE CountInv
<1>1. PICK w : \E cs \in [Slots -> {Absent} \cup Credential],
                  rs \in [Slots -> {Absent} \cup RpRecord] :
                 /\ LegacyStore(cs, rs)
                 /\ disk = Settled(w)
                 /\ w = [f \in DOMAIN Contents |-> w[f]]
                 /\ \A f \in DOMAIN Contents : w[f] \in Contents[f]
                 /\ w[StateFile] = Described(w)
                 /\ \A i \in Slots : w[CredFile(i)] = cs[i] /\ w[RpFile(i)] = rs[i]
  BY InitialStore
<1>2. PICK cs \in [Slots -> {Absent} \cup Credential],
           rs \in [Slots -> {Absent} \cup RpRecord] :
        LegacyStore(cs, rs) /\ \A i \in Slots : w[CredFile(i)] = cs[i] /\ w[RpFile(i)] = rs[i]
  BY <1>1
<1>3. mishaps = 0 /\ op = Idle /\ Len(disk.order) = 0 /\ CountMod \in Nat \ {0, 1}
  <2>1. mishaps = 0 /\ op = Idle
    BY DEF StoreInit
  <2>2. disk.order = <<>>
    BY <1>1 DEF Settled
  <2> QED BY <2>1, <2>2, StoreAssumption
<1>4. \A f \in Files : Read(disk, f) = w[f] /\ Copies(disk, f) = {w[f]}
  <2>1. LET e == Settled(w)
        IN  /\ IsDisk(e, Contents)
            /\ \A f \in DOMAIN Contents : Read(e, f) = w[f] /\ Copies(e, f) = {w[f]}
    BY <1>1, SettledDisk
  <2> QED BY <1>1, <2>1, Names
<1>5. ram = w
  BY <1>1, <1>4, Names DEF ram
<1> DEFINE of(r) == {j \in Slots : cs[j] # Absent /\ cs[j].rp = r}
<1>6. ASSUME NEW r \in RP
      PROVE  /\ OfRp(w, r) = of(r) /\ IsFiniteSet(of(r))
             /\ Cardinality(of(r)) \in 0..(CountMod - 1)
             /\ Cardinality(of(r)) % CountMod = Cardinality(of(r))
  <2>1. \A j \in Slots : cs[j] # Broken /\ w[CredFile(j)] = cs[j]
    BY <1>2, Told, AbsentAssumption DEF IsCred
  <2>2. OfRp(w, r) = of(r)
    BY <2>1 DEF OfRp, Stored
  <2> HIDE DEF of
  <2>3. IsFiniteSet(of(r)) /\ Cardinality(of(r)) \in Nat
    BY <2>2, Finite
  <2>4. Cardinality(of(r)) + 0 < CountMod
    BY <1>3, <1>5, <2>2 DEF NoCountWraps
  <2> DEFINE n == Cardinality(of(r))
  <2>5. n \in Nat /\ n < CountMod
    BY <2>3, <2>4
  <2> HIDE DEF n
  <2>6. n \in 0..(CountMod - 1) /\ n % CountMod = n
    BY <1>3, <2>5
  <2> QED BY <2>2, <2>3, <2>6 DEF n
<1> DEFINE served == {rs[i].rp : i \in {j \in Slots : rs[j] # Absent}}
<1>7. served = {cs[i].rp : i \in {j \in Slots : cs[j] # Absent}}
  BY <1>2 DEF LegacyStore
<1>8. ASSUME NEW i \in Slots, rs[i] # Absent
      PROVE  rs[i].rp \in RP /\ rs[i].count = Cardinality(of(rs[i].rp)) /\ rs[i].count # 0
  <2>1. rs[i] \in RpRecord /\ rs[i].rp \in RP
    BY <1>2, <1>8 DEF RpRecord
  <2>2. rs[i] = [rp     |-> rs[i].rp,
                 count  |-> Cardinality(of(rs[i].rp)) % CountMod,
                 secure |-> FALSE]
    BY <1>2, <1>8 DEF LegacyStore
  <2>3. rs[i].count = Cardinality(of(rs[i].rp)) % CountMod
    BY <2>2
  <2>4. PICK j \in Slots : cs[j] # Absent /\ cs[j].rp = rs[i].rp
    <3>1. rs[i].rp \in served
      BY <1>8
    <3> QED BY <1>7, <3>1
  <2>5. of(rs[i].rp) # {}
    BY <2>4
  <2> HIDE DEF of
  <2>6. Cardinality(of(rs[i].rp)) # 0
    BY <1>6, <2>1, <2>5, FS_EmptySet
  <2> QED BY <1>6, <2>1, <2>3, <2>6
<1>9. ASSUME NEW r \in RP PROVE Count(w, r) = Cardinality(OfRp(w, r))
  <2>1. CASE RpRecords(w, r) # {}
    <3> DEFINE i == Min(RpRecords(w, r))
    <3>1. RpRecords(w, r) \in SUBSET Slots
      BY DEF RpRecords
    <3>2. i \in RpRecords(w, r)
      BY <2>1, <3>1, LowestSlot
    <3>3. Count(w, r) = w[RpFile(i)].count
      BY <2>1 DEF Count
    <3> HIDE DEF i, of
    <3>4. i \in Slots /\ w[RpFile(i)] = rs[i] /\ rs[i] # Absent /\ rs[i].rp = r
      BY <1>2, <3>2 DEF RpRecords
    <3> QED BY <1>6, <1>8, <3>3, <3>4
  <2>2. CASE RpRecords(w, r) = {}
    <3>1. ASSUME NEW j \in Slots, cs[j] # Absent, cs[j].rp = r PROVE FALSE
      <4>1. PICK i \in Slots : rs[i] # Absent /\ rs[i].rp = cs[j].rp
        <5>1. cs[j].rp \in served
          BY <1>7, <3>1
        <5> QED BY <5>1
      <4> QED BY <1>2, <2>2, <3>1, <4>1 DEF RpRecords
    <3>2. of(r) = {}
      BY <3>1
    <3> HIDE DEF of
    <3> QED BY <1>6, <2>2, <3>2, FS_EmptySet DEF Count
  <2> QED BY <2>1, <2>2
<1>10. \A r \in RP : FollowsBy(w, r, 0, 0) /\ FollowsBy(w, r, 0, 1)
  <2> TAKE r \in RP
  <2> DEFINE n == Cardinality(OfRp(w, r))
  <2>1. n \in Nat /\ Count(w, r) = n
    BY <1>9, Finite
  <2> HIDE DEF n
  <2>2. 0 \in (0 - 0)..0 /\ 0 \in (0 - 1)..1 /\ Count(w, r) = n + 0 + 0
    BY <2>1
  <2> QED BY <2>2 DEF FollowsBy, n
<1>11. NoZero(disk)
  <2>1. \A i \in Slots : Copies(disk, RpFile(i)) = {rs[i]}
    BY <1>2, <1>4, Names
  <2> QED BY <1>8, <2>1 DEF NoZero
<1>12. Drifts(disk, 0 + 1)
  <2> DEFINE ms == [i \in 0..0 |-> w]
  <2>1. IsHistory(disk, Contents, ms)
    BY <1>1, SettledHistory
  <2>2. \A i \in 0..0 : ms[i] = w
    OBVIOUS
  <2> HIDE DEF ms
  <2> QED BY <1>3, <1>10, <2>1, <2>2 DEF Drifts
<1> QED BY <1>3, <1>5, <1>10, <1>11, <1>12 DEF CountInv, Counted, Due

LEMMA NextCounted ==
    ASSUME InOrder, StoreInv, CountInv, NoCountWraps, [StoreNext]_storeVars PROVE CountInv'
<1>1. CASE \E r \in RP, u \in User, x \in Info : StoreNew(r, u, x) \/ StoreAgain(r, u, x)
  BY <1>1, StoreNewCounted, StoreAgainCounted
<1>2. CASE WriteManifest \/ WriteMarker \/ FinishStore \/ FinishInPlace \/ FinishDelete
  BY <1>2, WriteManifestCounted, WriteMarkerCounted, FinishStoreCounted, FinishInPlaceCounted,
     FinishDeleteCounted
<1>3. CASE \E i \in Slots : \/ DeleteSingleFile(i) \/ DeleteContainer(i)
                            \/ \E x \in Info : UpdateUser(i, x)
  BY <1>3, DeleteSingleFileCounted, DeleteContainerCounted, UpdateUserCounted
<1>4. CASE CommitTimeout \/ Drain \/ PowerCycle
  BY <1>4, CommitTimeoutCounted, DrainKeepsCounts, PowerCycleCounted
<1>5. CASE UNCHANGED storeVars
  BY <1>5 DEF storeVars, CountInv, ram
<1> QED BY <1>1, <1>2, <1>3, <1>4, <1>5 DEF StoreNext, StoreCommand

\* The count of a relying party is the number of its credentials, and out by
\* one at most for each command that failed or was cut off, as long as no
\* count reaches the end of its byte (credential_store, deleteCredential).
THEOREM CountsFollowHolds == InOrder /\ StoreSpec /\ []NoCountWraps => []CountsFollow
<1> SUFFICES ASSUME InOrder PROVE StoreSpec /\ []NoCountWraps => []CountsFollow
  OBVIOUS
<1>1. ASSUME StoreInv, CountInv PROVE CountsFollow
  <2> SUFFICES ASSUME op = Idle, NEW r \in RP
               PROVE  \E d \in (0 - mishaps)..mishaps :
                         Count(ram, r) = (Cardinality(OfRp(ram, r)) + d) % CountMod
    BY DEF CountsFollow
  <2> DEFINE m == Count(ram, r)
             n == Cardinality(OfRp(ram, r))
  <2>1. FollowsBy(ram, r, 0, mishaps)
    BY <1>1, NothingDue
  <2>2. PICK x \in (0 - mishaps)..mishaps : m = n + 0 + x
    BY <2>1 DEF FollowsBy
  <2>3. n \in Nat /\ m \in 0..(CountMod - 1) /\ CountMod \in Nat \ {0, 1}
    BY <1>1, Finite, Counting, CountIs, StoreAssumption
  <2> HIDE DEF m, n
  <2>4. m % CountMod = m /\ n + x = m
    BY <2>2, <2>3
  <2> QED BY <2>4 DEF m, n
<1>2. StoreInit /\ NoCountWraps => CountInv
  BY InitCounted
<1>3. StoreInv /\ CountInv /\ NoCountWraps /\ [StoreNext]_storeVars => CountInv'
  BY NextCounted
<1> QED BY <1>1, <1>2, <1>3, StoreInvariant, PTL DEF StoreSpec

\* There are not enough slots for a count to get there when their number and
\* that of the mishaps are below CountMod.
THEOREM FewSlotsNoWrap == MaxSlots + MaxMishaps < CountMod => (StoreSpec => []NoCountWraps)
<1> SUFFICES ASSUME MaxSlots + MaxMishaps < CountMod PROVE StoreSpec => []NoCountWraps
  OBVIOUS
<1>1. ASSUME StoreInv PROVE NoCountWraps
  <2> SUFFICES ASSUME NEW r \in RP PROVE Cardinality(OfRp(ram, r)) + mishaps < CountMod
    BY DEF NoCountWraps
  <2>1. 0 \in Int /\ MaxSlots - 1 \in Int /\ MaxSlots \in Nat \ {0} /\ MaxMishaps \in Nat
        /\ CountMod \in Nat
    BY StoreAssumption
  <2>2. IsFiniteSet(Slots) /\ Cardinality(Slots) = MaxSlots
    BY <2>1, FS_Interval DEF Slots
  <2>3. Cardinality(OfRp(ram, r)) <= MaxSlots
    BY <2>2, Finite, FS_Subset
  <2>4. mishaps \in 0..MaxMishaps
    BY <1>1 DEF StoreInv, StoreTypeOK
  <2>5. Cardinality(OfRp(ram, r)) \in Nat
    BY Finite
  <2> QED BY <1>1, <2>1, <2>3, <2>4, <2>5
<1> QED BY <1>1, StoreInvariant, PTL

-----------------------------------------------------------------------------
(***************************************************************************)
(* The enumerations of authenticatorCredentialManagement give everything   *)
(* once and leave nothing out, for any number of slots, users and relying  *)
(* parties, whatever other commands come between two calls, and writes of  *)
(* different files landing in any order.                                   *)
(*                                                                         *)
(* What was given is, as long as nothing changes, the first so many of     *)
(* what is listed: that is the invariant of each enumeration.  That every  *)
(* relying party with credentials is listed needs a second one, about the  *)
(* counts of a device on which no command has failed: they are exact, and  *)
(* a record is there as long as a credential is, even if the count of one  *)
(* with a credential in every slot reads 0.                                *)
(***************************************************************************)

\* The slots of S up to i, and the first n slots of S.
UpTo(S, i) == {j \in S : j <= i}
First(S, n) == {i \in S : Cardinality(UpTo(S, i)) <= n}

\* The relying parties of the records in the slots I.
Named(v, I) == {v[RpFile(i)].rp : i \in I}

RpsInv ==
    rpsFresh => /\ rp_counter \in Nat \ {0}
                /\ rp_total = Cardinality(Listed(ram))
                /\ rpsGiven = Named(ram, First(Listed(ram), rp_counter - 1))
                /\ IsFiniteSet(rpsGiven) /\ Cardinality(rpsGiven) = rp_counter - 1

CredsInv ==
    credsFresh => /\ cred_counter \in Nat \ {0} /\ credsBegun \in RP
                  /\ cred_total = Cardinality(OfRp(ram, credsBegun))
                  /\ credsGiven = First(OfRp(ram, credsBegun), cred_counter - 1)
                  /\ IsFiniteSet(credsGiven) /\ Cardinality(credsGiven) = cred_counter - 1
                  /\ cred_counter <= cred_total => rpIdHashx = credsBegun

-----------------------------------------------------------------------------
(* The first slots of a set, as the loops over the files count them.       *)

LEMMA SlotSets ==
    \A S \in SUBSET Slots : \A i :
       /\ IsFiniteSet(S) /\ Cardinality(S) \in Nat /\ S \subseteq Nat
       /\ UpTo(S, i) \in SUBSET Slots
       /\ IsFiniteSet(UpTo(S, i)) /\ Cardinality(UpTo(S, i)) \in Nat
       /\ Cardinality(UpTo(S, i)) <= Cardinality(S)
<1> TAKE S \in SUBSET Slots
<1> TAKE i
<1>1. 0 \in Int /\ MaxSlots - 1 \in Int
  BY StoreAssumption
<1>2. IsFiniteSet(Slots) /\ S \subseteq Nat
  BY <1>1, FS_Interval DEF Slots
<1>3. IsFiniteSet(S)
  BY <1>2, FS_Subset
<1>4. UpTo(S, i) \in SUBSET S
  BY DEF UpTo
<1>5. IsFiniteSet(UpTo(S, i)) /\ Cardinality(UpTo(S, i)) <= Cardinality(S)
  BY <1>3, <1>4, FS_Subset
<1> QED BY <1>2, <1>3, <1>4, <1>5, FS_CardinalityType

LEMMA Ranks ==
    ASSUME NEW S \in SUBSET Slots, NEW i \in S, NEW j \in S, i < j
    PROVE  Cardinality(UpTo(S, i)) < Cardinality(UpTo(S, j))
<1>1. /\ IsFiniteSet(UpTo(S, i)) /\ IsFiniteSet(UpTo(S, j)) /\ S \subseteq Nat
      /\ Cardinality(UpTo(S, i)) \in Nat /\ Cardinality(UpTo(S, j)) \in Nat
  BY SlotSets
<1>2. UpTo(S, i) \cup {j} \in SUBSET UpTo(S, j) /\ j \notin UpTo(S, i)
  <2>1. \A k \in S : k \in Nat
    BY <1>1
  <2> QED BY <2>1 DEF UpTo
<1>3. Cardinality(UpTo(S, i) \cup {j}) = Cardinality(UpTo(S, i)) + 1
  BY <1>1, <1>2, FS_AddElement
<1>4. Cardinality(UpTo(S, i) \cup {j}) <= Cardinality(UpTo(S, j))
  BY <1>1, <1>2, FS_Subset
<1> QED BY <1>1, <1>3, <1>4

\* There is an n-th slot, and the loop stops there.
LEMMA NthIsThere ==
    ASSUME NEW S \in SUBSET Slots, NEW n \in 1..Cardinality(S)
    PROVE  Nth(S, n) \in S /\ Cardinality(UpTo(S, Nth(S, n))) = n
<1> DEFINE rank(i) == Cardinality(UpTo(S, i))
           T == {i \in Slots : rank(i) >= n}
<1>0. (\A k \in S : k \in Nat /\ k < MaxSlots) /\ MaxSlots \in Nat \ {0}
  <2>1. S \subseteq Slots
    OBVIOUS
  <2> QED BY <2>1, StoreAssumption DEF Slots
<1>1. /\ S \subseteq Nat /\ Cardinality(S) \in Nat /\ n \in Nat \ {0}
      /\ \A i : rank(i) \in Nat /\ IsFiniteSet(UpTo(S, i))
      /\ MaxSlots \in Nat \ {0}
  BY SlotSets, StoreAssumption
<1>2. MaxSlots - 1 \in T
  <2>1. UpTo(S, MaxSlots - 1) = S /\ MaxSlots - 1 \in Slots
    <3>1. (\A k \in S : k <= MaxSlots - 1) /\ MaxSlots - 1 \in 0..(MaxSlots - 1)
      BY <1>0
    <3> QED BY <3>1 DEF UpTo, Slots
  <2> QED BY <1>1, <2>1
<1>3. PICK m \in T : \A k \in T : m <= k
  <2>1. T \in SUBSET Nat /\ T # {}
    BY <1>2 DEF Slots
  <2> QED BY <2>1, HasLowest
<1>4. m \in Nat /\ m \in Slots /\ rank(m) >= n
  BY <1>3 DEF Slots
<1>5. rank(m - 1) < n
  <2>1. CASE m = 0
    <3>1. UpTo(S, m - 1) = {}
      <4>1. \A k \in S : ~(k <= m - 1)
        BY <1>0, <2>1
      <4> QED BY <4>1 DEF UpTo
    <3> QED BY <1>1, <3>1, FS_EmptySet
  <2>2. CASE m # 0
    <3>1. m - 1 \in Slots /\ ~(m <= m - 1)
      <4>1. m \in Nat /\ m \in 0..(MaxSlots - 1)
        BY <1>4 DEF Slots
      <4>2. m - 1 \in 0..(MaxSlots - 1) /\ ~(m <= m - 1)
        BY <4>1, <2>2, <1>0
      <4> QED BY <4>2 DEF Slots
    <3>2. ~(rank(m - 1) >= n)
      BY <1>3, <3>1
    <3> HIDE DEF rank
    <3> QED BY <1>1, <3>2
  <2> QED BY <2>1, <2>2
<1>6. m \in S
  <2> SUFFICES ASSUME m \notin S PROVE FALSE
    OBVIOUS
  <2>1. UpTo(S, m) = UpTo(S, m - 1)
    <3>1. m \in Nat
      BY <1>4
    <3>2. \A k \in S : k <= m <=> k <= m - 1
      BY <1>0, <3>1
    <3> QED BY <3>2 DEF UpTo
  <2>2. rank(m) = rank(m - 1)
    BY <2>1
  <2> HIDE DEF rank
  <2> QED BY <1>1, <1>4, <1>5, <2>2
<1>7. rank(m) = n
  <2>1. UpTo(S, m) = UpTo(S, m - 1) \cup {m} /\ m \notin UpTo(S, m - 1)
    <3>1. m \in Nat
      BY <1>4
    <3>2. /\ \A k \in S : k <= m <=> k <= m - 1 \/ k = m
          /\ m <= m /\ ~(m <= m - 1)
      BY <1>0, <3>1
    <3> QED BY <1>6, <3>2 DEF UpTo
  <2>2. rank(m) = rank(m - 1) + 1
    BY <1>1, <2>1, FS_AddElement
  <2> HIDE DEF rank
  <2> QED BY <1>1, <1>4, <1>5, <2>2
<1>8. \E i \in S : Cardinality({j \in S : j <= i}) = n
  BY <1>6, <1>7 DEF UpTo
<1> QED BY <1>8 DEF Nth, UpTo

LEMMA OneMore ==
    ASSUME NEW S \in SUBSET Slots, NEW n \in 1..Cardinality(S)
    PROVE  /\ First(S, n) = First(S, n - 1) \cup {Nth(S, n)}
           /\ Nth(S, n) \in S \ First(S, n - 1)
<1> DEFINE m == Nth(S, n)
           rank(i) == Cardinality(UpTo(S, i))
<1>1. /\ S \subseteq Nat /\ n \in Nat \ {0}
      /\ \A i : rank(i) \in Nat
  BY SlotSets
<1>2. m \in S /\ rank(m) = n
  BY NthIsThere
<1> HIDE DEF m
<1>3. \A i \in S : rank(i) = n => i = m
  <2> TAKE i \in S
  <2>1. CASE i < m
    <3>1. rank(i) < rank(m)
      BY <1>2, <2>1, Ranks
    <3> HIDE DEF rank
    <3> QED BY <1>1, <1>2, <3>1
  <2>2. CASE m < i
    <3>1. rank(m) < rank(i)
      BY <1>2, <2>2, Ranks
    <3> HIDE DEF rank
    <3> QED BY <1>1, <1>2, <3>1
  <2>3. i \in Nat /\ m \in Nat
    BY <1>1, <1>2
  <2> QED BY <2>1, <2>2, <2>3
<1>4. \A k : First(S, k) = {i \in S : rank(i) <= k}
  BY DEF First
<1> HIDE DEF rank
<1>5. \A i \in S : rank(i) <= n <=> rank(i) <= n - 1 \/ i = m
  BY <1>1, <1>2, <1>3
<1>6. ~(rank(m) <= n - 1)
  BY <1>1, <1>2
<1> QED BY <1>2, <1>4, <1>5, <1>6 DEF m

LEMMA FirstNone == ASSUME NEW S \in SUBSET Slots PROVE First(S, 0) = {}
<1> SUFFICES ASSUME NEW i \in S, Cardinality(UpTo(S, i)) <= 0 PROVE FALSE
  BY DEF First
<1>1. IsFiniteSet(UpTo(S, i)) /\ Cardinality(UpTo(S, i)) \in Nat /\ S \subseteq Nat
  BY SlotSets
<1>2. i \in UpTo(S, i)
  BY <1>1 DEF UpTo
<1>3. Cardinality(UpTo(S, i)) # 0
  BY <1>1, <1>2, FS_EmptySet
<1> QED BY <1>1, <1>3

LEMMA FirstOne == ASSUME NEW S \in SUBSET Slots, S # {} PROVE First(S, 1) = {Min(S)}
<1>1. S \subseteq Nat /\ IsFiniteSet(S) /\ Cardinality(S) \in Nat /\ Cardinality(S) # 0
  BY SlotSets, FS_EmptySet
<1>2. 1 \in 1..Cardinality(S) /\ 1 - 1 = 0
  BY <1>1
<1>3. First(S, 1) = {Nth(S, 1)} /\ Nth(S, 1) \in S
  BY <1>2, OneMore, FirstNone
<1>4. \E l \in S : \A k \in S : l <= k
  <2>1. S \in SUBSET Nat
    BY <1>1
  <2> QED BY <2>1, HasLowest
<1>5. Min(S) \in S /\ \A k \in S : Min(S) <= k
  BY <1>4 DEF Min
<1>6. UpTo(S, Min(S)) = {Min(S)}
  <2>1. \A k \in S : k \in Nat
    BY <1>1
  <2>2. \A k \in S : k <= Min(S) <=> k = Min(S)
    BY <1>5, <2>1
  <2> QED BY <1>5, <2>2 DEF UpTo
<1>7. Cardinality(UpTo(S, Min(S))) = 1
  BY <1>6, FS_Singleton
<1>8. Min(S) \in First(S, 1)
  BY <1>5, <1>7 DEF First
<1> QED BY <1>3, <1>8

LEMMA FirstAll ==
    ASSUME NEW S \in SUBSET Slots, NEW n \in Nat, Cardinality(S) <= n PROVE First(S, n) = S
<1>1. /\ Cardinality(S) \in Nat
      /\ \A i : Cardinality(UpTo(S, i)) \in Nat /\ Cardinality(UpTo(S, i)) <= Cardinality(S)
  BY SlotSets
<1>2. \A i : Cardinality(UpTo(S, i)) <= n
  BY <1>1
<1> QED BY <1>2 DEF First

-----------------------------------------------------------------------------
(* The enumeration of the relying parties.                                 *)

LEMMA ListedSlots == \A v : Listed(v) \in SUBSET Slots
  BY DEF Listed

LEMMA SameListed ==
    ASSUME NEW v, NEW w, \A i \in Slots : v[RpFile(i)] = w[RpFile(i)]
    PROVE  /\ Listed(v) = Listed(w)
           /\ \A I \in SUBSET Slots : Named(v, I) = Named(w, I)
  BY DEF Listed, Named

\* Another record names another relying party.
LEMMA NamedMore ==
    ASSUME StoreInv, NEW I \in SUBSET Listed(ram), NEW i \in Listed(ram) \ I
    PROVE  /\ Named(ram, I \cup {i}) = Named(ram, I) \cup {ram[RpFile(i)].rp}
           /\ ram[RpFile(i)].rp \notin Named(ram, I)
<1>1. \A j \in Listed(ram) : j \in RpRecords(ram, ram[RpFile(j)].rp)
  BY DEF Listed, RpRecords
<1>2. Sound(disk, asked, unsure) /\ ram = Now(disk)
  BY Counting DEF StoreInv
<1>3. \A r : \A j, k \in RpRecords(ram, r) : j = k
  BY <1>2, CountIs
<1>4. \A j \in I : ram[RpFile(j)].rp # ram[RpFile(i)].rp
  BY <1>1, <1>3
<1> QED BY <1>4 DEF Named

LEMMA BeginRps == ASSUME enumerateRPsBegin PROVE RpsInv'
<1> DEFINE L == Listed(ram)
<1>1. ram' = ram
  BY DEF enumerateRPsBegin, storeVars, ram
<1>2. L \in SUBSET Slots
  BY ListedSlots
<1>3. CASE L = {}
  <2>1. /\ rp_counter' = 1 /\ rp_total' = Cardinality(L) /\ rpsGiven' = {}
    BY <1>3 DEF enumerateRPsBegin
  <2>2. First(L, 1 - 1) = {} /\ Named(ram, {}) = {}
    BY <1>2, FirstNone DEF Named
  <2>3. IsFiniteSet({}) /\ Cardinality({}) = 1 - 1
    BY FS_EmptySet
  <2> QED BY <1>1, <2>1, <2>2, <2>3 DEF RpsInv
<1>4. CASE L # {}
  <2>1. /\ rp_counter' = 2 /\ rp_total' = Cardinality(L)
        /\ rpsGiven' = {ram[RpFile(Min(L))].rp}
    BY <1>4 DEF enumerateRPsBegin
  <2>2. First(L, 2 - 1) = {Min(L)}
    BY <1>2, <1>4, FirstOne
  <2>3. Named(ram, {Min(L)}) = {ram[RpFile(Min(L))].rp}
    BY DEF Named
  <2>4. 2 - 1 = 1 /\ 2 \in Nat \ {0}
    OBVIOUS
  <2>5. IsFiniteSet(rpsGiven') /\ Cardinality(rpsGiven') = rp_counter' - 1
    BY <2>1, <2>4, FS_Singleton
  <2>6. rpsGiven' = Named(ram, First(L, rp_counter' - 1))
    BY <2>1, <2>2, <2>3
  <2> QED BY <1>1, <2>1, <2>4, <2>5, <2>6 DEF RpsInv
<1> QED BY <1>3, <1>4

LEMMA NextRp == ASSUME StoreInv, RpsInv, enumerateRPsGetNextRP PROVE RpsInv'
<1> SUFFICES ASSUME rpsFresh PROVE RpsInv'
  BY DEF enumerateRPsGetNextRP, RpsInv
<1> DEFINE L == Listed(ram)
           n == rp_counter
           I == First(L, n - 1)
           i == Nth(L, n)
<1>1. ram' = ram
  BY DEF enumerateRPsGetNextRP, storeVars, ram
<1>2. /\ n \in Nat \ {0} /\ rp_total = Cardinality(L) /\ n <= Cardinality(L)
      /\ rpsGiven = Named(ram, I) /\ IsFiniteSet(rpsGiven) /\ Cardinality(rpsGiven) = n - 1
      /\ rp_counter' = n + 1 /\ rp_total' = rp_total
      /\ rpsGiven' = rpsGiven \cup {ram[RpFile(i)].rp}
  BY DEF RpsInv, enumerateRPsGetNextRP
<1>3. L \in SUBSET Slots /\ Cardinality(L) \in Nat
  BY ListedSlots, SlotSets
<1> HIDE DEF L, n
<1>4. n \in 1..Cardinality(L) /\ (n + 1) - 1 = n /\ n + 1 \in Nat \ {0} /\ (n - 1) + 1 = n
  BY <1>2, <1>3
<1>5. First(L, n) = I \cup {i} /\ i \in L \ I /\ I \in SUBSET L
  <2>1. First(L, n) = First(L, n - 1) \cup {Nth(L, n)} /\ Nth(L, n) \in L \ First(L, n - 1)
    BY <1>3, <1>4, OneMore
  <2> QED BY <2>1 DEF First
<1> HIDE DEF I, i
<1>6. /\ Named(ram, I \cup {i}) = Named(ram, I) \cup {ram[RpFile(i)].rp}
      /\ ram[RpFile(i)].rp \notin Named(ram, I)
  BY <1>5, NamedMore DEF L
<1>7. IsFiniteSet(rpsGiven') /\ Cardinality(rpsGiven') = n
  BY <1>2, <1>4, <1>6, FS_AddElement
<1>8. rpsGiven' = Named(ram, First(L, n))
  BY <1>2, <1>5, <1>6
<1> QED BY <1>1, <1>2, <1>4, <1>7, <1>8 DEF RpsInv, L

LEMMA StoreStepRps == ASSUME RpsInv, StoreStep PROVE RpsInv'
<1> SUFFICES ASSUME rpsFresh' PROVE RpsInv'
  BY DEF RpsInv
<1>1. /\ rpsFresh /\ UNCHANGED <<rp_counter, rp_total, rpsGiven>>
      /\ \A i \in Slots : ram'[RpFile(i)] = ram[RpFile(i)]
  BY DEF StoreStep
<1> DEFINE w == ram'
<1>2. \A i \in Slots : w[RpFile(i)] = ram[RpFile(i)]
  BY <1>1
<1> HIDE DEF w
<1>3. Listed(w) = Listed(ram) /\ \A I \in SUBSET Slots : Named(w, I) = Named(ram, I)
  BY <1>2, SameListed
<1>4. \A n : First(Listed(ram), n) \in SUBSET Slots
  BY ListedSlots DEF First
<1> QED BY <1>1, <1>3, <1>4 DEF RpsInv, w

-----------------------------------------------------------------------------
(* The enumeration of the credentials of a relying party.                  *)

LEMMA BeginCreds ==
    ASSUME NEW r \in RP, enumerateCredentialsBegin(r) PROVE CredsInv'
<1> DEFINE S == OfRp(ram, r)
<1>1. ram' = ram
  BY DEF enumerateCredentialsBegin, storeVars, ram
<1>2. /\ S \in SUBSET Slots /\ Cardinality(S) \in Nat /\ credsBegun' = r
      /\ cred_total' = Cardinality(S)
      /\ cred_counter' = IF S = {} THEN 1 ELSE 2
      /\ rpIdHashx' = IF Cardinality(S) >= 2 THEN r ELSE rpIdHashx
      /\ credsGiven' = IF S = {} THEN {} ELSE {Min(S)}
  BY Finite DEF enumerateCredentialsBegin, HashKept
<1> HIDE DEF S
<1>3. CASE S = {}
  <2>1. First(S, 1 - 1) = {}
    BY <1>2, FirstNone
  <2>2. IsFiniteSet({}) /\ Cardinality({}) = 1 - 1 /\ ~(1 <= Cardinality(S))
    BY <1>3, FS_EmptySet
  <2> QED BY <1>1, <1>2, <1>3, <2>1, <2>2 DEF CredsInv, S
<1>4. CASE S # {}
  <2>1. First(S, 2 - 1) = {Min(S)}
    BY <1>2, <1>4, FirstOne
  <2>2. IsFiniteSet({Min(S)}) /\ Cardinality({Min(S)}) = 2 - 1
    <3>1. 2 - 1 = 1
      OBVIOUS
    <3> QED BY <3>1, FS_Singleton
  <2>3. 2 <= Cardinality(S) => rpIdHashx' = r
    BY <1>2
  <2> QED BY <1>1, <1>2, <1>4, <2>1, <2>2, <2>3 DEF CredsInv, S
<1> QED BY <1>3, <1>4

\* With nothing changed the hash is the one the enumeration was begun for.
LEMMA NextCred ==
    ASSUME CredsInv, enumerateCredentialsGetNextCredential PROVE CredsInv'
<1> SUFFICES ASSUME credsFresh PROVE CredsInv'
  BY DEF enumerateCredentialsGetNextCredential, CredsInv
<1> DEFINE r == credsBegun
           S == OfRp(ram, r)
           n == cred_counter
<1>1. ram' = ram
  BY DEF enumerateCredentialsGetNextCredential, storeVars, ram
<1>2. /\ n \in Nat \ {0} /\ r \in RP /\ n <= cred_total /\ cred_total = Cardinality(S)
      /\ credsGiven = First(S, n - 1)
      /\ IsFiniteSet(credsGiven) /\ Cardinality(credsGiven) = n - 1
      /\ rpIdHashx = r
      /\ UNCHANGED <<cred_total, credsBegun, credsFresh>>
  BY DEF CredsInv, enumerateCredentialsGetNextCredential
<1>3. S \in SUBSET Slots /\ Cardinality(S) \in Nat
  BY Finite
<1>4. rpIdHashx # Dangling
  BY <1>2, MgmtAssumption
<1>5. /\ cred_counter' = n + 1
      /\ credsGiven' = credsGiven \cup {Nth(S, n)}
      /\ rpIdHashx' = IF n + 1 <= cred_total THEN rpIdHashx ELSE Dangling
  BY <1>2, <1>4 DEF enumerateCredentialsGetNextCredential
<1> HIDE DEF S, n
<1>6. n \in 1..Cardinality(S) /\ (n + 1) - 1 = n /\ n + 1 \in Nat \ {0} /\ (n - 1) + 1 = n
  BY <1>2, <1>3
<1>7. First(S, n) = First(S, n - 1) \cup {Nth(S, n)} /\ Nth(S, n) \in S \ First(S, n - 1)
  BY <1>3, <1>6, OneMore
<1>8. credsGiven' = First(S, n) /\ IsFiniteSet(credsGiven') /\ Cardinality(credsGiven') = n
  BY <1>2, <1>5, <1>6, <1>7, FS_AddElement
<1> QED BY <1>1, <1>2, <1>5, <1>6, <1>8 DEF CredsInv, S

LEMMA StoreStepCreds == ASSUME CredsInv, StoreStep PROVE CredsInv'
<1> SUFFICES ASSUME credsFresh' PROVE CredsInv'
  BY DEF CredsInv
<1>1. /\ credsFresh /\ UNCHANGED <<cred_counter, cred_total, rpIdHashx, credsGiven, credsBegun>>
      /\ \A i \in Slots : ram'[CredFile(i)] = ram[CredFile(i)]
  BY DEF StoreStep
<1> DEFINE w == ram'
<1>2. \A i \in Slots : w[CredFile(i)] = ram[CredFile(i)]
  BY <1>1
<1> HIDE DEF w
<1>3. OfRp(w, credsBegun) = OfRp(ram, credsBegun)
  BY <1>2, SameCreds
<1> QED BY <1>1, <1>3 DEF CredsInv, w

-----------------------------------------------------------------------------
\* Commands of credential management are steps of the store.
LEMMA StepOfStore == ASSUME [MgmtNext]_mgmtVars PROVE [StoreNext]_storeVars
<1>1. CASE StoreStep
  BY <1>1 DEF StoreStep, StoreNext
<1>2. CASE Restart
  BY <1>2 DEF Restart, StoreNext
<1>3. CASE UNCHANGED storeVars
  BY <1>3
<1> QED BY <1>1, <1>2, <1>3 DEF MgmtNext, mgmtVars, enumerateRPsBegin, enumerateRPsGetNextRP,
       enumerateCredentialsBegin, enumerateCredentialsGetNextCredential

LEMMA StoreOfMgmt == MgmtSpec => StoreSpec
<1>1. MgmtInit => StoreInit
  BY DEF MgmtInit
<1> QED BY <1>1, StepOfStore, PTL DEF MgmtSpec, StoreSpec

LEMMA Enumerating == MgmtSpec => [](StoreInv /\ RpsInv /\ CredsInv)
<1>1. MgmtInit => RpsInv /\ CredsInv
  BY DEF MgmtInit, RpsInv, CredsInv
<1>2. ASSUME StoreInv, RpsInv, CredsInv, [MgmtNext]_mgmtVars PROVE RpsInv'
  <2>1. CASE StoreStep
    BY <1>2, <2>1, StoreStepRps
  <2>2. CASE Restart
    BY <2>2 DEF Restart, RpsInv
  <2>3. CASE enumerateRPsBegin
    BY <2>3, BeginRps
  <2>4. CASE enumerateRPsGetNextRP
    BY <1>2, <2>4, NextRp
  <2>5. CASE UNCHANGED <<storeVars, rpVars>>
    BY <1>2, <2>5 DEF RpsInv, storeVars, rpVars, ram
  <2> QED BY <1>2, <2>1, <2>2, <2>3, <2>4, <2>5 DEF MgmtNext, mgmtVars,
         enumerateCredentialsBegin, enumerateCredentialsGetNextCredential
<1>3. ASSUME StoreInv, RpsInv, CredsInv, [MgmtNext]_mgmtVars PROVE CredsInv'
  <2>1. CASE StoreStep
    BY <1>3, <2>1, StoreStepCreds
  <2>2. CASE Restart
    BY <2>2 DEF Restart, CredsInv
  <2>3. CASE \E r \in RP : enumerateCredentialsBegin(r)
    BY <2>3, BeginCreds
  <2>4. CASE enumerateCredentialsGetNextCredential
    BY <1>3, <2>4, NextCred
  <2>5. CASE UNCHANGED <<storeVars, credVars>>
    BY <1>3, <2>5 DEF CredsInv, storeVars, credVars, ram
  <2> QED BY <1>3, <2>1, <2>2, <2>3, <2>4, <2>5 DEF MgmtNext, mgmtVars,
         enumerateRPsBegin, enumerateRPsGetNextRP
<1> QED BY <1>1, <1>2, <1>3, StoreOfMgmt, StoreInvariant, PTL DEF MgmtSpec

\* As long as no record changes, enumerateRPsBegin and GetNextRP give every
\* relying party once and then end, whatever other commands come in between.
THEOREM RpsGivenOnceHolds == MgmtSpec => []RpsGivenOnce
<1>1. ASSUME RpsInv PROVE RpsGivenOnce
  <2>1. \A n : First(Listed(ram), n) \subseteq Listed(ram)
    BY DEF First
  <2> QED BY <1>1, <2>1 DEF RpsInv, RpsGivenOnce, Named
<1> QED BY <1>1, Enumerating, PTL

\* As long as no credential changes, enumerateCredentialsBegin and
\* GetNextCredential give every credential of the relying party once, and
\* never compare with another hash or with freed bytes.
THEOREM CredentialsGivenOnceHolds == MgmtSpec => []CredentialsGivenOnce
<1>1. ASSUME CredsInv PROVE CredentialsGivenOnce
  <2>1. \A n : First(OfRp(ram, credsBegun), n) \subseteq OfRp(ram, credsBegun)
    BY DEF First
  <2> QED BY <1>1, <2>1 DEF CredsInv, CredentialsGivenOnce
<1> QED BY <1>1, Enumerating, PTL

-----------------------------------------------------------------------------
(* The counts of a device on which no command has failed.                  *)

\* The count of r stands for n credentials.  There is a record unless n is 0,
\* even if the byte reads 0 because every slot is r's.
Exact(v, r, n) == /\ n \in 0..MaxSlots
                  /\ RpRecords(v, r) = {} <=> n = 0
                  /\ Count(v, r) = IF n = CountMod THEN 0 ELSE n

Owes(d, r, x) == Exact(Now(d), r, Cardinality(OfRp(Now(d), r)) + x)

AllOwed == \A q \in RP : Owes(disk, q, Due(ram, op, q))

ExactInv == mishaps = 0 => AllOwed

LEMMA SlotCount == \A v, r : Cardinality(OfRp(v, r)) \in 0..MaxSlots
<1> TAKE v, r
<1>1. 0 \in Int /\ MaxSlots - 1 \in Int /\ MaxSlots \in Nat \ {0}
  BY StoreAssumption
<1>2. IsFiniteSet(Slots) /\ Cardinality(Slots) = MaxSlots
  BY <1>1, FS_Interval DEF Slots
<1>3. Cardinality(OfRp(v, r)) <= MaxSlots /\ Cardinality(OfRp(v, r)) \in Nat
  BY <1>2, Finite, FS_Subset
<1> QED BY <1>1, <1>3

LEMMA SameExact ==
    ASSUME NEW v, NEW w, NEW r, NEW n, SameRecords(v, w), Exact(v, r, n) PROVE Exact(w, r, n)
<1>1. RpRecords(v, r) = RpRecords(w, r)
  BY DEF RpRecords, SameRecords
<1>2. Count(v, r) = Count(w, r)
  BY SameCount
<1> QED BY <1>1, <1>2 DEF Exact

\* A credential that is written is owed to its count.
LEMMA CredOwes ==
    ASSUME NEW d, NEW who, NEW out, Sound(d, who, out), NEW i \in Slots,
           NEW c \in {Absent, Broken} \cup Credential,
           NEW q, NEW x \in {0 - 1, 0, 1}, Owes(d, q, x)
    PROVE  Owes(Put(d, CredFile(i), c), q, x + Gain(Read(d, CredFile(i)), c, q))
<1> DEFINE e == Put(d, CredFile(i), c)
           g == Gain(Read(d, CredFile(i)), c, q)
           m == Cardinality(OfRp(Now(d), q))
           n == Cardinality(OfRp(Now(e), q))
<1>1. SameRecords(Now(d), Now(e)) /\ g \in {0 - 1, 0, 1} /\ m = n + g
  BY CredWrites
<1>2. m \in Nat /\ n \in Nat /\ Exact(Now(d), q, m + x)
  BY Finite DEF Owes
<1> HIDE DEF e, g, m, n
<1>3. m + x = n + (x + g)
  BY <1>1, <1>2
<1>4. Exact(Now(e), q, n + (x + g))
  BY <1>1, <1>2, <1>3, SameExact
<1> QED BY <1>4 DEF Owes, e, g, n

\* A record, or none, with the number of credentials of r.
LEMMA RecordOwes ==
    ASSUME NEW d, NEW who, NEW out, Sound(d, who, out),
           NEW i \in Slots, NEW c \in {Absent} \cup RpRecord, NEW r \in RP,
           Read(d, RpFile(i)) # Absent => Read(d, RpFile(i)).rp = r,
           c # Absent => c.rp = r,
           \A j \in Slots \ {i} : Read(d, RpFile(j)) # Absent => Read(d, RpFile(j)).rp # r,
           \A q \in RP : q # r => Owes(d, q, 0),
           c = Absent <=> Cardinality(OfRp(Now(d), r)) = 0,
           c # Absent => c.count = IF Cardinality(OfRp(Now(d), r)) = CountMod THEN 0
                                   ELSE Cardinality(OfRp(Now(d), r))
    PROVE  \A q \in RP : Owes(Put(d, RpFile(i), c), q, 0)
<1> DEFINE f == RpFile(i)
           e == Put(d, f, c)
           v == Now(d)
           w == Now(e)
<1>1. IsDisk(d, Contents) /\ f \in DOMAIN Contents /\ c \in Contents[f] /\ f \in Files
  BY Names DEF Sound
<1>2. /\ Read(e, f) = c
      /\ \A g \in DOMAIN Contents \ {f} : Read(e, g) = Read(d, g)
  BY <1>1, PutDisk
<1> HIDE DEF e, f
<1>3. /\ \A j \in Slots : /\ w[CredFile(j)] = v[CredFile(j)]
                          /\ v[RpFile(j)] = Read(d, RpFile(j))
      /\ \A j \in Slots \ {i} : w[RpFile(j)] = v[RpFile(j)]
      /\ w[RpFile(i)] = c
  BY <1>1, <1>2, Names DEF Now, f
<1> DEFINE n == Cardinality(OfRp(v, r))
<1>4. /\ n \in 0..MaxSlots
      /\ c = Absent <=> n = 0
      /\ c # Absent => c.count = IF n = CountMod THEN 0 ELSE n
  BY SlotCount
<1> HIDE DEF v, w
<1>5. /\ \A q : OfRp(w, q) = OfRp(v, q)
      /\ \A q : q # r => Count(w, q) = Count(v, q)
      /\ w[RpFile(i)] = Absent => Count(w, r) = 0
      /\ w[RpFile(i)] # Absent => Count(w, r) = w[RpFile(i)].count
  <2>1. OneRecordDiffers(v, w, i, r)
    BY <1>3 DEF OneRecordDiffers
  <2> QED BY <2>1, RecordCounts
<1>6. ASSUME NEW q \in RP, q # r PROVE Exact(w, q, Cardinality(OfRp(w, q)) + 0)
  <2>1. RpRecords(w, q) = RpRecords(v, q)
    BY <1>3, <1>6 DEF RpRecords
  <2>2. Exact(v, q, Cardinality(OfRp(v, q)) + 0)
    BY <1>6 DEF Owes, v
  <2> QED BY <1>5, <1>6, <2>1, <2>2 DEF Exact
<1>7. Exact(w, r, Cardinality(OfRp(w, r)) + 0)
  <2>1. RpRecords(w, r) = IF c = Absent THEN {} ELSE {i}
    BY <1>3 DEF RpRecords
  <2>2. Count(w, r) = IF c = Absent THEN 0 ELSE c.count
    BY <1>3, <1>5
  <2>3. 0 # CountMod
    BY StoreAssumption
  <2> HIDE DEF n
  <2>4. RpRecords(w, r) = {} <=> n = 0
    BY <1>4, <2>1
  <2>5. Count(w, r) = IF n = CountMod THEN 0 ELSE n
    BY <1>4, <2>2, <2>3
  <2>6. n + 0 = n
    BY <1>4
  <2>7. Exact(w, r, n)
    BY <1>4, <2>4, <2>5 DEF Exact
  <2> QED BY <1>5, <2>6, <2>7 DEF n
<1> QED BY <1>6, <1>7 DEF Owes, w, e, f

\* What the only record of r says, if there is one.
LEMMA OnlyRecord ==
    ASSUME NEW d, NEW who, NEW out, Sound(d, who, out), NEW r \in RP,
           \A j \in Slots : ram[RpFile(j)] = Read(d, RpFile(j)), RpRecords(ram, r) # {}
    PROVE  LET i == Min(RpRecords(ram, r))
           IN  /\ i \in Slots /\ ram[RpFile(i)] \in RpRecord /\ ram[RpFile(i)].rp = r
               /\ ram[RpFile(i)].count = Count(Now(d), r)
               /\ \A j \in Slots \ {i} : ram[RpFile(j)] # Absent => ram[RpFile(j)].rp # r
<1> DEFINE i == Min(RpRecords(ram, r))
<1>1. \A j \in Slots : ram[RpFile(j)] = Now(d)[RpFile(j)]
  BY Names DEF Now
<1>2. RpRecords(ram, r) = RpRecords(Now(d), r)
  BY <1>1 DEF RpRecords
<1>3. i \in RpRecords(Now(d), r)
  <2>1. RpRecords(ram, r) \in SUBSET Slots
    BY DEF RpRecords
  <2>2. i \in RpRecords(ram, r)
    BY <2>1, LowestSlot
  <2> QED BY <1>2, <2>2
<1> HIDE DEF i
<1>4. /\ i \in Slots /\ Read(d, RpFile(i)) \in RpRecord /\ Read(d, RpFile(i)).rp = r
      /\ Count(Now(d), r) = Read(d, RpFile(i)).count
      /\ RpRecords(Now(d), r) = {i}
  BY <1>3, CountIs
<1>5. \A j \in Slots \ {i} : ram[RpFile(j)] # Absent => ram[RpFile(j)].rp # r
  BY <1>1, <1>4 DEF RpRecords
<1> QED BY <1>4, <1>5 DEF i

LEMMA CountUpOwed ==
    ASSUME StoreInv, NEW d, NEW who, NEW out, Sound(d, who, out),
           NEW r \in RP, RpRecords(ram, r) # {} \/ FreeRpSlots # {},
           \A j \in Slots : ram[RpFile(j)] = Read(d, RpFile(j)),
           Owes(d, r, 0 - 1), \A q \in RP : q # r => Owes(d, q, 0)
    PROVE  \A q \in RP : Owes(CountUp(d, r), q, 0)
<1> DEFINE n == Cardinality(OfRp(Now(d), r))
           k == Count(Now(d), r)
<1>1. RpRecords(ram, r) = RpRecords(Now(d), r)
  BY Names DEF RpRecords, Now
<1>2. /\ MaxSlots \in Nat \ {0} /\ CountMod \in Nat \ {0, 1} /\ MaxSlots <= CountMod
      /\ n \in 0..MaxSlots /\ n + (0 - 1) \in 0..MaxSlots
      /\ RpRecords(ram, r) = {} <=> n + (0 - 1) = 0
      /\ k = IF n + (0 - 1) = CountMod THEN 0 ELSE n + (0 - 1)
  BY <1>1, SlotCount, StoreAssumption, MgmtAssumption DEF Owes, Exact
<1> HIDE DEF n, k
<1>3. k = n - 1 /\ k \in Nat /\ n # 0 /\ (k + 1) % CountMod = IF n = CountMod THEN 0 ELSE n
  <2>1. k = n - 1 /\ k \in Nat /\ n # 0 /\ k + 1 = n /\ n \in Nat /\ n <= CountMod
    BY <1>2
  <2>2. n % CountMod = IF n = CountMod THEN 0 ELSE n
    <3>1. CASE n = CountMod
      BY <1>2, <3>1
    <3>2. CASE n # CountMod
      BY <1>2, <2>1, <3>2
    <3> QED BY <3>1, <3>2
  <2> QED BY <2>1, <2>2
<1>4. CASE RpRecords(ram, r) # {}
  <2> DEFINE i == Min(RpRecords(ram, r))
             c == [ram[RpFile(i)] EXCEPT !.count = (ram[RpFile(i)].count + 1) % CountMod]
  <2>1. CountUp(d, r) = Put(d, RpFile(i), c)
    BY <1>4 DEF CountUp
  <2>2. /\ i \in Slots /\ ram[RpFile(i)] \in RpRecord /\ ram[RpFile(i)].rp = r
        /\ ram[RpFile(i)].count = Count(Now(d), r)
        /\ \A j \in Slots \ {i} : ram[RpFile(j)] # Absent => ram[RpFile(j)].rp # r
    BY <1>4, OnlyRecord
  <2> HIDE DEF i
  <2>3. (k + 1) % CountMod \in 0..(CountMod - 1)
    BY <1>2, <1>3
  <2>4. c \in RpRecord /\ c.rp = r /\ c.count = (k + 1) % CountMod
    BY <2>2, <2>3 DEF RpRecord, k
  <2> HIDE DEF c
  <2>5. c # Absent
    BY <2>4, Told
  <2> QED BY <1>3, <2>1, <2>2, <2>4, <2>5, RecordOwes DEF n
<1>5. CASE RpRecords(ram, r) = {}
  <2> DEFINE i == Min(FreeRpSlots)
             c == [rp |-> r, count |-> 1, secure |-> TRUE]
  <2>1. i \in Slots /\ ram[RpFile(i)] = Absent
    <3>1. FreeRpSlots \in SUBSET Slots /\ FreeRpSlots # {}
      BY <1>5 DEF FreeRpSlots
    <3>2. i \in FreeRpSlots
      BY <3>1, LowestSlot
    <3> QED BY <3>2 DEF FreeRpSlots
  <2>2. CountUp(d, r) = Put(d, RpFile(i), c)
    BY <1>5 DEF CountUp
  <2>3. c \in RpRecord /\ c.rp = r /\ c.count = 1
    BY StoreAssumption DEF RpRecord
  <2> HIDE DEF c, i
  <2>4. c # Absent
    BY <2>3, Told
  <2>5. n = 1 /\ n # CountMod
    BY <1>2, <1>5
  <2>6. \A j \in Slots \ {i} : ram[RpFile(j)] # Absent => ram[RpFile(j)].rp # r
    BY <1>5 DEF RpRecords
  <2> QED BY <1>3, <2>1, <2>2, <2>3, <2>4, <2>5, <2>6, RecordOwes DEF n
<1> QED BY <1>4, <1>5

\* A count that reads 0 although there is a record goes down to CountMod - 1,
\* and only that of a single credential to 0.
LEMMA CountDownOwed ==
    ASSUME StoreInv, NEW d, NEW who, NEW out, Sound(d, who, out), NEW r \in RP,
           \A j \in Slots : ram[RpFile(j)] = Read(d, RpFile(j)),
           Owes(d, r, 1), \A q \in RP : q # r => Owes(d, q, 0)
    PROVE  \A q \in RP : Owes(CountDown(d, r), q, 0)
<1> DEFINE n == Cardinality(OfRp(Now(d), r))
           k == Count(Now(d), r)
<1>1. RpRecords(ram, r) = RpRecords(Now(d), r)
  BY Names DEF RpRecords, Now
<1>2. /\ MaxSlots \in Nat \ {0} /\ CountMod \in Nat \ {0, 1} /\ MaxSlots <= CountMod
      /\ n \in 0..MaxSlots /\ n + 1 \in 0..MaxSlots
      /\ RpRecords(ram, r) = {} <=> n + 1 = 0
      /\ k = IF n + 1 = CountMod THEN 0 ELSE n + 1
  BY <1>1, SlotCount, StoreAssumption, MgmtAssumption DEF Owes, Exact
<1> HIDE DEF n, k
<1>3. RpRecords(ram, r) # {}
  BY <1>2
<1>4. (k - 1) % CountMod = n /\ n # CountMod /\ n \in 0..(CountMod - 1)
  <2>1. n \in 0..(CountMod - 1)
    BY <1>2
  <2>2. CASE n + 1 = CountMod
    <3>1. k - 1 = 0 - 1 /\ n = CountMod - 1
      BY <1>2, <2>2
    <3>2. (0 - 1) % CountMod = CountMod - 1
      BY <1>2
    <3> QED BY <1>2, <2>1, <3>1, <3>2
  <2>3. CASE n + 1 # CountMod
    <3>1. k - 1 = n
      BY <1>2, <2>3
    <3>2. n % CountMod = n
      BY <1>2, <2>1
    <3> QED BY <1>2, <2>1, <3>1, <3>2
  <2> QED BY <2>2, <2>3
<1> DEFINE i == Min(RpRecords(ram, r))
           m == (ram[RpFile(i)].count - 1) % CountMod
           c == IF m = 0 THEN Absent ELSE [ram[RpFile(i)] EXCEPT !.count = m]
<1>5. CountDown(d, r) = Put(d, RpFile(i), c)
  BY <1>3 DEF CountDown
<1>6. /\ i \in Slots /\ ram[RpFile(i)] \in RpRecord /\ ram[RpFile(i)].rp = r
      /\ ram[RpFile(i)].count = Count(Now(d), r)
      /\ \A j \in Slots \ {i} : ram[RpFile(j)] # Absent => ram[RpFile(j)].rp # r
  BY <1>3, OnlyRecord
<1> HIDE DEF i
<1>7. m = n
  BY <1>4, <1>6 DEF k
<1> HIDE DEF m
<1>8. /\ c \in {Absent} \cup RpRecord
      /\ c = Absent <=> n = 0
      /\ c # Absent => c.rp = r /\ c.count = n
  <2>1. CASE n = 0
    BY <1>7, <2>1
  <2>2. CASE n # 0
    <3>1. c \in RpRecord /\ c.rp = r /\ c.count = n
      BY <1>4, <1>6, <1>7, <2>2 DEF RpRecord
    <3> QED BY <2>2, <3>1, Told
  <2> QED BY <2>1, <2>2
<1> HIDE DEF c
<1>9. c # Absent => c.count = IF n = CountMod THEN 0 ELSE n
  BY <1>4, <1>8
<1> QED BY <1>5, <1>6, <1>8, <1>9, RecordOwes DEF n

LEMMA OlderOwes ==
    ASSUME NEW d, NEW who, NEW out, Sound(d, who, out), NEW i \in Slots,
           NEW u \in {Absent} \cup Credential, NEW q, NEW x, Owes(d, q, x)
    PROVE  Owes(OlderIs(d, i, u), q, x)
<1> DEFINE e == OlderIs(d, i, u)
<1>1. SameRecords(Now(d), Now(e)) /\ OfRp(Now(e), q) = OfRp(Now(d), q)
  BY OlderCounts
<1> HIDE DEF e
<1> QED BY <1>1, SameExact DEF Owes, e

-----------------------------------------------------------------------------
(* The actions and the exact counts.                                       *)

LEMMA DoneOwed ==
    ASSUME NEW d, NEW who, NEW out, Sound(d, who, out), \A q \in RP : Owes(d, q, 0), Done(d)
    PROVE  AllOwed'
<1> DEFINE x == Described([f \in Files |-> Read(d, f)])
           e == Put(d, StateFile, x)
<1>1. disk' = e /\ op' = Idle
  BY DEF Done, dev_state_update
<1>2. IsDisk(d, Contents) /\ x \in Contents[StateFile] /\ StateFile \in DOMAIN Contents
  BY Names, StateValue DEF Sound
<1> HIDE DEF x
<1>3. \A f \in DOMAIN Contents \ {StateFile} : Read(e, f) = Read(d, f)
  BY <1>2, PutDisk
<1> HIDE DEF e
<1>4. ASSUME NEW q \in RP PROVE Owes(e, q, 0)
  <2>1. \A i \in Slots : /\ Now(d)[CredFile(i)] = Now(e)[CredFile(i)]
                         /\ Now(d)[RpFile(i)] = Now(e)[RpFile(i)]
    BY <1>3, Names DEF Now
  <2>2. OfRp(Now(d), q) = OfRp(Now(e), q) /\ SameRecords(Now(d), Now(e))
    BY <2>1, SameCreds DEF SameRecords
  <2> QED BY <2>2, SameExact DEF Owes
<1>5. \A q : Due(ram', op', q) = 0
  BY <1>1 DEF Due
<1> QED BY <1>1, <1>4, <1>5 DEF AllOwed

LEMMA WaitingOwed ==
    ASSUME NEW d, NEW step, NEW i, NEW c, Waiting(d, step, i, c),
           \A q \in RP : Owes(d, q, Due(Now(d), [step |-> step, slot |-> i, cred |-> c], q))
    PROVE  AllOwed'
<1>1. disk' = d /\ op' = [step |-> step, slot |-> i, cred |-> c]
  BY DEF Waiting
<1>2. ram' = Now(d)
  BY <1>1 DEF ram, Now
<1> QED BY <1>1, <1>2 DEF AllOwed

\* A handler that fails is a mishap.
LEMMA NotFailed ==
    ASSUME StoreInv, NEW d, Failed(d), mishaps' = mishaps PROVE FALSE
  BY DEF Failed, StoreInv, StoreTypeOK

LEMMA NothingOwed ==
    ASSUME AllOwed, op = Idle PROVE \A q \in RP : Owes(disk, q, 0)
  BY DEF AllOwed, Due

LEMMA StoreNewOwed ==
    ASSUME StoreInv, AllOwed, NEW r \in RP, NEW u \in User, NEW x \in Info, StoreNew(r, u, x)
    PROVE  AllOwed'
<1> DEFINE i == Min(FreeSlots)
           c == NewCredential(r, u, x)
           o == [step |-> "records", slot |-> i, cred |-> c]
<1>1. i \in Slots /\ ram[CredFile(i)] = Absent
  <2>1. FreeSlots # {} /\ FreeSlots \in SUBSET Slots
    BY DEF StoreNew, FreeSlots
  <2>2. i \in FreeSlots
    BY <2>1, LowestSlot
  <2> QED BY <2>1, <2>2 DEF FreeSlots
<1>2. op = Idle /\ Waiting(disk, "records", i, c)
  BY DEF StoreNew, CanStart
<1> HIDE DEF i, c
<1>3. \A q : Due(Now(disk), o, q) = 0
  BY <1>1, Counting, AbsentAssumption DEF Due
<1> HIDE DEF o
<1>4. \A q \in RP : Owes(disk, q, Due(Now(disk), o, q))
  BY <1>2, <1>3, NothingOwed
<1> QED BY <1>2, <1>4, WaitingOwed DEF o

\* A credential that is written over another of its user.
LEMMA InSlotOwed ==
    ASSUME StoreInv, AllOwed, op = Idle, NEW i \in Slots, IsCred(ram[CredFile(i)]),
           NEW c \in Credential \cup {Absent, Broken},
           c \in Credential => UserOf(c) = UserOf(ram[CredFile(i)])
    PROVE  LET e == Put(disk, CredFile(i), c)
           IN  /\ Sound(e, AnyUser, Slots)
               /\ Read(e, CredFile(i)) = c
               /\ \A j \in Slots : Read(e, RpFile(j)) = ram[RpFile(j)]
               /\ \A q \in RP :
                     Owes(e, q, IF c \notin Credential /\ q = ram[CredFile(i)].rp THEN 1 ELSE 0)
<1> DEFINE f == CredFile(i)
           e == Put(disk, f, c)
           g(q) == IF c \notin Credential /\ q = ram[f].rp THEN 1 ELSE 0
<1>1. /\ StoreTypeOK /\ Sound(disk, AnyUser, Slots) /\ ram[f] = Read(disk, f)
      /\ \A j \in Slots : ram[RpFile(j)] = Read(disk, RpFile(j))
  BY Counting
<1>2. ram[f] \in Credential /\ UserOf(ram[f]) \in AnyUser /\ unsure \subseteq Slots
  BY <1>1, Seen, Told DEF AnyUser, StoreTypeOK
<1>3. /\ Sound(e, AnyUser, Slots) /\ Read(e, f) = c
      /\ \A h \in Files \ {f} : Read(e, h) = Read(disk, h)
  BY <1>1, <1>2, InSlot
<1>4. \A q : Gain(Read(disk, f), c, q) = g(q)
  <2> TAKE q
  <2>1. CASE c \in Credential
    <3>1. c.rp = ram[f].rp /\ IsCred(c)
      BY <2>1, SameUser, Told
    <3> QED BY <1>1, <2>1, <3>1 DEF Gain
  <2>2. CASE c \notin Credential
    <3>1. ~IsCred(c)
      BY <2>2, Told
    <3> QED BY <1>1, <2>2, <3>1 DEF Gain
  <2> QED BY <2>1, <2>2
<1>5. \A q \in RP : Owes(disk, q, 0)
  BY NothingOwed
<1> HIDE DEF e
<1>6. ASSUME NEW q \in RP PROVE Owes(e, q, g(q))
  <2>1. 0 \in {0 - 1, 0, 1} /\ 0 + Gain(Read(disk, f), c, q) = g(q)
    BY <1>4
  <2>2. Owes(e, q, 0 + Gain(Read(disk, f), c, q))
    BY <1>1, <1>5, <2>1, CredOwes DEF e
  <2> QED BY <2>1, <2>2
<1> HIDE DEF f
<1>7. \A j \in Slots : RpFile(j) \in Files \ {f}
  BY Names DEF f
<1> QED BY <1>1, <1>3, <1>6, <1>7 DEF e, f

LEMMA StoreAgainOwed ==
    ASSUME StoreInv, AllOwed, mishaps' = mishaps,
           NEW r \in RP, NEW u \in User, NEW x \in Info, StoreAgain(r, u, x)
    PROVE  AllOwed'
<1> DEFINE i == Min(OfUser(ram, r, u))
           f == CredFile(i)
           c == [NewCredential(r, u, x) EXCEPT !.legacy = ram[f].legacy]
           b == Put(disk, f, Broken)
           o == [step |-> "records", slot |-> i, cred |-> c]
<1>1. /\ op = Idle
      /\ \/ Done(Put(disk, f, c))
         \/ \E d \in {disk, b} : Waiting(d, "records", i, c) \/ Failed(d)
  BY DEF StoreAgain, CanStart
<1>2. i \in Slots /\ IsCred(ram[f]) /\ ram[f].rp = r /\ ram[f].user = u
  <2>1. OfUser(ram, r, u) # {} /\ OfUser(ram, r, u) \in SUBSET Slots
    BY DEF StoreAgain, OfUser, OfRp, Stored
  <2>2. i \in OfUser(ram, r, u)
    BY <2>1, LowestSlot
  <2> QED BY <2>1, <2>2 DEF OfUser, OfRp, Stored, IsCred
<1>3. ram[f] \in Credential /\ ram = Now(disk) /\ f \in Files
  BY <1>2, Seen, Told, Counting, Names
<1>4. c \in Credential /\ c.rp = r /\ c.user = u
  <2>1. ram[f].legacy \in BOOLEAN
    BY <1>3 DEF Credential
  <2> QED BY <2>1 DEF NewCredential, Credential
<1> HIDE DEF c, i
<1>5. UserOf(c) = UserOf(ram[f])
  BY <1>2, <1>4, SameUser
<1>6. CASE Done(Put(disk, f, c))
  <2>1. LET e == Put(disk, f, c)
        IN  /\ Sound(e, AnyUser, Slots)
            /\ \A q \in RP : Owes(e, q, IF c \notin Credential /\ q = ram[f].rp THEN 1 ELSE 0)
    BY <1>1, <1>2, <1>4, <1>5, InSlotOwed
  <2> QED BY <1>4, <1>6, <2>1, DoneOwed
<1>7. Now(b)[f] = Broken /\ \A q \in RP : Owes(b, q, IF q = r THEN 1 ELSE 0)
  <2>1. Broken \notin Credential
    BY Told
  <2>2. LET e == Put(disk, f, Broken)
        IN  /\ Read(e, f) = Broken
            /\ \A q \in RP : Owes(e, q, IF Broken \notin Credential /\ q = ram[f].rp THEN 1 ELSE 0)
    BY <1>1, <1>2, <2>1, InSlotOwed
  <2> HIDE DEF f
  <2> QED BY <1>2, <1>3, <2>1, <2>2 DEF Now
<1> HIDE DEF b
<1>8. ASSUME NEW d \in {disk, b} PROVE \A q \in RP : Owes(d, q, Due(Now(d), o, q))
  <2>1. CASE d = disk
    <3>1. \A q : Due(Now(d), o, q) = 0
      BY <1>2, <1>3, <2>1 DEF Due, IsCred
    <3> QED BY <1>1, <2>1, <3>1, NothingOwed
  <2>2. CASE d = b
    <3>1. \A q : Due(Now(d), o, q) = IF q = r THEN 1 ELSE 0
      BY <1>4, <1>7, <2>2 DEF Due, Idle
    <3> QED BY <1>7, <2>2, <3>1
  <2> QED BY <2>1, <2>2
<1> QED BY <1>1, <1>6, <1>8, WaitingOwed, NotFailed

\* What is owed while a handler waits.
LEMMA OwedNow ==
    ASSUME StoreInv, AllOwed, op # Idle
    PROVE  /\ op.slot \in Slots /\ op.cred \in Credential /\ op.cred.rp \in RP
           /\ \A q \in RP : Owes(disk, q, Due(ram, op, q))
           /\ \A q : q # op.cred.rp => Due(ram, op, q) = 0
           /\ op.step = "store" => Due(ram, op, op.cred.rp) = 0 - 1
           /\ op.step = "delete" => Due(ram, op, op.cred.rp) = 1
           /\ op.step = "replace" => Due(ram, op, op.cred.rp) = 0
           /\ op.step = "records" =>
                Due(ram, op, op.cred.rp) = IF ram[CredFile(op.slot)] = Broken THEN 1 ELSE 0
<1>1. /\ op.slot \in Slots /\ op.cred \in Credential /\ op.cred.rp \in RP
  BY DEF StoreInv, StoreTypeOK, Credential
<1> QED BY <1>1 DEF AllOwed, Due

\* The older version of a container changes while a handler waits.
LEMMA BeneathOwed ==
    ASSUME StoreInv, AllOwed, NEW i \in Slots, NEW u \in {Absent} \cup Credential
    PROVE  LET d == OlderIs(disk, i, u)
           IN  /\ Sound(d, asked, unsure)
               /\ \A q \in RP : Owes(d, q, Due(ram, op, q))
               /\ \A j \in Slots : /\ ram[CredFile(j)] = Read(d, CredFile(j))
                                   /\ ram[RpFile(j)] = Read(d, RpFile(j))
                                   /\ Copies(d, RpFile(j)) = Copies(disk, RpFile(j))
<1>1. Sound(disk, asked, unsure) /\ \A q \in RP : Owes(disk, q, Due(ram, op, q))
  BY DEF StoreInv, AllOwed
<1>2. \A q \in RP : Owes(OlderIs(disk, i, u), q, Due(ram, op, q))
  BY <1>1, OlderOwes
<1> QED BY <1>2, Beneath

LEMMA ContainerOwed ==
    ASSUME StoreInv, op.step = "records", NEW step \in {"store", "replace"},
           step = "store" <=> ram[CredFile(op.slot)] = Absent,
           NEW d, NEW who, NEW out, Sound(d, who, out),
           \A q \in RP : Owes(d, q, Due(ram, op, q)),
           ram[CredFile(op.slot)] = Read(d, CredFile(op.slot)),
           Waiting(Put(d, CredFile(op.slot), op.cred), step, op.slot, op.cred)
    PROVE  AllOwed'
<1> DEFINE i == op.slot
           f == CredFile(i)
           c == op.cred
           e == Put(d, f, c)
           o == [step |-> step, slot |-> i, cred |-> c]
           g(q) == Gain(Read(d, f), c, q)
           due(q) == Due(ram, op, q)
<1>1. i \in Slots /\ c \in {Absent, Broken} \cup Credential
  <2>1. op # Idle
    BY DEF Idle
  <2> QED BY <2>1 DEF StoreInv, StoreTypeOK
<1>2. \A q : due(q) \in {0 - 1, 0, 1} /\ due(q) + g(q) = Due(Now(e), o, q)
  BY DueRange, WriteDue
<1>3. \A q \in RP : Owes(e, q, due(q) + g(q))
  <2> HIDE DEF due, i, c
  <2> TAKE q \in RP
  <2>1. due(q) \in {0 - 1, 0, 1} /\ Owes(d, q, due(q))
    BY <1>2 DEF due
  <2> QED BY <1>1, <2>1, CredOwes
<1>4. \A q \in RP : Owes(e, q, Due(Now(e), o, q))
  BY <1>2, <1>3
<1> HIDE DEF e, i, c
<1> QED BY <1>4, WaitingOwed DEF e, i, c

LEMMA WriteManifestOwed == ASSUME StoreInv, AllOwed, WriteManifest PROVE AllOwed'
<1> DEFINE i == op.slot
           u == IF ram[CredFile(i)] = Broken THEN Absent ELSE ram[CredFile(i)]
           d == OlderIs(disk, i, u)
<1>1. /\ op.step = "records" /\ op # Idle /\ ram[CredFile(i)] # Absent
      /\ Waiting(Put(d, CredFile(i), op.cred), "replace", i, op.cred)
  BY DEF WriteManifest, Synced, Idle
<1>2. i \in Slots /\ u \in {Absent} \cup Credential
  BY <1>1, Counting, Seen, OwedNow
<1> HIDE DEF u
<1>3. /\ Sound(d, asked, unsure)
      /\ \A q \in RP : Owes(d, q, Due(ram, op, q))
      /\ ram[CredFile(i)] = Read(d, CredFile(i))
  BY <1>2, BeneathOwed
<1> HIDE DEF d
<1> QED BY <1>1, <1>3, ContainerOwed

LEMMA WriteMarkerOwed ==
    ASSUME StoreInv, AllOwed, mishaps' = mishaps, WriteMarker PROVE AllOwed'
<1> DEFINE i == op.slot
<1>1. /\ op.step = "records" /\ op # Idle /\ ram[CredFile(i)] = Absent
      /\ \/ Waiting(Put(disk, CredFile(i), op.cred), "store", i, op.cred)
         \/ Failed(OlderIs(disk, i, op.cred))
  BY DEF WriteMarker, Synced, Idle
<1>2. Waiting(Put(disk, CredFile(i), op.cred), "store", i, op.cred)
  BY <1>1, NotFailed
<1>3. /\ Sound(disk, AnyUser, Slots)
      /\ \A q \in RP : Owes(disk, q, Due(ram, op, q))
      /\ ram[CredFile(i)] = Read(disk, CredFile(i))
  BY <1>1, Counting, OwedNow
<1> QED BY <1>1, <1>2, <1>3, ContainerOwed

LEMMA FinishStoreOwed ==
    ASSUME StoreInv, AllOwed, mishaps' = mishaps, FinishStore PROVE AllOwed'
<1> DEFINE r == op.cred.rp
           d == OlderIs(disk, op.slot, Absent)
<1>1. /\ op.step = "store" /\ op # Idle /\ IsSettled(disk)
      /\ \/ (RpRecords(ram, r) # {} \/ FreeRpSlots # {}) /\ Done(CountUp(d, r))
         \/ Failed(d)
  BY DEF FinishStore, Synced, Idle
<1>2. /\ r \in RP /\ op.slot \in Slots
      /\ \A q \in RP : Due(ram, op, q) = IF q = r THEN 0 - 1 ELSE 0
  BY <1>1, OwedNow
<1>3. /\ Sound(d, asked, unsure)
      /\ \A q \in RP : Owes(d, q, Due(ram, op, q))
      /\ \A j \in Slots : /\ ram[RpFile(j)] = Read(d, RpFile(j))
                           /\ Copies(d, RpFile(j)) = Copies(disk, RpFile(j))
  BY <1>2, BeneathOwed
<1> HIDE DEF d, r
<1>4. Owes(d, r, 0 - 1) /\ \A q \in RP : q # r => Owes(d, q, 0)
  BY <1>2, <1>3
<1>5. (RpRecords(ram, r) # {} \/ FreeRpSlots # {}) /\ Done(CountUp(d, r))
  BY <1>1, NotFailed
<1>6. \A q \in RP : Owes(CountUp(d, r), q, 0)
  BY <1>2, <1>3, <1>4, <1>5, CountUpOwed
<1>7. Sound(CountUp(d, r), asked, unsure)
  BY <1>1, <1>2, <1>3, <1>5, CountUpSound
<1> QED BY <1>5, <1>6, <1>7, DoneOwed

LEMMA FinishInPlaceOwed == ASSUME StoreInv, AllOwed, FinishInPlace PROVE AllOwed'
<1> DEFINE d == OlderIs(disk, op.slot, Absent)
<1>1. op.step = "replace" /\ op # Idle /\ Done(d)
  BY DEF FinishInPlace, Synced, Idle
<1>2. op.slot \in Slots /\ \A q \in RP : Due(ram, op, q) = 0
  BY <1>1, OwedNow
<1>3. Sound(d, asked, unsure) /\ \A q \in RP : Owes(d, q, Due(ram, op, q))
  BY <1>2, BeneathOwed
<1>4. \A q \in RP : Owes(d, q, 0)
  BY <1>2, <1>3
<1> HIDE DEF d
<1> QED BY <1>1, <1>3, <1>4, DoneOwed

LEMMA FinishDeleteOwed == ASSUME StoreInv, AllOwed, FinishDelete PROVE AllOwed'
<1> DEFINE r == op.cred.rp
<1>1. op.step = "delete" /\ op # Idle /\ Done(CountDown(disk, r))
  BY DEF FinishDelete, Synced, Idle
<1>2. /\ r \in RP /\ Sound(disk, asked, unsure) /\ Owes(disk, r, 1)
      /\ \A q \in RP : q # r => Owes(disk, q, 0)
      /\ \A j \in Slots : ram[RpFile(j)] = Read(disk, RpFile(j))
  BY <1>1, Counting, OwedNow DEF StoreInv
<1>3. \A q \in RP : Owes(CountDown(disk, r), q, 0)
  BY <1>2, CountDownOwed
<1>4. Sound(CountDown(disk, r), asked, unsure)
  BY <1>2, CountDownSound
<1> QED BY <1>1, <1>3, <1>4, DoneOwed

LEMMA DeleteSingleFileOwed ==
    ASSUME StoreInv, AllOwed, NEW i \in Slots, DeleteSingleFile(i) PROVE AllOwed'
<1> DEFINE f == CredFile(i)
           c == ram[f]
           a == Put(disk, f, Absent)
<1>1. op = Idle /\ Done(CountDown(a, c.rp))
  BY DEF DeleteSingleFile, CanStart
<1>2. IsCred(c)
  BY DEF DeleteSingleFile, Stored, IsCred
<1>3. c \in Credential /\ c.rp \in RP
  <2>1. c \in Credential
    BY <1>2, Seen, Told, Counting
  <2> QED BY <2>1 DEF Credential
<1>4. Absent \notin Credential
  BY Told
<1>5. /\ Sound(a, AnyUser, Slots)
      /\ \A j \in Slots : Read(a, RpFile(j)) = ram[RpFile(j)]
      /\ \A q \in RP : Owes(a, q, IF Absent \notin Credential /\ q = c.rp THEN 1 ELSE 0)
  BY <1>1, <1>2, <1>4, InSlotOwed
<1>6. Owes(a, c.rp, 1) /\ \A q \in RP : q # c.rp => Owes(a, q, 0)
  BY <1>3, <1>4, <1>5
<1>7. \A j \in Slots : Copies(a, RpFile(j)) = Copies(disk, RpFile(j))
  <2>1. \A j \in Slots : RpFile(j) \in DOMAIN Contents \ {f}
    BY Names
  <2>2. IsDisk(disk, Contents) /\ f \in DOMAIN Contents /\ Absent \in Contents[f]
    BY Counting, Names DEF Sound
  <2> QED BY <2>1, <2>2, PutDisk
<1> HIDE DEF a, c
<1>8. \A q \in RP : Owes(CountDown(a, c.rp), q, 0)
  BY <1>3, <1>5, <1>6, CountDownOwed
<1>9. Sound(CountDown(a, c.rp), AnyUser, Slots)
  BY <1>3, <1>5, <1>7, CountDownSound
<1> QED BY <1>1, <1>8, <1>9, DoneOwed

\* In the middle of a deletion: each count is out by what slot i shows instead
\* of the credential c that was in it.
OwedBetween(d, i, c) ==
    /\ Sound(d, AnyUser, Slots)
    /\ \A q \in RP : Owes(d, q, Gain(c, Read(d, CredFile(i)), q))

LEMMA WriteOwedBetween ==
    ASSUME NEW i \in Slots, NEW c, NEW d, OwedBetween(d, i, c),
           NEW y \in {Absent, Broken} \cup Credential
    PROVE  /\ OwedBetween(Put(d, CredFile(i), y), i, c)
           /\ Read(Put(d, CredFile(i), y), CredFile(i)) = y
<1> DEFINE x == Read(d, CredFile(i))
           e == Put(d, CredFile(i), y)
<1>1. Sound(e, AnyUser, Slots) /\ Read(e, CredFile(i)) = y
  BY AnyWrite DEF OwedBetween
<1>2. \A q : /\ Gain(c, x, q) \in {0 - 1, 0, 1}
             /\ Gain(c, x, q) + Gain(x, y, q) = Gain(c, y, q)
  BY GainSums
<1>3. Sound(d, AnyUser, Slots) /\ \A q \in RP : Owes(d, q, Gain(c, x, q))
  BY DEF OwedBetween
<1>4. \A q \in RP : Owes(e, q, Gain(c, y, q))
  <2> TAKE q \in RP
  <2>1. Owes(e, q, Gain(c, x, q) + Gain(x, y, q))
    BY <1>2, <1>3, CredOwes
  <2> QED BY <1>2, <2>1
<1> HIDE DEF e
<1> QED BY <1>1, <1>4 DEF OwedBetween, e

LEMMA OlderOwedBetween ==
    ASSUME NEW i \in Slots, NEW c, NEW d, OwedBetween(d, i, c), NEW u \in {Absent} \cup Credential
    PROVE  OwedBetween(OlderIs(d, i, u), i, c)
<1> DEFINE x == Read(d, CredFile(i))
           e == OlderIs(d, i, u)
<1>1. Sound(d, AnyUser, Slots) /\ \A q \in RP : Owes(d, q, Gain(c, x, q))
  BY DEF OwedBetween
<1>2. Sound(e, AnyUser, Slots) /\ Read(e, CredFile(i)) = x
  BY <1>1, OlderWrite, OlderCounts
<1>3. \A q \in RP : Owes(e, q, Gain(c, x, q))
  BY <1>1, OlderOwes
<1> HIDE DEF e, x
<1> QED BY <1>2, <1>3 DEF OwedBetween, e

LEMMA DeleteContainerOwed ==
    ASSUME StoreInv, AllOwed, NEW i \in Slots, DeleteContainer(i) PROVE AllOwed'
<1> DEFINE f == CredFile(i)
           c == ram[f]
<1>1. op = Idle /\ IsCred(c)
  BY DEF DeleteContainer, CanStart, Stored, IsCred
<1>2. PICK u \in IF InOrder THEN {ram[OlderFile(i)]} ELSE Copies(disk, OlderFile(i)) :
        Waiting(ContainerDeleted(i, u), "delete", i, c)
  BY DEF DeleteContainer
<1>3. /\ u \in {Absent} \cup Credential /\ c \in Credential
      /\ c = Read(disk, f)
  BY <1>1, <1>2, OlderVersion, Counting, Seen, Told
<1>4. OwedBetween(disk, i, c)
  <2>1. \A q \in RP : Owes(disk, q, 0)
    BY <1>1, NothingOwed
  <2> QED BY <1>3, <2>1, Counting, GainSums DEF OwedBetween
<1> DEFINE a == IF u \in {Absent, c} THEN disk ELSE Put(disk, f, u)
           m == IF InOrder THEN a ELSE OlderIs(a, i, c)
           b == Put(m, f, Broken)
           d == OlderIs(b, i, Absent)
           e == Put(d, f, Absent)
           o == [step |-> "delete", slot |-> i, cred |-> c]
<1>5. ContainerDeleted(i, u) = e
  BY DEF ContainerDeleted
<1> HIDE DEF c
<1>6. OwedBetween(a, i, c)
  <2>1. u \notin {Absent, c} => u \in Credential
    BY <1>3
  <2> QED BY <1>3, <1>4, <2>1, WriteOwedBetween
<1> HIDE DEF a
<1>7. OwedBetween(m, i, c)
  BY <1>3, <1>6, OlderOwedBetween
<1> HIDE DEF m
<1>8. OwedBetween(b, i, c)
  BY <1>3, <1>7, WriteOwedBetween
<1> HIDE DEF b
<1>9. OwedBetween(d, i, c)
  BY <1>3, <1>8, OlderOwedBetween
<1> HIDE DEF d
<1>10. OwedBetween(e, i, c) /\ Read(e, f) = Absent
  BY <1>3, <1>9, WriteOwedBetween
<1> HIDE DEF e
<1>11. \A q : Gain(c, Absent, q) = Due(Now(e), o, q)
  BY <1>3, Told DEF Gain, Due, Idle
<1>12. \A q \in RP : Owes(e, q, Due(Now(e), o, q))
  BY <1>10, <1>11 DEF OwedBetween
<1> QED BY <1>2, <1>5, <1>12, WaitingOwed

LEMMA UpdateUserOwed ==
    ASSUME StoreInv, AllOwed, NEW i \in Slots, NEW x \in Info, UpdateUser(i, x) PROVE AllOwed'
<1> DEFINE f == CredFile(i)
           c == [ram[f] EXCEPT !.info = x]
           o == [step |-> "records", slot |-> i, cred |-> c]
<1>1. op = Idle /\ (Done(Put(disk, f, c)) \/ Waiting(disk, "records", i, c))
  BY DEF UpdateUser, CanStart
<1>2. IsCred(ram[f])
  BY DEF UpdateUser, Stored, IsCred
<1>3. ram[f] \in Credential /\ ram = Now(disk)
  BY <1>2, Seen, Told, Counting
<1>4. c \in Credential /\ c.rp = ram[f].rp /\ c.user = ram[f].user
  BY <1>3 DEF Credential
<1> HIDE DEF c
<1>5. UserOf(c) = UserOf(ram[f])
  BY <1>4, SameUser
<1>6. CASE Done(Put(disk, f, c))
  <2>1. LET e == Put(disk, f, c)
        IN  /\ Sound(e, AnyUser, Slots)
            /\ \A q \in RP : Owes(e, q, IF c \notin Credential /\ q = ram[f].rp THEN 1 ELSE 0)
    BY <1>1, <1>2, <1>4, <1>5, InSlotOwed
  <2> QED BY <1>4, <1>6, <2>1, DoneOwed
<1>7. CASE Waiting(disk, "records", i, c)
  <2>1. \A q : Due(Now(disk), o, q) = 0
    BY <1>2, <1>3 DEF Due, IsCred
  <2>2. \A q \in RP : Owes(disk, q, Due(Now(disk), o, q))
    BY <1>1, <2>1, NothingOwed
  <2> QED BY <1>7, <2>2, WaitingOwed
<1> QED BY <1>1, <1>6, <1>7

LEMMA DrainOwed == ASSUME StoreInv, AllOwed, Drain PROVE AllOwed'
<1>1. PICK f \in Files : CanDrain(disk, f) /\ disk' = Drained(disk, f)
  BY DEF Drain
<1>2. op' = op /\ Sound(disk, asked, unsure)
  BY DEF Drain, StoreInv
<1>3. \A g \in Files : Read(disk', g) = Read(disk, g)
  BY <1>1, <1>2, SoundDrained
<1>4. ram' = ram /\ Now(disk') = Now(disk)
  BY <1>3 DEF ram, Now
<1> QED BY <1>2, <1>4 DEF AllOwed, Owes

\* The start-up rewrites records and changes neither relying parties nor counts.
LEMMA MigratedRecords ==
    ASSUME NEW d, IsDisk(d, Contents), \A f \in Files : Read(d, f) = d.flash[f]
    PROVE  SameRecords(Now(d), Now(credential_migrate_rp_secure(d)))
<1> DEFINE e == credential_migrate_rp_secure(d)
<1>1. PICK v : /\ e = PutAll(d, v)
               /\ DOMAIN v \subseteq {RpFile(i) : i \in Slots}
               /\ IsFiniteSet(DOMAIN v)
               /\ \A f \in DOMAIN v : /\ d.flash[f] \in RpRecord
                                      /\ v[f] \in RpRecord
                                      /\ v[f].rp = d.flash[f].rp
                                      /\ v[f].count = d.flash[f].count
  BY OldRecords
<1>2. DOMAIN v \subseteq DOMAIN Contents /\ \A f \in DOMAIN v : v[f] \in Contents[f]
  BY <1>1, Names
<1>3. /\ \A f \in DOMAIN v : Read(e, f) = v[f]
      /\ \A f \in DOMAIN Contents \ DOMAIN v : Read(e, f) = Read(d, f)
  BY <1>1, <1>2, PutAllDisk
<1> HIDE DEF e
<1> SUFFICES ASSUME NEW j \in Slots
             PROVE  LET a == Now(d)[RpFile(j)]
                        b == Now(e)[RpFile(j)]
                    IN  (a = Absent <=> b = Absent) /\ (a # Absent => a.rp = b.rp /\ a.count = b.count)
  BY DEF SameRecords, e
<1>4. /\ RpFile(j) \in DOMAIN Contents
      /\ Now(d)[RpFile(j)] = d.flash[RpFile(j)] /\ Now(e)[RpFile(j)] = Read(e, RpFile(j))
      /\ Read(d, RpFile(j)) = d.flash[RpFile(j)]
  BY Names DEF Now
<1>5. CASE RpFile(j) \in DOMAIN v
  BY <1>1, <1>3, <1>4, <1>5, Told
<1>6. CASE RpFile(j) \notin DOMAIN v
  BY <1>3, <1>4, <1>6
<1> QED BY <1>5, <1>6

\* A power cut that cuts nothing off.
LEMMA PowerCycleOwed ==
    ASSUME StoreInv, AllOwed, mishaps' = mishaps, PowerCycle PROVE AllOwed'
<1> DEFINE d == Crashed(disk)
<1>1. mishaps \in Nat /\ StoreTypeOK /\ Sound(disk, AnyUser, Slots) /\ ram = Now(disk)
  BY Counting
<1>2. op = Idle /\ IsSettled(disk) /\ op' = Idle /\ disk' \in {d, credential_migrate_rp_secure(d)}
  BY <1>1 DEF PowerCycle
<1>3. /\ Sound(d, {}, Slots)
      /\ \A f \in Files : Read(d, f) = disk.flash[f]
  BY <1>1, SoundCrashed
<1>4. d.flash = disk.flash
  BY DEF Crashed, Settled
<1>5. \A f \in Files : Read(disk, f) = disk.flash[f]
  BY <1>1, <1>2, Names DEF Sound, IsDisk, IsSettled, Read
<1>6. Now(d) = Now(disk)
  BY <1>3, <1>5 DEF Now
<1>7. \A q \in RP : Owes(d, q, 0)
  BY <1>2, <1>6, NothingOwed DEF Owes
<1> HIDE DEF d
<1>8. \A q \in RP : Owes(credential_migrate_rp_secure(d), q, 0)
  <2> DEFINE e == credential_migrate_rp_secure(d)
  <2>1. SameRecords(Now(d), Now(e))
    BY <1>3, <1>4, MigratedRecords DEF Sound
  <2>2. \A i \in Slots : Read(e, CredFile(i)) = Read(d, CredFile(i))
    BY <1>3, SoundMigrated
  <2> HIDE DEF e
  <2>3. \A q : OfRp(Now(d), q) = OfRp(Now(e), q)
    <3>1. \A i \in Slots : Now(d)[CredFile(i)] = Now(e)[CredFile(i)]
      BY <2>2, Names DEF Now
    <3> QED BY <3>1, SameCreds
  <2>4. \A q \in RP : Owes(e, q, 0)
    BY <1>7, <2>1, <2>3, SameExact DEF Owes
  <2> QED BY <2>4 DEF e
<1>9. \A q : Due(ram', op', q) = 0
  BY <1>2 DEF Due
<1> QED BY <1>2, <1>7, <1>8, <1>9 DEF AllOwed

LEMMA InitOwed == ASSUME StoreInit PROVE AllOwed
<1>1. PICK w : \E cs \in [Slots -> {Absent} \cup Credential],
                  rs \in [Slots -> {Absent} \cup RpRecord] :
                 /\ LegacyStore(cs, rs)
                 /\ disk = Settled(w)
                 /\ w = [f \in DOMAIN Contents |-> w[f]]
                 /\ \A f \in DOMAIN Contents : w[f] \in Contents[f]
                 /\ w[StateFile] = Described(w)
                 /\ \A i \in Slots : w[CredFile(i)] = cs[i] /\ w[RpFile(i)] = rs[i]
  BY InitialStore
<1>2. PICK cs \in [Slots -> {Absent} \cup Credential],
           rs \in [Slots -> {Absent} \cup RpRecord] :
        LegacyStore(cs, rs) /\ \A i \in Slots : w[CredFile(i)] = cs[i] /\ w[RpFile(i)] = rs[i]
  BY <1>1
<1>3. Now(disk) = w
  <2>1. LET e == Settled(w)
        IN  /\ IsDisk(e, Contents)
            /\ \A f \in DOMAIN Contents : Read(e, f) = w[f] /\ Copies(e, f) = {w[f]}
    BY <1>1, SettledDisk
  <2> QED BY <1>1, <2>1, Names DEF Now
<1> DEFINE of(r) == {j \in Slots : cs[j] # Absent /\ cs[j].rp = r}
           served == {rs[i].rp : i \in {j \in Slots : rs[j] # Absent}}
<1>4. served = {cs[i].rp : i \in {j \in Slots : cs[j] # Absent}}
  BY <1>2 DEF LegacyStore
<1> SUFFICES ASSUME NEW r \in RP PROVE Owes(disk, r, 0)
  <2>1. op = Idle
    BY DEF StoreInit
  <2> QED BY <2>1 DEF AllOwed, Due
<1> DEFINE n == Cardinality(OfRp(w, r))
<1>5. OfRp(w, r) = of(r)
  <2>1. \A j \in Slots : cs[j] # Broken /\ w[CredFile(j)] = cs[j]
    BY <1>2, Told, AbsentAssumption DEF IsCred
  <2> QED BY <2>1 DEF OfRp, Stored
<1>6. n \in 0..MaxSlots /\ IsFiniteSet(of(r)) /\ n = Cardinality(of(r))
  BY <1>5, Finite, SlotCount
<1>7. n = 0 <=> of(r) = {}
  <2> HIDE DEF n, of
  <2> QED BY <1>6, FS_EmptySet
<1>8. RpRecords(w, r) = {} <=> of(r) = {}
  <2>1. RpRecords(w, r) # {} <=> r \in served
    BY <1>2 DEF RpRecords
  <2>2. of(r) # {} <=> r \in served
    BY <1>4
  <2> QED BY <2>1, <2>2
<1>9. Count(w, r) = IF n = CountMod THEN 0 ELSE n
  <2>1. CASE RpRecords(w, r) # {}
    <3> DEFINE i == Min(RpRecords(w, r))
    <3>1. RpRecords(w, r) \in SUBSET Slots
      BY DEF RpRecords
    <3>2. i \in RpRecords(w, r)
      BY <2>1, <3>1, LowestSlot
    <3>3. Count(w, r) = w[RpFile(i)].count
      BY <2>1 DEF Count
    <3> HIDE DEF i
    <3>4. i \in Slots /\ w[RpFile(i)] = rs[i] /\ rs[i] # Absent /\ rs[i].rp = r
      BY <1>2, <3>2 DEF RpRecords
    <3>5. rs[i] = [rp     |-> rs[i].rp,
                   count  |-> Cardinality(of(rs[i].rp)) % CountMod,
                   secure |-> FALSE]
      BY <1>2, <3>4 DEF LegacyStore
    <3>6. Count(w, r) = n % CountMod
      <4> HIDE DEF of, n
      <4>1. rs[i].count = Cardinality(of(rs[i].rp)) % CountMod
        BY <3>5
      <4> QED BY <1>6, <3>3, <3>4, <4>1
    <3>7. MaxSlots \in Nat /\ CountMod \in Nat \ {0, 1} /\ MaxSlots <= CountMod
      BY StoreAssumption, MgmtAssumption
    <3> HIDE DEF n
    <3>8. CASE n = CountMod
      <4>1. n % CountMod = 0
        BY <3>7, <3>8
      <4> QED BY <3>6, <3>8, <4>1
    <3>9. CASE n # CountMod
      <4>1. n \in Nat /\ n < CountMod
        BY <1>6, <3>7, <3>9
      <4>2. n % CountMod = n
        BY <3>7, <4>1
      <4> QED BY <3>6, <3>9, <4>2
    <3> QED BY <3>8, <3>9
  <2>2. CASE RpRecords(w, r) = {}
    <3>1. Count(w, r) = 0
      BY <2>2 DEF Count
    <3> HIDE DEF n
    <3> QED BY <1>7, <1>8, <2>2, <3>1, StoreAssumption
  <2> QED BY <2>1, <2>2
<1>10. n + 0 = n
  BY <1>6
<1>11. Exact(w, r, n)
  BY <1>6, <1>7, <1>8, <1>9 DEF Exact
<1> QED BY <1>3, <1>10, <1>11 DEF Owes, n

LEMMA NextExact ==
    ASSUME StoreInv, ExactInv, [StoreNext]_storeVars PROVE ExactInv'
<1>1. mishaps \in Nat /\ (mishaps' = mishaps \/ mishaps' = mishaps + 1)
  <2>1. mishaps \in Nat
    BY Counting
  <2> DEFINE more == mishaps + 1
             Stays == mishaps' \in {mishaps, more}
  <2>2. /\ \A d : Done(d) => Stays
        /\ \A d : Failed(d) => Stays
        /\ \A d, step, i, c : Waiting(d, step, i, c) => Stays
    BY DEF Done, Failed, Waiting
  <2>3. (UNCHANGED mishaps => Stays) /\ (PowerCycle => Stays)
    BY DEF PowerCycle
  <2> SUFFICES Stays
    BY <2>1
  <2> HIDE DEF more
  <2>4. ASSUME NEW r \in RP, NEW u \in User, NEW x \in Info, StoreAgain(r, u, x) PROVE Stays
    <3> DEFINE i == Min(OfUser(ram, r, u))
               f == CredFile(i)
               c == [NewCredential(r, u, x) EXCEPT !.legacy = ram[f].legacy]
    <3>1. \/ Done(Put(disk, f, c))
          \/ \E d \in {disk, Put(disk, f, Broken)} : Waiting(d, "records", i, c) \/ Failed(d)
      BY <2>4 DEF StoreAgain
    <3> HIDE DEF i, f, c
    <3> QED BY <2>2, <3>1
  <2>5. ASSUME NEW r \in RP, NEW u \in User, NEW x \in Info, StoreNew(r, u, x) PROVE Stays
    BY <2>2, <2>5 DEF StoreNew
  <2>6. /\ WriteManifest => Stays
        /\ WriteMarker => Stays
        /\ FinishStore => Stays
        /\ FinishInPlace => Stays
        /\ FinishDelete => Stays
    <3>1. ASSUME WriteManifest PROVE Stays
      <4>1. \E d : Waiting(d, "replace", op.slot, op.cred)
        BY <3>1 DEF WriteManifest
      <4> QED BY <2>2, <4>1
    <3>2. ASSUME WriteMarker PROVE Stays
      <4>1. \E d : Waiting(d, "store", op.slot, op.cred) \/ Failed(d)
        BY <3>2 DEF WriteMarker
      <4> QED BY <2>2, <4>1
    <3>3. ASSUME FinishStore PROVE Stays
      <4>1. \E d : Done(d) \/ Failed(d)
        BY <3>3 DEF FinishStore
      <4> QED BY <2>2, <4>1
    <3> QED BY <2>2, <3>1, <3>2, <3>3 DEF FinishInPlace, FinishDelete
  <2>7. ASSUME NEW i \in Slots, DeleteSingleFile(i) \/ DeleteContainer(i) PROVE Stays
    <3>1. ASSUME DeleteSingleFile(i) PROVE Stays
      <4>1. \E d : Done(d)
        BY <3>1 DEF DeleteSingleFile
      <4> QED BY <2>2, <4>1
    <3>2. ASSUME DeleteContainer(i) PROVE Stays
      <4>1. \E d, c : Waiting(d, "delete", i, c)
        BY <3>2 DEF DeleteContainer
      <4> QED BY <2>2, <4>1
    <3> QED BY <2>7, <3>1, <3>2
  <2>8. ASSUME NEW i \in Slots, NEW x \in Info, UpdateUser(i, x) PROVE Stays
    <3> DEFINE f == CredFile(i)
               c == [ram[f] EXCEPT !.info = x]
    <3>1. Done(Put(disk, f, c)) \/ Waiting(disk, "records", i, c)
      BY <2>8 DEF UpdateUser
    <3> HIDE DEF f, c
    <3> QED BY <2>2, <3>1
  <2>9. (CommitTimeout => Stays) /\ (Drain => Stays) /\ (UNCHANGED storeVars => Stays)
    <3>1. CommitTimeout => Stays
      BY <2>2 DEF CommitTimeout
    <3>2. (Drain => UNCHANGED mishaps) /\ (UNCHANGED storeVars => UNCHANGED mishaps)
      BY DEF Drain, storeVars
    <3> QED BY <2>3, <3>1, <3>2
  <2>10. CASE \E r \in RP, u \in User, x \in Info : StoreNew(r, u, x) \/ StoreAgain(r, u, x)
    BY <2>4, <2>5, <2>10
  <2>11. CASE \E i \in Slots : \/ DeleteSingleFile(i) \/ DeleteContainer(i)
                               \/ \E x \in Info : UpdateUser(i, x)
    BY <2>7, <2>8, <2>11
  <2>12. CASE UNCHANGED storeVars
    BY <2>9, <2>12
  <2> QED BY <2>3, <2>6, <2>9, <2>10, <2>11, <2>12 DEF StoreNext, StoreCommand
<1> SUFFICES ASSUME mishaps' = 0 PROVE AllOwed'
  BY DEF ExactInv
<1>2. mishaps' = mishaps /\ AllOwed
  BY <1>1 DEF ExactInv
<1>3. CASE \E r \in RP, u \in User, x \in Info : StoreNew(r, u, x) \/ StoreAgain(r, u, x)
  BY <1>2, <1>3, StoreNewOwed, StoreAgainOwed
<1>4. CASE WriteManifest \/ WriteMarker \/ FinishStore \/ FinishInPlace \/ FinishDelete
  BY <1>2, <1>4, WriteManifestOwed, WriteMarkerOwed, FinishStoreOwed, FinishInPlaceOwed,
     FinishDeleteOwed
<1>5. CASE \E i \in Slots : \/ DeleteSingleFile(i) \/ DeleteContainer(i)
                            \/ \E x \in Info : UpdateUser(i, x)
  BY <1>2, <1>5, DeleteSingleFileOwed, DeleteContainerOwed, UpdateUserOwed
<1>6. CASE CommitTimeout
  BY <1>2, <1>6, NotFailed DEF CommitTimeout
<1>7. CASE Drain \/ PowerCycle
  BY <1>2, <1>7, DrainOwed, PowerCycleOwed
<1>8. CASE UNCHANGED storeVars
  BY <1>2, <1>8 DEF storeVars, AllOwed, ram
<1> QED BY <1>3, <1>4, <1>5, <1>6, <1>7, <1>8 DEF StoreNext, StoreCommand

\* A platform that enumerates the relying parties to the end and then the
\* credentials of each sees every credential, on a device on which no command
\* has failed.  Only the credentials of a relying party that has all 256
\* slots are out of reach: its count reads 0 (credential_store).
THEOREM EveryCredentialReachableHolds == MgmtSpec => []EveryCredentialReachable
<1>1. ASSUME StoreInv, ExactInv, RpsInv PROVE EveryCredentialReachable
  <2> SUFFICES ASSUME op = Idle, mishaps = 0, rpsFresh, rp_counter > rp_total,
                      NEW i \in Stored(ram),
                      Cardinality(OfRp(ram, ram[CredFile(i)].rp)) # CountMod
               PROVE  ram[CredFile(i)].rp \in rpsGiven
    BY DEF EveryCredentialReachable
  <2> DEFINE r == ram[CredFile(i)].rp
             n == Cardinality(OfRp(ram, r))
             L == Listed(ram)
  <2>1. StoreTypeOK /\ Sound(disk, AnyUser, Slots) /\ ram = Now(disk)
    BY <1>1, Counting
  <2>2. r \in RP /\ i \in OfRp(ram, r)
    <3>1. i \in Slots /\ IsCred(ram[CredFile(i)])
      BY DEF Stored, IsCred
    <3>2. ram[CredFile(i)] \in Credential
      BY <2>1, <3>1, Seen, Told
    <3> QED BY <3>2 DEF OfRp, Credential
  <2>3. n \in Nat /\ n # 0
    BY <2>2, Finite, FS_EmptySet
  <2>4. Exact(ram, r, n + 0)
    BY <1>1, <2>1, <2>2, NothingOwed DEF ExactInv, Owes
  <2>5. RpRecords(ram, r) # {} /\ Count(ram, r) = n
    <3> HIDE DEF n
    <3>1. n + 0 = n
      BY <2>3
    <3>2. n # CountMod
      BY DEF n
    <3> QED BY <2>3, <2>4, <3>1, <3>2 DEF Exact
  <2>6. PICK j \in RpRecords(ram, r) : TRUE
    BY <2>5
  <2>7. ram[RpFile(j)].count = n
    <3>1. /\ j \in Slots
          /\ Count(Now(disk), r) = Read(disk, RpFile(j)).count
      BY <2>1, <2>6, CountIs
    <3> QED BY <1>1, <2>1, <2>5, <3>1, Counting
  <2>8. j \in L /\ ram[RpFile(j)].rp = r
    <3> HIDE DEF n
    <3>1. n > 0
      BY <2>3
    <3> QED BY <2>6, <2>7, <3>1 DEF RpRecords, Listed
  <2>9. First(L, rp_counter - 1) = L
    <3>1. L \in SUBSET Slots /\ Cardinality(L) \in Nat
      BY ListedSlots, SlotSets
    <3>2. rp_counter \in Nat \ {0} /\ rp_total = Cardinality(L) /\ rp_counter > rp_total
      BY <1>1 DEF RpsInv
    <3> HIDE DEF L
    <3>3. rp_counter - 1 \in Nat /\ Cardinality(L) <= rp_counter - 1
      BY <3>1, <3>2
    <3> QED BY <3>1, <3>3, FirstAll
  <2>10. rpsGiven = Named(ram, L)
    BY <1>1, <2>9 DEF RpsInv
  <2> QED BY <2>8, <2>10 DEF Named
<1>2. MgmtInit => ExactInv
  BY InitOwed DEF MgmtInit, ExactInv
<1>3. StoreInv /\ ExactInv /\ [MgmtNext]_mgmtVars => ExactInv'
  BY StepOfStore, NextExact
<1> QED BY <1>1, <1>2, <1>3, Enumerating, PTL DEF MgmtSpec
=============================================================================
