----------------------------- MODULE OtpProofs ------------------------------
(***************************************************************************)
(* The safety properties of Otp, for every number of slots and keys, every *)
(* range of the counters and every order of the flash writes.              *)
(***************************************************************************)
EXTENDS Otp, FlashQueueProofs

(* The inductive invariant.  A power cut tears every key of a slot with a  *)
(* write in the queue, so of the others only what is read matters; but for *)
(* keys that are not used yet, which are in no version of any slot.        *)

\* The key in slot i of the disk d, 0 if it is empty.
KeyAt(d, i) == IF Read(d, i) = NoData THEN 0 ELSE Read(d, i).key

OneSlot ==
    \A k \in Keys :
      /\ fate[k] \in {"live", "spoiled"} =>
           \E i \in Slots : \A j \in Slots : KeyAt(disk, j) = k <=> j = i
      /\ fate[k] = "gone" => \A j \in Slots : KeyAt(disk, j) # k

UnusedIsNew ==
    \A k \in Keys : fate[k] = "unused" =>
      /\ typed[k] = {}
      /\ \A i \in Slots : \A c \in Copies(disk, i) : c # NoData => c.key # k

\* What was typed for the key of the configuration c is behind it: the moving
\* factor, or the usage counter and the session counter s.  Only a usage
\* counter that has not been counted for this start (on is FALSE) may be as
\* high as one that was typed.
Behind(T, c, in, on, s) ==
    /\ T # {} => c.n >= 1
    /\ c.kind = "hotp" => \A t \in T : t[1] < c.n
    /\ c.kind = "yubico" =>
         /\ c.n <= MaxCounter
         /\ c.n >= 1 => c.long
         /\ in => \/ c.n = MaxCounter
                  \/ \A t \in T : IF on THEN t[1] < c.n \/ (t[1] = c.n /\ t[2] < s)
                                  ELSE t[1] <= c.n

TypedIsBehind ==
    \A i \in Slots :
      LET c == slot(i)
      IN  c # NoData /\ fate[c.key] = "live"
            => Behind(typed[c.key], c, i \in SessionSlots, c.key \notin uncounted, session[i])

UncountedIsWritten == \A k \in uncounted : fate[k] \in {"live", "spoiled", "torn"}

OtpInv == /\ OtpTypeOK
          /\ OneSlot
          /\ UnusedIsNew
          /\ TypedIsBehind
          /\ UncountedIsWritten

-----------------------------------------------------------------------------
(* Disks with slots on them.                                               *)

Holds == [i \in Slots |-> {NoData} \cup Configuration]

LEMMA SlotReads ==
    ASSUME NEW d, IsDisk(d, Holds), NEW i \in Slots
    PROVE  /\ Read(d, i) \in Copies(d, i)
           /\ Copies(d, i) \subseteq {NoData} \cup Configuration
           /\ Read(d, i) \in {NoData} \cup Configuration
           /\ Read(d, i) # NoData => Read(d, i) \in Configuration
           /\ KeyAt(d, i) \in {0} \cup Keys
           /\ KeyAt(d, i) = 0 <=> Read(d, i) = NoData
<1>1. DOMAIN Holds = Slots /\ Holds[i] = {NoData} \cup Configuration
  BY DEF Holds
<1>2. Read(d, i) \in Copies(d, i) /\ Copies(d, i) \subseteq Holds[i]
  BY <1>1, ReadIsCopy
<1>3. \A c \in Configuration : c.key \in Keys
  BY DEF Configuration
<1>4. 0 \notin Keys
  BY DEF Keys
<1> QED BY <1>1, <1>2, <1>3, <1>4 DEF KeyAt

LEMMA SlotWrite ==
    ASSUME NEW d, IsDisk(d, Holds), NEW i \in Slots, NEW c \in {NoData} \cup Configuration
    PROVE  LET e == Put(d, i, c)
           IN  /\ IsDisk(e, Holds)
               /\ Read(e, i) = c
               /\ Copies(e, i) = Copies(d, i) \cup {c}
               /\ \A j \in Slots \ {i} : Read(e, j) = Read(d, j) /\ Copies(e, j) = Copies(d, j)
<1>1. DOMAIN Holds = Slots /\ Holds[i] = {NoData} \cup Configuration
  BY DEF Holds
<1> QED BY <1>1, PutDisk

\* The configuration c after a start has been counted (init_otp).
Counted(c) == IF CountsStarts(c) THEN [c EXCEPT !.n = @ + 1] ELSE c

LEMMA CountedKeeps ==
    ASSUME NEW c \in {NoData} \cup Configuration
    PROVE  /\ Counted(c) = NoData <=> c = NoData
           /\ c # NoData => /\ Counted(c) \in Configuration
                            /\ Counted(c).key = c.key
                            /\ Counted(c).kind = c.kind
                            /\ Counted(c).long = c.long
                            /\ Counted(c).n = IF CountsStarts(c) THEN c.n + 1 ELSE c.n
<1>1. CountsStarts(c) => c # NoData
  BY DEF CountsStarts
<1>2. CASE c = NoData
  BY <1>1, <1>2 DEF Counted
<1>3. CASE c # NoData
  <2>1. c \in Configuration
    BY <1>3
  <2>2. [c EXCEPT !.n = @ + 1] \in Configuration
    BY <2>1 DEF Configuration
  <2> QED BY <1>3, <2>1, <2>2, NoDataAssumption DEF Counted, Configuration
<1> QED BY <1>2, <1>3

LEMMA StartedDisk ==
    ASSUME IsDisk(disk, Holds), NEW S, S \subseteq ToCount
    PROVE  LET e == Started(S)
           IN  /\ IsDisk(e, Holds)
               /\ \A i \in S : /\ Read(e, i) = Counted(slot(i))
                               /\ Copies(e, i) \subseteq Copies(disk, i) \cup {Counted(slot(i))}
               /\ \A i \in Slots \ S : Read(e, i) = slot(i) /\ Copies(e, i) = Copies(disk, i)
<1> DEFINE v == [i \in S |-> [slot(i) EXCEPT !.n = @ + 1]]
<1>1. DOMAIN Holds = Slots /\ \A i \in Slots : Holds[i] = {NoData} \cup Configuration
  BY DEF Holds
<1>2. DOMAIN v = S /\ S \subseteq Slots /\ IsFiniteSet(S)
  BY OtpAssumption, FS_Subset DEF ToCount
<1>3. \A i \in S : v[i] = Counted(slot(i)) /\ v[i] \in Holds[i]
  <2> TAKE i \in S
  <2>1. i \in Slots /\ CountsStarts(slot(i))
    BY DEF ToCount
  <2>2. v[i] = Counted(slot(i))
    BY <2>1 DEF Counted
  <2>3. slot(i) \in {NoData} \cup Configuration /\ slot(i) # NoData
    BY <2>1, SlotReads DEF CountsStarts, slot
  <2> HIDE DEF v
  <2> QED BY <1>1, <2>1, <2>2, <2>3, CountedKeeps
<1>4. Started(S) = PutAll(disk, v)
  BY DEF Started
<1> HIDE DEF v
<1>5. LET e == PutAll(disk, v)
      IN  /\ IsDisk(e, Holds)
          /\ \A f \in S : /\ Read(e, f) = v[f]
                          /\ Copies(e, f) = Copies(disk, f) \cup {v[f]}
          /\ \A f \in Slots \ S : Read(e, f) = Read(disk, f) /\ Copies(e, f) = Copies(disk, f)
  BY <1>1, <1>2, <1>3, PutAllDisk
<1> QED BY <1>3, <1>4, <1>5 DEF slot

\* What init_otp may leave: each slot as it was or counted, and a key off the
\* list of those that wait only if a slot of it was counted.
LEMMA StartedSlots ==
    ASSUME IsDisk(disk, Holds), NEW b \in Starts
    PROVE  /\ IsDisk(b.disk, Holds)
           /\ b.uncounted \subseteq uncounted
           /\ b.scanned \in BOOLEAN
           /\ \A i \in Slots :
                /\ Read(b.disk, i) \in {slot(i), Counted(slot(i))}
                /\ Copies(b.disk, i) \subseteq Copies(disk, i) \cup {Counted(slot(i))}
           /\ \A k \in uncounted \ b.uncounted :
                \/ \A i \in Slots : Read(b.disk, i) = Counted(slot(i))
                \/ \E i \in Slots : k = KeyAt(disk, i) /\ Read(b.disk, i) = Counted(slot(i))
<1>1. CASE scanned
  <2>1. b = [disk |-> disk, scanned |-> TRUE, uncounted |-> uncounted]
    BY <1>1 DEF Starts
  <2> QED BY <2>1 DEF slot
<1>2. CASE b = [disk |-> Started(ToCount), scanned |-> TRUE, uncounted |-> {}]
  <2>1. \A i \in Slots \ ToCount : Counted(slot(i)) = slot(i)
    BY DEF Counted, ToCount
  <2>2. /\ IsDisk(b.disk, Holds)
        /\ \A i \in ToCount :
             /\ Read(b.disk, i) = Counted(slot(i))
             /\ Copies(b.disk, i) \subseteq Copies(disk, i) \cup {Counted(slot(i))}
        /\ \A i \in Slots \ ToCount :
             Read(b.disk, i) = slot(i) /\ Copies(b.disk, i) = Copies(disk, i)
    BY <1>2, StartedDisk
  <2> QED BY <1>2, <2>1, <2>2
<1>3. ASSUME NEW S \in SUBSET ToCount,
             b = [disk |-> Started(S), scanned |-> FALSE, uncounted |-> uncounted \ KeysIn(S)]
      PROVE  /\ IsDisk(b.disk, Holds)
             /\ b.uncounted \subseteq uncounted
             /\ b.scanned \in BOOLEAN
             /\ \A i \in Slots :
                  /\ Read(b.disk, i) \in {slot(i), Counted(slot(i))}
                  /\ Copies(b.disk, i) \subseteq Copies(disk, i) \cup {Counted(slot(i))}
             /\ \A k \in uncounted \ b.uncounted :
                  \E i \in Slots : k = KeyAt(disk, i) /\ Read(b.disk, i) = Counted(slot(i))
  <2>1. /\ IsDisk(b.disk, Holds)
        /\ \A i \in S : /\ Read(b.disk, i) = Counted(slot(i))
                        /\ Copies(b.disk, i) \subseteq Copies(disk, i) \cup {Counted(slot(i))}
        /\ \A i \in Slots \ S : Read(b.disk, i) = slot(i) /\ Copies(b.disk, i) = Copies(disk, i)
    BY <1>3, StartedDisk
  <2>2. ASSUME NEW k \in uncounted \ b.uncounted
        PROVE  \E i \in Slots : k = KeyAt(disk, i) /\ Read(b.disk, i) = Counted(slot(i))
    <3>1. k \in KeysIn(S)
      BY <1>3
    <3>2. PICK i \in S : i \in Slots /\ slot(i) # NoData /\ slot(i).key = k
      BY <3>1 DEF KeysIn, Holding
    <3> QED BY <2>1, <3>2 DEF KeyAt, slot
  <2> QED BY <1>3, <2>1, <2>2
<1>4. \/ scanned
      \/ b = [disk |-> Started(ToCount), scanned |-> TRUE, uncounted |-> {}]
      \/ \E S \in SUBSET ToCount :
           b = [disk |-> Started(S), scanned |-> FALSE, uncounted |-> uncounted \ KeysIn(S)]
  BY DEF Starts
<1> QED BY <1>1, <1>2, <1>3, <1>4

LEMMA TypedDisk == ASSUME OtpTypeOK PROVE IsDisk(disk, Holds)
  BY DEF OtpTypeOK, Holds

\* A key in a slot has been written and not been removed.
LEMMA KeyInUse ==
    ASSUME OtpInv, NEW i \in Slots, KeyAt(disk, i) # 0
    PROVE  /\ KeyAt(disk, i) \in Keys
           /\ fate[KeyAt(disk, i)] \in {"live", "spoiled", "torn"}
           /\ slot(i) \in Configuration /\ slot(i).key = KeyAt(disk, i)
<1> DEFINE k == KeyAt(disk, i)
<1>1. IsDisk(disk, Holds) /\ fate \in [Keys -> Fates]
  BY TypedDisk DEF OtpInv, OtpTypeOK
<1>2. /\ k \in Keys /\ slot(i) \in Configuration /\ slot(i).key = k
      /\ slot(i) \in Copies(disk, i) /\ slot(i) # NoData
  BY <1>1, SlotReads DEF slot, KeyAt
<1>3. fate[k] # "unused"
  BY <1>2 DEF OtpInv, UnusedIsNew
<1>4. fate[k] # "gone"
  BY <1>2 DEF OtpInv, OneSlot
<1> QED BY <1>1, <1>2, <1>3, <1>4 DEF Fates

\* Two slots with one live key are one slot.
LEMMA LiveKeyInOneSlot ==
    ASSUME OtpInv, NEW i \in Slots, NEW j \in Slots, slot(i) # NoData, slot(j) # NoData,
           slot(i).key = slot(j).key, fate[slot(i).key] = "live"
    PROVE  i = j
<1>1. KeyAt(disk, i) = slot(i).key /\ KeyAt(disk, j) = slot(j).key
  BY DEF KeyAt, slot
<1>2. slot(i).key \in Keys
  BY TypedDisk, SlotReads DEF OtpInv, slot, KeyAt, Configuration
<1> QED BY <1>1, <1>2 DEF OtpInv, OneSlot

-----------------------------------------------------------------------------
(* Steps that leave every key in its slot.                                 *)

LEMMA InPlace ==
    ASSUME OtpInv, IsDisk(disk', Holds),
           \A i \in Slots : KeyAt(disk', i) = KeyAt(disk, i),
           \A i \in Slots : \A c \in Copies(disk', i) :
              c # NoData => \E a \in Copies(disk, i) : a # NoData /\ a.key = c.key,
           \A k \in Keys : \/ fate'[k] = fate[k]
                           \/ fate[k] \in {"live", "spoiled"} /\ fate'[k] = "spoiled",
           \A k \in Keys : fate[k] = "unused" => typed'[k] = typed[k]
    PROVE  OneSlot' /\ UnusedIsNew'
<1>1. OneSlot'
  <2> SUFFICES ASSUME NEW k \in Keys
               PROVE  /\ fate'[k] \in {"live", "spoiled"} =>
                           \E i \in Slots : \A j \in Slots : KeyAt(disk', j) = k <=> j = i
                      /\ fate'[k] = "gone" => \A j \in Slots : KeyAt(disk', j) # k
    BY DEF OneSlot
  <2> QED BY DEF OtpInv, OneSlot
<1>2. UnusedIsNew'
  <2> SUFFICES ASSUME NEW k \in Keys, fate'[k] = "unused"
               PROVE  /\ typed'[k] = {}
                      /\ \A i \in Slots : \A c \in Copies(disk', i) : c # NoData => c.key # k
    BY DEF UnusedIsNew
  <2>1. fate[k] = "unused"
    OBVIOUS
  <2> QED BY <2>1 DEF OtpInv, UnusedIsNew
<1> QED BY <1>1, <1>2

LEMMA BecomesType ==
    ASSUME OtpTypeOK, NEW K, NEW new \in Fates, Becomes(K, new)
    PROVE  /\ fate' \in [Keys -> Fates]
           /\ typed' \in [Keys -> SUBSET (Nat \X Nat)]
  BY DEF OtpTypeOK, Becomes

\* Keys in slots are spoiled.
LEMMA Spoil ==
    ASSUME OtpInv, NEW K, \A k \in K : fate[k] \in {"live", "spoiled", "torn"},
           Becomes(K, "spoiled")
    PROVE  /\ fate' \in [Keys -> Fates]
           /\ typed' \in [Keys -> SUBSET (Nat \X Nat)]
           /\ \A k \in Keys :
                /\ \/ fate'[k] = fate[k]
                   \/ fate[k] \in {"live", "spoiled"} /\ fate'[k] = "spoiled"
                /\ fate[k] = "unused" => typed'[k] = typed[k]
                /\ fate'[k] = "live" => fate[k] = "live" /\ k \notin K /\ typed'[k] = typed[k]
<1>1. "spoiled" \in Fates /\ OtpTypeOK
  BY DEF Fates, OtpInv
<1>2. \A k \in Keys : /\ fate'[k] = IF k \in K /\ fate[k] # "torn" THEN "spoiled" ELSE fate[k]
                      /\ typed'[k] = IF k \in K THEN {} ELSE typed[k]
  BY DEF Becomes
<1>3. \A k \in Keys : fate[k] = "unused" => typed[k] = {}
  BY DEF OtpInv, UnusedIsNew
<1> QED BY <1>1, <1>2, <1>3, BecomesType

\* A start that is not counted spoils every key that waits for it.
LEMMA StatusStep == ASSUME OtpInv, otp_status PROVE OtpInv'
<1>1. /\ Becomes(uncounted, "spoiled") /\ scanned' = TRUE /\ uncounted' = {}
      /\ disk' = disk /\ session' = session
  BY DEF otp_status, Scanned
<1>2. IsDisk(disk, Holds) /\ OtpTypeOK /\ TypedIsBehind
  BY TypedDisk DEF OtpInv
<1>3. /\ fate' \in [Keys -> Fates]
      /\ typed' \in [Keys -> SUBSET (Nat \X Nat)]
      /\ \A k \in Keys :
           /\ \/ fate'[k] = fate[k]
              \/ fate[k] \in {"live", "spoiled"} /\ fate'[k] = "spoiled"
           /\ fate[k] = "unused" => typed'[k] = typed[k]
           /\ fate'[k] = "live" => fate[k] = "live" /\ k \notin uncounted /\ typed'[k] = typed[k]
  BY <1>1, Spoil DEF OtpInv, UncountedIsWritten
<1>4. OtpTypeOK'
  BY <1>1, <1>2, <1>3 DEF OtpTypeOK
<1>5. OneSlot' /\ UnusedIsNew'
  BY <1>1, <1>2, <1>3, InPlace
<1>6. TypedIsBehind'
  <2> SUFFICES ASSUME NEW i \in Slots, slot(i) # NoData, fate'[slot(i).key] = "live"
               PROVE  Behind(typed'[slot(i).key], slot(i), i \in SessionSlots,
                             slot(i).key \notin {}, session[i])
    BY <1>1 DEF TypedIsBehind, slot
  <2>1. slot(i).key \in Keys
    BY <1>2, SlotReads DEF slot, Configuration
  <2>2. /\ fate[slot(i).key] = "live" /\ slot(i).key \notin uncounted
        /\ typed'[slot(i).key] = typed[slot(i).key]
    BY <1>3, <2>1
  <2>3. Behind(typed[slot(i).key], slot(i), i \in SessionSlots,
               slot(i).key \notin uncounted, session[i])
    BY <1>2, <2>2 DEF TypedIsBehind
  <2> QED BY <2>2, <2>3
<1>7. UncountedIsWritten'
  BY <1>1 DEF UncountedIsWritten
<1> QED BY <1>4, <1>5, <1>6, <1>7 DEF OtpInv

-----------------------------------------------------------------------------
(* Starts and presses.                                                     *)

\* A counted start is ahead of everything typed before it.
LEMMA CountedIsAhead ==
    ASSUME NEW T, T \subseteq Nat \X Nat, NEW c \in Configuration, NEW in, NEW s,
           NEW on \in BOOLEAN, Behind(T, c, in, on, s)
    PROVE  Behind(T, Counted(c), in, TRUE, s)
<1> DEFINE e == Counted(c)
<1>1. /\ e.kind = c.kind /\ e.long = c.long /\ c.n \in Nat
      /\ e.n = IF CountsStarts(c) THEN c.n + 1 ELSE c.n
  BY CountedKeeps, NoDataAssumption DEF Configuration
<1>2. MaxCounter \in Nat
  BY OtpAssumption
<1>3. CountsStarts(c) <=> c.kind = "yubico" /\ c.long /\ c.n + 1 <= MaxCounter
  BY NoDataAssumption DEF CountsStarts
<1>4. \A t \in T : t[1] \in Nat
  OBVIOUS
<1> HIDE DEF e
<1>5. c.kind = "hotp" => \A t \in T : t[1] < e.n
  BY <1>1, <1>3 DEF Behind
<1>6. T # {} => e.n >= 1
  BY <1>1 DEF Behind
<1>7. ASSUME c.kind = "yubico", in
      PROVE  e.n = MaxCounter \/ \A t \in T : t[1] < e.n
  <2>1. c.n <= MaxCounter /\ (T # {} => c.n >= 1 /\ c.long)
    BY <1>7 DEF Behind
  <2>2. c.n = MaxCounter \/ \A t \in T : t[1] <= c.n
    BY <1>1, <1>4, <1>7 DEF Behind
  <2>3. CASE c.n = MaxCounter
    <3>1. ~CountsStarts(c)
      BY <1>1, <1>2, <1>3, <2>3
    <3> QED BY <1>1, <2>3, <3>1
  <2>4. CASE c.n # MaxCounter /\ T # {}
    <3>1. CountsStarts(c)
      BY <1>1, <1>2, <1>3, <1>7, <2>1, <2>4
    <3>2. e.n = c.n + 1
      BY <1>1, <3>1
    <3> QED BY <1>1, <1>4, <2>2, <2>4, <3>2
  <2> QED BY <2>3, <2>4
<1>8. c.kind = "yubico" => e.n <= MaxCounter /\ (e.n >= 1 => e.long)
  BY <1>1, <1>2, <1>3 DEF Behind
<1>9. Behind(T, e, in, TRUE, s)
  BY <1>1, <1>5, <1>6, <1>7, <1>8 DEF Behind
<1> QED BY <1>9 DEF e

\* A counter that was counted need not have been.
LEMMA StaysBehind ==
    ASSUME NEW T, T \subseteq Nat \X Nat, NEW c \in Configuration, NEW in, NEW s,
           NEW on \in BOOLEAN, Behind(T, c, in, TRUE, s)
    PROVE  Behind(T, c, in, on, s)
<1>1. CASE on
  BY <1>1
<1>2. CASE ~on
  <2>1. \A t \in T : t[1] \in Nat
    OBVIOUS
  <2>2. c.n \in Nat
    BY DEF Configuration
  <2>3. \A t \in T : t[1] < c.n \/ (t[1] = c.n /\ t[2] < s) => t[1] <= c.n
    BY <2>1, <2>2
  <2> QED BY <1>2, <2>3 DEF Behind
<1> QED BY <1>1, <1>2

\* What init_otp leaves holds the same keys as before, and everything typed
\* is behind them.
LEMMA StartIsAhead ==
    ASSUME OtpInv, NEW b \in Starts, NEW i \in Slots
    PROVE  LET c == Read(b.disk, i)
           IN  /\ KeyAt(b.disk, i) = KeyAt(disk, i)
               /\ c = NoData <=> slot(i) = NoData
               /\ c # NoData => /\ c \in Configuration /\ c.key \in Keys
                                /\ c.key = slot(i).key /\ c.kind = slot(i).kind
                                /\ fate[c.key] \in {"live", "spoiled", "torn"}
               /\ c # NoData /\ fate[c.key] = "live" =>
                    Behind(typed[c.key], c, i \in SessionSlots, c.key \notin b.uncounted, session[i])
               /\ \A e \in Copies(b.disk, i) :
                    e # NoData => \E a \in Copies(disk, i) : a # NoData /\ a.key = e.key
<1>1. /\ IsDisk(disk, Holds) /\ OtpTypeOK /\ TypedIsBehind
      /\ slot(i) \in Copies(disk, i) /\ slot(i) \in {NoData} \cup Configuration
  BY TypedDisk, SlotReads DEF OtpInv, slot
<1>2. /\ Read(b.disk, i) \in {slot(i), Counted(slot(i))}
      /\ Copies(b.disk, i) \subseteq Copies(disk, i) \cup {Counted(slot(i))}
  BY <1>1, StartedSlots
<1>3. /\ Counted(slot(i)) = NoData <=> slot(i) = NoData
      /\ slot(i) # NoData => /\ Counted(slot(i)) \in Configuration
                             /\ Counted(slot(i)).key = slot(i).key
                             /\ Counted(slot(i)).kind = slot(i).kind
  BY <1>1, CountedKeeps
<1>4. slot(i) # NoData => slot(i).key \in Keys /\ slot(i).key # 0 /\ KeyAt(disk, i) = slot(i).key
  BY <1>1 DEF Configuration, Keys, KeyAt, slot
<1>5. slot(i) # NoData => fate[slot(i).key] \in {"live", "spoiled", "torn"}
  BY <1>4, KeyInUse
<1>6. ASSUME slot(i) # NoData, fate[slot(i).key] = "live"
      PROVE  Behind(typed[slot(i).key], Read(b.disk, i), i \in SessionSlots,
                    slot(i).key \notin b.uncounted, session[i])
  <2> DEFINE k == slot(i).key
             in == i \in SessionSlots
             on == k \notin uncounted
             onB == k \notin b.uncounted
  <2>1. Behind(typed[k], slot(i), in, on, session[i])
    BY <1>1, <1>6 DEF TypedIsBehind
  <2>2. /\ typed[k] \subseteq Nat \X Nat /\ slot(i) \in Configuration /\ on \in BOOLEAN
        /\ onB \in BOOLEAN
    BY <1>1, <1>4, <1>6 DEF OtpTypeOK
  <2>3. Counted(slot(i)) \in Configuration
    BY <1>3, <1>6
  <2>4. onB /\ ~on => Read(b.disk, i) = Counted(slot(i))
    <3> SUFFICES ASSUME k \in uncounted \ b.uncounted
                 PROVE  Read(b.disk, i) = Counted(slot(i))
      OBVIOUS
    <3>1. \/ \A j \in Slots : Read(b.disk, j) = Counted(slot(j))
          \/ \E j \in Slots : k = KeyAt(disk, j) /\ Read(b.disk, j) = Counted(slot(j))
      BY <1>1, StartedSlots
    <3>2. \A j \in Slots : k = KeyAt(disk, j) => j = i
      BY <1>4, <1>6 DEF OtpInv, OneSlot
    <3> QED BY <3>1, <3>2
  <2> HIDE DEF k, in, on, onB
  <2>5. CASE Read(b.disk, i) = Counted(slot(i))
    <3>1. Behind(typed[k], Counted(slot(i)), in, TRUE, session[i])
      BY <2>1, <2>2, CountedIsAhead
    <3>2. Behind(typed[k], Counted(slot(i)), in, onB, session[i])
      BY <2>2, <2>3, <3>1, StaysBehind
    <3> QED BY <2>5, <3>2 DEF k, in, onB
  <2>6. CASE Read(b.disk, i) # Counted(slot(i))
    <3>1. Read(b.disk, i) = slot(i)
      BY <1>2, <2>6
    <3>2. Behind(typed[k], slot(i), in, onB, session[i])
      <4>1. CASE on
        BY <2>1, <2>2, <4>1, StaysBehind
      <4>2. CASE ~on
        BY <2>1, <2>2, <2>4, <2>6, <4>2
      <4> QED BY <4>1, <4>2
    <3> QED BY <3>1, <3>2 DEF k, in, onB
  <2> QED BY <2>5, <2>6
<1>7. KeyAt(b.disk, i) = KeyAt(disk, i)
  BY <1>2, <1>3 DEF KeyAt, slot
<1>8. /\ Read(b.disk, i) = NoData <=> slot(i) = NoData
      /\ slot(i) # NoData => /\ Read(b.disk, i) \in Configuration
                             /\ Read(b.disk, i).key = slot(i).key
                             /\ Read(b.disk, i).kind = slot(i).kind
  BY <1>1, <1>2, <1>3
<1>9. \A e \in Copies(b.disk, i) :
        e # NoData => \E a \in Copies(disk, i) : a # NoData /\ a.key = e.key
  BY <1>1, <1>2, <1>3
<1> QED BY <1>4, <1>5, <1>6, <1>7, <1>8, <1>9

\* What init_otp leaves, perhaps with one configuration written: the
\* same key, its counter moved on.
LEMMA PressedDisk ==
    ASSUME OtpInv, NEW b \in Starts, NEW i \in Slots, Read(b.disk, i) # NoData, NEW e \in Configuration,
           e.key = Read(b.disk, i).key,
           \/ disk' = Put(b.disk, i, e)
           \/ disk' = b.disk /\ e = Read(b.disk, i)
    PROVE  /\ IsDisk(disk', Holds)
           /\ Read(disk', i) = e
           /\ \A j \in Slots \ {i} : Read(disk', j) = Read(b.disk, j)
           /\ \A j \in Slots : KeyAt(disk', j) = KeyAt(disk, j)
           /\ \A j \in Slots : \A c \in Copies(disk', j) :
                c # NoData => \E a \in Copies(disk, j) : a # NoData /\ a.key = c.key
<1>1. IsDisk(b.disk, Holds)
  BY TypedDisk, StartedSlots DEF OtpInv
<1>2. e # NoData /\ KeyAt(b.disk, i) = e.key
  BY NoDataAssumption DEF KeyAt
<1>3. /\ IsDisk(disk', Holds)
      /\ Read(disk', i) = e
      /\ Copies(disk', i) \subseteq Copies(b.disk, i) \cup {e}
      /\ \A j \in Slots \ {i} : Read(disk', j) = Read(b.disk, j) /\ Copies(disk', j) = Copies(b.disk, j)
  BY <1>1, SlotWrite
<1>4. \A j \in Slots : KeyAt(disk', j) = KeyAt(b.disk, j)
  BY <1>2, <1>3 DEF KeyAt
<1>5. Read(b.disk, i) \in Copies(b.disk, i)
  BY <1>1, SlotReads
<1>6. \A j \in Slots : KeyAt(disk', j) = KeyAt(disk, j)
  BY <1>4, StartIsAhead
<1>7. ASSUME NEW j \in Slots, NEW c \in Copies(disk', j), c # NoData
      PROVE  \E a \in Copies(disk, j) : a # NoData /\ a.key = c.key
  <2>1. PICK z \in Copies(b.disk, j) : z # NoData /\ z.key = c.key
    BY <1>3, <1>5, <1>7
  <2>2. PICK a \in Copies(disk, j) : a # NoData /\ a.key = z.key
    BY <2>1, StartIsAhead
  <2> QED BY <2>1, <2>2
<1> QED BY <1>3, <1>6, <1>7

\* Every slot but the pressed one i is as init_otp left it, and no other slot
\* has the key of i.
LEMMA OthersAhead ==
    ASSUME OtpInv, NEW b \in Starts, NEW i \in Slots, Read(b.disk, i) # NoData,
           uncounted' = b.uncounted,
           \A j \in Slots \ {i} : slot(j)' = Read(b.disk, j),
           \A j \in Slots \ {i} : j \in SessionSlots => session'[j] = session[j],
           \A k \in Keys : fate'[k] = "live" => fate[k] = "live",
           \A k \in Keys \ {Read(b.disk, i).key} : typed'[k] = typed[k],
           NEW j \in Slots \ {i}, slot(j)' # NoData, fate'[slot(j)'.key] = "live"
    PROVE  Behind(typed'[slot(j)'.key], slot(j)', j \in SessionSlots,
                  slot(j)'.key \notin uncounted', session'[j])
<1>1. /\ slot(j)' = Read(b.disk, j) /\ slot(j)'.key \in Keys
      /\ slot(j)'.key = slot(j).key /\ slot(j) # NoData
      /\ slot(i) # NoData /\ slot(i).key = Read(b.disk, i).key
  <2>1. slot(j)' = Read(b.disk, j) /\ Read(b.disk, j) # NoData /\ j \in Slots
    OBVIOUS
  <2>2. Read(b.disk, j).key \in Keys /\ Read(b.disk, j).key = slot(j).key /\ slot(j) # NoData
    BY <2>1, StartIsAhead
  <2>3. slot(i) # NoData /\ slot(i).key = Read(b.disk, i).key
    BY StartIsAhead
  <2> QED BY <2>1, <2>2, <2>3
<1>2. fate[slot(j).key] = "live"
  BY <1>1
<1>3. slot(j).key # slot(i).key
  BY <1>1, <1>2, LiveKeyInOneSlot
<1>4. Behind(typed[slot(j).key], slot(j)', j \in SessionSlots,
             slot(j).key \notin b.uncounted, session[j])
  BY <1>1, <1>2, StartIsAhead
<1>5. typed'[slot(j)'.key] = typed[slot(j).key]
  BY <1>1, <1>3
<1> QED BY <1>1, <1>4, <1>5 DEF Behind

LEMMA StartStep == ASSUME OtpInv, init_otp PROVE OtpInv'
<1>1. PICK b \in Starts : disk' = b.disk /\ StartIs(b)
  BY DEF init_otp
<1>2. /\ disk' = b.disk /\ scanned' = b.scanned /\ uncounted' = b.uncounted
      /\ session' = session /\ fate' = fate /\ typed' = typed
  BY <1>1 DEF init_otp, StartIs
<1>3. /\ OtpTypeOK /\ IsDisk(b.disk, Holds)
      /\ b.uncounted \subseteq uncounted /\ b.scanned \in BOOLEAN
      /\ \A i \in Slots : slot(i)' = Read(b.disk, i)
  BY <1>2, TypedDisk, StartedSlots DEF OtpInv, slot
<1>4. OtpTypeOK'
  BY <1>2, <1>3 DEF OtpTypeOK, Holds
<1>5. OneSlot' /\ UnusedIsNew'
  BY <1>2, <1>3, InPlace, StartIsAhead
<1>6. TypedIsBehind'
  <2> SUFFICES ASSUME NEW i \in Slots, slot(i)' # NoData, fate[slot(i)'.key] = "live"
               PROVE  Behind(typed[slot(i)'.key], slot(i)', i \in SessionSlots,
                             slot(i)'.key \notin b.uncounted, session[i])
    BY <1>2 DEF TypedIsBehind
  <2> QED BY <1>3, StartIsAhead
<1>7. UncountedIsWritten'
  BY <1>2, <1>3 DEF OtpInv, UncountedIsWritten
<1> QED BY <1>4, <1>5, <1>6, <1>7 DEF OtpInv

\* A press that spoils the key of its slot.
LEMMA SpoilingPress ==
    ASSUME OtpInv, NEW b \in Starts, NEW i \in Slots, Read(b.disk, i) # NoData,
           NEW w \in Configuration, w.key = Read(b.disk, i).key,
           \/ disk' = Put(b.disk, i, w)
           \/ disk' = b.disk /\ w = Read(b.disk, i),
           Becomes({Read(b.disk, i).key}, "spoiled"), StartIs(b),
           session' \in [SessionSlots -> 0..(SessionMod - 1)],
           \A j \in Slots \ {i} : j \in SessionSlots => session'[j] = session[j]
    PROVE  OtpInv'
<1> DEFINE c == Read(b.disk, i)
<1>1. /\ OtpTypeOK /\ b.uncounted \subseteq uncounted /\ b.scanned \in BOOLEAN
      /\ scanned' = b.scanned /\ uncounted' = b.uncounted
  BY TypedDisk, StartedSlots DEF OtpInv, StartIs
<1>2. /\ c \in Configuration /\ c.key \in Keys
      /\ fate[c.key] \in {"live", "spoiled", "torn"}
  BY StartIsAhead
<1>3. /\ fate' \in [Keys -> Fates]
      /\ typed' \in [Keys -> SUBSET (Nat \X Nat)]
      /\ \A k \in Keys :
           /\ \/ fate'[k] = fate[k]
              \/ fate[k] \in {"live", "spoiled"} /\ fate'[k] = "spoiled"
           /\ fate[k] = "unused" => typed'[k] = typed[k]
           /\ fate'[k] = "live" => fate[k] = "live" /\ k \notin {c.key} /\ typed'[k] = typed[k]
  <2> HIDE DEF c
  <2>1. \A k \in {c.key} : fate[k] \in {"live", "spoiled", "torn"}
    BY <1>2
  <2>2. Becomes({c.key}, "spoiled")
    BY DEF c
  <2> QED BY <2>1, <2>2, Spoil
<1>4. /\ IsDisk(disk', Holds)
      /\ Read(disk', i) = w
      /\ \A j \in Slots \ {i} : Read(disk', j) = Read(b.disk, j)
      /\ \A j \in Slots : KeyAt(disk', j) = KeyAt(disk, j)
      /\ \A j \in Slots : \A a \in Copies(disk', j) :
           a # NoData => \E z \in Copies(disk, j) : z # NoData /\ z.key = a.key
  BY PressedDisk
<1>5. OtpTypeOK'
  BY <1>1, <1>3, <1>4 DEF OtpTypeOK, Holds
<1>6. OneSlot' /\ UnusedIsNew'
  <2> HIDE DEF c
  <2> QED BY <1>3, <1>4, InPlace
<1>7. \A k \in Keys \ {c.key} : typed'[k] = typed[k]
  BY DEF Becomes
<1>8. TypedIsBehind'
  <2> SUFFICES ASSUME NEW j \in Slots, slot(j)' # NoData, fate'[slot(j)'.key] = "live"
               PROVE  Behind(typed'[slot(j)'.key], slot(j)', j \in SessionSlots,
                             slot(j)'.key \notin uncounted', session'[j])
    BY DEF TypedIsBehind
  <2>1. j # i
    BY <1>2, <1>3, <1>4 DEF slot
  <2>2. \A x \in Slots \ {i} : slot(x)' = Read(b.disk, x)
    BY <1>4 DEF slot
  <2>3. \A k \in Keys : fate'[k] = "live" => fate[k] = "live"
    BY <1>3
  <2> QED BY <1>1, <1>7, <2>1, <2>2, <2>3, OthersAhead
<1>9. UncountedIsWritten'
  <2>1. uncounted \subseteq Keys
    BY <1>1 DEF OtpTypeOK
  <2> QED BY <1>1, <1>3, <2>1 DEF OtpInv, UncountedIsWritten
<1> QED BY <1>5, <1>6, <1>8, <1>9 DEF OtpInv

LEMMA CounterWritten ==
    ASSUME NEW c \in Configuration, NEW n \in Nat
    PROVE  LET e == [c EXCEPT !.n = n, !.long = TRUE]
           IN  /\ e \in Configuration
               /\ e.key = c.key /\ e.kind = c.kind /\ e.n = n /\ e.long = TRUE
<1> DEFINE e == [c EXCEPT !.n = n, !.long = TRUE]
<1>1. e \in Configuration
  BY DEF Configuration
<1>2. e.key = c.key /\ e.kind = c.kind
  BY DEF Configuration
<1>3. e.n = n /\ e.long = TRUE
  BY DEF Configuration
<1> QED BY <1>1, <1>2, <1>3

\* The factor a HOTP slot types is behind the one it keeps then.
LEMMA HotpTypes ==
    ASSUME NEW T, T \subseteq Nat \X Nat, NEW c \in Configuration, c.kind = "hotp",
           NEW in, NEW s, NEW z, Behind(T, c, in, TRUE, s), NEW e \in Configuration,
           e.kind = "hotp", e.n = Factor(c) + 1
    PROVE  /\ Behind(T \cup {<<Factor(c), 0>>}, e, in, TRUE, z)
           /\ <<Factor(c), 0>> \notin T
<1>1. Factor(c) \in Nat /\ (T # {} => Factor(c) = c.n)
  BY DEF Factor, UidFactor, Behind, Configuration
<1>2. \A t \in T : t[1] \in Nat /\ t[1] < Factor(c)
  BY <1>1 DEF Behind
<1>3. \A t \in T \cup {<<Factor(c), 0>>} : t[1] < e.n
  BY <1>1, <1>2
<1> QED BY <1>1, <1>2, <1>3 DEF Behind

LEMMA PressHotpStep == ASSUME OtpInv, NEW i \in Slots, PressHotp(i) PROVE OtpInv'
<1>0. PICK b \in Starts, stored \in BOOLEAN :
         LET c == Read(b.disk, i)
             d == Put(b.disk, i, [c EXCEPT !.n = Factor(c) + 1, !.long = TRUE])
         IN  /\ c # NoData
             /\ c.kind = "hotp"
             /\ Factor(c) < MaxImf
             /\ disk' = IF stored THEN d ELSE b.disk
             /\ IF stored THEN Typed(c.key, Factor(c), 0) ELSE Becomes({c.key}, "spoiled")
             /\ StartIs(b)
  BY DEF PressHotp
<1> DEFINE c == Read(b.disk, i)
           e == [c EXCEPT !.n = Factor(c) + 1, !.long = TRUE]
<1>1. /\ c # NoData /\ c.kind = "hotp"
      /\ disk' = IF stored THEN Put(b.disk, i, e) ELSE b.disk
      /\ IF stored THEN Typed(c.key, Factor(c), 0) ELSE Becomes({c.key}, "spoiled")
      /\ StartIs(b) /\ session' = session
  BY <1>0 DEF PressHotp
<1>2. /\ OtpTypeOK /\ b.uncounted \subseteq uncounted /\ b.scanned \in BOOLEAN
      /\ scanned' = b.scanned /\ uncounted' = b.uncounted
  BY <1>1, TypedDisk, StartedSlots DEF OtpInv, StartIs
<1>3. /\ c \in Configuration /\ c.key \in Keys /\ Factor(c) \in Nat
      /\ fate[c.key] \in {"live", "spoiled", "torn"}
      /\ fate[c.key] = "live" =>
           Behind(typed[c.key], c, i \in SessionSlots, c.key \notin b.uncounted, session[i])
  BY <1>1, StartIsAhead DEF Factor, UidFactor, Configuration
<1>4. CASE ~stored
  <2>1. Becomes({c.key}, "spoiled") /\ disk' = b.disk
    BY <1>1, <1>4
  <2>2. session' \in [SessionSlots -> 0..(SessionMod - 1)]
    BY <1>1, <1>2 DEF OtpTypeOK
  <2> QED BY <1>1, <1>3, <2>1, <2>2, SpoilingPress
<1>5. CASE stored
  <2>1. e \in Configuration /\ e.key = c.key /\ e.kind = "hotp" /\ e.n = Factor(c) + 1
    <3> HIDE DEF c
    <3>1. Factor(c) + 1 \in Nat
      BY <1>3
    <3> QED BY <1>1, <1>3, <3>1, CounterWritten
  <2>2. /\ fate' = fate
        /\ typed' = IF fate[c.key] = "live" THEN [typed EXCEPT ![c.key] = @ \cup {<<Factor(c), 0>>}]
                    ELSE typed
        /\ disk' = Put(b.disk, i, e)
    BY <1>1, <1>5 DEF Typed
  <2> HIDE DEF e, c
  <2>3. /\ typed' \in [Keys -> SUBSET (Nat \X Nat)]
        /\ \A k \in Keys \ {c.key} : typed'[k] = typed[k]
        /\ fate[c.key] = "live" => typed'[c.key] = typed[c.key] \cup {<<Factor(c), 0>>}
        /\ fate[c.key] # "live" => typed'[c.key] = typed[c.key]
    BY <1>2, <1>3, <2>2 DEF OtpTypeOK
  <2>4. /\ IsDisk(disk', Holds)
        /\ Read(disk', i) = e
        /\ \A j \in Slots \ {i} : Read(disk', j) = Read(b.disk, j)
        /\ \A j \in Slots : KeyAt(disk', j) = KeyAt(disk, j)
        /\ \A j \in Slots : \A a \in Copies(disk', j) :
             a # NoData => \E z \in Copies(disk, j) : z # NoData /\ z.key = a.key
    BY <1>1, <2>1, <2>2, PressedDisk DEF c
  <2>5. OtpTypeOK'
    BY <1>1, <1>2, <2>2, <2>3, <2>4 DEF OtpTypeOK, Holds
  <2>6. OneSlot' /\ UnusedIsNew'
    BY <1>3, <2>2, <2>3, <2>4, InPlace
  <2>7. TypedIsBehind'
    <3> SUFFICES ASSUME NEW j \in Slots, slot(j)' # NoData, fate'[slot(j)'.key] = "live"
                 PROVE  Behind(typed'[slot(j)'.key], slot(j)', j \in SessionSlots,
                               slot(j)'.key \notin uncounted', session'[j])
      BY DEF TypedIsBehind
    <3>1. CASE j = i
      <4>1. slot(j)' = e /\ fate[c.key] = "live"
        BY <2>1, <2>2, <2>4, <3>1 DEF slot
      <4>2. typed[c.key] \subseteq Nat \X Nat
        BY <1>2, <1>3 DEF OtpTypeOK
      <4> DEFINE T == typed[c.key]
      <4>3. T \subseteq Nat \X Nat /\ c \in Configuration /\ c.kind = "hotp"
        BY <1>1, <1>3, <4>2
      <4>4. Behind(T, c, i \in SessionSlots, TRUE, session[i])
        BY <1>3, <4>1, <4>3 DEF Behind
      <4> HIDE DEF T
      <4>5. Behind(T \cup {<<Factor(c), 0>>}, e, i \in SessionSlots, TRUE, session'[j])
        BY <2>1, <4>3, <4>4, HotpTypes
      <4>6. Behind(T \cup {<<Factor(c), 0>>}, e, i \in SessionSlots,
                   c.key \notin b.uncounted, session'[j])
        BY <2>1, <4>5 DEF Behind
      <4> QED BY <1>1, <1>2, <2>1, <2>3, <3>1, <4>1, <4>6 DEF T
    <3>2. CASE j # i
      <4>1. \A x \in Slots \ {i} : slot(x)' = Read(b.disk, x)
        BY <2>4 DEF slot
      <4> QED BY <1>1, <1>2, <2>2, <2>3, <3>2, <4>1, OthersAhead DEF c
    <3> QED BY <3>1, <3>2
  <2>8. UncountedIsWritten'
    BY <1>2, <2>2 DEF OtpInv, UncountedIsWritten
  <2> QED BY <2>5, <2>6, <2>7, <2>8 DEF OtpInv
<1> QED BY <1>4, <1>5

\* A press of a Yubico slot with session counter s: what it types is new and
\* behind what the slot keeps then.
LEMMA YubicoTypes ==
    ASSUME NEW T, T \subseteq Nat \X Nat, NEW c \in Configuration, c.kind = "yubico",
           NEW s \in 0..(SessionMod - 1), Behind(T, c, TRUE, TRUE, s),
           NEW e \in Configuration, e.kind = "yubico",
           e.n = Advanced(c, (s + 1) % SessionMod),
           e.long = TRUE \/ e = c
    PROVE  /\ Behind(T \cup {<<UsageCounter(c), s>>}, e, TRUE, TRUE, (s + 1) % SessionMod)
           /\ c.n # MaxCounter => <<UsageCounter(c), s>> \notin T
<1> DEFINE u == UsageCounter(c)
           z == (s + 1) % SessionMod
<1>1. SessionMod \in Nat /\ SessionMod >= 2 /\ MaxCounter \in Nat /\ MaxCounter >= 1
  BY OtpAssumption
<1>2. z = IF s + 1 = SessionMod THEN 0 ELSE s + 1
  <2>1. CASE s + 1 = SessionMod
    BY <1>1, <2>1
  <2>2. CASE s + 1 # SessionMod
    BY <1>1, <2>2
  <2> QED BY <2>1, <2>2
<1>3. /\ c.n \in Nat /\ e.n \in Nat /\ s \in Nat
      /\ c.n <= MaxCounter /\ (c.n >= 1 => c.long) /\ (T # {} => c.n >= 1)
      /\ \/ c.n = MaxCounter
         \/ \A t \in T : t[1] < c.n \/ (t[1] = c.n /\ t[2] < s)
  BY <1>1 DEF Configuration, Behind
<1>4. /\ u \in Nat /\ u >= 1 /\ u <= MaxCounter
      /\ u = IF c.n = 0 THEN 1 ELSE c.n
  BY <1>1, <1>3 DEF UsageCounter
<1>5. e.n = IF z = 0 /\ u + 1 <= MaxCounter THEN u + 1 ELSE u
  BY DEF Advanced
<1>6. \A t \in T : t[1] \in Nat /\ t[2] \in Nat
  OBVIOUS
<1>7. <<u, s>>[1] = u /\ <<u, s>>[2] = s
  OBVIOUS
<1> HIDE DEF u, z
<1>8. e.n >= 1 /\ e.n <= MaxCounter
  BY <1>1, <1>4, <1>5
<1>9. e.long
  BY <1>3, <1>8
<1>10. CASE c.n = MaxCounter
  <2>1. u = MaxCounter
    BY <1>1, <1>4, <1>10
  <2>2. e.n = MaxCounter
    BY <1>1, <1>5, <2>1
  <2> QED BY <1>8, <1>9, <1>10, <2>2 DEF Behind, u, z
<1>11. CASE c.n # MaxCounter
  <2>1. \A t \in T : t[1] < u \/ (t[1] = u /\ t[2] < s)
    BY <1>3, <1>4, <1>6, <1>11
  <2>2. <<u, s>> \notin T
    BY <1>3, <1>4, <1>6, <1>7, <2>1
  <2>3. CASE e.n = MaxCounter
    BY <1>8, <1>9, <1>11, <2>2, <2>3 DEF Behind, u, z
  <2>4. CASE e.n # MaxCounter
    <3>1. z = 0 => e.n = u + 1
      BY <1>1, <1>4, <1>5, <2>4
    <3>2. z # 0 => e.n = u /\ z = s + 1
      BY <1>2, <1>5
    <3>3. z = 0 \/ z # 0
      OBVIOUS
    <3>4. ASSUME NEW t \in T \cup {<<u, s>>}
          PROVE  t[1] < e.n \/ (t[1] = e.n /\ t[2] < z)
      <4>1. t[1] \in Nat /\ t[2] \in Nat
        BY <1>3, <1>4, <1>6, <1>7
      <4>2. t[1] < u \/ (t[1] = u /\ t[2] <= s)
        BY <1>3, <1>4, <1>7, <2>1, <4>1
      <4> QED BY <1>3, <1>4, <3>1, <3>2, <3>3, <4>1, <4>2
    <3>5. Behind(T \cup {<<u, s>>}, e, TRUE, TRUE, z)
      BY <1>8, <1>9, <3>4 DEF Behind
    <3> QED BY <2>2, <3>5 DEF u, z
  <2> QED BY <2>3, <2>4
<1> QED BY <1>10, <1>11

LEMMA AdvancedType ==
    ASSUME NEW c \in Configuration, NEW s
    PROVE  UsageCounter(c) \in Nat /\ Advanced(c, s) \in Nat
  BY DEF UsageCounter, Advanced, Configuration

\* What a press leaves of its slot: the configuration, or its usage counter
\* moved on.
LEMMA PressedWrites ==
    ASSUME NEW d, NEW i \in Slots, Read(d, i) \in Configuration, NEW s
    PROVE  LET c == Read(d, i)
               n == Advanced(c, (s + 1) % SessionMod)
           IN  \E w \in Configuration : /\ w.key = c.key /\ w.kind = c.kind /\ w.n = n
                                        /\ w.long = TRUE \/ w = c
                                        /\ \/ Pressed(d, i, s) = Put(d, i, w)
                                           \/ Pressed(d, i, s) = d /\ w = c
<1> DEFINE c == Read(d, i)
           n == Advanced(c, (s + 1) % SessionMod)
           e == [c EXCEPT !.n = n, !.long = TRUE]
<1>1. e \in Configuration /\ e.key = c.key /\ e.kind = c.kind /\ e.n = n /\ e.long = TRUE
  BY AdvancedType, CounterWritten
<1>2. Pressed(d, i, s) = Replaced(d, i, IF n # c.n THEN e ELSE c)
  BY DEF Pressed
<1> HIDE DEF e, n
<1>3. CASE n # c.n
  <2>1. Pressed(d, i, s) = Put(d, i, e)
    BY <1>1, <1>2, <1>3 DEF Replaced
  <2> QED BY <1>1, <2>1 DEF n
<1>4. CASE n = c.n
  <2>1. Pressed(d, i, s) = d
    BY <1>2, <1>4 DEF Replaced
  <2> QED BY <1>4, <2>1 DEF n
<1> QED BY <1>3, <1>4

LEMMA PressYubicoStep == ASSUME OtpInv, NEW i \in Slots, PressYubico(i) PROVE OtpInv'
<1>0. PICK b \in Starts, stored \in BOOLEAN :
         LET c == Read(b.disk, i)
         IN  /\ TypeYubico(b, i, session[i], stored)
             /\ IF stored /\ c.key \notin b.uncounted
                THEN Typed(c.key, UsageCounter(c), session[i])
                ELSE Becomes({c.key}, "spoiled")
  BY DEF PressYubico
<1> DEFINE c == Read(b.disk, i)
           s == session[i]
           n == Advanced(c, (s + 1) % SessionMod)
           password == <<UsageCounter(c), s>>
<1>1. /\ c # NoData /\ c.kind = "yubico"
      /\ disk' = IF stored THEN Pressed(b.disk, i, s) ELSE b.disk
      /\ IF stored /\ c.key \notin b.uncounted THEN Typed(c.key, UsageCounter(c), s)
                                               ELSE Becomes({c.key}, "spoiled")
      /\ i \in SessionSlots /\ StartIs(b)
      /\ session' = [session EXCEPT ![i] = (s + 1) % SessionMod]
  BY <1>0 DEF PressYubico, TypeYubico
<1>2. /\ OtpTypeOK /\ b.uncounted \subseteq uncounted /\ b.scanned \in BOOLEAN
      /\ scanned' = b.scanned /\ uncounted' = b.uncounted
  BY <1>1, TypedDisk, StartedSlots DEF OtpInv, StartIs
<1>3. /\ s \in 0..(SessionMod - 1) /\ (s + 1) % SessionMod \in 0..(SessionMod - 1)
      /\ session' \in [SessionSlots -> 0..(SessionMod - 1)]
      /\ session'[i] = (s + 1) % SessionMod
      /\ \A j \in SessionSlots \ {i} : session'[j] = session[j]
  <2>1. SessionMod \in Nat /\ SessionMod >= 2
    BY OtpAssumption
  <2>2. s \in 0..(SessionMod - 1) /\ session \in [SessionSlots -> 0..(SessionMod - 1)]
    BY <1>1, <1>2 DEF OtpTypeOK
  <2>3. (s + 1) % SessionMod \in 0..(SessionMod - 1)
    BY <2>1, <2>2
  <2> HIDE DEF s
  <2> QED BY <1>1, <2>2, <2>3
<1>4. /\ c \in Configuration /\ c.key \in Keys
      /\ fate[c.key] \in {"live", "spoiled", "torn"}
      /\ fate[c.key] = "live" =>
           Behind(typed[c.key], c, i \in SessionSlots, c.key \notin b.uncounted, session[i])
  BY <1>1, StartIsAhead
<1>5. PICK w \in Configuration : /\ w.key = c.key /\ w.kind = "yubico"
                                 /\ stored => w.n = n /\ (w.long = TRUE \/ w = c)
                                 /\ \/ disk' = Put(b.disk, i, w)
                                    \/ disk' = b.disk /\ w = c
  <2>1. \E w \in Configuration : /\ w.key = c.key /\ w.kind = c.kind /\ w.n = n
                                 /\ w.long = TRUE \/ w = c
                                 /\ \/ Pressed(b.disk, i, s) = Put(b.disk, i, w)
                                    \/ Pressed(b.disk, i, s) = b.disk /\ w = c
    BY <1>4, PressedWrites
  <2> HIDE DEF c, n, s
  <2>2. CASE stored
    BY <1>1, <2>1, <2>2
  <2>3. CASE ~stored
    BY <1>1, <1>4, <2>3
  <2> QED BY <2>2, <2>3
<1> HIDE DEF n
<1>6. CASE Becomes({c.key}, "spoiled")
  <2>1. \A j \in Slots \ {i} : j \in SessionSlots => session'[j] = session[j]
    BY <1>3
  <2> QED BY <1>1, <1>3, <1>5, <1>6, <2>1, SpoilingPress
<1>7. CASE stored /\ c.key \notin b.uncounted
  <2>1. password \in Nat \X Nat
    BY <1>3, <1>4, AdvancedType
  <2>2. /\ fate' = fate
        /\ typed' = IF fate[c.key] = "live" THEN [typed EXCEPT ![c.key] = @ \cup {password}]
                    ELSE typed
    BY <1>1, <1>7 DEF Typed
  <2>3. typed \in [Keys -> SUBSET (Nat \X Nat)]
    BY <1>2 DEF OtpTypeOK
  <2>4. /\ typed' \in [Keys -> SUBSET (Nat \X Nat)]
        /\ \A k \in Keys \ {c.key} : typed'[k] = typed[k]
        /\ fate[c.key] = "live" => typed'[c.key] = typed[c.key] \cup {password}
        /\ fate[c.key] # "live" => typed'[c.key] = typed[c.key]
    <3> HIDE DEF c, password
    <3> QED BY <1>4, <2>1, <2>2, <2>3
  <2>5. /\ IsDisk(disk', Holds)
        /\ Read(disk', i) = w
        /\ \A j \in Slots \ {i} : Read(disk', j) = Read(b.disk, j)
        /\ \A j \in Slots : KeyAt(disk', j) = KeyAt(disk, j)
        /\ \A j \in Slots : \A a \in Copies(disk', j) :
             a # NoData => \E z \in Copies(disk, j) : z # NoData /\ z.key = a.key
    BY <1>1, <1>5, PressedDisk
  <2>6. OtpTypeOK'
    BY <1>2, <1>3, <2>2, <2>4, <2>5 DEF OtpTypeOK, Holds
  <2>7. OneSlot' /\ UnusedIsNew'
    <3> HIDE DEF c, password
    <3> QED BY <1>4, <2>2, <2>4, <2>5, InPlace
  <2>8. TypedIsBehind'
    <3> SUFFICES ASSUME NEW j \in Slots, slot(j)' # NoData, fate'[slot(j)'.key] = "live"
                 PROVE  Behind(typed'[slot(j)'.key], slot(j)', j \in SessionSlots,
                               slot(j)'.key \notin uncounted', session'[j])
      BY DEF TypedIsBehind
    <3>1. CASE j = i
      <4> HIDE DEF c, s
      <4>1. slot(j)' = w /\ fate[c.key] = "live"
        BY <1>5, <2>2, <2>5, <3>1 DEF slot
      <4>2. typed[c.key] \subseteq Nat \X Nat
        BY <1>4, <2>3
      <4>3. Behind(typed[c.key], c, TRUE, TRUE, s)
        BY <1>1, <1>4, <1>7, <4>1 DEF s
      <4>4. w.n = Advanced(c, (s + 1) % SessionMod) /\ (w.long = TRUE \/ w = c)
        BY <1>5, <1>7 DEF n
      <4>5. Behind(typed[c.key] \cup {password}, w, TRUE, TRUE, (s + 1) % SessionMod)
        BY <1>1, <1>3, <1>4, <1>5, <4>2, <4>3, <4>4, YubicoTypes
      <4>6. slot(j)'.key \notin uncounted' /\ (j \in SessionSlots) = TRUE
        BY <1>1, <1>2, <1>5, <1>7, <3>1, <4>1
      <4> QED BY <1>3, <1>5, <2>4, <3>1, <4>1, <4>5, <4>6
    <3>2. CASE j # i
      <4>1. \A x \in Slots \ {i} : slot(x)' = Read(b.disk, x)
        BY <2>5 DEF slot
      <4> QED BY <1>1, <1>2, <1>3, <2>2, <2>4, <3>2, <4>1, OthersAhead, ZenonT(60)
    <3> QED BY <3>1, <3>2
  <2>9. UncountedIsWritten'
    BY <1>2, <2>2 DEF OtpInv, UncountedIsWritten
  <2> QED BY <2>6, <2>7, <2>8, <2>9 DEF OtpInv
<1> QED BY <1>1, <1>6, <1>7

LEMMA PressPastSessionStep == ASSUME OtpInv, NEW i \in Slots, PressPastSession(i) PROVE OtpInv'
<1>1. PICK b \in Starts, s \in 0..(SessionMod - 1), stored \in BOOLEAN :
         TypeYubico(b, i, s, stored) /\ Becomes({Read(b.disk, i).key}, "spoiled")
  BY DEF PressPastSession
<1> DEFINE c == Read(b.disk, i)
<1>2. /\ c # NoData /\ session' = session /\ StartIs(b)
      /\ disk' = IF stored THEN Pressed(b.disk, i, s) ELSE b.disk
  BY <1>1 DEF PressPastSession, TypeYubico
<1>3. c \in Configuration
  BY <1>2, StartIsAhead
<1>4. PICK w \in Configuration : /\ w.key = c.key
                                 /\ \/ disk' = Put(b.disk, i, w)
                                    \/ disk' = b.disk /\ w = c
  <2>1. \E w \in Configuration : /\ w.key = c.key
                                 /\ \/ Pressed(b.disk, i, s) = Put(b.disk, i, w)
                                    \/ Pressed(b.disk, i, s) = b.disk /\ w = c
    BY <1>3, PressedWrites
  <2> HIDE DEF c
  <2> QED BY <1>2, <1>3, <2>1
<1>5. session' \in [SessionSlots -> 0..(SessionMod - 1)]
  BY <1>2 DEF OtpInv, OtpTypeOK
<1> QED BY <1>1, <1>2, <1>4, <1>5, SpoilingPress

-----------------------------------------------------------------------------
(* The commands.                                                           *)

\* The key that a command writes is the least unused one; 0 stands for none.
Writes(add, new) ==
    /\ add => /\ new \in Keys /\ fate[new] = "unused"
              /\ \A j \in Keys : j < new => fate[j] # "unused"
    /\ ~add => new = 0

\* What becomes of the keys when the key of slot i is replaced with new.
KeysReplaced(i, new) ==
    /\ fate' \in [Keys -> Fates]
    /\ typed' \in [Keys -> SUBSET (Nat \X Nat)]
    /\ \A k \in Keys :
         /\ k = new => fate'[k] = "live" /\ typed'[k] = {} /\ fate[k] = "unused"
         /\ k # new /\ KeyAt(disk, i) = k => fate'[k] \in {"gone", "torn"}
         /\ k # new /\ KeyAt(disk, i) # k =>
              /\ \/ fate'[k] = fate[k]
                 \/ fate[k] \in {"live", "spoiled"} /\ fate'[k] = "spoiled"
              /\ fate[k] = "unused" => typed'[k] = {}
              /\ fate'[k] = "live" => /\ fate[k] = "live" /\ k \notin uncounted
                                      /\ typed'[k] = typed[k]

LEMMA ReplacedKeys ==
    ASSUME OtpInv, NEW i \in Slots, NEW add \in BOOLEAN, Replace({i}, add), NEW new,
           Writes(add, new)
    PROVE  KeysReplaced(i, new)
<1> USE DEF Writes
<1> DEFINE unused == {k \in Keys : fate[k] = "unused"} \cup {MaxKeys + 1}
           least == Min(unused)
<1>1. /\ fate \in [Keys -> Fates] /\ typed \in [Keys -> SUBSET (Nat \X Nat)]
      /\ MaxKeys \in Nat
  BY OtpAssumption DEF OtpInv, OtpTypeOK
<1>2. add => least = new
  <2> SUFFICES ASSUME add PROVE least = new
    OBVIOUS
  <2>1. /\ new \in unused /\ \A k \in unused : new <= k
        /\ \A k \in unused : k \in Nat
    BY <1>1 DEF Keys
  <2>2. \A x \in unused : (\A k \in unused : x <= k) => x = new
    BY <2>1
  <2> HIDE DEF unused
  <2>3. Min(unused) \in unused /\ \A k \in unused : Min(unused) <= k
    BY <2>1 DEF Min
  <2> QED BY <2>2, <2>3
<1>3. /\ fate' = [k \in Keys |-> IF fate[k] = "torn" THEN "torn"
                                ELSE IF k \in KeysIn({i}) THEN "gone"
                                ELSE IF add /\ k = least THEN "live"
                                ELSE IF k \in uncounted THEN "spoiled"
                                ELSE fate[k]]
      /\ typed' = [k \in Keys |-> IF k \in KeysIn({i}) \cup uncounted THEN {} ELSE typed[k]]
  BY DEF Replace
<1> HIDE DEF least
<1>4. \A k \in Keys : k \in KeysIn({i}) <=> KeyAt(disk, i) = k
  BY DEF KeysIn, Holding, KeyAt, slot, Keys
<1>5. \A k \in Keys : fate[k] = "unused" =>
        typed[k] = {} /\ k \notin uncounted /\ KeyAt(disk, i) # k
  <2> TAKE k \in Keys
  <2> HAVE fate[k] = "unused"
  <2>1. typed[k] = {}
    BY DEF OtpInv, UnusedIsNew
  <2>2. KeyAt(disk, i) # k
    BY KeyInUse DEF Keys
  <2>3. k \notin uncounted
    BY DEF OtpInv, UncountedIsWritten
  <2> QED BY <2>1, <2>2, <2>3
<1>6. \A k \in uncounted : fate[k] \in {"live", "spoiled", "torn"}
  BY DEF OtpInv, UncountedIsWritten
<1>7. 0 \notin Keys
  BY DEF Keys
<1>8. \A k \in Keys : k = new => add
  BY <1>7
<1>9. /\ fate' \in [Keys -> Fates]
      /\ typed' \in [Keys -> SUBSET (Nat \X Nat)]
  <2>1. \A k \in Keys : fate[k] \in Fates /\ typed[k] \in SUBSET (Nat \X Nat)
    BY <1>1
  <2>2. {"torn", "gone", "live", "spoiled"} \subseteq Fates
    BY DEF Fates
  <2>3. ASSUME NEW k \in Keys PROVE fate'[k] \in Fates
    BY <1>3, <2>1, <2>2
  <2> QED BY <1>3, <2>1, <2>3
<1>10. ASSUME NEW k \in Keys, k = new
       PROVE  fate'[k] = "live" /\ typed'[k] = {} /\ fate[k] = "unused"
  <2>1. fate[k] = "unused" /\ add /\ k = least
    BY <1>2, <1>8, <1>10
  <2> QED BY <1>3, <1>4, <1>5, <2>1
<1>11. ASSUME NEW k \in Keys, k # new, KeyAt(disk, i) = k
       PROVE  fate'[k] \in {"gone", "torn"}
  BY <1>3, <1>4, <1>11
<1>12. ASSUME NEW k \in Keys, k # new, KeyAt(disk, i) # k
       PROVE  /\ \/ fate'[k] = fate[k]
                 \/ fate[k] \in {"live", "spoiled"} /\ fate'[k] = "spoiled"
              /\ fate[k] = "unused" => typed'[k] = {}
              /\ fate'[k] = "live" => /\ fate[k] = "live" /\ k \notin uncounted
                                      /\ typed'[k] = typed[k]
  <2>1. k \notin KeysIn({i}) /\ ~(add /\ k = least)
    BY <1>2, <1>4, <1>12
  <2>2. fate'[k] = IF fate[k] # "torn" /\ k \in uncounted THEN "spoiled" ELSE fate[k]
    BY <1>3, <2>1
  <2>3. typed'[k] = IF k \in uncounted THEN {} ELSE typed[k]
    BY <1>3, <2>1
  <2> QED BY <1>5, <1>6, <2>2, <2>3
<1> QED BY <1>9, <1>10, <1>11, <1>12 DEF KeysReplaced

\* A slot is written afresh or emptied.
LEMMA ReplacedStep ==
    ASSUME OtpInv, NEW i \in Slots, NEW c \in {NoData} \cup Configuration,
           NEW add \in BOOLEAN, Replace({i}, add),
           add => /\ c \in Configuration /\ fate[c.key] = "unused" /\ c.n = 0
                  /\ \A j \in Keys : j < c.key => fate[j] # "unused",
           ~add => c = NoData,
           disk' = Put(disk, i, c), Scanned, session' = session
    PROVE  OtpInv'
<1> DEFINE new == IF c = NoData THEN 0 ELSE c.key
<1>1. /\ IsDisk(disk, Holds) /\ OtpTypeOK /\ TypedIsBehind /\ 0 \notin Keys
      /\ scanned' = TRUE /\ uncounted' = {}
  BY TypedDisk DEF OtpInv, Keys, Scanned
<1>2. /\ c # NoData <=> add
      /\ add => c \in Configuration /\ new = c.key /\ new \in Keys
      /\ ~add => new = 0
  BY NoDataAssumption DEF Configuration
<1> HIDE DEF new
<1>3. /\ fate' \in [Keys -> Fates]
      /\ typed' \in [Keys -> SUBSET (Nat \X Nat)]
      /\ \A k \in Keys :
           /\ k = new => fate'[k] = "live" /\ typed'[k] = {} /\ fate[k] = "unused"
           /\ k # new /\ KeyAt(disk, i) = k => fate'[k] \in {"gone", "torn"}
           /\ k # new /\ KeyAt(disk, i) # k =>
                /\ \/ fate'[k] = fate[k]
                   \/ fate[k] \in {"live", "spoiled"} /\ fate'[k] = "spoiled"
                /\ fate[k] = "unused" => typed'[k] = {}
                /\ fate'[k] = "live" => /\ fate[k] = "live" /\ k \notin uncounted
                                        /\ typed'[k] = typed[k]
  <2>1. Writes(add, new)
    BY <1>2 DEF Writes
  <2>2. KeysReplaced(i, new)
    BY <2>1, ReplacedKeys
  <2> QED BY <2>2 DEF KeysReplaced
<1>4. /\ IsDisk(disk', Holds) /\ Read(disk', i) = c
      /\ Copies(disk', i) = Copies(disk, i) \cup {c}
      /\ \A j \in Slots \ {i} : Read(disk', j) = Read(disk, j) /\ Copies(disk', j) = Copies(disk, j)
  BY <1>1, SlotWrite
<1>5. KeyAt(disk', i) = new /\ \A j \in Slots \ {i} : KeyAt(disk', j) = KeyAt(disk, j)
  BY <1>4 DEF KeyAt, new
<1>6. \A k \in Keys : fate[k] = "unused" => \A j \in Slots : KeyAt(disk, j) # k
  BY KeyInUse DEF Keys
<1>7. OtpTypeOK'
  BY <1>1, <1>3, <1>4 DEF OtpTypeOK, Holds
<1>8. OneSlot'
  <2> SUFFICES ASSUME NEW k \in Keys
               PROVE  /\ fate'[k] \in {"live", "spoiled"} =>
                           \E x \in Slots : \A j \in Slots : KeyAt(disk', j) = k <=> j = x
                      /\ fate'[k] = "gone" => \A j \in Slots : KeyAt(disk', j) # k
    BY DEF OneSlot
  <2>1. /\ fate[k] \in {"live", "spoiled"} =>
             \E x \in Slots : \A j \in Slots : KeyAt(disk, j) = k <=> j = x
        /\ fate[k] = "gone" => \A j \in Slots : KeyAt(disk, j) # k
    BY DEF OtpInv, OneSlot
  <2>2. CASE k = new
    <3>1. \A j \in Slots : KeyAt(disk', j) = k <=> j = i
      BY <1>3, <1>5, <1>6, <2>2
    <3> QED BY <1>3, <2>2, <3>1
  <2>3. CASE k # new /\ KeyAt(disk, i) = k
    <3>1. fate[k] # "unused" /\ fate'[k] \in {"gone", "torn"}
      BY <1>3, <1>6, <2>3
    <3>2. fate[k] # "torn" => \A j \in Slots \ {i} : KeyAt(disk, j) # k
      <4>1. fate[k] \in Fates
        BY <1>1 DEF OtpTypeOK
      <4> QED BY <2>1, <2>3, <3>1, <4>1 DEF Fates
    <3>3. fate[k] = "torn" => fate'[k] = "torn"
      BY <1>1 DEF Replace
    <3> QED BY <1>5, <2>3, <3>1, <3>2, <3>3
  <2>4. CASE k # new /\ KeyAt(disk, i) # k
    <3>1. \A j \in Slots : KeyAt(disk', j) = k <=> KeyAt(disk, j) = k
      BY <1>5, <2>4
    <3> QED BY <1>3, <2>1, <2>4, <3>1
  <2> QED BY <2>2, <2>3, <2>4
<1>9. UnusedIsNew'
  <2> SUFFICES ASSUME NEW k \in Keys, fate'[k] = "unused"
               PROVE  /\ typed'[k] = {}
                      /\ \A j \in Slots : \A a \in Copies(disk', j) : a # NoData => a.key # k
    BY DEF UnusedIsNew
  <2>1. k # new /\ KeyAt(disk, i) # k /\ fate[k] = "unused"
    BY <1>3
  <2>2. \A j \in Slots : \A a \in Copies(disk, j) : a # NoData => a.key # k
    BY <2>1 DEF OtpInv, UnusedIsNew
  <2>3. c # NoData => c.key # k
    BY <1>2, <2>1
  <2> QED BY <1>3, <1>4, <2>1, <2>2, <2>3
<1>10. TypedIsBehind'
  <2> SUFFICES ASSUME NEW j \in Slots, slot(j)' # NoData, fate'[slot(j)'.key] = "live"
               PROVE  Behind(typed'[slot(j)'.key], slot(j)', j \in SessionSlots, TRUE, session[j])
    BY <1>1 DEF TypedIsBehind
  <2>1. CASE j = i
    <3>1. slot(j)' = c /\ typed'[c.key] = {} /\ c.n = 0
      BY <1>2, <1>3, <1>4, <2>1 DEF slot
    <3>2. 0 <= MaxCounter
      BY OtpAssumption
    <3> QED BY <3>1, <3>2 DEF Behind
  <2>2. CASE j # i
    <3>1. slot(j)' = slot(j) /\ slot(j).key \in Keys /\ slot(j).key = KeyAt(disk, j)
      BY <1>1, <1>4, <2>2, SlotReads DEF slot, KeyAt, Configuration
    <3>2. slot(j).key # new
      BY <1>3, <1>6, <3>1
    <3>3. /\ fate[slot(j).key] = "live" /\ slot(j).key \notin uncounted
          /\ typed'[slot(j).key] = typed[slot(j).key]
      BY <1>3, <3>1, <3>2
    <3>4. Behind(typed[slot(j).key], slot(j), j \in SessionSlots,
                 slot(j).key \notin uncounted, session[j])
      BY <1>1, <3>1, <3>3 DEF TypedIsBehind
    <3> QED BY <3>1, <3>3, <3>4
  <2> QED BY <2>1, <2>2
<1> QED BY <1>1, <1>7, <1>8, <1>9, <1>10 DEF OtpInv, UncountedIsWritten

LEMMA ConfigureStep == ASSUME OtpInv, NEW i \in Slots, Configure(i) PROVE OtpInv'
<1>1. PICK k \in Keys, kind \in {"yubico", "hotp"} :
         /\ fate[k] = "unused"
         /\ \A j \in Keys : j < k => fate[j] # "unused"
         /\ disk' = Put(disk, i, [key |-> k, kind |-> kind, n |-> 0, long |-> TRUE])
  BY DEF Configure
<1> DEFINE c == [key |-> k, kind |-> kind, n |-> 0, long |-> TRUE]
<1>2. c \in Configuration /\ c.key = k /\ c.n = 0
  BY DEF Configuration
<1>3. Replace({i}, TRUE) /\ Scanned /\ session' = session
  BY DEF Configure
<1> HIDE DEF c
<1> QED BY <1>1, <1>2, <1>3, ReplacedStep DEF c

LEMMA DeleteSlotStep == ASSUME OtpInv, NEW i \in Slots, DeleteSlot(i) PROVE OtpInv'
<1>1. /\ Replace({i}, FALSE) /\ disk' = Put(disk, i, NoData)
      /\ Scanned /\ session' = session
  BY DEF DeleteSlot
<1> QED BY <1>1, ReplacedStep

LEMMA UpdateStep == ASSUME OtpInv, NEW i \in Slots, Update(i) PROVE OtpInv'
<1>1. /\ disk' = Put(disk, i, slot(i)) /\ Becomes(uncounted, "spoiled")
      /\ scanned' = TRUE /\ uncounted' = {} /\ session' = session
  BY DEF Update, Updated, Scanned
<1>2. IsDisk(disk, Holds) /\ OtpTypeOK /\ TypedIsBehind /\ slot(i) \in Copies(disk, i)
      /\ slot(i) \in {NoData} \cup Configuration
  BY TypedDisk, SlotReads DEF OtpInv, slot
<1>3. /\ IsDisk(disk', Holds)
      /\ \A j \in Slots : slot(j)' = slot(j) /\ KeyAt(disk', j) = KeyAt(disk, j)
                          /\ Copies(disk', j) = Copies(disk, j)
  <2>1. /\ IsDisk(disk', Holds) /\ Read(disk', i) = slot(i)
        /\ Copies(disk', i) = Copies(disk, i) \cup {slot(i)}
        /\ \A j \in Slots \ {i} : Read(disk', j) = Read(disk, j) /\ Copies(disk', j) = Copies(disk, j)
    BY <1>1, <1>2, SlotWrite
  <2>2. \A j \in Slots : Read(disk', j) = Read(disk, j) /\ Copies(disk', j) = Copies(disk, j)
    BY <1>2, <2>1 DEF slot
  <2> QED BY <2>1, <2>2 DEF slot, KeyAt
<1>4. /\ fate' \in [Keys -> Fates]
      /\ typed' \in [Keys -> SUBSET (Nat \X Nat)]
      /\ \A k \in Keys :
           /\ \/ fate'[k] = fate[k]
              \/ fate[k] \in {"live", "spoiled"} /\ fate'[k] = "spoiled"
           /\ fate[k] = "unused" => typed'[k] = typed[k]
           /\ fate'[k] = "live" => fate[k] = "live" /\ k \notin uncounted /\ typed'[k] = typed[k]
  BY <1>1, Spoil DEF OtpInv, UncountedIsWritten
<1>5. OtpTypeOK'
  BY <1>1, <1>2, <1>3, <1>4 DEF OtpTypeOK, Holds
<1>6. OneSlot' /\ UnusedIsNew'
  BY <1>3, <1>4, InPlace
<1>7. TypedIsBehind'
  <2> SUFFICES ASSUME NEW j \in Slots, slot(j) # NoData, fate'[slot(j).key] = "live"
               PROVE  Behind(typed'[slot(j).key], slot(j), j \in SessionSlots, TRUE, session[j])
    BY <1>1, <1>3 DEF TypedIsBehind
  <2>1. slot(j).key \in Keys
    BY <1>2, SlotReads DEF slot, Configuration
  <2>2. /\ fate[slot(j).key] = "live" /\ slot(j).key \notin uncounted
        /\ typed'[slot(j).key] = typed[slot(j).key]
    BY <1>4, <2>1
  <2>3. Behind(typed[slot(j).key], slot(j), j \in SessionSlots,
               slot(j).key \notin uncounted, session[j])
    BY <1>2, <2>2 DEF TypedIsBehind
  <2> QED BY <2>2, <2>3
<1> QED BY <1>1, <1>5, <1>6, <1>7 DEF OtpInv, UncountedIsWritten

LEMMA ReplacedDisk ==
    ASSUME NEW d, IsDisk(d, Holds), NEW i \in Slots, NEW c \in {NoData} \cup Configuration
    PROVE  LET e == Replaced(d, i, c)
           IN  /\ IsDisk(e, Holds)
               /\ Read(e, i) = c
               /\ Copies(e, i) \subseteq Copies(d, i) \cup {c}
               /\ \A j \in Slots \ {i} : Read(e, j) = Read(d, j) /\ Copies(e, j) = Copies(d, j)
<1>1. CASE c # Read(d, i)
  BY <1>1, SlotWrite DEF Replaced
<1>2. CASE c = Read(d, i)
  BY <1>2 DEF Replaced
<1> QED BY <1>1, <1>2

LEMMA SwappedDisk ==
    ASSUME IsDisk(disk, Holds), NEW i \in Slots, NEW j \in Slots, i # j
    PROVE  LET e == Swapped(i, j)
           IN  /\ IsDisk(e, Holds)
               /\ Read(e, i) = slot(j) /\ Read(e, j) = slot(i)
               /\ Copies(e, i) \subseteq Copies(disk, i) \cup Copies(disk, j)
               /\ Copies(e, j) \subseteq Copies(disk, i) \cup Copies(disk, j)
               /\ \A x \in Slots \ {i, j} : Read(e, x) = slot(x) /\ Copies(e, x) = Copies(disk, x)
<1> DEFINE d == Replaced(disk, i, slot(j))
           e == Replaced(d, j, slot(i))
<1>1. /\ slot(i) \in {NoData} \cup Configuration /\ slot(i) \in Copies(disk, i)
      /\ slot(j) \in {NoData} \cup Configuration /\ slot(j) \in Copies(disk, j)
  BY SlotReads DEF slot
<1>2. /\ IsDisk(d, Holds) /\ Read(d, i) = slot(j)
      /\ Copies(d, i) \subseteq Copies(disk, i) \cup {slot(j)}
      /\ \A x \in Slots \ {i} : Read(d, x) = slot(x) /\ Copies(d, x) = Copies(disk, x)
  BY <1>1, ReplacedDisk DEF slot
<1> HIDE DEF d
<1>3. /\ IsDisk(e, Holds) /\ Read(e, j) = slot(i)
      /\ Copies(e, j) \subseteq Copies(d, j) \cup {slot(i)}
      /\ \A x \in Slots \ {j} : Read(e, x) = Read(d, x) /\ Copies(e, x) = Copies(d, x)
  BY <1>1, <1>2, ReplacedDisk
<1>4. Swapped(i, j) = e
  BY DEF Swapped, d
<1> HIDE DEF e
<1>5. i \in Slots \ {j} /\ j \in Slots \ {i}
  OBVIOUS
<1>6. ASSUME NEW x \in Slots \ {i, j}
      PROVE  Read(e, x) = slot(x) /\ Copies(e, x) = Copies(disk, x)
  BY <1>2, <1>3
<1>7. Read(e, i) = slot(j) /\ Copies(e, i) \subseteq Copies(disk, i) \cup Copies(disk, j)
  BY <1>1, <1>2, <1>3, <1>5
<1>8. Copies(e, j) \subseteq Copies(disk, i) \cup Copies(disk, j)
  BY <1>1, <1>2, <1>3, <1>5
<1> QED BY <1>3, <1>4, <1>6, <1>7, <1>8

LEMMA SwapStep ==
    ASSUME OtpInv, NEW i \in Slots, NEW j \in Slots, i # j, Swap(i, j)
    PROVE  OtpInv'
<1> DEFINE moved == IF {i, j} \subseteq SessionSlots /\ session[i] = session[j] THEN {}
                    ELSE Yubico \cap KeysIn({i, j})
           from(x) == IF x = i THEN j ELSE IF x = j THEN i ELSE x
<1>1. /\ disk' = Swapped(i, j) /\ Becomes(moved \cup uncounted, "spoiled")
      /\ scanned' = TRUE /\ uncounted' = {} /\ session' = session
  BY DEF Swap, Scanned
<1>2. IsDisk(disk, Holds) /\ OtpTypeOK /\ TypedIsBehind
  BY TypedDisk DEF OtpInv
<1>3. /\ IsDisk(disk', Holds)
      /\ Read(disk', i) = slot(j) /\ Read(disk', j) = slot(i)
      /\ Copies(disk', i) \subseteq Copies(disk, i) \cup Copies(disk, j)
      /\ Copies(disk', j) \subseteq Copies(disk, i) \cup Copies(disk, j)
      /\ \A x \in Slots \ {i, j} : Read(disk', x) = slot(x) /\ Copies(disk', x) = Copies(disk, x)
  BY <1>1, <1>2, SwappedDisk
<1>4. \A x \in Slots : /\ from(x) \in Slots /\ from(from(x)) = x
                       /\ slot(x)' = slot(from(x))
                       /\ KeyAt(disk', x) = KeyAt(disk, from(x))
  BY <1>3 DEF slot, KeyAt
<1>5. \A k \in moved \cup uncounted : fate[k] \in {"live", "spoiled", "torn"}
  <2>1. \A k \in Yubico : \E x \in Slots : KeyAt(disk, x) = k /\ k # 0
    BY DEF Yubico, Holding, KeyAt, slot, Keys
  <2> QED BY <2>1, KeyInUse DEF OtpInv, UncountedIsWritten
<1>6. /\ fate' \in [Keys -> Fates]
      /\ typed' \in [Keys -> SUBSET (Nat \X Nat)]
      /\ \A k \in Keys :
           /\ \/ fate'[k] = fate[k]
              \/ fate[k] \in {"live", "spoiled"} /\ fate'[k] = "spoiled"
           /\ fate[k] = "unused" => typed'[k] = typed[k]
           /\ fate'[k] = "live" => /\ fate[k] = "live" /\ k \notin moved \cup uncounted
                                   /\ typed'[k] = typed[k]
  <2> HIDE DEF moved
  <2> QED BY <1>1, <1>5, Spoil
<1>7. OtpTypeOK'
  BY <1>1, <1>2, <1>3, <1>6 DEF OtpTypeOK, Holds
<1>8. OneSlot'
  <2> SUFFICES ASSUME NEW k \in Keys
               PROVE  /\ fate'[k] \in {"live", "spoiled"} =>
                           \E x \in Slots : \A y \in Slots : KeyAt(disk', y) = k <=> y = x
                      /\ fate'[k] = "gone" => \A y \in Slots : KeyAt(disk', y) # k
    BY DEF OneSlot
  <2> HIDE DEF moved, from
  <2>1. ASSUME fate'[k] \in {"live", "spoiled"}
        PROVE  \E x \in Slots : \A y \in Slots : KeyAt(disk', y) = k <=> y = x
    <3>1. fate[k] \in {"live", "spoiled"}
      BY <1>6, <2>1
    <3>2. PICK x \in Slots : \A y \in Slots : KeyAt(disk, y) = k <=> y = x
      BY <3>1 DEF OtpInv, OneSlot
    <3>3. \A y \in Slots : KeyAt(disk', y) = k <=> from(y) = x
      BY <1>4, <3>2
    <3>4. \A y \in Slots : from(y) = x <=> y = from(x)
      BY <1>4
    <3> QED BY <1>4, <3>3, <3>4
  <2>2. ASSUME fate'[k] = "gone" PROVE \A y \in Slots : KeyAt(disk', y) # k
    BY <1>4, <1>6, <2>2 DEF OtpInv, OneSlot
  <2> QED BY <2>1, <2>2
<1>9. UnusedIsNew'
  <2> SUFFICES ASSUME NEW k \in Keys, fate'[k] = "unused"
               PROVE  /\ typed'[k] = {}
                      /\ \A x \in Slots : \A c \in Copies(disk', x) : c # NoData => c.key # k
    BY DEF UnusedIsNew
  <2>1. fate[k] = "unused"
    BY <1>6
  <2>2. \A x \in Slots : \A c \in Copies(disk, x) : c # NoData => c.key # k
    BY <2>1 DEF OtpInv, UnusedIsNew
  <2>3. typed'[k] = {}
    BY <1>6, <2>1 DEF OtpInv, UnusedIsNew
  <2>4. ASSUME NEW x \in Slots, NEW c \in Copies(disk', x)
        PROVE  \E y \in Slots : c \in Copies(disk, y)
    BY <1>3, <2>4
  <2> QED BY <2>2, <2>3, <2>4
<1>10. TypedIsBehind'
  <2> SUFFICES ASSUME NEW x \in Slots, slot(x)' # NoData, fate'[slot(x)'.key] = "live"
               PROVE  Behind(typed'[slot(x)'.key], slot(x)', x \in SessionSlots, TRUE, session[x])
    BY <1>1 DEF TypedIsBehind
  <2> DEFINE y == from(x)
             c == slot(y)
  <2>1. y \in Slots /\ slot(x)' = c
    BY <1>4
  <2>2. c \in Configuration /\ c.key \in Keys /\ c.kind \in {"yubico", "hotp"}
    BY <1>2, <2>1, SlotReads DEF slot, Configuration
  <2>3. /\ fate[c.key] = "live" /\ c.key \notin moved /\ c.key \notin uncounted
        /\ typed'[c.key] = typed[c.key]
    BY <1>6, <2>1, <2>2
  <2>4. Behind(typed[c.key], c, y \in SessionSlots, c.key \notin uncounted, session[y])
    BY <1>2, <2>1, <2>3 DEF TypedIsBehind
  <2>5. Behind(typed[c.key], c, y \in SessionSlots, TRUE, session[y])
    BY <2>3, <2>4
  <2>6. CASE c.kind = "hotp"
    BY <2>1, <2>3, <2>5, <2>6 DEF Behind
  <2>7. CASE c.kind = "yubico" /\ x \notin {i, j}
    BY <2>1, <2>3, <2>5, <2>7
  <2>8. CASE c.kind = "yubico" /\ x \in {i, j}
    <3>1. y \in Slots /\ c # NoData /\ c.key \in Keys /\ y \in {i, j}
      BY <2>1, <2>2, <2>8
    <3> HIDE DEF y
    <3>2. y \in Holding(c.key)
      BY <3>1 DEF Holding
    <3>3. c.key \in Yubico \cap KeysIn({i, j})
      BY <2>2, <2>8, <3>1, <3>2 DEF Yubico, KeysIn
    <3>4. {i, j} \subseteq SessionSlots /\ session[i] = session[j]
      BY <2>3, <3>3
    <3>5. (y \in SessionSlots) = (x \in SessionSlots) /\ session[y] = session[x]
      BY <2>8, <3>1, <3>4
    <3> QED BY <2>1, <2>3, <2>5, <3>5
  <2> QED BY <2>2, <2>6, <2>7, <2>8
<1> QED BY <1>1, <1>7, <1>8, <1>9, <1>10 DEF OtpInv, UncountedIsWritten

\* A swap that fails tears the keys of both slots; those of the others stay.
LEMMA SwapFailsStep ==
    ASSUME OtpInv, NEW i \in Slots, NEW j \in Slots, i # j, SwapFails(i, j)
    PROVE  OtpInv'
<1> DEFINE K == KeysIn({i, j})
<1>1. /\ disk' = Replaced(disk, i, slot(j)) /\ Becomes(K, "torn")
      /\ scanned' = scanned /\ uncounted' = uncounted /\ session' = session
  BY DEF SwapFails
<1>2. IsDisk(disk, Holds) /\ OtpTypeOK /\ TypedIsBehind /\ uncounted \subseteq Keys
  BY TypedDisk DEF OtpInv, OtpTypeOK
<1>3. /\ slot(j) \in {NoData} \cup Configuration /\ slot(j) \in Copies(disk, j)
      /\ slot(i) \in {NoData} \cup Configuration /\ slot(i) \in Copies(disk, i)
  BY <1>2, SlotReads DEF slot
<1>4. /\ IsDisk(disk', Holds) /\ Read(disk', i) = slot(j)
      /\ Copies(disk', i) \subseteq Copies(disk, i) \cup {slot(j)}
      /\ \A x \in Slots \ {i} : Read(disk', x) = slot(x) /\ Copies(disk', x) = Copies(disk, x)
  BY <1>1, <1>2, <1>3, ReplacedDisk DEF slot
<1>5. /\ fate' \in [Keys -> Fates] /\ typed' \in [Keys -> SUBSET (Nat \X Nat)]
      /\ \A k \in Keys : /\ k \in K => fate'[k] = "torn"
                         /\ k \notin K => fate'[k] = fate[k] /\ typed'[k] = typed[k]
  <2>1. "torn" \in Fates
    BY DEF Fates
  <2> HIDE DEF K
  <2> QED BY <1>1, <1>2, <2>1, BecomesType DEF Becomes
\* A key that is not torn is where it was.
<1>6. ASSUME NEW k \in Keys, k \notin K
      PROVE  \A x \in Slots : /\ KeyAt(disk', x) = k <=> KeyAt(disk, x) = k
                              /\ KeyAt(disk, x) = k => slot(x)' = slot(x)
  <2>1. KeyAt(disk, i) # k /\ KeyAt(disk, j) # k
    BY <1>6 DEF KeysIn, Holding, KeyAt, slot, Keys
  <2>2. KeyAt(disk', i) = KeyAt(disk, j)
    BY <1>4 DEF KeyAt, slot
  <2>3. \A x \in Slots \ {i} : KeyAt(disk', x) = KeyAt(disk, x) /\ slot(x)' = slot(x)
    BY <1>4 DEF KeyAt, slot
  <2> QED BY <2>1, <2>2, <2>3
<1> HIDE DEF K
<1>7. OtpTypeOK'
  BY <1>1, <1>2, <1>4, <1>5 DEF OtpTypeOK, Holds
<1>8. OneSlot'
  <2> SUFFICES ASSUME NEW k \in Keys, k \notin K
               PROVE  /\ fate[k] \in {"live", "spoiled"} =>
                           \E x \in Slots : \A y \in Slots : KeyAt(disk', y) = k <=> y = x
                      /\ fate[k] = "gone" => \A y \in Slots : KeyAt(disk', y) # k
    BY <1>5 DEF OneSlot
  <2> QED BY <1>6 DEF OtpInv, OneSlot
<1>9. UnusedIsNew'
  <2> SUFFICES ASSUME NEW k \in Keys, fate'[k] = "unused"
               PROVE  /\ typed'[k] = {}
                      /\ \A x \in Slots : \A c \in Copies(disk', x) : c # NoData => c.key # k
    BY DEF UnusedIsNew
  <2>1. fate[k] = "unused" /\ typed'[k] = typed[k]
    BY <1>5
  <2>2. typed[k] = {} /\ \A x \in Slots : \A c \in Copies(disk, x) : c # NoData => c.key # k
    BY <2>1 DEF OtpInv, UnusedIsNew
  <2> QED BY <1>3, <1>4, <2>1, <2>2
<1>10. TypedIsBehind'
  <2> SUFFICES ASSUME NEW x \in Slots, slot(x)' # NoData, fate'[slot(x)'.key] = "live"
               PROVE  Behind(typed'[slot(x)'.key], slot(x)', x \in SessionSlots,
                             slot(x)'.key \notin uncounted, session[x])
    BY <1>1 DEF TypedIsBehind
  <2>1. slot(x)'.key \in Keys /\ KeyAt(disk', x) = slot(x)'.key
    BY <1>4, SlotReads DEF slot, Configuration, KeyAt
  <2>2. slot(x)'.key \notin K
    BY <1>5, <2>1
  <2>3. slot(x)' = slot(x)
    BY <1>6, <2>1, <2>2
  <2>4. fate[slot(x).key] = "live" /\ typed'[slot(x).key] = typed[slot(x).key]
    BY <1>5, <2>1, <2>2, <2>3
  <2> QED BY <1>2, <2>3, <2>4 DEF TypedIsBehind
<1>11. UncountedIsWritten'
  BY <1>1, <1>2, <1>5 DEF OtpInv, UncountedIsWritten
<1> QED BY <1>7, <1>8, <1>9, <1>10, <1>11 DEF OtpInv

-----------------------------------------------------------------------------
(* The flash, power cuts and resets.                                       *)

LEMMA DrainStep == ASSUME OtpInv, Drain PROVE OtpInv'
<1>1. PICK i \in Slots : CanDrain(disk, i) /\ disk' = Drained(disk, i)
  BY DEF Drain
<1>2. /\ scanned' = scanned /\ uncounted' = uncounted /\ session' = session
      /\ fate' = fate /\ typed' = typed
  BY DEF Drain
<1>3. IsDisk(disk, Holds) /\ OtpTypeOK /\ TypedIsBehind /\ DOMAIN Holds = Slots
  BY TypedDisk DEF OtpInv, Holds
<1>4. /\ IsDisk(disk', Holds)
      /\ \A j \in Slots : Read(disk', j) = Read(disk, j) /\ Copies(disk', j) \subseteq Copies(disk, j)
  BY <1>1, <1>3, DrainedDisk
<1>5. \A j \in Slots : slot(j)' = slot(j) /\ KeyAt(disk', j) = KeyAt(disk, j)
  BY <1>4 DEF slot, KeyAt
<1>6. OtpTypeOK'
  BY <1>2, <1>3, <1>4 DEF OtpTypeOK, Holds
<1>7. OneSlot' /\ UnusedIsNew'
  BY <1>2, <1>4, <1>5, InPlace
<1>8. TypedIsBehind'
  BY <1>2, <1>3, <1>5 DEF TypedIsBehind
<1>9. UncountedIsWritten'
  BY <1>2 DEF OtpInv, UncountedIsWritten
<1> QED BY <1>6, <1>7, <1>8, <1>9 DEF OtpInv

LEMMA PowerCycleStep == ASSUME OtpInv, PowerCycle PROVE OtpInv'
<1>1. /\ disk' = Crashed(disk) /\ scanned' = FALSE
      /\ session' = [i \in SessionSlots |-> 0]
      /\ uncounted' = {k \in Yubico \ PendingKeys : typed[k] # {}}
      /\ Becomes(PendingKeys, "torn")
  BY DEF PowerCycle
<1>2. IsDisk(disk, Holds) /\ OtpTypeOK /\ TypedIsBehind /\ DOMAIN Holds = Slots
  BY TypedDisk DEF OtpInv, Holds
<1>3. /\ IsDisk(disk', Holds)
      /\ \A i \in Slots : /\ Read(disk', i) = disk.flash[i] /\ Read(disk', i) \in Copies(disk, i)
                          /\ Copies(disk', i) \subseteq Copies(disk, i)
  BY <1>1, <1>2, CrashedDisk
<1>4. /\ fate' \in [Keys -> Fates]
      /\ typed' \in [Keys -> SUBSET (Nat \X Nat)]
      /\ \A k \in Keys : fate'[k] # "torn" =>
           k \notin PendingKeys /\ fate'[k] = fate[k] /\ typed'[k] = typed[k]
  <2>1. "torn" \in Fates
    BY DEF Fates
  <2> QED BY <1>1, <1>2, <2>1, BecomesType DEF Becomes
\* A key that is not torn is where it was.
<1>5. ASSUME NEW k \in Keys, k \notin PendingKeys, NEW i \in Slots
      PROVE  /\ KeyAt(disk', i) = k <=> KeyAt(disk, i) = k
             /\ KeyAt(disk, i) = k => slot(i)' = slot(i)
  <2>1. k # 0
    BY DEF Keys
  <2>2. CASE disk.pending[i] = <<>>
    <3>1. Read(disk', i) = Read(disk, i)
      BY <1>3, <2>2 DEF Read
    <3> QED BY <3>1 DEF KeyAt, slot
  <2>3. CASE disk.pending[i] # <<>>
    <3>1. Read(disk, i) \in Copies(disk, i)
      BY <1>2, SlotReads
    <3>2. \A c \in Copies(disk, i) : c # NoData => c.key # k
      BY <1>5, <2>3 DEF PendingKeys
    <3> QED BY <1>3, <2>1, <3>1, <3>2 DEF KeyAt
  <2> QED BY <2>2, <2>3
<1>6. OtpTypeOK'
  <2>1. SessionMod \in Nat /\ SessionMod >= 2
    BY OtpAssumption
  <2>2. 0 \in 0..(SessionMod - 1)
    BY <2>1
  <2>3. session' \in [SessionSlots -> 0..(SessionMod - 1)]
    BY <1>1, <2>2
  <2>4. uncounted' \subseteq Keys
    BY <1>1 DEF Yubico
  <2> QED BY <1>1, <1>3, <1>4, <2>3, <2>4 DEF OtpTypeOK, Holds
<1>7. OneSlot'
  <2> SUFFICES ASSUME NEW k \in Keys
               PROVE  /\ fate'[k] \in {"live", "spoiled"} =>
                           \E x \in Slots : \A y \in Slots : KeyAt(disk', y) = k <=> y = x
                      /\ fate'[k] = "gone" => \A y \in Slots : KeyAt(disk', y) # k
    BY DEF OneSlot
  <2>1. ASSUME fate'[k] # "torn"
        PROVE  fate'[k] = fate[k] /\ \A y \in Slots : KeyAt(disk', y) = k <=> KeyAt(disk, y) = k
    BY <1>4, <1>5, <2>1
  <2>2. /\ fate[k] \in {"live", "spoiled"} =>
             \E x \in Slots : \A y \in Slots : KeyAt(disk, y) = k <=> y = x
        /\ fate[k] = "gone" => \A y \in Slots : KeyAt(disk, y) # k
    BY DEF OtpInv, OneSlot
  <2>3. CASE fate'[k] = "torn"
    BY <2>3
  <2>4. CASE fate'[k] # "torn"
    <3>1. ASSUME fate'[k] \in {"live", "spoiled"}
          PROVE  \E x \in Slots : \A y \in Slots : KeyAt(disk', y) = k <=> y = x
      <4>1. PICK x \in Slots : \A y \in Slots : KeyAt(disk, y) = k <=> y = x
        BY <2>1, <2>2, <2>4, <3>1
      <4> QED BY <2>1, <2>4, <4>1
    <3> QED BY <2>1, <2>2, <2>4, <3>1
  <2> QED BY <2>3, <2>4
<1>8. UnusedIsNew'
  <2> SUFFICES ASSUME NEW k \in Keys, fate'[k] = "unused"
               PROVE  /\ typed'[k] = {}
                      /\ \A x \in Slots : \A c \in Copies(disk', x) : c # NoData => c.key # k
    BY DEF UnusedIsNew
  <2>1. fate[k] = "unused" /\ typed'[k] = typed[k]
    BY <1>4
  <2> QED BY <1>3, <2>1 DEF OtpInv, UnusedIsNew
<1>9. TypedIsBehind'
  <2> SUFFICES ASSUME NEW i \in Slots, slot(i)' # NoData, fate'[slot(i)'.key] = "live"
               PROVE  Behind(typed'[slot(i)'.key], slot(i)', i \in SessionSlots,
                             slot(i)'.key \notin uncounted', session'[i])
    BY DEF TypedIsBehind
  <2> DEFINE c == slot(i)'
             k == c.key
             in == i \in SessionSlots
             on == k \notin uncounted'
  <2>1. c \in Configuration /\ k \in Keys /\ c.n \in Nat /\ k = KeyAt(disk', i)
    BY <1>3, SlotReads DEF slot, Configuration, KeyAt
  <2>2. k \notin PendingKeys /\ fate[k] = "live" /\ typed'[k] = typed[k]
    BY <1>4, <2>1
  <2>3. slot(i) = c
    BY <1>5, <2>1, <2>2
  <2>4. Behind(typed[k], c, in, k \notin uncounted, session[i])
    BY <1>2, <2>2, <2>3 DEF TypedIsBehind
  <2>5. typed[k] \subseteq Nat \X Nat
    BY <1>2, <2>1 DEF OtpTypeOK
  <2>6. on => c.kind # "yubico" \/ typed[k] = {}
    <3>1. c.kind = "yubico" => k \in Yubico
      BY <2>1, <2>3 DEF Yubico, Holding
    <3> QED BY <1>1, <2>2, <3>1
  <2> HIDE DEF c, k, in, on
  <2>7. \A t \in typed[k] : t[1] \in Nat
    BY <2>5
  <2>8. Behind(typed[k], c, in, on, session'[i])
    <3>1. CASE c.kind # "yubico" \/ typed[k] = {}
      BY <2>4, <3>1 DEF Behind
    <3>2. CASE c.kind = "yubico" /\ ~on
      BY <2>1, <2>4, <2>7, <3>2 DEF Behind
    <3> QED BY <2>6, <3>1, <3>2
  <2> QED BY <2>2, <2>8 DEF c, k, in, on
<1>10. UncountedIsWritten'
  <2> SUFFICES ASSUME NEW k \in Yubico, k \notin PendingKeys, typed[k] # {}
               PROVE  fate'[k] \in {"live", "spoiled", "torn"}
    BY <1>1 DEF UncountedIsWritten
  <2>1. k \in Keys /\ \E i \in Slots : KeyAt(disk, i) = k /\ k # 0
    BY DEF Yubico, Holding, KeyAt, slot, Keys
  <2>2. fate[k] \in {"live", "spoiled", "torn"}
    BY <2>1, KeyInUse
  <2> QED BY <1>1, <2>1, <2>2 DEF Becomes
<1> QED BY <1>6, <1>7, <1>8, <1>9, <1>10 DEF OtpInv

LEMMA EmptyDisk ==
    ASSUME NEW c, c \in [Slots -> {NoData} \cup Configuration]
    PROVE  /\ IsDisk(Settled(c), Holds)
           /\ \A i \in Slots : Read(Settled(c), i) = c[i] /\ Copies(Settled(c), i) = {c[i]}
<1>1. DOMAIN Holds = Slots /\ \A i \in Slots : Holds[i] = {NoData} \cup Configuration
  BY DEF Holds
<1>2. c = [i \in DOMAIN Holds |-> c[i]] /\ \A i \in DOMAIN Holds : c[i] \in Holds[i]
  BY <1>1
<1> QED BY <1>1, <1>2, SettledDisk

LEMMA ResetStep == ASSUME OtpInv, cbor_reset PROVE OtpInv'
<1> DEFINE none == [i \in Slots |-> NoData]
           K == {k \in Keys : fate[k] # "unused"}
<1>1. /\ disk' = Settled(none) /\ Becomes(K, "gone")
      /\ scanned' = TRUE /\ uncounted' = {} /\ session' = session
  BY DEF cbor_reset, Scanned
<1>2. OtpTypeOK
  BY DEF OtpInv
<1>3. /\ IsDisk(disk', Holds)
      /\ \A i \in Slots : Read(disk', i) = NoData /\ Copies(disk', i) = {NoData}
  <2>1. none \in [Slots -> {NoData} \cup Configuration] /\ \A i \in Slots : none[i] = NoData
    OBVIOUS
  <2> HIDE DEF none
  <2> QED BY <1>1, <2>1, EmptyDisk
<1>4. /\ fate' \in [Keys -> Fates]
      /\ typed' \in [Keys -> SUBSET (Nat \X Nat)]
  <2>1. "gone" \in Fates
    BY DEF Fates
  <2> QED BY <1>1, <1>2, <2>1, BecomesType
<1>5. \A k \in Keys : /\ fate'[k] \in {"unused", "gone", "torn"}
                      /\ fate'[k] = "unused" => fate[k] = "unused" /\ typed'[k] = typed[k]
  BY <1>1 DEF Becomes
<1>6. \A k \in Keys : \A i \in Slots : KeyAt(disk', i) # k
  BY <1>3 DEF KeyAt, Keys
<1>7. OtpTypeOK'
  BY <1>1, <1>2, <1>3, <1>4 DEF OtpTypeOK, Holds
<1>8. OneSlot'
  BY <1>5, <1>6 DEF OneSlot
<1>9. UnusedIsNew'
  BY <1>3, <1>5 DEF OtpInv, UnusedIsNew
<1>10. TypedIsBehind'
  BY <1>3 DEF TypedIsBehind, slot
<1> QED BY <1>1, <1>7, <1>8, <1>9, <1>10 DEF OtpInv, UncountedIsWritten

LEMMA InitHolds == ASSUME Init PROVE OtpInv
<1>1. PICK old \in {NoData} \cup [key : {1}, kind : {"yubico", "hotp"}, n : {0}, long : {FALSE}],
           first \in Slots :
        /\ disk = Settled([i \in Slots |-> IF i = first THEN old ELSE NoData])
        /\ fate = [k \in Keys |-> IF k = 1 /\ old # NoData THEN "live" ELSE "unused"]
  BY DEF Init
<1> DEFINE c == [i \in Slots |-> IF i = first THEN old ELSE NoData]
<1>2. /\ scanned = FALSE /\ uncounted = {} /\ session = [i \in SessionSlots |-> 0]
      /\ typed = [k \in Keys |-> {}]
  BY DEF Init
<1>3. /\ SessionMod \in Nat /\ SessionMod >= 2 /\ MaxKeys \in Nat /\ MaxKeys >= 1
      /\ MaxCounter \in Nat
  BY OtpAssumption
<1>4. old \in {NoData} \cup Configuration /\ (old # NoData => old.key = 1 /\ old.n = 0)
  <2> SUFFICES ASSUME old # NoData
               PROVE  old \in Configuration /\ old.key = 1 /\ old.n = 0
    OBVIOUS
  <2>1. old \in [key : {1}, kind : {"yubico", "hotp"}, n : {0}, long : {FALSE}]
    OBVIOUS
  <2>2. {1} \subseteq Keys /\ {0} \subseteq Nat /\ {FALSE} \subseteq BOOLEAN
    BY <1>3 DEF Keys
  <2>3. old \in [key : Keys, kind : {"yubico", "hotp"}, n : Nat, long : BOOLEAN]
    BY <2>1, <2>2
  <2>4. old.key \in {1} /\ old.n \in {0}
    BY <2>1
  <2> QED BY <2>3, <2>4 DEF Configuration
<1>5. /\ IsDisk(disk, Holds)
      /\ \A i \in Slots : /\ Read(disk, i) = IF i = first THEN old ELSE NoData
                          /\ Copies(disk, i) = {IF i = first THEN old ELSE NoData}
  <2>1. c \in [Slots -> {NoData} \cup Configuration]
    BY <1>4
  <2>2. disk = Settled(c) /\ \A i \in Slots : c[i] = IF i = first THEN old ELSE NoData
    BY <1>1
  <2> HIDE DEF c
  <2> QED BY <2>1, <2>2, EmptyDisk
<1>6. /\ \A i \in Slots \ {first} : KeyAt(disk, i) = 0
      /\ KeyAt(disk, first) = IF old = NoData THEN 0 ELSE 1
      /\ 0 \notin Keys
  BY <1>4, <1>5 DEF KeyAt, Keys
<1>7. OtpTypeOK
  <2>1. 0 \in 0..(SessionMod - 1)
    BY <1>3
  <2>2. session \in [SessionSlots -> 0..(SessionMod - 1)]
    BY <1>2, <2>1
  <2>3. fate \in [Keys -> Fates] /\ typed \in [Keys -> SUBSET (Nat \X Nat)]
    BY <1>1, <1>2 DEF Fates
  <2> QED BY <1>2, <1>5, <2>2, <2>3 DEF OtpTypeOK, Holds
<1>8. OneSlot
  BY <1>1, <1>6 DEF OneSlot
<1>9. UnusedIsNew
  <2> SUFFICES ASSUME NEW k \in Keys, fate[k] = "unused"
               PROVE  /\ typed[k] = {}
                      /\ \A i \in Slots : \A a \in Copies(disk, i) : a # NoData => a.key # k
    BY DEF UnusedIsNew
  <2>1. k # 1 \/ old = NoData
    BY <1>1
  <2> QED BY <1>2, <1>4, <1>5, <2>1
<1>10. TypedIsBehind
  <2> SUFFICES ASSUME NEW i \in Slots, slot(i) # NoData
               PROVE  Behind(typed[slot(i).key], slot(i), i \in SessionSlots,
                             slot(i).key \notin uncounted, session[i])
    BY DEF TypedIsBehind
  <2>1. slot(i).n = 0 /\ slot(i).key = 1
    BY <1>4, <1>5 DEF slot
  <2>2. typed[1] = {}
    BY <1>2, <1>3 DEF Keys
  <2> QED BY <1>3, <2>1, <2>2 DEF Behind
<1> QED BY <1>2, <1>7, <1>8, <1>9, <1>10 DEF OtpInv, UncountedIsWritten

-----------------------------------------------------------------------------
(* The theorems.                                                           *)

LEMMA StepHolds == ASSUME OtpInv, [Next]_vars PROVE OtpInv'
<1>1. CASE UNCHANGED vars
  BY <1>1 DEF vars, OtpInv, OtpTypeOK, OneSlot, UnusedIsNew, TypedIsBehind,
              UncountedIsWritten, slot
<1>2. CASE init_otp
  BY <1>2, StartStep
<1>3. CASE otp_status
  BY <1>3, StatusStep
<1>4. CASE \E i \in Slots : PressHotp(i)
  BY <1>4, PressHotpStep
<1>5. CASE \E i \in Slots : PressYubico(i)
  BY <1>5, PressYubicoStep
<1>6. CASE \E i \in Slots : PressPastSession(i)
  BY <1>6, PressPastSessionStep
<1>7. CASE \E i \in Slots : Configure(i)
  BY <1>7, ConfigureStep
<1>8. CASE \E i \in Slots : DeleteSlot(i)
  BY <1>8, DeleteSlotStep
<1>9. CASE \E i \in Slots : Update(i)
  BY <1>9, UpdateStep
<1>10. CASE \E i, j \in Slots : i # j /\ (Swap(i, j) \/ SwapFails(i, j))
  BY <1>10, SwapStep, SwapFailsStep
<1>11. CASE Drain
  BY <1>11, DrainStep
<1>12. CASE PowerCycle
  BY <1>12, PowerCycleStep
<1>13. CASE cbor_reset
  BY <1>13, ResetStep
<1> QED BY <1>1, <1>2, <1>3, <1>4, <1>5, <1>6, <1>7, <1>8, <1>9, <1>10, <1>11, <1>12, <1>13
        DEF Next

\* OtpInv holds in every state, for any number of slots, keys and counters.
THEOREM OtpInvHolds == Spec => []OtpInv
<1>1. Init => OtpInv
  BY InitHolds
<1>2. OtpInv /\ [Next]_vars => OtpInv'
  BY StepHolds
<1> QED BY <1>1, <1>2, PTL DEF Spec

LEMMA NextIsAhead == ASSUME OtpInv PROVE NextIsNew
<1> SUFFICES ASSUME NEW b \in Starts, NEW i \in Slots, Read(b.disk, i) # NoData,
                    fate[Read(b.disk, i).key] = "live",
                    ~(/\ Read(b.disk, i).kind = "yubico"
                      /\ \/ i \notin SessionSlots
                         \/ Read(b.disk, i).n = MaxCounter
                         \/ Read(b.disk, i).key \in b.uncounted)
             PROVE  NextTyped(Read(b.disk, i), i) \notin typed[Read(b.disk, i).key]
  BY DEF NextIsNew
<1> DEFINE c == Read(b.disk, i)
           T == typed[c.key]
           on == c.key \notin b.uncounted
<1>1. /\ c \in Configuration /\ c.key \in Keys
      /\ Behind(T, c, i \in SessionSlots, on, session[i])
  BY StartIsAhead
<1>2. OtpTypeOK /\ T \subseteq Nat \X Nat
  BY <1>1 DEF OtpInv, OtpTypeOK
<1>3. c.kind \in {"yubico", "hotp"} /\ c.n \in Nat
  BY <1>1 DEF Configuration
<1>4. NextTyped(c, i) = IF c.kind = "hotp" THEN <<Factor(c), 0>> ELSE <<UsageCounter(c), session[i]>>
  BY DEF NextTyped
<1>5. ~(c.kind = "yubico" /\ (i \notin SessionSlots \/ c.n = MaxCounter \/ ~on))
  OBVIOUS
<1> HIDE DEF on
<1> HIDE DEF c
<1>6. \A t \in T : t[1] \in Nat /\ t[2] \in Nat
  BY <1>2
<1>7. T # {} => Factor(c) = c.n /\ UsageCounter(c) = c.n
  BY <1>1, <1>3 DEF Factor, UsageCounter, Behind
<1> HIDE DEF T
<1>8. CASE c.kind = "hotp"
  <2>1. \A t \in T : t[1] < c.n
    BY <1>1, <1>8 DEF Behind
  <2>2. <<Factor(c), 0>>[1] = Factor(c)
    OBVIOUS
  <2>3. <<Factor(c), 0>> \notin T
    BY <1>3, <1>7, <2>1, <2>2
  <2> QED BY <1>4, <1>8, <2>3 DEF T, c
<1>9. CASE c.kind = "yubico"
  <2>1. \A t \in T : t[1] < c.n \/ (t[1] = c.n /\ t[2] < session[i])
    BY <1>1, <1>5, <1>9 DEF Behind
  <2>2. <<UsageCounter(c), session[i]>>[1] = UsageCounter(c)
        /\ <<UsageCounter(c), session[i]>>[2] = session[i]
    OBVIOUS
  <2>3. ASSUME <<UsageCounter(c), session[i]>> \in T PROVE FALSE
    <3>1. UsageCounter(c) = c.n /\ session[i] \in Nat
      BY <1>6, <1>7, <2>2, <2>3
    <3> QED BY <1>3, <2>1, <2>2, <2>3, <3>1
  <2> QED BY <1>4, <1>9, <2>3 DEF T, c
<1> QED BY <1>3, <1>8, <1>9

\* The next password of a live key was never typed, over restarts, wraps of
\* the session counter, updates, swaps and starts of which a part failed; a
\* press that was not stored, or came with the start not counted, ends that
\* (init_otp and otp_button_pressed).
THEOREM NextIsNewHolds == Spec => []NextIsNew
<1>1. OtpInv => NextIsNew
  BY NextIsAhead
<1> QED BY <1>1, OtpInvHolds, PTL

LEMMA OneIsHolding == ASSUME OtpInv PROVE KeyInOneSlot
<1> SUFFICES ASSUME NEW k \in Keys
             PROVE  /\ fate[k] \in {"live", "spoiled"} => Cardinality(Holding(k)) = 1
                    /\ fate[k] = "gone" => Holding(k) = {}
  BY DEF KeyInOneSlot
<1>1. Holding(k) = {i \in Slots : KeyAt(disk, i) = k}
  BY DEF Holding, KeyAt, slot, Keys
<1>2. ASSUME fate[k] \in {"live", "spoiled"} PROVE Cardinality(Holding(k)) = 1
  <2>1. PICK i \in Slots : \A j \in Slots : KeyAt(disk, j) = k <=> j = i
    BY <1>2 DEF OtpInv, OneSlot
  <2>2. Holding(k) = {i}
    BY <1>1, <2>1
  <2> QED BY <2>2, FS_Singleton
<1>3. ASSUME fate[k] = "gone" PROVE Holding(k) = {}
  BY <1>1, <1>3 DEF OtpInv, OneSlot
<1> QED BY <1>2, <1>3

\* Every configuration that was written and not removed is in exactly one
\* slot, unless a power cut took a write of it or a swap of it failed between
\* its two writes (configure and swap in cmd_otp).
THEOREM KeyInOneSlotHolds == Spec => []KeyInOneSlot
<1>1. OtpInv => KeyInOneSlot
  BY OneIsHolding
<1> QED BY <1>1, OtpInvHolds, PTL
=============================================================================
