--------------------------------- MODULE Otp --------------------------------
(***************************************************************************)
(* The Yubico OTP applet (otp.c): slots EF_OTP_SLOT1 + i with one          *)
(* configuration each, and the one-time passwords that a press of the      *)
(* button types.  No password of a key may be typed twice.                 *)
(*                                                                         *)
(* A HOTP slot counts its moving factor in the flash.  A Yubico slot types *)
(* a usage counter, which lives in the flash and grows at each start, with *)
(* a session counter, which lives in RAM, belongs to the place of the slot *)
(* and moves the usage counter on when it wraps.  Nothing waits for the    *)
(* flash.                                                                  *)
(*                                                                         *)
(* The start is counted by init_otp, which start-up, the management applet *)
(* and the button call.  otp_status marks the start as scanned without     *)
(* counting it.                                                            *)
(*                                                                         *)
(* A store of a slot may fail, and then leaves the slot as it was.  A      *)
(* start, a press and a swap go on from there in ways of their own; the    *)
(* other commands end with an error and have changed nothing.              *)
(***************************************************************************)
EXTENDS FlashQueue, FiniteSets

CONSTANTS Slots,       \* the four slots
          SessionSlots,\* the two of them session_counter has an element for
          MaxCounter,  \* 0x7fff, the last usage counter
          SessionMod,  \* the session counter is a uint8_t: 2^8
          NoData,
          MaxKeys,     \* bound on the configurations that are written
          MaxImf,      \* bound on the moving factor
          QueueCap     \* bound: nothing starts behind a longer queue

ASSUME OtpAssumption == /\ IsFiniteSet(Slots)
                        /\ SessionSlots \subseteq Slots
                        /\ MaxCounter \in Nat \ {0}
                        /\ SessionMod \in Nat \ {0, 1}
                        /\ MaxKeys \in Nat \ {0}
                        /\ MaxImf \in Nat
                        /\ QueueCap \in Nat

VARIABLES disk,
          scanned,
          uncounted,   \* history: the keys of earlier sessions that wait for
                       \* init_otp to count this start for them
          session,     \* session_counter
          fate,        \* history: what became of each key
          typed        \* history: the <<counter, session>> typed for a live key

vars == <<disk, scanned, uncounted, session, fate, typed>>

-----------------------------------------------------------------------------
(* The slots.                                                              *)

Keys == 1..MaxKeys

\* n: the usage counter or moving factor in the eight bytes after the
\* configuration, which older firmware did not write (long is FALSE).  A
\* static password or a challenge-response key has no counter and is here
\* a HOTP key that nobody presses.
Configuration == [key : Keys, kind : {"yubico", "hotp"}, n : Nat, long : BOOLEAN]

ASSUME NoDataAssumption == NoData \notin Configuration

\* The moving factor in the uid bytes, where a HOTP key starts.
UidFactor == 1

slot(i) == Read(disk, i)

Holding(k) == {i \in Slots : slot(i) # NoData /\ slot(i).key = k}

KeysIn(S) == {k \in Keys : Holding(k) \cap S # {}}

Yubico == {k \in Keys : \E i \in Holding(k) : slot(i).kind = "yubico"}

CanStart ==
    Cardinality(UNION {{i} \X DOMAIN disk.pending[i] : i \in Slots}) <= QueueCap

\* A key is "live" until it is deleted or overwritten ("gone"), its counters
\* could not be kept ("spoiled"), or a power cut, or a swap that failed after
\* its first write, took a write of a slot that held it ("torn").
Fates == {"unused", "live", "spoiled", "gone", "torn"}

Becomes(K, new) ==
    /\ fate' = [k \in Keys |-> IF k \in K /\ fate[k] # "torn" THEN new ELSE fate[k]]
    /\ typed' = [k \in Keys |-> IF k \in K THEN {} ELSE typed[k]]

Typed(k, counter, s) ==
    /\ typed' = IF fate[k] = "live" THEN [typed EXCEPT ![k] = @ \cup {<<counter, s>>}]
                ELSE typed
    /\ UNCHANGED fate

-----------------------------------------------------------------------------
(* Start and button.                                                       *)

\* A usage counter that init_otp counts up.
CountsStarts(c) ==
    c # NoData /\ c.kind = "yubico" /\ c.long /\ c.n + 1 <= MaxCounter

ToCount == {i \in Slots : CountsStarts(slot(i))}

Started(S) == PutAll(disk, [i \in S |-> [slot(i) EXCEPT !.n = @ + 1]])

\* What init_otp may leave: every slot counted, or some of them when a store
\* fails, or none when the migration of the slots does.  Then it returns with
\* scanned still FALSE, and its callers do not notice.
Starts ==
    IF scanned THEN {[disk |-> disk, scanned |-> TRUE, uncounted |-> uncounted]}
    ELSE {[disk |-> Started(ToCount), scanned |-> TRUE, uncounted |-> {}]}
           \cup {[disk |-> Started(S), scanned |-> FALSE, uncounted |-> uncounted \ KeysIn(S)] :
                   S \in {S \in SUBSET ToCount :
                            S # ToCount \/ \E i \in Slots : S = {} /\ slot(i) # NoData}}

StartIs(b) == scanned' = b.scanned /\ uncounted' = b.uncounted

\* Also what a press on an empty slot, a static password or a
\* challenge-response slot comes to.
init_otp ==
    /\ CanStart
    /\ ~scanned
    /\ \E b \in Starts : disk' = b.disk /\ StartIs(b)
    /\ UNCHANGED <<session, fate, typed>>

Scanned == scanned' = TRUE /\ uncounted' = {}

\* Before init_otp the status leaves the start uncounted, and the keys that
\* were used in earlier sessions start over.  Commands answer with a status.
otp_status ==
    /\ ~scanned
    /\ Scanned
    /\ Becomes(uncounted, "spoiled")
    /\ UNCHANGED <<disk, session>>

Factor(c) == IF c.n = 0 THEN UidFactor ELSE c.n

\* The password is typed by then, and nobody looks whether it was stored.
PressHotp(i) ==
    /\ CanStart
    /\ \E b \in Starts, stored \in BOOLEAN :
         LET c == Read(b.disk, i)
             d == Put(b.disk, i, [c EXCEPT !.n = Factor(c) + 1, !.long = TRUE])
         IN  /\ c # NoData
             /\ c.kind = "hotp"
             /\ Factor(c) < MaxImf
             /\ disk' = IF stored THEN d ELSE b.disk
             /\ IF stored THEN Typed(c.key, Factor(c), 0) ELSE Becomes({c.key}, "spoiled")
             /\ StartIs(b)
    /\ UNCHANGED session

\* A usage counter of 0 is not typed: the first press makes it 1.
UsageCounter(c) == IF c.n = 0 THEN 1 ELSE c.n

\* Faulty: the usage counter does not move on when the session wraps.
AdvancedNever(c, s) == UsageCounter(c)

\* The usage counter after a press that leaves the session counter at s.
Advanced(c, s) ==
    IF s = 0 /\ UsageCounter(c) + 1 <= MaxCounter
    THEN UsageCounter(c) + 1
    ELSE UsageCounter(c)

Replaced(d, i, c) == IF c # Read(d, i) THEN Put(d, i, c) ELSE d

\* The disk d after a press, when the session counter reads s.
Pressed(d, i, s) ==
    LET c == Read(d, i)
        n == Advanced(c, (s + 1) % SessionMod)
    IN  Replaced(d, i, IF n # c.n THEN [c EXCEPT !.n = n, !.long = TRUE] ELSE c)

\* A press after the start b, when the session counter reads s.
TypeYubico(b, i, s, stored) ==
    LET c == Read(b.disk, i)
        d == Pressed(b.disk, i, s)
    IN  /\ CanStart
        /\ c # NoData
        /\ c.kind = "yubico"
        /\ stored \/ d # b.disk
        /\ disk' = IF stored THEN d ELSE b.disk
        /\ StartIs(b)

PressYubico(i) ==
    /\ i \in SessionSlots
    /\ \E b \in Starts, stored \in BOOLEAN :
         LET c == Read(b.disk, i)
         IN  /\ TypeYubico(b, i, session[i], stored)
             /\ IF stored /\ c.key \notin b.uncounted
                THEN Typed(c.key, UsageCounter(c), session[i])
                ELSE Becomes({c.key}, "spoiled")
    /\ session' = [session EXCEPT ![i] = (@ + 1) % SessionMod]

\* session_counter has two elements.  For a later slot the code reads, and
\* counts up, whatever lies behind them.
PressPastSession(i) ==
    /\ i \notin SessionSlots
    /\ \E b \in Starts, s \in 0..(SessionMod - 1), stored \in BOOLEAN :
         /\ TypeYubico(b, i, s, stored)
         /\ Becomes({Read(b.disk, i).key}, "spoiled")
    /\ UNCHANGED session

-----------------------------------------------------------------------------
(* Commands.  Each asks for the access code of the configurations it       *)
(* replaces, and changes nothing without it.                               *)

\* The keys of the slots S are removed and, if add, a new one written.
Replace(S, add) ==
    LET new == Min({k \in Keys : fate[k] = "unused"} \cup {MaxKeys + 1})
    IN  /\ fate' = [k \in Keys |->
                       IF fate[k] = "torn" THEN "torn"
                       ELSE IF k \in KeysIn(S) THEN "gone"
                       ELSE IF add /\ k = new THEN "live"
                       ELSE IF k \in uncounted THEN "spoiled"
                       ELSE fate[k]]
        /\ typed' = [k \in Keys |-> IF k \in KeysIn(S) \cup uncounted THEN {} ELSE typed[k]]

Configure(i) ==
    /\ CanStart
    /\ \E k \in Keys, kind \in {"yubico", "hotp"} :
         /\ fate[k] = "unused"
         /\ \A j \in Keys : j < k => fate[j] # "unused"
         /\ disk' = Put(disk, i, [key |-> k, kind |-> kind, n |-> 0, long |-> TRUE])
    /\ Replace({i}, TRUE)
    /\ Scanned
    /\ UNCHANGED session

\* Configure with a configuration of zeros.
DeleteSlot(i) ==
    /\ CanStart
    /\ slot(i) # NoData
    /\ disk' = Put(disk, i, NoData)
    /\ Replace({i}, FALSE)
    /\ Scanned
    /\ UNCHANGED session

\* New flags and access code; key, kind and the eight bytes are kept.
Updated(c) == c

Update(i) ==
    /\ CanStart
    /\ slot(i) # NoData
    /\ disk' = Put(disk, i, Updated(slot(i)))
    /\ Scanned
    /\ Becomes(uncounted, "spoiled")
    /\ UNCHANGED session

\* Faulty: the second slot gets what the first one holds by then.
SwappedInPlace(i, j) ==
    LET d == Replaced(disk, i, slot(j)) IN Replaced(d, j, Read(d, i))

Swapped(i, j) == Replaced(Replaced(disk, i, slot(j)), j, slot(i))

\* The session counters stay where they are, so a key that changes places
\* may meet one that it has used before.
Swap(i, j) ==
    LET moved == IF {i, j} \subseteq SessionSlots /\ session[i] = session[j] THEN {}
                 ELSE Yubico \cap KeysIn({i, j})
    IN  /\ CanStart
        /\ disk' = Swapped(i, j)
        /\ Scanned
        /\ Becomes(moved \cup uncounted, "spoiled")
        /\ UNCHANGED session

\* The second slot cannot be created or stored: the first one has lost its key
\* by then, or has the key of the second as well.
SwapFails(i, j) ==
    /\ CanStart
    /\ slot(i) # NoData
    /\ disk' = Replaced(disk, i, slot(j))
    /\ Becomes(KeysIn({i, j}), "torn")
    /\ UNCHANGED <<scanned, uncounted, session>>

-----------------------------------------------------------------------------
Drain ==
    /\ \E i \in Slots : CanDrain(disk, i) /\ disk' = Drained(disk, i)
    /\ UNCHANGED <<scanned, uncounted, session, fate, typed>>

\* Keys in any version of a slot that has still to be written.
PendingKeys ==
    {k \in Keys : \E i \in Slots : /\ disk.pending[i] # <<>>
                                   /\ \E c \in Copies(disk, i) : c # NoData /\ c.key = k}

PowerCycle ==
    /\ disk' = Crashed(disk)
    /\ scanned' = FALSE
    /\ uncounted' = {k \in Yubico \ PendingKeys : typed[k] # {}}
    /\ session' = [i \in SessionSlots |-> 0]
    /\ Becomes(PendingKeys, "torn")

\* authenticatorReset erases the slots; scanned and the sessions stay.
cbor_reset ==
    /\ CanStart
    /\ disk' = Settled([i \in Slots |-> NoData])
    /\ Scanned
    /\ Becomes({k \in Keys : fate[k] # "unused"}, "gone")
    /\ UNCHANGED session

\* A new device, or one that older firmware configured.
Init ==
    /\ \E old \in {NoData} \cup [key : {1}, kind : {"yubico", "hotp"}, n : {0}, long : {FALSE}],
          first \in Slots :
         /\ disk = Settled([i \in Slots |-> IF i = first THEN old ELSE NoData])
         /\ fate = [k \in Keys |-> IF k = 1 /\ old # NoData THEN "live" ELSE "unused"]
    /\ scanned = FALSE
    /\ uncounted = {}
    /\ session = [i \in SessionSlots |-> 0]
    /\ typed = [k \in Keys |-> {}]

Next ==
    \/ init_otp \/ otp_status
    \/ \E i \in Slots : \/ PressHotp(i) \/ PressYubico(i) \/ PressPastSession(i)
                        \/ Configure(i) \/ DeleteSlot(i) \/ Update(i)
    \/ \E i, j \in Slots : i # j /\ (Swap(i, j) \/ SwapFails(i, j))
    \/ Drain \/ PowerCycle \/ cbor_reset

Spec == Init /\ [][Next]_vars

-----------------------------------------------------------------------------
(* What the applet promises.                                               *)

\* The type of the state.
OtpTypeOK ==
    /\ IsDisk(disk, [i \in Slots |-> {NoData} \cup Configuration])
    /\ scanned \in BOOLEAN
    /\ uncounted \in SUBSET Keys
    /\ session \in [SessionSlots -> 0..(SessionMod - 1)]
    /\ fate \in [Keys -> Fates]
    /\ typed \in [Keys -> SUBSET (Nat \X Nat)]

\* What a press on slot i types when the configuration reads c.
NextTyped(c, i) ==
    IF c.kind = "hotp" THEN <<Factor(c), 0>> ELSE <<UsageCounter(c), session[i]>>

\* The next password of a live key was never typed before, over restarts,
\* wraps of the session counter, updates, swaps and starts of which a part
\* failed, as long as its usage counter is not at its end (0x7fff) and its
\* start is counted if it needs to be.  A key is spoiled if a press or a
\* status came with its start not counted, if the store of a press failed, if
\* a swap took it between two session counters, or if its slot has none.
NextIsNew ==
    \A b \in Starts, i \in Slots :
        LET c == Read(b.disk, i)
        IN  (c # NoData /\ fate[c.key] = "live")
              => \/ /\ c.kind = "yubico"
                    /\ i \notin SessionSlots \/ c.n = MaxCounter \/ c.key \in b.uncounted
                 \/ NextTyped(c, i) \notin typed[c.key]

\* Every configuration that was written and not removed is in exactly one
\* slot, through any swaps, unless a power cut took a write of its slot or a
\* swap of it failed between its two writes.
KeyInOneSlot ==
    \A k \in Keys : /\ fate[k] \in {"live", "spoiled"} => Cardinality(Holding(k)) = 1
                    /\ fate[k] = "gone" => Holding(k) = {}
=============================================================================
