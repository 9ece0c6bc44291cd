-------------------------- MODULE CredentialStore ---------------------------
(***************************************************************************)
(* The resident credentials: the files EF_CRED + i and, for each relying   *)
(* party, a file EF_RP + i with the number of its credentials              *)
(* (credential.c, and the changes cbor_cred_mgmt.c makes).                 *)
(*                                                                         *)
(* A credential lives in a container, whose creation, update and deletion  *)
(* wait for the flash, or in a single file of older firmware, whose writes *)
(* do not.  The count of the relying party and the store state are always  *)
(* written without waiting, after the credential.                          *)
(*                                                                         *)
(* A container changes at once (ResidentContainer!ChangesAtOnce), so here  *)
(* it is one file.  Only a deletion, and a creation over an existing       *)
(* container, go through Broken: marker there, credential unreadable.      *)
(*                                                                         *)
(* What was cut off may leave a second, older version in a container, and  *)
(* a container without its marker; a deletion that is cut off brings the   *)
(* older version back (ResidentContainer!unsure), perhaps another user's.  *)
(* Here that is one whole version.  Once records are written over it, the  *)
(* code may also show a mixture of the two, which this module leaves out:  *)
(* its properties say nothing of such a slot.                              *)
(***************************************************************************)
EXTENDS FlashQueue, Integers

CONSTANTS MaxSlots,    \* MAX_RESIDENT_CREDENTIALS
          CountMod,    \* a count is a uint8_t: 2^8
          RP, User,
          Info,        \* the names updateUserInformation can change
          Absent, Broken,
          OldFirmware, \* may the device have credentials of older firmware?
          QueueCap,    \* bound: no command starts behind a longer queue
          MaxMishaps   \* bound on power cuts and failed commands

ASSUME StoreAssumption == /\ MaxSlots \in Nat \ {0}
                          /\ CountMod \in Nat \ {0, 1}
                          /\ OldFirmware \in BOOLEAN
                          /\ QueueCap \in Nat
                          /\ MaxMishaps \in Nat

VARIABLES disk,      \* the files
          op,        \* the handler that waits for the flash
          mishaps,   \* history: commands cut off or failed half way
          torn,      \* history: one of them since the last command that was done
          asked,     \* history: whose credentials a queued write may delete or replace
          unsure     \* history: the slots where a deletion may bring back another user's

storeVars == <<disk, op, mishaps, torn, asked, unsure>>

-----------------------------------------------------------------------------
Slots == 0..(MaxSlots - 1)

CredFile(i) == <<"EF_CRED", i>>
RpFile(i) == <<"EF_RP", i>>
StateFile == <<"EF_DEV_STATE">>

\* The manifest of container i that is not the current one; without a marker,
\* that of a creation which was cut off.
OlderFile(i) == <<"older", i>>

Files == {StateFile} \cup {CredFile(i) : i \in Slots} \cup {RpFile(i) : i \in Slots}
                     \cup {OlderFile(i) : i \in Slots}

Credential == [rp : RP, user : User, info : Info, legacy : BOOLEAN]

\* secure: the name of the relying party is encrypted.
RpRecord == [rp : RP, count : 0..(CountMod - 1), secure : BOOLEAN]

\* An empty file and a container that cannot be read are told from the rest.
ASSUME AbsentAssumption == /\ Absent # Broken
                           /\ {Absent, Broken} \cap (Credential \cup RpRecord) = {}

\* The store state is 16 random bytes, new after each change: the value
\* stands for the credentials it was drawn for.
StoreState == SUBSET [rp : RP, user : User, info : Info]

Contents == [f \in Files |-> CASE f[1] = "EF_CRED" -> {Absent, Broken} \cup Credential
                               [] f[1] = "EF_RP" -> {Absent} \cup RpRecord
                               [] f[1] = "older" -> {Absent} \cup Credential
                               [] f[1] = "EF_DEV_STATE" -> StoreState]

ram == [f \in Files |-> Read(disk, f)]
flash == disk.flash

\* credential_resident_matches_rp.
Stored(v) == {i \in Slots : v[CredFile(i)] \notin {Absent, Broken}}
OfRp(v, r) == {i \in Stored(v) : v[CredFile(i)].rp = r}
OfUser(v, r, u) == {i \in OfRp(v, r) : v[CredFile(i)].user = u}

RpRecords(v, r) == {i \in Slots : v[RpFile(i)] # Absent /\ v[RpFile(i)].rp = r}
Count(v, r) == IF RpRecords(v, r) = {} THEN 0 ELSE v[RpFile(Min(RpRecords(v, r)))].count

\* Faulty: a slot in use is taken for a free one.
FreeSlotsUnchecked == Slots

FreeSlots == {i \in Slots : ram[CredFile(i)] = Absent}
FreeRpSlots == {i \in Slots : ram[RpFile(i)] = Absent}

Described(v) == {[rp |-> v[CredFile(i)].rp, user |-> v[CredFile(i)].user,
                  info |-> v[CredFile(i)].info] : i \in Stored(v)}

-----------------------------------------------------------------------------
Idle == [step |-> "idle"]

CanStart == /\ op = Idle
            /\ \A f \in Files : Len(disk.pending[f]) <= QueueCap

\* Faulty: the state stays.
StateKept(d) == d

\* dev_state_update(DEV_STATE_CRED_STATE).
dev_state_update(d) ==
    Put(d, StateFile, Described([f \in Files |-> Read(d, f)]))

\* Faulty: a relying party that has a record gets a second one.
CountUpInNewRecord(d, r) ==
    Put(d, RpFile(Min(FreeRpSlots)), [rp |-> r, count |-> 1, secure |-> TRUE])

\* credential_store: one more credential of r.
CountUp(d, r) ==
    IF RpRecords(ram, r) # {}
    THEN LET i == Min(RpRecords(ram, r))
         IN  Put(d, RpFile(i), [ram[RpFile(i)] EXCEPT !.count = (ram[RpFile(i)].count + 1) % CountMod])
    ELSE Put(d, RpFile(Min(FreeRpSlots)), [rp |-> r, count |-> 1, secure |-> TRUE])

\* Faulty: the count of the last credential of r is left as it is.
CountDownNotToZero(d, r) ==
    IF RpRecords(ram, r) = {} \/ Count(ram, r) = 1 THEN d
    ELSE LET i == Min(RpRecords(ram, r))
         IN  Put(d, RpFile(i), [ram[RpFile(i)] EXCEPT !.count = (ram[RpFile(i)].count - 1) % CountMod])

\* deleteCredential: one less.
CountDown(d, r) ==
    IF RpRecords(ram, r) = {} THEN d
    ELSE LET i == Min(RpRecords(ram, r))
             n == (ram[RpFile(i)].count - 1) % CountMod
         IN  Put(d, RpFile(i),
                 IF n = 0 THEN Absent ELSE [ram[RpFile(i)] EXCEPT !.count = n])

\* The command is done: its last writes are queued.
Done(d) == /\ disk' = dev_state_update(d)
           /\ op' = Idle
           /\ torn' = FALSE
           /\ UNCHANGED mishaps

Failed(d) == /\ mishaps < MaxMishaps
             /\ disk' = d
             /\ op' = Idle
             /\ mishaps' = mishaps + 1
             /\ torn' = TRUE

\* The handler waits for the flash, to go on with container i and then with c.
Waiting(d, step, i, c) == /\ disk' = d
                          /\ op' = [step |-> step, slot |-> i, cred |-> c]
                          /\ UNCHANGED <<mishaps, torn>>

\* What was asked for before is done once everything is in the flash.
StillAsked == IF IsSettled(disk) THEN {} ELSE asked

Asked(cs) == asked' = StillAsked \cup {[rp |-> c.rp, user |-> c.user] : c \in cs}

-----------------------------------------------------------------------------
(* authenticatorMakeCredential with rk: credential_store.                  *)

NewCredential(r, u, x) == [rp |-> r, user |-> u, info |-> x, legacy |-> FALSE]

\* Faulty: a credential of the same user is not looked for.
StoreNewAlways(r, u, x) ==
    /\ CanStart
    /\ FreeSlots # {}
    /\ Waiting(disk, "records", Min(FreeSlots), NewCredential(r, u, x))
    /\ asked' = StillAsked
    /\ UNCHANGED unsure

\* The user has no credential at r yet: it goes into the first free slot.
StoreNew(r, u, x) ==
    /\ CanStart
    /\ OfUser(ram, r, u) = {}
    /\ FreeSlots # {}
    /\ Waiting(disk, "records", Min(FreeSlots), NewCredential(r, u, x))
    /\ asked' = StillAsked
    /\ UNCHANGED unsure

\* Otherwise it replaces that one, in the format that is there.  The records
\* may overwrite some that the container is read from.
StoreAgain(r, u, x) ==
    /\ CanStart
    /\ OfUser(ram, r, u) # {}
    /\ LET i == Min(OfUser(ram, r, u))
           f == CredFile(i)
           c == [NewCredential(r, u, x) EXCEPT !.legacy = ram[f].legacy]
       IN  /\ Asked({c})
           /\ IF c.legacy
              THEN Done(Put(disk, f, c))
              ELSE \E d \in {disk, Put(disk, f, Broken)} :
                      Waiting(d, "records", i, c) \/ Failed(d)
    /\ UNCHANGED unsure

\* flash_commit_sync has returned true.
Synced(step) == op.step = step /\ IsSettled(disk)

\* The older version in container i is v from now on.
OlderIs(d, i, v) == IF Read(d, OlderFile(i)) = v THEN d ELSE Put(d, OlderFile(i), v)

\* The records are in the flash: the manifest makes them the credential, and
\* the version it replaces is the older one.
WriteManifest ==
    /\ Synced("records")
    /\ ram[CredFile(op.slot)] # Absent
    /\ LET i == op.slot
           c == ram[CredFile(i)]
       IN  Waiting(Put(OlderIs(disk, i, IF c = Broken THEN Absent ELSE c), CredFile(i), op.cred),
                   "replace", i, op.cred)
    /\ UNCHANGED <<asked, unsure>>

\* A new container needs its marker as well.  What is cut off before that
\* leaves the slot free, with the new version in it.
WriteMarker ==
    /\ Synced("records")
    /\ ram[CredFile(op.slot)] = Absent
    /\ \/ Waiting(Put(disk, CredFile(op.slot), op.cred), "store", op.slot, op.cred)
       \/ Failed(OlderIs(disk, op.slot, op.cred))
    /\ UNCHANGED <<asked, unsure>>

\* The container is cleaned up and the new credential is counted.  That fails
\* when there is no room for a record of its relying party: the credential
\* stays all the same.
FinishStore ==
    /\ Synced("store")
    /\ LET d == OlderIs(disk, op.slot, Absent)
       IN  \/ /\ RpRecords(ram, op.cred.rp) # {} \/ FreeRpSlots # {}
              /\ Done(CountUp(d, op.cred.rp))
           \/ /\ RpRecords(ram, op.cred.rp) = {}
              /\ Failed(d)
    /\ UNCHANGED <<asked, unsure>>

\* Nothing is to be counted after a replacement or an update.
FinishInPlace ==
    /\ Synced("replace")
    /\ Done(OlderIs(disk, op.slot, Absent))
    /\ UNCHANGED <<asked, unsure>>

-----------------------------------------------------------------------------
(* authenticatorCredentialManagement.                                      *)

\* deleteCredential of older firmware's single file, which does not wait.
DeleteSingleFile(i) ==
    /\ CanStart
    /\ i \in Stored(ram)
    /\ ram[CredFile(i)].legacy
    /\ LET c == ram[CredFile(i)]
       IN  Asked({c}) /\ Done(CountDown(Put(disk, CredFile(i), Absent), c.rp))
    /\ UNCHANGED unsure

\* resident_container_delete, file by file, where u is the older version in
\* the flash by then.  If writes land in any order the marker may go first.
ContainerDeleted(i, u) ==
    LET f == CredFile(i)
        c == ram[f]
        uncovered == IF u \in {Absent, c} THEN disk ELSE Put(disk, f, u)
        unmarked == IF InOrder THEN uncovered ELSE OlderIs(uncovered, i, c)
    IN  Put(OlderIs(Put(unmarked, f, Broken), i, Absent), f, Absent)

\* deleteCredential of a container.
DeleteContainer(i) ==
    /\ CanStart
    /\ i \in Stored(ram)
    /\ ~ram[CredFile(i)].legacy
    /\ \E u \in IF InOrder THEN {ram[OlderFile(i)]} ELSE Copies(disk, OlderFile(i)) :
         LET c == ram[CredFile(i)]
         IN  /\ Waiting(ContainerDeleted(i, u), "delete", i, c)
             /\ Asked({c, u} \ {Absent})
             /\ unsure' = IF u = Absent \/ <<u.rp, u.user>> = <<c.rp, c.user>>
                          THEN unsure ELSE unsure \cup {i}

FinishDelete ==
    /\ Synced("delete")
    /\ Done(CountDown(disk, op.cred.rp))
    /\ unsure' = unsure \ {op.slot}
    /\ UNCHANGED asked

\* updateUserInformation.
UpdateUser(i, x) ==
    /\ CanStart
    /\ i \in Stored(ram)
    /\ LET f == CredFile(i)
           c == [ram[f] EXCEPT !.info = x]
       IN  IF c.legacy THEN Done(Put(disk, f, c))
                       ELSE Waiting(disk, "records", i, c)
    /\ asked' = StillAsked
    /\ UNCHANGED unsure

\* core0 was too slow: the handler fails, and what it has written stays.
CommitTimeout ==
    /\ op # Idle
    /\ ~IsSettled(disk)
    /\ Failed(disk)
    /\ UNCHANGED <<asked, unsure>>

Drain ==
    /\ \E f \in Files : CanDrain(disk, f) /\ disk' = Drained(disk, f)
    /\ UNCHANGED <<op, mishaps, torn, asked, unsure>>

\* credential_migrate_rp_secure: the records of older firmware are rewritten.
credential_migrate_rp_secure(d) ==
    LET old == {i \in Slots : d.flash[RpFile(i)] # Absent /\ ~d.flash[RpFile(i)].secure}
    IN  PutAll(d, [f \in {RpFile(i) : i \in old} |-> [d.flash[f] EXCEPT !.secure = TRUE]])

\* A power cut.  At start-up the device key may still be sealed with the PIN,
\* and then the names of the relying parties are not encrypted.
PowerCycle ==
    /\ LET d == Crashed(disk)
       IN  disk' \in {d, credential_migrate_rp_secure(d)}
    /\ op' = Idle
    /\ IF op = Idle /\ IsSettled(disk)
       THEN UNCHANGED <<mishaps, torn>>
       ELSE mishaps < MaxMishaps /\ mishaps' = mishaps + 1 /\ torn' = TRUE
    /\ asked' = {}
    /\ UNCHANGED unsure

-----------------------------------------------------------------------------
\* The store is empty, or has credentials of older firmware.
LegacyStore(cs, rs) ==
    /\ \A i \in Slots : cs[i] # Absent => cs[i].legacy /\ OldFirmware
    /\ \A i, j \in Slots : /\ cs[i] # Absent /\ cs[j] # Absent /\ i # j
                           => <<cs[i].rp, cs[i].user>> # <<cs[j].rp, cs[j].user>>
    /\ \A i, j \in Slots : rs[i] # Absent /\ rs[j] # Absent /\ i # j => rs[i].rp # rs[j].rp
    /\ \A i \in Slots : rs[i] # Absent =>
         rs[i] = [rp     |-> rs[i].rp,
                  count  |-> Cardinality({j \in Slots : cs[j] # Absent /\ cs[j].rp = rs[i].rp})
                               % CountMod,
                  secure |-> FALSE]
    /\ {cs[i].rp : i \in {j \in Slots : cs[j] # Absent}} =
       {rs[i].rp : i \in {j \in Slots : rs[j] # Absent}}

StoreInit ==
    /\ \E cs \in [Slots -> {Absent} \cup Credential],
          rs \in [Slots -> {Absent} \cup RpRecord] :
         LET v == [f \in Files |-> CASE f[1] = "EF_CRED" -> cs[f[2]]
                                     [] f[1] = "EF_RP" -> rs[f[2]]
                                     [] f[1] = "older" -> Absent
                                     [] f[1] = "EF_DEV_STATE" -> {}]
         IN  /\ LegacyStore(cs, rs)
             /\ disk = Settled([v EXCEPT ![StateFile] = Described(v)])
    /\ op = Idle
    /\ mishaps = 0
    /\ torn = FALSE
    /\ asked = {}
    /\ unsure = {}

StoreCommand ==
    \/ \E r \in RP, u \in User, x \in Info : StoreNew(r, u, x) \/ StoreAgain(r, u, x)
    \/ WriteManifest \/ WriteMarker \/ FinishStore \/ FinishInPlace
    \/ \E i \in Slots : \/ DeleteSingleFile(i) \/ DeleteContainer(i)
                       \/ \E x \in Info : UpdateUser(i, x)
    \/ FinishDelete
    \/ CommitTimeout \/ Drain

StoreNext == StoreCommand \/ PowerCycle

StoreSpec == StoreInit /\ [][StoreNext]_storeVars

-----------------------------------------------------------------------------
\* The type of the state.
StoreTypeOK ==
    /\ IsDisk(disk, Contents)
    /\ op \in {Idle} \cup [step : {"records", "store", "replace", "delete"},
                            slot : Slots, cred : Credential]
    /\ mishaps \in 0..MaxMishaps
    /\ torn \in BOOLEAN
    /\ asked \subseteq [rp : RP, user : User]
    /\ unsure \subseteq Slots

\* Storing a credential for a user who has one replaces it (test_022:225), in
\* what the handlers see as in what a power cut leaves.  A container that was
\* not deleted to the end beside another user's older version may show that.
OneCredentialPerUser ==
    \A v \in {ram, flash} : \A i, j \in Stored(v) \ unsure :
       /\ v[CredFile(i)].rp = v[CredFile(j)].rp
       /\ v[CredFile(i)].user = v[CredFile(j)].user
       => i = j

\* credential_store and deleteCredential change the first record they find:
\* there must be no second one for the same relying party.
OneRecordPerRp ==
    \A v \in {ram, flash} : \A r \in RP : Cardinality(RpRecords(v, r)) <= 1

\* The count of a relying party is the number of its credentials, and every
\* command that fails or is cut off puts it out by one at most; all modulo
\* CountMod.  That is so as long as NoCountWraps: a count that is out by one
\* and wraps makes deleteCredential empty the record too early, and then the
\* next ones are not counted.
NoCountWraps == \A r \in RP : Cardinality(OfRp(ram, r)) + mishaps < CountMod

CountsFollow ==
    op = Idle => \A r \in RP : \E d \in (0 - mishaps)..mishaps :
                    Count(ram, r) = (Cardinality(OfRp(ram, r)) + d) % CountMod

\* encCredStoreState tells a platform whether what it remembers of the
\* credentials is still true: after each command that is done the value is the
\* one drawn for the credentials that are there.
StateNamesCredentials == op = Idle /\ ~torn => ram[StateFile] = Described(ram)

\* A credential disappears from the flash only if it was to be deleted or
\* replaced, whatever is cut off where: no command takes another's slot.
OnlyAskedIsLost ==
    [][\A i \in Stored(flash) :
          LET c == flash[CredFile(i)]
          IN  OfUser(flash', c.rp, c.user) # {} \/ [rp |-> c.rp, user |-> c.user] \in asked]_storeVars
=============================================================================
