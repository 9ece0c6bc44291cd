------------------------- MODULE ResidentContainer --------------------------
(***************************************************************************)
(* One slot of the resident credentials (resident_container.c).            *)
(*                                                                         *)
(* A container is a manifest, one record per object and a marker, EF_CRED  *)
(* + slot, by which the rest of the firmware knows it.  Manifest and       *)
(* records exist in two places, 0 and 1: an update writes the new records  *)
(* and then the manifest that refers to them into the places the current   *)
(* manifest leaves free, waits for the flash after each, and deletes what  *)
(* is old without waiting.  What is there after a power cut is the valid   *)
(* manifest with the highest generation.                                   *)
(*                                                                         *)
(* A record is valid for a descriptor that has its object generation: the  *)
(* parser of the SDK, which is not in the repository, checks the header of *)
(* the one against the other.  The contents of one file change at once,    *)
(* and seals verify: device key and policy are those of the writer.        *)
(***************************************************************************)
EXTENDS FlashQueue, FiniteSets

CONSTANTS Objects,         \* the object types, in the order they are written
          Mutable,         \* FIDO_RESIDENT_OBJECT_CREDENTIAL
          Value,           \* the contents of an object
          Absent,          \* no such file
          MaxGeneration,   \* UINT32_MAX
          QueueCap         \* bound: no command starts behind a longer queue

Types == Range(Objects)

ASSUME ContainerAssumption == /\ Objects \in Seq(Types)
                              /\ Mutable \in Types
                              /\ MaxGeneration \in Nat \ {0}
                              /\ QueueCap \in Nat

VARIABLES disk,   \* the files of the slot
          op,     \* the update or deletion that waits for the flash
          goals,  \* history: versions asked for that may still come true
          versions,  \* history: all versions ever asked for
          unsure,    \* history: a deletion beside an old manifest has begun
                     \* and no deletion has finished since
          again      \* history: the same for a creation over a container

vars == <<disk, op, goals, versions, unsure, again>>

-----------------------------------------------------------------------------
Place == 0..1

marker == <<"marker">>
manifest(p) == <<"manifest", p>>
record(p, t) == <<"record", p, t>>

Files == {marker} \cup {manifest(p) : p \in Place}
                  \cup {record(p, t) : p \in Place, t \in Types}

Generation == 1..MaxGeneration

Descriptor == [generation : Generation, place : Place]

Manifest == [generation : Generation, objects : [Types -> Descriptor]]

Record == [generation : Generation, value : Value]

ASSUME AbsentAssumption == Absent \notin {"PKF1"} \cup Manifest \cup Record

Contents == [f \in Files |-> CASE f[1] = "marker"   -> {Absent, "PKF1"}
                               [] f[1] = "manifest" -> {Absent} \cup Manifest
                               [] f[1] = "record"   -> {Absent} \cup Record]

\* What the handlers see, and what a restart would leave them to see.
ram == [f \in Files |-> Read(disk, f)]
flash == disk.flash

\* Faulty: a record only has to be there.
ValidIfPresent(v, p) ==
    /\ v[manifest(p)] # Absent
    /\ \A t \in Types : v[record(v[manifest(p)].objects[t].place, t)] # Absent

\* resident_manifest_parse_slot finds a manifest and all its records.
Valid(v, p) ==
    /\ v[manifest(p)] # Absent
    /\ \A t \in Types :
         LET o == v[manifest(p)].objects[t]
             r == v[record(o.place, t)]
         IN  r # Absent /\ r.generation = o.generation

\* resident_manifest_load: the place of the current manifest.
IsCurrent(v, p) ==
    /\ Valid(v, p)
    /\ Valid(v, 1 - p) =>
         v[manifest(1 - p)].generation < v[manifest(p)].generation

HasManifest(v) == \E p \in Place : v[manifest(p)] # Absent

Loads(v) == \E p \in Place : IsCurrent(v, p)

Current(v) == CHOOSE p \in Place : IsCurrent(v, p)

\* The credential that resident_container_read gives, object by object.
Visible(v) ==
    IF v[marker] # Absent /\ Loads(v)
    THEN [t \in Types |->
            v[record(v[manifest(Current(v))].objects[t].place, t)].value]
    ELSE Absent

resident_container_can_create == HasManifest(ram) => Loads(ram)

-----------------------------------------------------------------------------
\* file_delete_no_commit of a file that may not be there.
DeleteFile(d, f) == IF Read(d, f) = Absent THEN d ELSE Put(d, f, Absent)

resident_replace_file(d, f, v) == Put(DeleteFile(d, f), f, v)

\* Faulty: the update is written over the current version.
TargetInPlace == IF Loads(ram) THEN Current(ram) ELSE 0

\* target_slot: the place the current manifest does not lie in.
Target == IF Loads(ram) THEN 1 - Current(ram) ELSE 0

\* The manifest after the current one, with new versions of the objects ts.
NextManifest(ts) ==
    IF Loads(ram)
    THEN LET m == ram[manifest(Current(ram))]
         IN  [generation |-> m.generation + 1,
              objects    |-> [t \in Types |->
                                IF t \in ts
                                THEN [generation |-> m.objects[t].generation + 1,
                                      place      |-> Target]
                                ELSE m.objects[t]]]
    ELSE [generation |-> 1,
          objects    |-> [t \in Types |-> [generation |-> 1, place |-> Target]]]

\* resident_record_write of the objects of the sequence ts, with value v.
RecordsWritten(m, ts, v) ==
    LET after[n \in 0..Len(ts)] ==
          IF n = 0 THEN disk
          ELSE resident_replace_file(after[n - 1], record(Target, ts[n]),
                 [generation |-> m.objects[ts[n]].generation, value |-> v])
    IN  after[Len(ts)]

Fits(m) == m.generation <= MaxGeneration

Idle == [step |-> "idle"]

CanStart == /\ op = Idle
            /\ \A f \in Files : Len(disk.pending[f]) <= QueueCap

\* resident_container_update up to its first flash_commit_sync.  If it finds
\* no memory it stops after some records, perhaps with the next one deleted,
\* and does not undo them.
resident_container_update(ts, v, goal) ==
    LET m == NextManifest(Range(ts))
        written(n) == RecordsWritten(m, SubSeq(ts, 1, n), v)
    IN  /\ CanStart
        /\ HasManifest(ram) => Loads(ram)
        /\ Fits(m)
        /\ \/ /\ disk' = written(Len(ts))
              /\ op' = [step |-> "records", manifest |-> m,
                        target |-> Target, goal |-> goal]
           \/ /\ \E n \in 0..(Len(ts) - 1) :
                    disk' \in {written(n), DeleteFile(written(n), record(Target, ts[n + 1]))}
              /\ op' = Idle
        /\ goals' = goals \cup {goal}
        /\ versions' = versions \cup {goal}
        /\ UNCHANGED unsure

NewCredential(v) == [t \in Types |-> v]

\* credential_store in a slot without a marker.  An orphaned container may
\* be there already.
CreateInFreeSlot(v) ==
    /\ ram[marker] = Absent
    /\ resident_container_can_create
    /\ resident_container_update(Objects, v, NewCredential(v))
    /\ UNCHANGED again

\* credential_store for a user whose credential is in the slot.
CreateAgain(v) ==
    /\ Visible(ram) # Absent
    /\ resident_container_update(Objects, v, NewCredential(v))
    /\ again' = TRUE

\* authenticatorCredentialManagement updateUserInformation.
UpdateCredential(v) ==
    /\ Visible(ram) # Absent
    /\ resident_container_update(<<Mutable>>, v,
                                 [Visible(ram) EXCEPT ![Mutable] = v])
    /\ UNCHANGED again

-----------------------------------------------------------------------------
\* Faulty: flash_commit instead of flash_commit_sync.
SyncedLater(step) == op.step = step

\* flash_commit_sync has returned true, so the handler goes on.
Synced(step) == op.step = step /\ IsSettled(disk)

\* file_delete_no_commit of the files of the sequence fs that are not in kept.
DeleteFiles(d, fs, kept) ==
    LET after[n \in 0..Len(fs)] ==
          IF n = 0 THEN d
          ELSE IF fs[n] \in kept THEN after[n - 1]
          ELSE DeleteFile(after[n - 1], fs[n])
    IN  after[Len(fs)]

Records(p) == [i \in DOMAIN Objects |-> record(p, Objects[i])]

\* Faulty: what lies in the other place is deleted, referred to or not.
KeptPlace == {manifest(op.target)} \cup {record(op.target, t) : t \in Types}

\* What follows once manifest and marker are in the flash: the old manifest
\* and the records the new one does not refer to are deleted, place by place.
Kept == {manifest(op.target)} \cup
        {record(op.manifest.objects[t].place, t) : t \in Types}

CleanedUp ==
    DeleteFiles(disk, <<manifest(0)>> \o Records(0) \o <<manifest(1)>> \o Records(1), Kept)

\* The records are in the flash: write the manifest, or find no memory.
WriteManifest ==
    /\ Synced("records")
    /\ \/ /\ disk' = resident_replace_file(disk, manifest(op.target), op.manifest)
          /\ op' = [op EXCEPT !.step = "manifest"]
       \/ /\ disk' = DeleteFile(disk, manifest(op.target))
          /\ op' = Idle
    /\ UNCHANGED <<goals, versions, unsure, again>>

\* The manifest is in the flash; a new container still needs its marker, for
\* which there may be no memory.
WriteMarker ==
    /\ Synced("manifest")
    /\ ram[marker] = Absent
    /\ \/ /\ disk' = resident_replace_file(disk, marker, "PKF1")
          /\ op' = [op EXCEPT !.step = "marker"]
       \/ /\ op' = Idle
          /\ UNCHANGED disk
    /\ UNCHANGED <<goals, versions, unsure, again>>

Finish ==
    /\ Synced("marker") \/ (Synced("manifest") /\ ram[marker] # Absent)
    /\ disk' = CleanedUp
    /\ op' = Idle
    /\ goals' = {op.goal}
    /\ UNCHANGED <<versions, unsure, again>>

\* core0 was too slow: the handler fails, and what it has written stays.
CommitTimeout ==
    /\ op # Idle
    /\ ~IsSettled(disk)
    /\ op' = Idle
    /\ UNCHANGED <<disk, goals, versions, unsure, again>>

\* Faulty: the marker is deleted first.
AllFilesMarkerFirst ==
    <<marker>> \o Records(0) \o <<manifest(0)>> \o Records(1) \o <<manifest(1)>>

\* Everything of place 0, everything of place 1, and then the marker.
AllFiles ==
    Records(0) \o <<manifest(0)>> \o Records(1) \o <<manifest(1)>> \o <<marker>>

resident_container_delete ==
    /\ CanStart
    /\ ram[marker] # Absent
    /\ Loads(ram)
    /\ disk' = DeleteFiles(disk, AllFiles, {})
    /\ op' = [step |-> "delete", goal |-> Absent]
    /\ goals' = goals \cup {Absent}
    /\ unsure' = (unsure \/ \A p \in Place : ram[manifest(p)] # Absent)
    /\ UNCHANGED <<versions, again>>

FinishDelete ==
    /\ Synced("delete")
    /\ op' = Idle
    /\ goals' = {op.goal}
    /\ unsure' = FALSE
    /\ again' = FALSE
    /\ UNCHANGED <<disk, versions>>

Drain ==
    /\ \E f \in Files : CanDrain(disk, f) /\ disk' = Drained(disk, f)
    /\ UNCHANGED <<op, goals, versions, unsure, again>>

PowerCycle ==
    /\ disk' = Crashed(disk)
    /\ op' = Idle
    /\ goals' = {}
    /\ UNCHANGED <<versions, unsure, again>>

-----------------------------------------------------------------------------
Init ==
    /\ disk = Settled([f \in Files |-> Absent])
    /\ op = Idle
    /\ goals = {}
    /\ versions = {}
    /\ unsure = FALSE
    /\ again = FALSE

Next ==
    \/ \E v \in Value : CreateInFreeSlot(v) \/ CreateAgain(v) \/ UpdateCredential(v)
    \/ WriteManifest \/ WriteMarker \/ Finish \/ CommitTimeout
    \/ resident_container_delete \/ FinishDelete
    \/ Drain \/ PowerCycle

Spec == Init /\ [][Next]_vars

-----------------------------------------------------------------------------
\* The type of the state.
TypeOK ==
    /\ IsDisk(disk, Contents)
    /\ op \in {Idle, [step |-> "delete", goal |-> Absent]} \cup
              [step : {"records", "manifest", "marker"}, manifest : Manifest,
               target : Place, goal : [Types -> Value]]
    /\ goals \subseteq versions \cup {Absent}
    /\ versions \subseteq [Types -> Value]
    /\ unsure \in BOOLEAN /\ again \in BOOLEAN

\* A slot is an AtomicCredential: what a restart finds is a whole version.
Slot == INSTANCE AtomicCredential
            WITH Credential <- [Types -> Value], durable <- Visible(flash),
                 unsure <- unsure \/ again

\* Whatever is cut off where, first creating or updating a credential
\* replaces the version a restart finds in one step.  A second creation
\* overwrites records the current manifest may refer to: from then on, until
\* a deletion is done, the slot is unsure.
ChangesAtOnce == Slot!Spec

\* A handler reads a version that was asked for and may still come true, or
\* the one in the flash, even after an update that has failed half way
\* (unless the slot is unsure, or a second creation has begun).
ReadsOneVersion == unsure \/ again \/ Visible(ram) \in goals \cup {Visible(flash)}

\* In everything that goes wrong a credential may be lost, but no mixture of
\* two versions is ever read, before or after a power cut.
NothingInvented ==
    unsure \/ {Visible(ram), Visible(flash)} \subseteq versions \cup {Absent}

\* When an operation returns PICOKEYS_OK its result survives a power cut.
DoneIsDurable ==
    [][Finish \/ FinishDelete => Visible(flash') = op.goal]_vars

\* A slot whose creation is cut short can be used by the next one
\* (resident_container_can_create), and so can one deleted completely.
FreeSlotIsUsable ==
    flash[marker] = Absent => (HasManifest(flash) => Loads(flash))
=============================================================================
