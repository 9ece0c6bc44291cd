# A TLA+ model of fido-touch

fido-touch (`src/`) is firmware that makes a microcontroller board a FIDO2 / U2F
security key, with an OATH and a Yubico OTP applet. This directory models the
parts of it whose correctness depends on the order of flash writes, power cuts,
timeouts and commands, checks them with TLC and proves their safety properties with TLAPS. File names below are relative to `src/src/fido/`.

## 1. The system

Two cores share the work. **core0** runs USB, the button and the flash writer;
**core1** runs `cbor_thread`, which takes one command at a time and runs its
handler to the end. The file system, the object format and the queues belong to
the pico-keys-sdk, a git submodule that is not in the repository; the model takes
from it only what the calls in `src/` rely on (marked `external` in the map).

| component | state | operations | interacts with |
|---|---|---|---|
| flash queue (SDK) | flash contents, queued writes | put, read, commit, commit_sync, power cut | everything that keeps a file |
| pinUvAuthToken record (`cbor_client_pin.c`) | `paut`: bytes, permissions, relying party, uv flag, in_use, timers | reset, begin, stop, tick, clear flags/permissions | every CTAP2 command |
| authenticatorClientPIN (`cbor_client_pin.c`) | `ef_pin`, `new_pin_mismatches`, `needs_power_cycle`, `ppaut` | setPIN, changePIN, getPinToken, getPinUvAuthToken… | device key, token, flash |
| device key (`fido.c`) | `ef_keydev`, `ef_keydev_enc`, `keydev_dec`, `session_pin` | load, encrypt, rewrap, vendor lock and unlock | PIN, every credential |
| authenticatorConfig (`cbor_config.c`) | `ef_minpin`, options, PIN policy | setMinPINLength, toggles, vendor subcommands | PIN, tokens |
| authenticatorReset, start-up (`cbor_reset.c`, `fido.c`) | all files | erase, scan and recreate | everything |
| resident container (`resident_container.c`) | two manifests, two sets of records, a marker per slot | create, update, delete, load, read | flash, device key |
| credential store (`credential.c`) | 256 `EF_CRED` slots, 256 `EF_RP` counts | store, update, delete, migrate | containers, credential management |
| makeCredential, getAssertion, getNextAssertion | list of credentials for the next call, 30 s timer | | token, store, counter |
| credentialManagement | enumeration counters | metadata, enumerate, delete, update | token, store |
| largeBlobs | fragment buffer and offsets, `ef_largeblob` | get, set | token |
| sessions (`object_authorization.c`) | epoch | invalidate | token |
| dispatch (`cbor.c`), user presence | request and answer queues, button events | | all handlers |
| signature counter, device state | `ef_counter`, `ef_dev_state` | | assertion, U2F |
| vendor commands (`cbor_vendor.c`) | `mse`, `ef_keydev_enc` | backup, restore, key agreement, unlock | device key |
| OATH (`oath.c`) | credentials, access code, PIN; `validated`, migration flag | put, delete, rename, calculate, set code, validate, PIN, reset | flash |
| OTP (`otp.c`) | four slots with counters; `scanned`, `session_counter` | configure, update, swap, delete, status, button | flash |
| management, U2F | one file each | | flash |

What is hard here: a write is visible to the code at once and durable only later
(`file_put_data` / `flash_commit`); only some handlers wait (`flash_commit_sync`,
with a timeout after which the write may still land); the power can be cut
anywhere; several files must agree (PIN and device key, manifest and records,
credential and relying party count); one token record is shared by platforms
that do not know each other; and several handlers leave RAM state for a later
command. `PROJECT.json` lists these hazards with their lines.

What makes the components correct:

* PIN: never more guesses than retries, three per power cycle, blocked until
  reset; PIN and device key agree; no token outlives a PIN change or a forced one.
* token: one relying party, ended by a touch, no more than what was granted.
* container: a credential changes at once; success is durable; a cut operation
  neither mixes versions nor blocks the slot.
* store: one credential per user and one record per relying party; counts match
  credentials up to the commands that failed; nobody else's credential is lost.
* enumeration: everything is given once if it does not change in between, whatever
  other commands come between the calls.
* large blobs: what is stored is a whole array; a write left alone succeeds.
* assertions: newest first, none more often than the store or the allowList has it, only
  stored and unprotected credentials.
* device key: the key of the device or none, and never in no file.
* OATH: guesses are paid for; on a device with an access code a credential is used only
  after the code or the PIN was proved (with a PIN alone the applet can be opened without it,
  see section 2); no HOTP value twice unless its write was lost; no key in plain once migrated.
* OTP: the next password is new, every configuration is in one slot, apart from the failures
  section 2 names.

## 2. Modules

| module | models | proofs |
|---|---|---|
| `FlashQueue` | the flash as the handlers see it (operators, no state) | `FlashQueueProofs` |
| `PinUvAuthToken` | `paut` and its helpers (operators) | |
| `ClientPin` | authenticatorClientPIN, setMinPINLength, reset, power cuts | `TokenProofs` |
| `TokenCommands` | `ClientPin` composed with the commands that use the token | `TokenProofs` |
| `AtomicCredential` | abstract: what a resident credential slot promises | |
| `ResidentContainer` | one slot of `resident_container.c`; implements `AtomicCredential` | `ResidentContainerProofs` |
| `CredentialStore` | `EF_CRED`, `EF_RP` and the store state across the slots | `CredentialProofs` |
| `CredentialManagement` | `CredentialStore` with the enumerations of `cbor_cred_mgmt.c` | `CredentialProofs` |
| `LargeBlobs` | the fragments of authenticatorLargeBlobs | `StatefulCommandProofs` |
| `NextAssertion` | getAssertion's list of credentials and getNextAssertion | `StatefulCommandProofs` |
| `DeviceKey` | the vendor lock of the device key, with the PIN commands reduced to what they do to it | `DeviceKeyProofs` |
| `Oath` | the OATH applet | `OathProofs` |
| `Otp` | the Yubico OTP applet | `OtpProofs` |
| `MC...` (one for each of the above with actions) | small instances | |

Each module also holds the faulty variants of its definitions (named after the
definition, with a comment `Faulty:`) that show what a run would catch. No action
uses them.

### FlashQueue

A disk is a value `[flash, pending, order]`; a module has a variable `disk` and
applies `Put`, `Read`, `Drained`, `Crashed` to it. Writes of one file land in
order. With `InOrder = FALSE` writes of different files land in any order, the
weakest assumption; with `TRUE` they land in the order of the calls. `flash_commit`
only wakes core0 and is no step. `flash_commit_sync` returns true only when nothing
is pending, so a handler is split there: one action before the wait, one after it
(guard `IsSettled`), and one for the timeout, which leaves the writes queued.

### ClientPin

| code | model |
|---|---|
| `ef_pin` (34 or 35 bytes) | `[set, retries, pin, legacy]` |
| `ef_keydev` formats 1, 2, 3 | `Plain`, `Sealed(kdf, pin)` (2 and 3 differ in AEAD parameters) |
| `ef_minpin[1]` | file `force` |
| `new_pin_mismatches`, `needs_power_cycle` | `mismatches`, `needsPowerCycle` |
| `paut`; `ppaut.permissions` | `paut`; `ppaut` |
| setPIN | `setPIN` |
| changePIN and getPinUvAuthToken up to the wait | `BeginAttempt(cmd)`; then `pc = cmd` |
| the wait fails | `PersistTimeout` |
| after the wait, by outcome | `DecryptFails`, `WrongPin`, `LegacyKeyUnreadable`, `ChangeRejected`, `ChangeToSamePin`, `ChangePin`, `TokenRefused`, `GetPersistentToken`, `GetToken` |
| setMinPINLength, reset, any other command | `setMinPINLength`, `cbor_reset`, `OtherCommand` |

Whether a new PIN satisfies the policy is nondeterministic, and so is the length
comparison in setMinPINLength. `session_pin` is left out: it is set before every use
in these handlers. The history variables `wrong`, `bootWrong` and `keyLost` count
guesses and remember a power cut that left an unreadable key; no guard reads them.
The initial states are a fresh device, one with a PIN, and one with a PIN file of
an older firmware, whose device key is plain or sealed under `hash_multi`. After a power cycle the
token has no permission until it is issued anew, so its stored bytes are not kept.
The reset is one step: erasing is the SDK's, and the files that start-up then
writes count as written. `new_pin_mismatches` and the permission bits in RAM survive a
reset, as in the code.

### TokenCommands

Adds makeCredential, getAssertion, credentialManagement, largeBlobs and the rest of
authenticatorConfig, reduced to what they do with the token. Nothing is written to
the flash before the touch, so a command is one step and the touch an outcome of
it; the touch clears the token when the code clears it (makeCredential only if the
platform sent `up = true`, getAssertion also when it sent nothing). A command may fail after
the touch, or before it with the relying party already bound. `uses` records what the
present bytes of the token have authorised and `spent` that a touch has ended them.
Credential management trusts the relying party the platform names; the preview
command 0x41, which accepts tokens of any permission, and commands with the
persistent token (which change nothing) are left out.

### ResidentContainer and AtomicCredential

A slot has the files `marker`, `manifest(0..1)` and `record(0..1, t)`. A record is valid
for a descriptor that has its object generation (the header check is the SDK's; it
cannot look at the container generation, since records stay valid under newer
manifests). `Visible` is what `resident_container_read` returns object by object, as a
function, so a mixture of versions would be seen. The wait points of
`resident_container_update` split it into `resident_container_update` (records),
`WriteManifest`, `WriteMarker` and `Finish`; `CommitTimeout` ends any of them. `file_new` may find no
memory before any record, before the manifest or before the marker. Unsealing does not fail for a
record whose header is valid, so the fallback in `resident_container_read` is not
reached. Two object types stand for the four: one that updates leave alone and the
mutable one.

`AtomicCredential` says that what a restart would find changes in one step between
absent and versions somebody asked for. The mapping is `durable <- Visible(flash)`. Two
exceptions are stated rather than hidden:

* Creating again over a container for the same user writes all records in the place
  the current manifest may still refer to, so a cut loses the credential. The history
  variable `again` marks a slot in which that has begun and no deletion has finished
  since; `ChangesAtOnce` and `ReadsOneVersion` are about the others. `NothingInvented` and
  `DoneIsDurable` hold with re-creation too.
* A deletion removes the current version before an old one that an earlier cut
  left behind. Cut short, it may bring the old version back. `unsure` marks exactly
  that: an old manifest was there when the deletion began and no deletion has
  finished since.

A deletion cut short can also leave a marker with no valid manifest; the slot is then
unusable until a reset, since only slots without marker are created in.
`FreeSlotIsUsable` is therefore about slots without marker.

The container is checked with `InOrder = TRUE`. With writes in any order
`NothingInvented` and `FreeSlotIsUsable` fail after a timeout: the code relies on the SDK
writing in the order of the calls.

### CredentialStore

| code | model |
|---|---|
| `EF_CRED + i`: marker of a container, or a single file of older firmware | `Credential` with `legacy`; `Broken` is a marker whose container cannot be read |
| `EF_RP + i`: count, hash, name in clear or sealed | `RpRecord` with `count` and `secure` |
| second half of `ef_dev_state`, 16 random bytes | the set of credentials the bytes were drawn for |
| the manifest of a container that is not the current one | file `OlderFile(i)`, one whole older version |
| `credential_store` | `StoreNew`, `StoreAgain`; then `WriteManifest` or `WriteMarker`, `FinishStore`, `FinishInPlace` |
| deleteCredential | `DeleteSingleFile`; `DeleteContainer`, `FinishDelete` |
| updateUserInformation | `UpdateUser`, `WriteManifest`, `FinishInPlace` |
| `credential_migrate_rp_secure` | a step of `PowerCycle`; left out if the device key is sealed |

A container changes at once: that is what `ResidentContainer` shows. Here it is
one file, written after the records have landed (the manifest, or the marker of a new container,
makes them the credential), and a second one with the older version, which a manifest replaces and the
cleaning up removes. A handler that is cut off in between leaves the older version; one that fails or is cut
off before the marker leaves its new version in a slot that is still free. Replacing a container may leave
it `Broken`. Deleting one removes the current version first, then the older one, then the marker: cut off,
it leaves the older version as the credential, or `Broken`. The single files
of older firmware, all counts and the store state are written without waiting.

The older version may be another user's, who may have a credential elsewhere by then: it was put into the slot by a
creation that was cut off before its marker. So `unsure` collects the slots where a deletion began
beside another user's older version and has not finished, and `OneCredentialPerUser` is about the other slots.
Three mishaps are enough until a handler sees two credentials of one user that way, and
`credential_store_any_order` has three. In such a slot
the code may also show a mixture once records are written over it; the module keeps one whole version and claims
nothing of the slot.

Three more history variables tell how far the promises reach. `mishaps` counts the commands
that failed half way or were cut off; each may put a count out by one, and nothing in
the code repairs that, so `CountsFollow` bounds the difference by it (modulo the byte).
`torn` says that one of them was the last command: then the store state may be
that of the credentials before it. `asked` collects whose credentials were to go, and
forgets them when the flash is settled or the power has gone.

`CountsFollow` is claimed for writes in the order of the calls. In any other order one cut
can undo a count and keep the next, and put two counts out. It also needs that no count wraps
(`NoCountWraps`: credentials of a relying party and mishaps together are less than `CountMod`). A
count that is out by one and wraps makes deleteCredential empty the record of a relying party that still
has credentials (`cbor_cred_mgmt.c:425`), and deletions after that are not counted at all. With 256 slots
and 8 bit counts this takes nearly every slot in use by one relying party; the run has too few slots for it.

### CredentialManagement

Adds the static variables of `cbor_cred_mgmt.c`: `rp_counter`, `rp_total`, `cred_counter`,
`cred_total` and `rpIdHashx`, which an error frees without clearing (`Dangling`). A GetNext after that
compares with freed memory, modelled as a hash that matches any relying party or none. It takes a
deletion between Begin and GetNext to get there; while the credentials stay
as they are, `CredentialsGivenOnce` excludes it. A name that cannot be decrypted is left out: whoever
may enumerate has entered the PIN since start-up, which opens the device key.

### LargeBlobs

`temp_lba`, `expectedLength` and `expectedNextOffset` are variables, `ef_largeblob` a file. A byte
is the k-th cell of some array, which makes the hash check "all cells in place and of one
array". A set command is `SetFragment`, or `SetRefused`, after which a first fragment has
already begun a new write. Platforms send any piece of any array with any length. The
history variable `sent` holds what was accepted since a write was last begun, `alone` the array
a platform has sent in order, accepted or not, without any other command.

The code does not look at the hash of an array of exactly 17 bytes, so for this length
`StoredIsWhole` makes an exception: there the fragments of two platforms may be
mixed. A reset leaves the static variables, so a write may go on after it; this is in the model.

### NextAssertion

`credsx`, `numberOfCredentialsx` and `credentialCounter` are variables; `flagsx` and
`datax` are those of the request, kept as history (`request`), and `given` is what has been answered
to it. The sort is modelled as its two loops. `creds` may have a credential twice: the loop over the
allowList (`cbor_get_assertion.c:314-367`) takes an id as often as the platform sends it, so allow lists have
duplicates in the model, and `GivenNewestFirst` says (`DrawnFrom`) that what is given can be matched one to one with
places of the allowList, or of the store if there is none. What the code never does is give one credential of
the store twice to a request without allowList. `GetAssertionFails` is every answer that leaves no
list: the errors, and the silent answer to `up = false` (413-446), which only says that a hidden credential is
valid. `late` says that the 30 s are over. Every other CTAPHID_CBOR command resets the list
before it runs, U2F and vendor commands do not and change no slot. `AllGiven` is about platforms
without allowList and up to `MaxList` credentials: the code takes the first that
many slots before it filters and sorts. Order is that of the stored `board_creation`, which counts from
the start-up in which the credential was made.

A reset is in neither of the two store modules: it erases all these files, and `ClientPin` has it.

### DeviceKey

| code | model |
|---|---|
| `ef_keydev`: 32 bytes, 33 bytes, 61 bytes | `Raw`, `Format1`, `Sealed` |
| `ef_keydev_enc` | `Locked(k)`, or `Unopenable` |
| `session_pin` is that of the PIN | `session` |
| setPIN, getPinUvAuthToken; changePIN | `UsePin`; `ChangePin` |
| `CTAP_VENDOR_MSE`; `_UNLOCK`; `_BACKUP` 2 | `KeyAgreement`; `Unlock`, `UnlockFails`; `RestoreBackup` |
| `CTAP_CONFIG_AUT_ENABLE`, `_DISABLE` | `AutEnable`, `AutDisable` |
| `scan_files_fido` | `NeedsKey` in `PowerCycle` |

`ClientPin` has the PINs and this module has the lock; each takes of the other what it needs (here
one PIN, given or not given since power-up). The writes of the lock record and of `ef_keydev`, whose results the code does
not look at (`cbor_config.c:157`, `189-192`), are taken to succeed: what a full flash does here is not claimed. `key` is the key the device was last given, by start-up, a reset or
a restore. Two history variables mark where the code leaves the right path, and the properties say
that there is no other way:

* `misled`: `has_keydev_dec` is still true when `keydev_dec` is not the key any more. AUT_DISABLE
  zeroes `keydev_dec` and keeps the flag (`cbor_config.c:158`); a reset, a restore and an UNLOCK
  with a wrong lock key do the like. Until the next power cycle `load_keydev` returns zeros or an old key, and changePIN
  in this state writes it to `ef_keydev`.
* `damaged`: AUT_ENABLE was given a record of 33 or 61 bytes, which is what current firmware
  writes: its buffer is for 32 (`cbor_config.c:179`), so what follows is undefined, and if the device
  goes on no lock key opens what was stored; a raw key whose first byte is 0x01 was taken for format 1
  (`cbor_client_pin.c:309`); a restore was cut short and both files hold a key, or was given bytes that
  are no backup; the power went between the two writes that zero and empty `ef_keydev`.

Another thing the model shows: changePIN while the device is unlocked writes the key back to `ef_keydev`, sealed
under the PIN, next to the locked copy. `InOrder` is `TRUE`: with writes in any order a cut in
AUT_ENABLE may leave the key in neither file.

### Oath

| code | model |
|---|---|
| `EF_OATH_CRED + i` | `Credential`: name, key, HOTP or not, moving factor, sealed or plain |
| `EF_OATH_CODE`, `EF_OTP_PIN` | `CodeKey`; retries |
| `validated`, `oath_migration_done` | `validated`, `migrated` |
| select | `oath_select`, `SelectFails` (the migration stopped) |
| `oath_check_pin` up to its wait; the wait failed; after it | `BeginCheck`; `StorageError`; `Mismatch`, `cmd_verify_otp_pin`, `cmd_change_otp_pin` |
| PUT, DELETE, RENAME, CALCULATE, SET CODE, VALIDATE, RESET, SET PIN | the action of the handler's name; SET CODE without key is `RemoveCode` |

Each PUT brings a new key and starts its moving factor at 0 (the host may send another start).
`proof` is what was proved since `validated` was last lost, `next` the moving
factor after the last answered one, `torn` the keys that lost a write to a power cut or to a full flash: CALCULATE
does not look whether the new moving factor was stored (`oath.c:865`) and answers all the same, and such a key
does repeat a value. In the model as in the
code: VALIDATE without an access code is an error but sets `validated`, also if a PIN is
set, so `CodeIsProved` speaks of a device with a code; RENAME to a name that exists makes two credentials of
that name; VERIFY CODE does not count. Until selection has succeeded once, commands do not reach the
applet; if the migration fails later, the applet goes on as it was.

### Otp

A slot holds a key, its kind and the eight bytes after the configuration (`n`, and `long` if they are
there). `typed` collects what was typed for a key that is `live`; `fate` says what became of it; `uncounted`
are the keys that typed passwords in earlier sessions and whose usage counter has not been counted up for this start.
Access codes are not kept: with the wrong one a command changes nothing.

`otp_slot_store` may fail, and then leaves the file as it was (that much is assumed of the SDK). Configure,
update and delete then end with an error and nothing has changed. The others go on:

* `init_otp` returns when the migration (`otp.c:287-289`) or a store (`303-305`) fails, with `scanned` still false; its
  callers do not notice. `Starts` is what it may leave: all slots counted, some, or none. The next call
  begins again, and may count some slots twice;
* `otp_button_pressed` types after any of these (`332`), and does not look whether the new counter was stored
  (`387`, `452`);
* a swap stops after its first slot has been overwritten or deleted, when the second cannot be created (`748`) or
  stored (`751`): `SwapFails`.

What the applet can promise of a key ends (`spoiled`), and `NextIsNew` says that there is no other way, when

* a button is pressed whose key is still in `uncounted`, because `init_otp` has failed: it types the counters of an
  earlier session again;
* `otp_status` before `init_otp` marks the start as scanned without counting it
  (`otp.c:514`), with the same result;
* a press was not stored: the next one types the same;
* a swap takes a key to a place whose session counter it may have used before: the counters stay in their place;
* `session_counter` has two elements and there are four slots (`otp.c:330`): the others read and write what lies behind;
* the usage counter is at its end.

Keys of slots a power cut took a write of, and of slots a swap failed between, are `torn`: lost, doubled or set
back. `KeyInOneSlot` is about all others. A static password and a challenge-response key type no counter and are
HOTP keys nobody presses.

## 3. Runs

| run | spec, bounds | states | shows |
|---|---|---|---|
| `client_pin` | `FairSpec`, 8 retries, 2 PINs, any order, queue 2 | 258 842 | guess budget, three guesses per boot and a power cycle only after three, blocked until reset, tokens follow the PIN, forced change, key readable; every attempt ends |
| `token_commands` | `TokenSpec`, 2 retries, 2 PINs, 2 relying parties, writes in call order | 664 823 | one relying party, ended by touch, no more than granted, present PIN; the key is only at risk while an `ef_pin` is queued |
| `token_blobs` | `TokenSpec`, 1 retry, any order, queue 0 | violated | a finding, below |
| `resident_container` | 2 objects, 2 values (symmetric), 3 generations | 581 924 | implements `AtomicCredential`; nothing mixed, success durable, free slots usable |
| `credential_store` | `StoreSpec`, 2 slots, 2 relying parties, 2 users, 2 names, 1 mishap, counts mod 4 | 2 401 878 | counts, store state, nobody else's credential lost |
| `credential_store_any_order` | the same with 1 name, 3 mishaps, writes in any order, queue 0 | 2 056 319 | one credential per user outside `unsure`, one record per relying party |
| `credential_management` | `MgmtSpec`, 3 slots, 2 relying parties, 3 users, counts mod 3, no mishap | 1 795 825 | both enumerations, interleaved; a count that wraps when every slot is one relying party's |
| `large_blobs` | `BlobSpec`, 2 arrays of each length 2..4, fragments up to 3 | 44 044 | whole arrays, fresh buffer, undisturbed writes succeed |
| `next_assertion` | `AssertionSpec`, 3 credentials, 2 relying parties, lists of 3, allow lists up to 2 with duplicates | 340 344 | order, protection, deleted credentials, completeness |
| `oath` | 2 slots, 2 names, 2 codes, 2 keys, 3 retries, any order | 1 632 245 | guess budget, proof of the code where there is one, moving factors, sealed keys |
| `otp` | 3 slots, 2 of them with a session counter, 2 keys, counters to 3, session mod 2, any order, queue 0 | 664 823 | new passwords, one slot per key |
| `device_key` | 3 keys, one with first byte 0x01, queue 2, writes in call order | 610 826 | the right key or none, never in no file |

Bounds. Two PINs are a current and another one; all properties compare PINs only
for equality, so they are symmetric. `QueueCap` bounds the pending writes of each file when
a command starts: 2 lets changePIN's three writes of `ef_keydev` and two of `ef_pin`
follow earlier ones, so every file may have versions of several commands
in flight. The real 8 retries are used where they
matter; `token_commands` needs right and wrong attempts only. With no retry lost
to wrong PINs, two relying parties suffice to see a second one. Three generations allow
an update of an update, whose target is the place of the first version, and reach the
refusal at the maximum. One slot is enough, since slots share no file.
In the store the byte of a count is `CountMod`: in `credential_store` it is
more than twice the mishaps plus one, so that "out by at most one" excludes something; in
`credential_management` it is the number of slots, as 256 is in the code, so the wrap
happens. A second slot and relying party show one command taking another's place, a third slot
an enumeration whose middle matters. `LargeBlobs` is scaled: length 2 is the 17 bytes, 4 the most;
two arrays of a length can be mixed and four bytes need two fragments. In `NextAssertion` a list of
three has a GetNext that is not the last; two creation times include equal ones.
In `oath` two names and two slots allow a rename onto a name that exists and a full applet, two keys one
that replaces the other, one of them of older firmware; two answers of a key suffice for a repeated one. In `otp` a session counter of two values
wraps at the second press, and a usage counter that ends at 3 does so within three starts; two keys are swapped, and one of
them lost by a swap that fails. Three device keys
are the present one, one in a backup and one a reset makes. The queue bounds let a command start behind the write of an earlier one (`oath`: one write in all) or two of a
file (`device_key`). In `otp` a command starts when nothing is queued, and may itself queue the writes of several slots,
of which a power cut takes any: a key with a queued write is torn by it whatever was queued before.
`credential_store_any_order` trades the queue for three mishaps: the writes of one command land in any order and a cut takes any
of them; commands behind queued writes are checked in `credential_store`, and in any order by the proofs alone.
The type invariant of each module is part of its inductive invariant where there are proofs; the
runs spend their time on the properties above.
Deadlock is checked in every run.

Fairness. `FairSpec` asks weak fairness of `EndAttempt` alone: core1 goes on with the
handler it is in, because nothing else runs there and `flash_commit_sync` returns after
its timeout. Nothing is asked of core0's writer (`Drain`), of platforms or of power.

Finding. `clearPinUvAuthTokenPermissionsExceptLbw` (`cbor_client_pin.c:96`) assigns the largeBlobWrite
permission instead of keeping it only if it was there. After makeCredential with
`up = true`, a token granted without `lbw` passes the check of `cbor_large_blobs.c:145`;
`tests/fido-alliance-conformance-results.md:250` (CHK-237) expects a refusal. `UsedAsGranted` states what
holds all the same.

## 4. Proofs

Each module with actions has its inductive invariant with named parts, one step per action, and
lemmas about its operators; a proof module holds those of one or two of them that belong together.
Every safety property the runs check is proved. The theorems hold for every value of the constants:
any sets of PINs, relying parties, users, keys and arrays, any numbers of slots and retries, any
bounds. They rest on the assumptions named in the modules and on nothing else:
`TokenAssumption`, `ClientPinAssumption`, `OathAssumption`, `StoreAssumption`, `MgmtAssumption`,
`BlobAssumption`, `DeviceKeyAssumption`, `OtpAssumption`, `ContainerAssumption`, `AssertionAssumption`
(numbers are numbers, `Nobody` is no PIN, `NoRp` no relying party, `None` no credential, there are no
more slots than a count can count, the slots of the OTP applet are finitely many, the objects of a
container are a sequence), `InOrderAssumption`, and `NoDataAssumption` and `AbsentAssumption` (a
missing file is not one of the records).

Two arguments carry most of them over power cuts:

* where the order of the writes does not matter, the invariant speaks of **every version** of
  a file: what the flash has and every write still queued;
* where files must agree and `InOrder` is needed, it speaks of the **history** of the disk:
  the contents of all files after each of the queued writes. A power cut ends at one of these moments.

`FlashQueueProofs` proves what `Put`, `PutAll`, `Drained` and `Crashed` do to the type, to the versions
and to the histories, and that a settled disk has one version of each file and a history of one moment.

Loops of the code are recursive functions (`upto[n]`, what the loop has made after n turns). That such a
function is what its equation says, and that it keeps what every turn keeps, is proved by looking at
the first turn that would be wrong (`Runs` and `HoldsThroughout` in `StatefulCommandProofs`).

| theorem | needs | property |
|---|---|---|
| `TokenProofs`, for `ClientPin` | | |
| `TypeCorrect`, `GuessBudgetHolds`, `BootGuessLimitHolds`, `TokenProvesCurrentPinHolds`, `ForcedMeansNoTokenHolds`, `KeyReadableNowHolds` | | invariants |
| `BlockedUntilResetHolds`, `ForcedUntilChangedHolds` | | what a step may not do |
| `KeyAtRiskOnlyInRewrapHolds` | `InOrder` | invariant |
| `TokenProofs`, for `TokenCommands` | | |
| `OneRelyingPartyHolds`, `SpentByTouchHolds`, `UsedAsGrantedHolds` | | invariants |
| `UsedWithPresentPinHolds` | | what a step may not do |
| `CredentialProofs`, for `CredentialStore` | | |
| `OneCredentialPerUserHolds`, `OneRecordPerRpHolds`, `StateNamesCredentialsHolds` | | invariants |
| `OnlyAskedIsLostHolds` | | what a step may not do |
| `CountsFollowHolds` | `InOrder`, `[]NoCountWraps` | invariant |
| `CredentialProofs`, for `CredentialManagement` | | |
| `RpsGivenOnceHolds`, `CredentialsGivenOnceHolds`, `EveryCredentialReachableHolds` | | invariants |
| `ResidentContainerProofs` | | |
| `DoneIsDurableHolds` | | what a step may not do |
| `FreeSlotIsUsableHolds`, `NothingInventedHolds`, `ReadsOneVersionHolds` | `InOrder` | invariants |
| `ChangesAtOnceHolds` | `InOrder` | implements `AtomicCredential` |
| `StatefulCommandProofs`, for `NextAssertion` | | |
| `GivenNewestFirstHolds`, `GivenIsAllowedHolds`, `AllGivenHolds` | | invariants |
| `StatefulCommandProofs`, for `LargeBlobs` | | |
| `StoredIsWholeHolds`, `BufferIsFreshHolds`, `UndisturbedWriteSucceedsHolds` | | invariants |
| `DeviceKeyProofs` | | |
| `RightKeyOrNoneHolds`, `KeySurvivesHolds` | `InOrder` | invariants |
| `OathProofs` | | |
| `OtpPinBudgetHolds`, `CodeIsProvedHolds`, `ImfMovesOnHolds`, `NoPlainKeyHolds` | | invariants |
| `OtpProofs` | | |
| `NextIsNewHolds`, `KeyInOneSlotHolds` | | invariants |

`InOrder` is a hypothesis exactly where TLC finds the property violated without it or where the
module is only meant with it; `FewSlotsNoWrap` proves the other hypothesis of `CountsFollowHolds`,
`[]NoCountWraps`, for every instance whose slots and mishaps are fewer than the modulus of the counts.

**ClientPin** (`IInv`). `Types` is like `TypeOK` without the bounds of the counters.
`GuessBudget`, about every version of `ef_pin`, is not inductive by itself: a comparison adds a wrong PIN. `AttemptIsPaid` is
the missing half: while a handler waits, the newest `ef_pin` already has one retry
less than the budget, and `IsSettled` makes it the only version at the comparison. `Counters`:
`bootWrong` and `mismatches` agree, and three mismatches mean `needsPowerCycle`. The second half of
`BootGuessLimit` (`PowerCycleIsEarned`) needs one more, `Misses`: while a PIN is set the code's counter is never
ahead of the history's. `KeyAtRiskOnlyInRewrap` has its own invariant `RiskInv`: a moment of
the history in which the device key does not open under the PIN of that moment has a write of
`ef_pin` behind it.

**TokenCommands** (`TokenInv`). `IInv`, which every command keeps because it touches only the token,
and what the fields of `paut` say of each other: one with permissions is in use (`PermittedIsInUse`), one that is held and in use has some
(`InUseIsPermitted`), and those of a held one were granted, large blobs apart (`PermittedIsGranted`).

**CredentialStore** (`StoreInv`). All versions of two slots are apart: no two have a credential of one user
(slots in `unsure` left out) or a record of one relying party, whatever order they land in; `OnlyAsked` says that a version of a credential is followed
by one of the same user or was asked to go, and `OpFits` ties the waiting handler to what it read before it waited. `CountInv` adds the
counts: at every moment of the history a count is out by at most one more than the mishaps so far, and
in what the handlers see by no more than the mishaps, apart from what the waiting handler owes (`Due`).
A deletion that uncovers an older version changes the number of a relying party's credentials more than once
before it counts: `Between` says that for the writes in the middle the counts follow up to what the slot has gained
or lost so far (`Gain`), and `ContainerCounted` puts its writes together.

**CredentialManagement.** The enumerations read by index, so what was given is the first so many of
what is listed (`RpsInv`, `CredsInv`), until a command changes the files and the promise is off.
`EveryCredentialReachable` takes `ExactInv`: without a mishap each count is exactly the number of
credentials, up to what the waiting handler owes. It needs neither `InOrder` nor `NoCountWraps`.

**LargeBlobs** (`BlobInv`). The three properties with `Undisturbed`: while a platform is alone the
buffer holds what it sent, up to `expectedNextOffset`.

**DeviceKey** (`KeyInv`). Unless something is `damaged`, at every moment of the history (`Safe`) the files hold
the key of the device or one it has not finished replacing, and no other (`Kept`); what is read is `key`; and a bare key that format 1
would misread is never in place when changePIN may reseal it.

**Oath** (`OathInv`). `CheckIsPaid` is to `OtpPinBudget` what `AttemptIsPaid` is to `GuessBudget`. `SlotInv` is about
all versions of the slots: a key never leaves the slot it was put into, and its last version is ahead of
every moving factor answered for. `ImfMovesOn`, which speaks of what is read, follows and survives power cuts.

**Otp** (`OtpInv`). A power cut tears every key of a slot with a write in the queue, so the invariant speaks
of what is read (`OneSlot`: a live or spoiled key is read from exactly one slot), not of all versions; but a key that was never configured
is in no version of any slot (`UnusedIsNew`). `TypedIsBehind`: the moving factor, or the pair of usage and session counter, that
the slot of a live key holds is ahead of everything typed for it, and while the start has not been counted
for it (`uncounted`) the usage counter need only be no lower. Keys end as `spoiled` exactly as section 2 says, so that what is proved is that nothing else
repeats a password.

**ResidentContainer** (`ContainerInv`). With `InOrder` a cut leaves the flash at one of the moments the queued writes
go through. `Stays` says that each of them is `Sound`; that every valid container in it holds a version somebody asked for,
and the newer is valid if the older is (`Whole`, unless `unsure`); and that the next one shows the same or one of `goals`
(unless `unsure` or `again`). A moment is sound if

* of two manifests one follows the other: it is newer, and the records of the other's place it refers to are those the
  other refers to (`Paired`);
* every manifest has its mutable object in its own place (`OwnMutable`);
* without a marker the manifests refer to records of their own place only, and if there is one, one of them is valid (`FreeIsUsable`).

`OpIsAt` says of a waiting operation which of its writes are in place. Each handler then appends moments to the history: the
records go to the place nothing visible refers to (`Scratch`), so all these moments look the same; the manifest
changes what is seen at once; a deletion takes the current manifest, then the old one, then records and marker. This chain is the
step lemma of the refinement: what a cut may show changes from one version asked for to another, or to none, and never to a mixture.

**NextAssertion** (`AssertionInv`). `NewestFirstIs`: after the i-th turn of the outer loop the first i places hold nothing older
than what lies behind them, and the list has the credentials it had, as often as before. `FoundIs`: the list can be matched one to one
with places of the allowList, or of the store if there is none, and in the latter case it has every stored credential of the
relying party if they are not more than it can hold. `ListHolds`: `credsx` is such a list for the
request, and what was given is as much of it as `credentialCounter` says. Other commands empty the list before they
change a slot, which is why this stays true.

Only model-checked, and why: `AttemptEnds` (`client_pin`), which is liveness under fairness and not what TLAPS proves here;
and the finding, which is a counterexample.

## 5. Not modelled

* CBOR and APDU parsing, cryptography (a seal opens with the key it was made with, an
  authentication is a guard), LED and logging, generated certificates, getInfo, known
  applications: no state that the properties see.
* The SDK: not in the repository. With it go the queues between the cores, the button and the
  CTAPHID transactions: `cbor_thread` is core1's half of a protocol whose other half decides
  when a packet, an event or a cancel comes, so a model of it would be a guess. The same holds of
  `object_authorization.c`, whose epoch only the SDK compares.
* Clocks: `board_millis` and its wrap; a token's age is a flag that may be set at any time.
* The signature counter: one file, one writer, no wait. A power cut repeats a value and
  nothing prevents that, so no property could be stated; `Oath` and `Otp` have the same
  pattern where more can go wrong. U2F changes nothing else.
* Of authenticatorConfig the options, the attestation certificate and the PIN policy; the
  management applet: each writes one file that nothing here depends on.
* Of the OTP applet the HID frames (a second way to the same commands), `config_seq` and
  `status_byte`; of the OATH applet a moving factor chosen by the host.
* The touch in makeCredential is asked for only with a pinUvAuthParam
  (`cbor_make_credential.c:466`), though the answer's flags say that the user was present
  either way; the flags of answers are not in the model.

## 6. What would come next

* A model of the signature counter and of U2F together with getAssertion, once it is decided what a
  relying party may rely on after a power cut (`cbor_get_assertion.c:783` does not wait for the write).
* `board_millis` as a counter that wraps, if tokens are to be claimed to end in time also after 49 days of uptime
  (`cbor_client_pin.c:299`).
* The two queues between the cores and the cancel of a touch, with the sources of the SDK at hand.
* `resident_container.c` with writes of different files in any order: `NothingInvented` and `FreeSlotIsUsable` fail there after a
  timeout, so the code would have to wait between records, manifest and marker for good.
