----------------------------- MODULE ClientPin ------------------------------
(***************************************************************************)
(* The PIN of the authenticator: authenticatorClientPIN                    *)
(* (cbor_client_pin.c) with setMinPINLength (cbor_config.c),               *)
(* authenticatorReset (cbor_reset.c) and the power cuts between their      *)
(* flash writes.                                                           *)
(*                                                                         *)
(* A handler runs to its end on core1 and its flash writes are only        *)
(* queued, except where changePIN and getPinUvAuthToken wait for the       *)
(* decremented retry counter to reach the flash (persist_pin_retry_        *)
(* counter): there the handler is split, and pc says which one waits.      *)
(*                                                                         *)
(* The device key is encrypted under a key derived from the PIN, so ef_pin *)
(* and ef_keydev have to agree after any power cut.                        *)
(***************************************************************************)
EXTENDS FlashQueue, PinUvAuthToken, FiniteSets

CONSTANTS MaxRetries,  \* MAX_PIN_RETRIES
          Grants,      \* the permission sets platforms ask for
          QueueCap     \* bound: no command starts behind a longer queue

MaxMismatches == 3     \* wrong PINs until a power cycle is needed

ASSUME ClientPinAssumption == /\ MaxRetries \in Nat \ {0}
                              /\ Grants \subseteq (SUBSET Perm) \ {{}}
                              /\ QueueCap \in Nat

VARIABLES disk,        \* ef_pin, ef_keydev and the flag of ef_minpin
          pc,          \* the handler that waits for the flash, or "idle"
          mismatches,  \* new_pin_mismatches
          needsPowerCycle,
          paut, ppaut, \* ppaut: the persistent token has its permission
          wrong,       \* history: wrong PINs compared since the last right one
          bootWrong,   \* history: the same, since the last power cycle
          keyLost      \* history: a power cut left an unreadable device key

vars == <<disk, pc, mismatches, needsPowerCycle, paut, ppaut,
          wrong, bootWrong, keyLost>>

-----------------------------------------------------------------------------
(* The files.  A legacy ef_pin (34 bytes) keeps a double hash of the PIN,  *)
(* and the device key is then sealed under hash_multi of the PIN; the new  *)
(* format (35 bytes) derives both.  Formats 2 and 3 of ef_keydev, which    *)
(* differ in the AEAD parameters only, are both Sealed.                    *)

Kdf == {"hash_multi", "pin_derive_session"}

NoPinFile == [set |-> FALSE, retries |-> 0, pin |-> Nobody, legacy |-> FALSE]

PinFile == [set : {TRUE}, retries : 0..MaxRetries, pin : PIN, legacy : BOOLEAN]
               \cup {NoPinFile}

NewPinFile(p) ==
    [set |-> TRUE, retries |-> MaxRetries, pin |-> p, legacy |-> FALSE]

LegacyPinFile(p) ==
    [set |-> TRUE, retries |-> MaxRetries, pin |-> p, legacy |-> TRUE]

Plain == [kdf |-> "none", pin |-> Nobody]

Sealed(k, p) == [kdf |-> k, pin |-> p]

KeyFile == [kdf : Kdf, pin : PIN] \cup {Plain}

Content == [pin |-> PinFile, keydev |-> KeyFile, force |-> BOOLEAN]

\* A device without a PIN.
FreshFiles == [pin |-> NoPinFile, keydev |-> Plain, force |-> FALSE]

\* Who holds a correct PIN can still decrypt the device key.
Recoverable(pf, kf) ==
    \/ kf = Plain
    \/ /\ pf.set
       /\ kf = Sealed(IF pf.legacy THEN "hash_multi" ELSE "pin_derive_session",
                      pf.pin)

ef_pin == Read(disk, "pin")
ef_keydev == Read(disk, "keydev")
forceChangePin == Read(disk, "force")

\* load_keydev with session_pin = k(p) succeeds.
load_keydev(d, k, p) == Read(d, "keydev") \in {Plain, Sealed(k, p)}

\* check_keydev_encrypted: a plain device key is sealed under the session.
check_keydev_encrypted(d, p) ==
    IF Read(d, "keydev") = Plain
    THEN Put(d, "keydev", Sealed("pin_derive_session", p))
    ELSE d

\* encrypt_keydev_f1 after a successful load_keydev.
encrypt_keydev_f1(d) == Put(d, "keydev", Plain)

-----------------------------------------------------------------------------
(* Commands.  core1 takes one at a time; cbor_parse first lets the token   *)
(* expire.                                                                 *)

CanStart == /\ pc = "idle"
            /\ \A f \in DOMAIN disk.pending : Len(disk.pending[f]) <= QueueCap

setPIN ==
    /\ CanStart
    /\ ~ef_pin.set
    /\ \E p \in PIN :
         disk' = check_keydev_encrypted(Put(disk, "pin", NewPinFile(p)), p)
    /\ mismatches' = 0
    /\ needsPowerCycle' = FALSE
    /\ paut' = pin_uv_auth_token_tick(paut)
    /\ wrong' = 0
    /\ bootWrong' = 0
    /\ UNCHANGED <<pc, ppaut, keyLost>>

\* Faulty: the retry counter is not looked at.
MayAttemptWithoutRetries == ~needsPowerCycle

\* Faulty: needs_power_cycle is not looked at.
MayAttemptWithoutPowerCycle == ef_pin.retries > 0

\* Neither CTAP2_ERR_PIN_BLOCKED nor CTAP2_ERR_PIN_AUTH_BLOCKED.
MayAttempt == ef_pin.retries > 0 /\ ~needsPowerCycle

\* changePIN and getPinUvAuthToken up to the wait of
\* persist_pin_retry_counter: one retry less, whatever the PIN is.
BeginAttempt(cmd) ==
    /\ CanStart
    /\ ef_pin.set
    /\ MayAttempt
    /\ disk' = Put(disk, "pin", [ef_pin EXCEPT !.retries = @ - 1])
    /\ pc' = cmd
    /\ paut' = pin_uv_auth_token_tick(paut)
    /\ UNCHANGED <<mismatches, needsPowerCycle, ppaut, wrong, bootWrong, keyLost>>

\* Faulty: the wait has no timeout.
PersistForever == FALSE

\* core0 was too slow: CTAP2_ERR_PROCESSING, the PIN is not looked at.
PersistTimeout ==
    /\ pc # "idle"
    /\ ~IsSettled(disk)
    /\ pc' = "idle"
    /\ UNCHANGED <<disk, mismatches, needsPowerCycle, paut, ppaut, wrong,
                   bootWrong, keyLost>>

\* Faulty: flash_commit instead of flash_commit_sync.
PersistedLater(cmd) == pc = cmd

\* The counter is in the flash: the handler may compare the PIN.
Persisted(cmd) == pc = cmd /\ IsSettled(disk)

\* Only getPinUvAuthToken does not check the length of pinHashEnc, so only
\* there the decryption can fail.
DecryptFails ==
    /\ Persisted("getToken")
    /\ pc' = "idle"
    /\ UNCHANGED <<disk, mismatches, needsPowerCycle, paut, ppaut, wrong,
                   bootWrong, keyLost>>

WrongPin(cmd) ==
    /\ Persisted(cmd)
    /\ \E guess \in PIN : guess # ef_pin.pin
    /\ IF ef_pin.retries = 0
       THEN UNCHANGED <<mismatches, needsPowerCycle>>
       ELSE /\ mismatches' = mismatches + 1
            /\ IF mismatches + 1 >= MaxMismatches
               THEN needsPowerCycle' = TRUE
               ELSE UNCHANGED needsPowerCycle
    /\ wrong' = wrong + 1
    /\ bootWrong' = bootWrong + 1
    /\ pc' = "idle"
    /\ UNCHANGED <<disk, paut, ppaut, keyLost>>

\* The right PIN, but the upgrade of a legacy file finds no readable key.
LegacyKeyUnreadable(cmd) ==
    /\ Persisted(cmd)
    /\ ef_pin.legacy
    /\ ~load_keydev(disk, "hash_multi", ef_pin.pin)
    /\ pc' = "idle"
    /\ UNCHANGED <<disk, mismatches, needsPowerCycle, paut, ppaut, wrong,
                   bootWrong, keyLost>>

\* The right PIN, and nothing in the way.
RightPin(cmd) ==
    /\ Persisted(cmd)
    /\ ef_pin.legacy => load_keydev(disk, "hash_multi", ef_pin.pin)
    /\ mismatches' = 0
    /\ wrong' = 0
    /\ bootWrong' = 0
    /\ pc' = "idle"
    /\ UNCHANGED keyLost

\* Faulty: the format of ef_pin changes, but not the key's.
UpgradedWithoutKey(d) == d

\* "Upgrade pin file to new format": the key is decrypted again first.
Upgraded(d) == IF ef_pin.legacy THEN encrypt_keydev_f1(d) ELSE d

-----------------------------------------------------------------------------
(* changePIN after the comparison.                                         *)

\* All the retries again, in the new format, and the key sealed.
RetriesRestored ==
    check_keydev_encrypted(Put(Upgraded(disk), "pin", NewPinFile(ef_pin.pin)),
                           ef_pin.pin)

\* Faulty: a sealed key is not opened first, so it stays as it is.
RewrappedIfPlain(new) == check_keydev_encrypted(RetriesRestored, new)

\* The device key sealed under the new PIN; ef_pin is still the old one.
Rewrapped(new) ==
    check_keydev_encrypted(encrypt_keydev_f1(RetriesRestored), new)

KeyReadable ==
    load_keydev(RetriesRestored, "pin_derive_session", ef_pin.pin)

\* The new PIN is too short or breaks the policy, or load_keydev fails.
ChangeRejected ==
    /\ RightPin("changePIN")
    /\ disk' = RetriesRestored
    /\ UNCHANGED <<needsPowerCycle, paut, ppaut>>

\* forceChangePin, and the new PIN is the old one.
ChangeToSamePin ==
    /\ RightPin("changePIN")
    /\ KeyReadable
    /\ forceChangePin
    /\ disk' = Rewrapped(ef_pin.pin)
    /\ UNCHANGED <<needsPowerCycle, paut, ppaut>>

\* Faulty: the same PIN again satisfies forceChangePin.
MayChangeToAny(new) == TRUE

MayChangeTo(new) == forceChangePin => new # ef_pin.pin

ChangePin ==
    /\ RightPin("changePIN")
    /\ KeyReadable
    /\ \E new \in PIN :
         /\ MayChangeTo(new)
         /\ LET d == Put(Rewrapped(new), "pin", NewPinFile(new))
            IN  disk' = IF forceChangePin THEN Put(d, "force", FALSE) ELSE d
    /\ paut' = resetPinUvAuthToken(paut)
    /\ ppaut' = FALSE
    /\ needsPowerCycle' = FALSE

-----------------------------------------------------------------------------
(* getPinUvAuthToken after the comparison.                                 *)

\* Unlike changePIN it writes the sealed key before the upgraded ef_pin.
TokenDisk == Put(check_keydev_encrypted(Upgraded(disk), ef_pin.pin),
                 "pin", NewPinFile(ef_pin.pin))

TokenRefused ==
    /\ RightPin("getToken")
    /\ disk' = TokenDisk
    /\ forceChangePin
    /\ UNCHANGED <<needsPowerCycle, paut, ppaut>>

\* Faulty: forceChangePin is not looked at.
GetPersistentTokenAnyway ==
    /\ RightPin("getToken")
    /\ disk' = TokenDisk
    /\ ppaut' = TRUE
    /\ needsPowerCycle' = FALSE
    /\ UNCHANGED paut

GetPersistentToken ==
    /\ RightPin("getToken")
    /\ disk' = TokenDisk
    /\ ~forceChangePin
    /\ ppaut' = TRUE
    /\ needsPowerCycle' = FALSE
    /\ UNCHANGED paut

GetToken ==
    /\ RightPin("getToken")
    /\ disk' = TokenDisk
    /\ ~forceChangePin
    /\ \/ \E ps \in Grants, rp \in RP \cup {NoRp} :             \* 0x09
            paut' = Issued(paut, ef_pin.pin, ps, rp)
       \/ paut' = Issued(paut, ef_pin.pin, {"mc", "ga"}, NoRp)  \* 0x05
    /\ needsPowerCycle' = FALSE
    /\ UNCHANGED ppaut

-----------------------------------------------------------------------------
(* The rest of the world.                                                  *)

\* cbor_config 0x03.  force is the forceChangePin the handler ends up with:
\* absent, or what the platform sent, or TRUE since the PIN is too short.
setMinPINLength ==
    LET t == pin_uv_auth_token_tick(paut)
    IN  /\ CanStart
        /\ IsHeld(t)
        /\ "acfg" \in t.perms
        /\ \E force \in {"absent", "false", "true"} :
             /\ force = "true" => ef_pin.set
             /\ disk' = Put(disk, "force", force = "true")
             /\ paut' = IF force = "absent" THEN t ELSE resetPinUvAuthToken(t)
             /\ ppaut' = (ppaut /\ force = "absent")
        /\ UNCHANGED <<pc, mismatches, needsPowerCycle, wrong, bootWrong, keyLost>>

\* Everything is erased and the files scan_files_fido finds missing are
\* made again.  new_pin_mismatches and the permissions in RAM survive, but
\* paut.data is new.
cbor_reset ==
    /\ CanStart
    /\ disk' = Settled(FreshFiles)
    /\ needsPowerCycle' = FALSE
    /\ paut' = [pin_uv_auth_token_tick(paut) EXCEPT !.holder = Nobody, !.granted = {}]
    /\ wrong' = 0
    /\ bootWrong' = 0
    /\ keyLost' = FALSE
    /\ UNCHANGED <<pc, mismatches, ppaut>>

\* Any other CBOR command lets an old token expire.
OtherCommand ==
    /\ CanStart
    /\ paut' = pin_uv_auth_token_tick(paut)
    /\ UNCHANGED <<disk, pc, mismatches, needsPowerCycle, ppaut, wrong, bootWrong, keyLost>>

\* Time passes the usage limits of the token.
TokenAges ==
    /\ paut.inUse
    /\ ~paut.expired
    /\ paut' = [paut EXCEPT !.expired = TRUE]
    /\ UNCHANGED <<disk, pc, mismatches, needsPowerCycle, ppaut, wrong, bootWrong, keyLost>>

\* core0 writes the oldest contents of a file that are not in the flash yet.
Drain ==
    /\ \E f \in DOMAIN disk.pending : CanDrain(disk, f) /\ disk' = Drained(disk, f)
    /\ UNCHANGED <<pc, mismatches, needsPowerCycle, paut, ppaut, wrong, bootWrong, keyLost>>

\* The device is unplugged and plugged in again.
PowerCycle ==
    /\ disk' = Crashed(disk)
    /\ pc' = "idle"
    /\ mismatches' = 0
    /\ needsPowerCycle' = FALSE
    /\ paut' = NoToken
    /\ ppaut' = FALSE
    /\ bootWrong' = 0
    /\ keyLost' = (keyLost \/ ~Recoverable(disk.flash.pin, disk.flash.keydev))
    /\ UNCHANGED wrong

-----------------------------------------------------------------------------
\* A new device, one with a PIN, and one whose PIN an older firmware set,
\* before or after it first sealed the device key.
PinFiles(p) ==
    {[FreshFiles EXCEPT !.pin = NewPinFile(p),
                        !.keydev = Sealed("pin_derive_session", p)]} \cup
    {[FreshFiles EXCEPT !.pin = LegacyPinFile(p), !.keydev = k] : k \in {Plain, Sealed("hash_multi", p)}}

Init ==
    /\ \E files \in {FreshFiles} \cup UNION {PinFiles(p) : p \in PIN} :
         disk = Settled(files)
    /\ pc = "idle"
    /\ mismatches = 0
    /\ needsPowerCycle = FALSE
    /\ paut = NoToken
    /\ ppaut = FALSE
    /\ wrong = 0
    /\ bootWrong = 0
    /\ keyLost = FALSE

EndAttempt ==
    \/ PersistTimeout
    \/ DecryptFails
    \/ WrongPin("changePIN") \/ WrongPin("getToken")
    \/ LegacyKeyUnreadable("changePIN") \/ LegacyKeyUnreadable("getToken")
    \/ ChangeRejected \/ ChangeToSamePin \/ ChangePin
    \/ TokenRefused \/ GetPersistentToken \/ GetToken

Next ==
    \/ setPIN
    \/ BeginAttempt("changePIN") \/ BeginAttempt("getToken")
    \/ EndAttempt
    \/ setMinPINLength \/ cbor_reset \/ OtherCommand
    \/ TokenAges \/ Drain \/ PowerCycle

Spec == Init /\ [][Next]_vars

\* core1 gets on with the command it has begun; nothing is asked of core0.
FairSpec == Spec /\ WF_vars(EndAttempt)

-----------------------------------------------------------------------------
(* What the component promises.                                            *)

\* The type of the state: every version of a file is one the code writes.
TypeOK ==
    /\ IsDisk(disk, Content)
    /\ pc \in {"idle", "changePIN", "getToken"}
    /\ mismatches \in 0..MaxMismatches
    /\ needsPowerCycle \in BOOLEAN
    /\ paut \in Token
    /\ ppaut \in BOOLEAN
    /\ wrong \in 0..MaxRetries
    /\ bootWrong \in 0..MaxMismatches
    /\ keyLost \in BOOLEAN

\* However power cuts and slow flash writes fall, the wrong PINs compared
\* since the last right one and the retries left, in any version of ef_pin
\* a power cut can bring back, never exceed MAX_PIN_RETRIES: the retry is
\* in the flash before the PIN is compared (persist_pin_retry_counter).
GuessBudget ==
    \A pf \in Copies(disk, "pin") : pf.set => wrong + pf.retries <= MaxRetries

\* A power cycle is only asked for after three wrong PINs with no right one in
\* between, whoever typed them and through changePIN or getPinUvAuthToken.
PowerCycleIsEarned == needsPowerCycle => bootWrong = MaxMismatches

\* Between two power cycles at most three wrong PINs are compared without
\* a right one in between, and only then is a power cycle asked for
\* (new_pin_mismatches, needs_power_cycle).
BootGuessLimit ==
    /\ bootWrong <= MaxMismatches
    /\ bootWrong = MaxMismatches /\ ef_pin.set /\ ef_pin.retries > 0
         => needsPowerCycle
    /\ PowerCycleIsEarned

\* No version of ef_pin has a retry left and none is being used.
Blocked == /\ pc = "idle"
           /\ \A pf \in Copies(disk, "pin") : pf.set /\ pf.retries = 0

\* A PIN that is blocked in the flash stays so, power cuts included, until
\* a reset removes it.
BlockedUntilReset == [][Blocked => Blocked' \/ ~ef_pin'.set]_vars

\* A token that can be used was given to who proved the present PIN, not an
\* earlier one: every change of ef_pin makes the token new.
TokenProvesCurrentPin == IsUsable(paut) => paut.holder = ef_pin.pin

\* While a PIN change is forced no token can be used: setMinPINLength takes
\* them away, and getPinUvAuthToken gives none (CHK-217, 239 and 244).
ForcedMeansNoToken == forceChangePin => ~IsUsable(paut) /\ ~ppaut

\* A forced PIN change is not forgotten: only a change to a different PIN, a
\* reset, or a power cut before the flag was in the flash ends it.
ForcedUntilChanged ==
    [][forceChangePin /\ ~forceChangePin'
         => \/ ef_pin'.pin # ef_pin.pin
            \/ cbor_reset
            \/ PowerCycle /\ ~disk.flash.force]_vars

\* As long as nobody cuts the power, who knows the PIN can decrypt the
\* device key: ef_pin and ef_keydev agree after every handler.
KeyReadableNow == keyLost \/ Recoverable(ef_pin, ef_keydev)

\* When the flash is written in the order of the calls, a power cut costs the
\* device key only if it comes while an ef_pin is still to be written: at
\* any other moment the key in the flash opens with the PIN in the flash.
KeyAtRiskOnlyInRewrap ==
    \/ keyLost
    \/ Recoverable(disk.flash.pin, disk.flash.keydev)
    \/ disk.pending["pin"] # <<>>

\* An attempt ends even if core0 never writes again: persist_pin_retry_counter
\* waits with a timeout.
AttemptEnds == pc # "idle" ~> pc = "idle"
=============================================================================
