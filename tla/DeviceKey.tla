----------------------------- MODULE DeviceKey ------------------------------
(***************************************************************************)
(* The device key, which every credential is derived from, and its vendor  *)
(* lock: ef_keydev, ef_keydev_enc and keydev_dec (fido.c, cbor_vendor.c,   *)
(* cbor_config.c), on a board without otp_key_1.                           *)
(*                                                                         *)
(* AUT_ENABLE moves the key from ef_keydev to ef_keydev_enc, sealed under  *)
(* a lock key only the platform keeps; UNLOCK opens it into keydev_dec     *)
(* until the power goes; AUT_DISABLE moves it back.  That ef_keydev is     *)
(* sealed under the PIN that is set is ClientPin; here session says that   *)
(* the PIN has been given since power-up.                                  *)
(*                                                                         *)
(* The code does not look whether the writes of the two files succeed      *)
(* (cbor_config.c:157, 189-192); here they always do.                      *)
(***************************************************************************)
EXTENDS FlashQueue, FiniteSets

CONSTANTS Key,       \* device keys
          OddKeys,   \* those whose first byte is 0x01
          Zero,      \* 32 zero bytes, or whatever was in the caller's buffer
          Garbled,   \* a key shifted by a byte
          QueueCap   \* bound: no command starts behind a longer queue

ASSUME DeviceKeyAssumption == /\ OddKeys \subseteq Key
                              /\ Zero \notin Key /\ Garbled \notin Key
                              /\ QueueCap \in Nat

VARIABLES disk,             \* ef_keydev and ef_keydev_enc
          has_keydev_dec, keydev_dec,
          mse_init,         \* mse.init
          session,          \* session_pin opens ef_keydev
          key,              \* history: the key the device was last given
          olds,             \* history: keys a power cut may bring back
          misled,           \* history: has_keydev_dec outlived its key
          damaged           \* history: the files were spoilt, in a way named below

keyVars == <<disk, has_keydev_dec, keydev_dec, mse_init, session,
             key, olds, misled, damaged>>

-----------------------------------------------------------------------------
\* 32 bytes of older firmware or AUT_DISABLE, format 1, formats 2 and 3.
Raw(k) == [format |-> "raw", key |-> k]
Format1(k) == [format |-> "format1", key |-> k]
Sealed(k) == [format |-> "sealed", key |-> k]

\* A record of ef_keydev_enc: UNLOCK opens it, or no lock key ever will.
Locked(k) == [format |-> "locked", key |-> k]
Unopenable == [format |-> "unopenable", key |-> Garbled]

Nothing == [format |-> "none", key |-> Zero]

Content ==
    [keydev |-> {Nothing} \cup [format : {"raw", "format1", "sealed"},
                                key : Key \cup {Zero, Garbled}],
     enc    |-> {Nothing, Unopenable} \cup [format : {"locked"}, key : Key \cup {Zero, Garbled}]]

ef_keydev == Read(disk, "keydev")
ef_keydev_enc == Read(disk, "enc")

\* The device keys that can be had from the files c.
Held(c) == {c.keydev.key, c.enc.key} \cap Key

\* load_keydev: Nothing stands for its errors.  A record of another format
\* leaves the caller's buffer as it is, with PICOKEYS_OK.
load_keydev ==
    IF has_keydev_dec THEN [Nothing EXCEPT !.key = keydev_dec, !.format = "loaded"]
    ELSE IF ef_keydev = Nothing \/ (ef_keydev.format = "sealed" /\ ~session) THEN Nothing
    ELSE [ef_keydev EXCEPT !.format = "loaded"]

\* check_keydev_encrypted looks at the first byte only.
check_keydev_encrypted(d) ==
    LET f == Read(d, "keydev")
    IN  IF f.format = "format1" THEN Put(d, "keydev", Sealed(f.key))
        ELSE IF f.format = "raw" /\ f.key \in OddKeys THEN Put(d, "keydev", Sealed(Garbled))
        ELSE d

\* ef_keydev is overwritten with zeros, then emptied.
Wiped(d) == IF Read(d, "keydev") = Nothing THEN d
            ELSE Put(Put(d, "keydev", Raw(Zero)), "keydev", Nothing)

\* Faulty: a locked device gets a new key at start-up.
NeedsKeyIfUnlocked(c) == c.keydev = Nothing

\* scan_files_fido makes a device key only if there is none, locked or not.
NeedsKey(c) == c.keydev = Nothing /\ c.enc = Nothing

Fresh == Key \ {key, keydev_dec}

CanStart == \A f \in DOMAIN disk.pending : Len(disk.pending[f]) <= QueueCap

-----------------------------------------------------------------------------
(* authenticatorClientPIN, as far as the device key goes.                  *)

\* setPIN or getPinUvAuthToken.
UsePin ==
    /\ CanStart
    /\ disk' = check_keydev_encrypted(disk)
    /\ session' = TRUE
    /\ damaged' = (damaged \/ Read(disk', "keydev").key = Garbled)
    /\ UNCHANGED <<has_keydev_dec, keydev_dec, mse_init, key, olds, misled>>

\* changePIN: whatever load_keydev returns becomes ef_keydev.
ChangePin ==
    /\ CanStart
    /\ session
    /\ load_keydev # Nothing
    /\ LET d == check_keydev_encrypted(disk)
           k == IF has_keydev_dec THEN keydev_dec ELSE Read(d, "keydev").key
       IN  disk' = check_keydev_encrypted(Put(d, "keydev", Format1(k)))
    /\ damaged' = (damaged \/ misled \/ Read(disk', "keydev").key = Garbled)
    /\ UNCHANGED <<has_keydev_dec, keydev_dec, mse_init, session, key, olds, misled>>

-----------------------------------------------------------------------------
(* The vendor commands, and the subcommands of authenticatorConfig that    *)
(* take a token, which takes a PIN.                                        *)

\* CTAP_VENDOR_MSE: a key to send lock keys under.
KeyAgreement ==
    /\ mse_init' = TRUE
    /\ UNCHANGED <<disk, has_keydev_dec, keydev_dec, session, key, olds, misled, damaged>>

\* The buffer is made for 32 bytes.  A record of 33 or 61 runs over its end (if
\* the device gets past that, the stored part opens with no lock key).
LockRecord(f) == IF f.format = "raw" THEN Locked(f.key) ELSE Unopenable

\* CTAP_CONFIG_AUT_ENABLE.
AutEnable ==
    /\ CanStart
    /\ session /\ mse_init
    /\ ef_keydev # Nothing
    /\ disk' = Wiped(Put(disk, "enc", LockRecord(ef_keydev)))
    /\ damaged' = (damaged \/ LockRecord(ef_keydev) = Unopenable)
    /\ UNCHANGED <<has_keydev_dec, keydev_dec, mse_init, session, key, olds, misled>>

\* Faulty: the locked copy is removed first.
RestoredAfterwards(k) == Put(Put(disk, "enc", Nothing), "keydev", Raw(k))

\* The key goes back to ef_keydev and its locked copy is removed.
Restored(k) == Put(Put(disk, "keydev", Raw(k)), "enc", Nothing)

\* CTAP_CONFIG_AUT_DISABLE: has_keydev_dec stays.
AutDisable ==
    /\ CanStart
    /\ session
    /\ ef_keydev_enc # Nothing
    /\ has_keydev_dec
    /\ disk' = Restored(keydev_dec)
    /\ keydev_dec' = Zero
    /\ damaged' = (damaged \/ misled)
    /\ misled' = TRUE
    /\ UNCHANGED <<has_keydev_dec, mse_init, session, key, olds>>

\* CTAP_VENDOR_UNLOCK with the right lock key ...
Unlock ==
    /\ mse_init
    /\ ef_keydev_enc.format = "locked"
    /\ keydev_dec' = ef_keydev_enc.key
    /\ has_keydev_dec' = TRUE
    /\ misled' = FALSE
    /\ UNCHANGED <<disk, mse_init, session, key, olds, damaged>>

\* ... and with a wrong one: the decryption leaves zeros.
UnlockFails ==
    /\ mse_init
    /\ ef_keydev_enc # Nothing
    /\ keydev_dec' = Zero
    /\ misled' = has_keydev_dec
    /\ UNCHANGED <<disk, has_keydev_dec, mse_init, session, key, olds, damaged>>

\* CTAP_VENDOR_BACKUP 0x02 takes any bytes for a backup.
RestoreBackup ==
    /\ CanStart
    /\ \/ \E k \in Key : /\ disk' = Wiped(Put(disk, "enc", Locked(k)))
                         /\ key' = k
                         /\ UNCHANGED damaged
       \/ \E r \in {Unopenable, Nothing} : /\ disk' = Wiped(Put(disk, "enc", r))
                                           /\ key' = key
                                           /\ damaged' = TRUE
    /\ olds' = olds \cup {key}
    /\ misled' = has_keydev_dec
    /\ UNCHANGED <<has_keydev_dec, keydev_dec, mse_init, session>>

-----------------------------------------------------------------------------
\* authenticatorReset keeps the variables.
cbor_reset ==
    /\ CanStart
    /\ key' \in Fresh
    /\ disk' = Settled([keydev |-> Format1(key'), enc |-> Nothing])
    /\ session' = FALSE
    /\ olds' = {}
    /\ misled' = has_keydev_dec
    /\ damaged' = FALSE
    /\ UNCHANGED <<has_keydev_dec, keydev_dec, mse_init>>

Drain ==
    /\ \E f \in DOMAIN disk.pending : CanDrain(disk, f) /\ disk' = Drained(disk, f)
    /\ olds' = IF IsSettled(disk') THEN {} ELSE olds
    /\ UNCHANGED <<has_keydev_dec, keydev_dec, mse_init, session, key, misled, damaged>>

\* A power cut may have undone a restore.  If it came in the middle the files
\* hold two keys; if it came between the two writes of Wiped, zeros.
PowerCycle ==
    /\ LET c == disk.flash
           left == Held(c) \cap ({key} \cup olds)
       IN  /\ IF NeedsKey(c)
              THEN \E k \in Fresh : disk' = Put(Crashed(disk), "keydev", Format1(k))
              ELSE disk' = Crashed(disk)
           /\ key' \in IF left = {} THEN {key} ELSE left
           /\ damaged' = (damaged \/ c.keydev = Raw(Zero) \/ Cardinality(Held(c)) > 1)
    /\ has_keydev_dec' = FALSE
    /\ keydev_dec' = Zero
    /\ mse_init' = FALSE
    /\ session' = FALSE
    /\ olds' = {}
    /\ misled' = FALSE

\* A new device, and one whose key older firmware wrote.
Init ==
    /\ key \in Key
    /\ \E f \in {Format1(key), Raw(key)} :
         disk = Settled([keydev |-> f, enc |-> Nothing])
    /\ has_keydev_dec = FALSE
    /\ keydev_dec = Zero
    /\ mse_init = FALSE
    /\ session = FALSE
    /\ olds = {}
    /\ misled = FALSE
    /\ damaged = FALSE

Next ==
    \/ UsePin \/ ChangePin
    \/ KeyAgreement \/ AutEnable \/ AutDisable
    \/ Unlock \/ UnlockFails \/ RestoreBackup
    \/ cbor_reset \/ Drain \/ PowerCycle

Spec == Init /\ [][Next]_keyVars

-----------------------------------------------------------------------------
\* The type of the state.
KeyTypeOK ==
    /\ IsDisk(disk, Content)
    /\ has_keydev_dec \in BOOLEAN /\ keydev_dec \in Key \cup {Zero, Garbled}
    /\ mse_init \in BOOLEAN /\ session \in BOOLEAN
    /\ key \in Key /\ olds \subseteq Key
    /\ misled \in BOOLEAN /\ damaged \in BOOLEAN

\* load_keydev gives the key of the device or an error, through locks, PIN
\* changes, restores and power cuts: never another key, from which credentials
\* would be made that nobody can use later.
RightKeyOrNone ==
    misled \/ damaged \/ load_keydev = Nothing \/ load_keydev.key = key

\* At every moment the flash, as a power cut would leave it, still holds the
\* key in one of the two files: AUT_ENABLE, AUT_DISABLE and changePIN write the
\* new place before they empty the old one.
KeySurvives == damaged \/ Held(disk.flash) \cap ({key} \cup olds) # {}
=============================================================================
