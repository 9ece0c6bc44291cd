-------------------------------- MODULE Oath --------------------------------
(***************************************************************************)
(* The OATH applet (oath.c): credentials in the dynamic files EF_OATH_CRED *)
(* + i, an access code in EF_OATH_CODE and a PIN with a retry counter in   *)
(* EF_OTP_PIN.  Commands that touch credentials need `validated`, which    *)
(* selecting the applet sets or clears and which the access code and the   *)
(* PIN can earn.                                                           *)
(*                                                                         *)
(* All writes are queued without waiting, but for the retry counter:       *)
(* oath_check_pin waits until the flash has it, so the handlers that call  *)
(* it are split there.  Keys of older firmware are in plain; selecting     *)
(* seals them, once per boot.                                              *)
(***************************************************************************)
EXTENDS FlashQueue, Integers, FiniteSets

CONSTANTS Name, Code,
          MaxCreds,    \* MAX_OATH_CRED
          MaxRetries,  \* MAX_OTP_COUNTER
          NoData,
          MaxKeys,     \* bound on the credentials that are put
          MaxImf,      \* bound on the moving factor
          QueueCap     \* bound: no command starts behind a longer queue

ASSUME OathAssumption == /\ MaxCreds \in Nat \ {0}
                         /\ MaxRetries \in Nat \ {0}
                         /\ MaxKeys \in Nat \ {0}
                         /\ MaxImf \in Nat
                         /\ QueueCap \in Nat

VARIABLES disk,
          selected,    \* the applet is the one APDUs go to
          validated,
          migrated,    \* oath_migration_done
          pc,          \* the handler that waits in oath_check_pin, or "idle"
          keys,        \* how many keys were ever put: each PUT brings a new one
          proof,       \* history: what was proved since validated was last lost
          wrong,       \* history: wrong PINs compared since the last right one
          next,        \* history: for each key 1 + the last imf answered for
          torn         \* history: keys that lost a write to a power cut or a full flash

vars == <<disk, selected, validated, migrated, pc, keys, proof, wrong, next, torn>>

-----------------------------------------------------------------------------
(* The files.                                                              *)

Slots == 1..MaxCreds
EF_OTP_PIN == 0
EF_OATH_CODE == MaxCreds + 1
Files == {EF_OTP_PIN, EF_OATH_CODE} \cup Slots

Credential == [name : Name, key : 1..MaxKeys, hotp : BOOLEAN,
               imf : 0..MaxImf, sealed : BOOLEAN]
CodeKey == [key : Code, sealed : BOOLEAN]

\* A file without data is told from any other.
ASSUME NoDataAssumption == NoData \notin Credential \cup CodeKey \cup 0..MaxRetries

\* EF_OTP_PIN holds the retries left and, in one of two formats, a hash of
\* the PIN: the model keeps the retries.
Contents == [f \in Files |-> {NoData} \cup CASE f = EF_OTP_PIN -> 0..MaxRetries
                                             [] f = EF_OATH_CODE -> CodeKey
                                             [] OTHER -> Credential]

file(f) == Read(disk, f)
file_has_data(f) == file(f) # NoData

Present == {i \in Slots : file_has_data(i)}
Named(n) == {i \in Present : file(i).name = n}

\* The lowest of the slots, which the code gets by sorting the file ids.
Lowest(S) == CHOOSE i \in S : \A j \in S : i <= j

find_oath_cred(n) == Lowest(Named(n))

-----------------------------------------------------------------------------
QueueIsShort ==
    Cardinality(UNION {{f} \X DOMAIN disk.pending[f] : f \in Files}) <= QueueCap

CanStart == pc = "idle" /\ selected /\ QueueIsShort

\* The commands that look at validated first.
Authorised == CanStart /\ validated

\* Faulty: what was validated before stays so.
ValidatedBefore == validated \/ ~(file_has_data(EF_OATH_CODE) \/ file_has_data(EF_OTP_PIN))

\* What oath_select makes of validated.
OpenAtSelect == ~file_has_data(EF_OATH_CODE) /\ ~file_has_data(EF_OTP_PIN)

Plain == {f \in Files \ {EF_OTP_PIN} : file_has_data(f) /\ ~file(f).sealed}

Sealed(v) == [v EXCEPT !.sealed = TRUE]

oath_migrate_secrets(S) == PutAll(disk, [f \in S |-> Sealed(file(f))])

oath_select ==
    /\ pc = "idle"
    /\ QueueIsShort
    /\ selected' = TRUE
    /\ validated' = OpenAtSelect
    /\ proof' = "none"
    /\ disk' = IF migrated THEN disk ELSE oath_migrate_secrets(Plain)
    /\ migrated' = TRUE
    /\ UNCHANGED <<pc, keys, wrong, next, torn>>

\* A key cannot be sealed or stored: some of them are, the applet does not
\* start (but goes on if it was selected before).
SelectFails ==
    /\ pc = "idle"
    /\ QueueIsShort
    /\ ~migrated
    /\ validated' = OpenAtSelect
    /\ proof' = "none"
    /\ \E done \in SUBSET Plain : /\ done # Plain
                                  /\ disk' = oath_migrate_secrets(done)
    /\ UNCHANGED <<selected, migrated, pc, keys, wrong, next, torn>>

-----------------------------------------------------------------------------
(* Credentials.                                                            *)

\* Faulty: a credential that is overwritten is stored as it came.
StoredAsSent(f, c) == Put(disk, f, [c EXCEPT !.sealed = ~file_has_data(f)])

oath_put_credential_data(f, c) == Put(disk, f, [c EXCEPT !.sealed = TRUE])

\* A credential of the same name is overwritten where it is; a new one takes
\* the first slot without a file, and there is an error if all have one.
cmd_put ==
    /\ Authorised
    /\ keys < MaxKeys
    /\ keys' = keys + 1
    /\ \E n \in Name, hotp \in BOOLEAN :
         LET c == [name |-> n, key |-> keys + 1, hotp |-> hotp, imf |-> 0, sealed |-> FALSE]
         IN  IF Named(n) # {}
             THEN disk' = oath_put_credential_data(find_oath_cred(n), c)
             ELSE /\ Present # Slots
                  /\ disk' = oath_put_credential_data(Lowest(Slots \ Present), c)
    /\ UNCHANGED <<selected, validated, migrated, pc, proof, wrong, next, torn>>

cmd_delete ==
    /\ Authorised
    /\ \E n \in Name : /\ Named(n) # {}
                       /\ disk' = Put(disk, find_oath_cred(n), NoData)
    /\ UNCHANGED <<selected, validated, migrated, pc, keys, proof, wrong, next, torn>>

\* Faulty: the credential is copied from the flash.
RenamedFromFlash(f, n) ==
    [(IF disk.flash[f] = NoData THEN file(f) ELSE disk.flash[f]) EXCEPT !.name = n]

Renamed(f, n) == [file(f) EXCEPT !.name = n]

\* Whether another credential has the new name is not looked at.
cmd_rename ==
    /\ Authorised
    /\ \E n, new \in Name :
         /\ n # new
         /\ Named(n) # {}
         /\ LET f == find_oath_cred(n) IN disk' = Put(disk, f, Renamed(f, new))
    /\ UNCHANGED <<selected, validated, migrated, pc, keys, proof, wrong, next, torn>>

\* The answer for a HOTP credential is computed from its imf, which is then
\* counted up without waiting.  Whether this was stored is not looked at.
\* Other answers change nothing.
cmd_calculate ==
    /\ Authorised
    /\ \E n \in Name :
         /\ Named(n) # {}
         /\ LET f == find_oath_cred(n)
                c == file(f)
            IN  /\ c.hotp
                /\ c.imf < MaxImf
                /\ next' = [next EXCEPT ![c.key] = c.imf + 1]
                /\ \/ disk' = Put(disk, f, [c EXCEPT !.imf = @ + 1]) /\ UNCHANGED torn
                   \/ UNCHANGED disk /\ torn' = torn \cup {c.key}
    /\ UNCHANGED <<selected, validated, migrated, pc, keys, proof, wrong>>

-----------------------------------------------------------------------------
(* The access code.                                                        *)

\* The host proves that it has the new key, and has to prove it again
\* before the next command.
cmd_set_code ==
    /\ Authorised
    /\ \E c \in Code : disk' = Put(disk, EF_OATH_CODE, [key |-> c, sealed |-> TRUE])
    /\ validated' = FALSE
    /\ proof' = "none"
    /\ UNCHANGED <<selected, migrated, pc, keys, wrong, next, torn>>

\* SET CODE with an empty key.
RemoveCode ==
    /\ Authorised
    /\ disk' = IF file_has_data(EF_OATH_CODE) THEN Put(disk, EF_OATH_CODE, NoData) ELSE disk
    /\ UNCHANGED <<selected, validated, migrated, pc, keys, proof, wrong, next, torn>>

\* Without a code VALIDATE is an error, but sets validated all the same.
cmd_validate ==
    /\ CanStart
    /\ validated' = TRUE
    /\ proof' = IF file_has_data(EF_OATH_CODE) THEN file(EF_OATH_CODE).key ELSE proof
    /\ UNCHANGED <<disk, selected, migrated, pc, keys, wrong, next, torn>>

\* Deletes everything, and asks for no proof.
cmd_reset ==
    /\ CanStart
    /\ disk' = PutAll(disk, [f \in {g \in Files : file_has_data(g)} |-> NoData])
    /\ validated' = TRUE
    /\ wrong' = 0
    /\ UNCHANGED <<selected, migrated, pc, keys, proof, next, torn>>

-----------------------------------------------------------------------------
(* The PIN.                                                                *)

cmd_set_otp_pin ==
    /\ Authorised
    /\ ~file_has_data(EF_OTP_PIN)
    /\ disk' = Put(disk, EF_OTP_PIN, MaxRetries)
    /\ wrong' = 0
    /\ UNCHANGED <<selected, validated, migrated, pc, keys, proof, next, torn>>

\* oath_check_pin up to its wait; changing the PIN needs no validated.
BeginCheck(cmd) ==
    /\ CanStart
    /\ file_has_data(EF_OTP_PIN)
    /\ file(EF_OTP_PIN) > 0
    /\ disk' = Put(disk, EF_OTP_PIN, file(EF_OTP_PIN) - 1)
    /\ pc' = cmd
    /\ UNCHANGED <<selected, validated, migrated, keys, proof, wrong, next, torn>>

\* OTP_PIN_BLOCKED.
VerifyBlocked ==
    /\ CanStart
    /\ file_has_data(EF_OTP_PIN)
    /\ file(EF_OTP_PIN) = 0
    /\ validated' = FALSE
    /\ proof' = "none"
    /\ UNCHANGED <<disk, selected, migrated, pc, keys, wrong, next, torn>>

\* OTP_PIN_STORAGE_ERROR: the PIN is not compared.
StorageError ==
    /\ pc # "idle"
    /\ ~IsSettled(disk)
    /\ pc' = "idle"
    /\ UNCHANGED <<disk, selected, validated, migrated, keys, proof, wrong, next, torn>>

\* Faulty: the wait is left out.
CountedInRam(cmd) == pc = cmd

\* The flash has the decremented counter.
Counted(cmd) == pc = cmd /\ IsSettled(disk)

Mismatch(cmd) ==
    /\ Counted(cmd)
    /\ wrong' = wrong + 1
    /\ IF cmd = "verify"
       THEN validated' = FALSE /\ proof' = "none"
       ELSE UNCHANGED <<validated, proof>>
    /\ pc' = "idle"
    /\ UNCHANGED <<disk, selected, migrated, keys, next, torn>>

\* A new record of the same PIN: all the retries are back.
cmd_verify_otp_pin ==
    /\ Counted("verify")
    /\ disk' = Put(disk, EF_OTP_PIN, MaxRetries)
    /\ validated' = TRUE
    /\ proof' = "PIN"
    /\ wrong' = 0
    /\ pc' = "idle"
    /\ UNCHANGED <<selected, migrated, keys, next, torn>>

cmd_change_otp_pin ==
    /\ Counted("change")
    /\ disk' = Put(disk, EF_OTP_PIN, MaxRetries)
    /\ wrong' = 0
    /\ pc' = "idle"
    /\ UNCHANGED <<selected, validated, migrated, keys, proof, next, torn>>

-----------------------------------------------------------------------------
Drain ==
    /\ \E f \in Files : CanDrain(disk, f) /\ disk' = Drained(disk, f)
    /\ UNCHANGED <<selected, validated, migrated, pc, keys, proof, wrong, next, torn>>

\* Keys of the writes that are not in the flash yet.
PendingKeys == {k \in 1..MaxKeys :
                  \E i \in Slots : \E v \in Range(disk.pending[i]) :
                      v # NoData /\ v.key = k}

PowerCycle ==
    /\ disk' = Crashed(disk)
    /\ selected' = FALSE
    /\ validated' = TRUE
    /\ migrated' = FALSE
    /\ pc' = "idle"
    /\ proof' = "none"
    /\ torn' = torn \cup PendingKeys
    /\ UNCHANGED <<keys, wrong, next>>

\* A new device, or one of older firmware with keys in plain.
OldCredential(n) == [name |-> n, key |-> 1, hotp |-> TRUE, imf |-> 0, sealed |-> FALSE]

Init ==
    /\ \E old \in {NoData} \cup {OldCredential(n) : n \in Name},
          code \in {NoData} \cup [key : Code, sealed : {FALSE}],
          pin \in {NoData, MaxRetries} :
         /\ disk = Settled([f \in Files |-> CASE f = 1 -> old
                                              [] f = EF_OATH_CODE -> code
                                              [] f = EF_OTP_PIN -> pin
                                              [] OTHER -> NoData])
         /\ keys = IF old = NoData THEN 0 ELSE 1
    /\ selected = FALSE
    /\ validated = TRUE
    /\ migrated = FALSE
    /\ pc = "idle"
    /\ proof = "none"
    /\ wrong = 0
    /\ next = [k \in 1..MaxKeys |-> 0]
    /\ torn = {}

Next ==
    \/ oath_select \/ SelectFails
    \/ cmd_put \/ cmd_delete \/ cmd_rename \/ cmd_calculate
    \/ cmd_set_code \/ RemoveCode \/ cmd_validate \/ cmd_reset
    \/ cmd_set_otp_pin
    \/ BeginCheck("verify") \/ BeginCheck("change")
    \/ VerifyBlocked \/ StorageError
    \/ Mismatch("verify") \/ Mismatch("change")
    \/ cmd_verify_otp_pin \/ cmd_change_otp_pin
    \/ Drain \/ PowerCycle

Spec == Init /\ [][Next]_vars

-----------------------------------------------------------------------------
(* What the applet promises.                                               *)

\* The type of the state.
OathTypeOK ==
    /\ IsDisk(disk, Contents)
    /\ selected \in BOOLEAN /\ validated \in BOOLEAN /\ migrated \in BOOLEAN
    /\ pc \in {"idle", "verify", "change"}
    /\ keys \in 0..MaxKeys
    /\ proof \in {"none", "PIN"} \cup Code
    /\ wrong \in 0..MaxRetries
    /\ next \in [1..MaxKeys -> 0..MaxImf]
    /\ torn \subseteq 1..MaxKeys

\* The wrong PINs compared since the last right one and the retries of any
\* version of EF_OTP_PIN a power cut can bring back never exceed
\* MAX_OTP_COUNTER: oath_check_pin counts in the flash before it compares.
OtpPinBudget ==
    \A v \in Copies(disk, EF_OTP_PIN) : v # NoData => wrong + v <= MaxRetries

\* While a code is set, validated means that since it was last lost the key
\* of this code, not of an earlier one, or the PIN was proved: setting a
\* code, a wrong PIN and selecting the applet all take it away.
CodeIsProved ==
    selected /\ validated /\ file_has_data(EF_OATH_CODE)
        => proof \in {"PIN", file(EF_OATH_CODE).key}

\* An imf is never answered for twice: whatever renames, migrations and
\* late writes there are, the next answer uses a higher one than the last,
\* but for a key of which a power cut took a write or whose imf could not be
\* stored (cmd_calculate neither waits for the flash nor looks at the result).
ImfMovesOn ==
    \A i \in Present : LET c == file(i)
                       IN  c.hotp /\ c.key \notin torn => c.imf >= next[c.key]

\* Once the secrets are migrated no key is stored in plain again, by any
\* path that writes one.
NoPlainKey == migrated => \A i \in Present \cup {EF_OATH_CODE} :
                             file_has_data(i) => file(i).sealed
=============================================================================
