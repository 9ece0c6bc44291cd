---------------------------- MODULE TokenProofs -----------------------------
(***************************************************************************)
(* The safety properties of ClientPin, for every set of PINs, every number *)
(* of retries and every order of the flash writes, and then those of       *)
(* TokenCommands, for every set of relying parties and permissions: what a *)
(* pinUvAuthToken authorises over any interleaving of the commands that    *)
(* use it with those that issue and revoke it.                             *)
(***************************************************************************)
EXTENDS TokenCommands, FlashQueueProofs

(* The inductive invariant.  GuessBudget alone is not inductive: it has to *)
(* know that an attempt which may compare a PIN has already paid for it    *)
(* with a retry; BootGuessLimit has to know how the two counters of wrong  *)
(* PINs, the code's and the history's, can differ.                         *)

Types ==
    /\ IsDisk(disk, Content)
    /\ pc \in {"idle", "changePIN", "getToken"}
    /\ mismatches \in Nat
    /\ needsPowerCycle \in BOOLEAN
    /\ paut \in Token
    /\ ppaut \in BOOLEAN
    /\ wrong \in Nat
    /\ bootWrong \in Nat
    /\ keyLost \in BOOLEAN

AttemptIsPaid ==
    pc # "idle" => /\ ef_pin.set
                   /\ ~needsPowerCycle
                   /\ wrong + 1 + ef_pin.retries <= MaxRetries

Counters ==
    /\ wrong <= MaxRetries
    /\ mismatches <= MaxMismatches
    /\ bootWrong <= MaxMismatches
    /\ mismatches = MaxMismatches /\ ef_pin.set => needsPowerCycle
    /\ bootWrong <= mismatches \/ (pc = "idle" /\ ef_pin.set /\ ef_pin.retries = 0)

IInv == /\ Types
        /\ GuessBudget
        /\ AttemptIsPaid
        /\ Counters
        /\ TokenProvesCurrentPin
        /\ ForcedMeansNoToken
        /\ KeyReadableNow

-----------------------------------------------------------------------------
\* The three files and what they may hold.
LEMMA Files ==
    /\ DOMAIN Content = {"pin", "keydev", "force"}
    /\ Content["pin"] = PinFile
    /\ Content["keydev"] = KeyFile
    /\ Content["force"] = BOOLEAN
  BY DEF Content

\* The contents the handlers write are of the right type, and a new ef_pin
\* has all its retries.
LEMMA Written ==
    /\ NoPinFile \in PinFile
    /\ \A p \in PIN : /\ NewPinFile(p) \in PinFile
                      /\ NewPinFile(p).set
                      /\ NewPinFile(p).pin = p
                      /\ NewPinFile(p).retries = MaxRetries
                      /\ ~NewPinFile(p).legacy
    /\ Plain \in KeyFile
    /\ \A p \in PIN, k \in Kdf : Sealed(k, p) \in KeyFile /\ Sealed(k, p) # Plain
    /\ "hash_multi" \in Kdf /\ "pin_derive_session" \in Kdf
  BY ClientPinAssumption
     DEF NoPinFile, PinFile, NewPinFile, Plain, KeyFile, Sealed, Kdf

\* An ef_pin that is set holds a PIN and a number of retries.
LEMMA PinFields ==
    \A pf \in PinFile :
      /\ pf.set \in BOOLEAN
      /\ pf.legacy \in BOOLEAN
      /\ pf.retries \in 0..MaxRetries
      /\ pf.set => pf.pin \in PIN
      /\ ~pf.set => pf = NoPinFile /\ pf.pin = Nobody /\ pf.pin \notin PIN
<1> TAKE pf \in PinFile
<1>1. CASE pf = NoPinFile
  BY <1>1, ClientPinAssumption, TokenAssumption DEF NoPinFile
<1>2. CASE pf \in [set : {TRUE}, retries : 0..MaxRetries, pin : PIN, legacy : BOOLEAN]
  BY <1>2
<1> QED BY <1>1, <1>2 DEF PinFile

\* What a handler reads has the type of the file.
LEMMA ReadTypes ==
    ASSUME NEW d, IsDisk(d, Content)
    PROVE  /\ Read(d, "pin") \in PinFile
           /\ Read(d, "keydev") \in KeyFile
           /\ Read(d, "force") \in BOOLEAN
           /\ Read(d, "pin") \in Copies(d, "pin")
           /\ Copies(d, "pin") \subseteq PinFile
  BY ReadIsCopy, Files

\* A disk with nothing to write.
LEMMA SettledFiles ==
    ASSUME NEW c, c = [f \in DOMAIN Content |-> c[f]],
           c["pin"] \in PinFile, c["keydev"] \in KeyFile, c["force"] \in BOOLEAN
    PROVE  LET e == Settled(c)
           IN  /\ IsDisk(e, Content)
               /\ Read(e, "pin") = c["pin"]
               /\ Read(e, "keydev") = c["keydev"]
               /\ Read(e, "force") = c["force"]
               /\ Copies(e, "pin") = {c["pin"]}
<1>1. \A f \in DOMAIN Content : c[f] \in Content[f]
  BY Files
<1>2. /\ IsDisk(Settled(c), Content)
      /\ \A f \in DOMAIN Content : Read(Settled(c), f) = c[f] /\ Copies(Settled(c), f) = {c[f]}
  BY <1>1, SettledDisk
<1> QED BY <1>2, Files

\* A write of ef_pin.
LEMMA PutPin ==
    ASSUME NEW d, IsDisk(d, Content), NEW v \in PinFile
    PROVE  LET e == Put(d, "pin", v)
           IN  /\ IsDisk(e, Content)
               /\ Read(e, "pin") = v
               /\ Read(e, "keydev") = Read(d, "keydev")
               /\ Read(e, "force") = Read(d, "force")
               /\ Copies(e, "pin") = Copies(d, "pin") \cup {v}
  BY PutDisk, Files

\* A write of ef_keydev.
LEMMA PutKey ==
    ASSUME NEW d, IsDisk(d, Content), NEW v \in KeyFile
    PROVE  LET e == Put(d, "keydev", v)
           IN  /\ IsDisk(e, Content)
               /\ Read(e, "pin") = Read(d, "pin")
               /\ Read(e, "keydev") = v
               /\ Read(e, "force") = Read(d, "force")
               /\ Copies(e, "pin") = Copies(d, "pin")
  BY PutDisk, Files

\* A write of the forceChangePin flag.
LEMMA PutForce ==
    ASSUME NEW d, IsDisk(d, Content), NEW v \in BOOLEAN
    PROVE  LET e == Put(d, "force", v)
           IN  /\ IsDisk(e, Content)
               /\ Read(e, "pin") = Read(d, "pin")
               /\ Read(e, "keydev") = Read(d, "keydev")
               /\ Read(e, "force") = v
               /\ Copies(e, "pin") = Copies(d, "pin")
  BY PutDisk, Files

\* check_keydev_encrypted seals a plain device key and nothing else.
LEMMA SealKey ==
    ASSUME NEW d, IsDisk(d, Content), NEW p \in PIN
    PROVE  LET e == check_keydev_encrypted(d, p)
           IN  /\ IsDisk(e, Content)
               /\ Read(e, "pin") = Read(d, "pin")
               /\ Read(e, "keydev") = IF Read(d, "keydev") = Plain
                                      THEN Sealed("pin_derive_session", p)
                                      ELSE Read(d, "keydev")
               /\ Read(e, "force") = Read(d, "force")
               /\ Copies(e, "pin") = Copies(d, "pin")
  BY PutKey, Written DEF check_keydev_encrypted

-----------------------------------------------------------------------------
\* The upgrade of a legacy ef_pin leaves a plain device key.
LEMMA UpgradedDisk ==
    ASSUME IsDisk(disk, Content)
    PROVE  /\ IsDisk(Upgraded(disk), Content)
           /\ Read(Upgraded(disk), "pin") = ef_pin
           /\ Read(Upgraded(disk), "keydev") = IF ef_pin.legacy THEN Plain ELSE ef_keydev
           /\ Read(Upgraded(disk), "force") = forceChangePin
           /\ Copies(Upgraded(disk), "pin") = Copies(disk, "pin")
  BY PutKey, Written
     DEF Upgraded, encrypt_keydev_f1, ef_pin, ef_keydev, forceChangePin

\* The device key after the upgrade and the sealing that both handlers do.
ResealedKey == IF ef_pin.legacy \/ ef_keydev = Plain
               THEN Sealed("pin_derive_session", ef_pin.pin)
               ELSE ef_keydev

\* What changePIN leaves when it rejects the new PIN, and what
\* getPinUvAuthToken always leaves: all the retries and a sealed key.
LEMMA RightPinDisks ==
    ASSUME IsDisk(disk, Content), ef_pin.set,
           NEW e \in {RetriesRestored, TokenDisk}
    PROVE  /\ IsDisk(e, Content)
           /\ Read(e, "pin") = NewPinFile(ef_pin.pin)
           /\ Read(e, "keydev") = ResealedKey
           /\ Read(e, "force") = forceChangePin
           /\ Copies(e, "pin") = Copies(disk, "pin") \cup {NewPinFile(ef_pin.pin)}
<1> DEFINE n == NewPinFile(ef_pin.pin)
<1>1. ef_pin.pin \in PIN
  BY ReadTypes, PinFields DEF ef_pin
<1>2. n \in PinFile
  BY <1>1, Written
<1>3. CASE e = RetriesRestored
  <2> DEFINE d1 == Put(Upgraded(disk), "pin", n)
  <2>1. /\ IsDisk(d1, Content)
        /\ Read(d1, "pin") = n
        /\ Read(d1, "keydev") = Read(Upgraded(disk), "keydev")
        /\ Read(d1, "force") = forceChangePin
        /\ Copies(d1, "pin") = Copies(disk, "pin") \cup {n}
    BY <1>2, UpgradedDisk, PutPin
  <2>2. e = check_keydev_encrypted(d1, ef_pin.pin)
    BY <1>3 DEF RetriesRestored
  <2> HIDE DEF d1, n
  <2>3. Read(e, "keydev") = ResealedKey
    BY <1>1, <2>1, <2>2, SealKey, UpgradedDisk DEF ResealedKey
  <2> QED BY <1>1, <2>1, <2>2, <2>3, SealKey DEF n
<1>4. CASE e = TokenDisk
  <2> DEFINE d1 == check_keydev_encrypted(Upgraded(disk), ef_pin.pin)
  <2>1. /\ IsDisk(d1, Content)
        /\ Read(d1, "keydev") = ResealedKey
        /\ Read(d1, "force") = forceChangePin
        /\ Copies(d1, "pin") = Copies(disk, "pin")
    BY <1>1, UpgradedDisk, SealKey DEF ResealedKey
  <2>2. e = Put(d1, "pin", n)
    BY <1>4 DEF TokenDisk
  <2> HIDE DEF d1, n
  <2> QED BY <1>2, <2>1, <2>2, PutPin DEF n
<1> QED BY <1>3, <1>4

\* The device key sealed under the new PIN.
LEMMA RewrappedDisk ==
    ASSUME IsDisk(disk, Content), ef_pin.set, NEW new \in PIN
    PROVE  LET e == Rewrapped(new)
           IN  /\ IsDisk(e, Content)
               /\ Read(e, "pin") = NewPinFile(ef_pin.pin)
               /\ Read(e, "keydev") = Sealed("pin_derive_session", new)
               /\ Read(e, "force") = forceChangePin
               /\ Copies(e, "pin") = Copies(disk, "pin") \cup {NewPinFile(ef_pin.pin)}
<1> DEFINE d1 == encrypt_keydev_f1(RetriesRestored)
<1>1. /\ IsDisk(d1, Content)
      /\ Read(d1, "pin") = NewPinFile(ef_pin.pin)
      /\ Read(d1, "keydev") = Plain
      /\ Read(d1, "force") = forceChangePin
      /\ Copies(d1, "pin") = Copies(disk, "pin") \cup {NewPinFile(ef_pin.pin)}
  BY RightPinDisks, PutKey, Written DEF encrypt_keydev_f1
<1>2. Rewrapped(new) = check_keydev_encrypted(d1, new)
  BY DEF Rewrapped
<1> HIDE DEF d1
<1> QED BY <1>1, <1>2, SealKey

-----------------------------------------------------------------------------
\* An expired token is not usable, another one is left alone.
LEMMA Ticked ==
    ASSUME NEW t \in Token
    PROVE  /\ pin_uv_auth_token_tick(t) \in Token
           /\ pin_uv_auth_token_tick(t).holder = t.holder
           /\ pin_uv_auth_token_tick(t).granted = t.granted
           /\ IsUsable(pin_uv_auth_token_tick(t)) => IsUsable(t)
  BY DEF Token, pin_uv_auth_token_tick, stopUsingPinUvAuthToken, IsUsable, IsHeld

\* A token that is made new is nobody's.
LEMMA ResetToken ==
    ASSUME NEW t \in Token
    PROVE  /\ resetPinUvAuthToken(t) \in Token
           /\ ~IsUsable(resetPinUvAuthToken(t))
  BY DEF Token, resetPinUvAuthToken, IsUsable, IsHeld

\* A token that is given away proves the PIN it was given for.
LEMMA IssuedToken ==
    ASSUME NEW t \in Token, NEW p \in PIN, NEW ps \in SUBSET Perm,
           NEW rp \in RP \cup {NoRp}
    PROVE  Issued(t, p, ps, rp) \in Token /\ Issued(t, p, ps, rp).holder = p
  BY DEF Token, Issued, beginUsingPinUvAuthToken, resetPinUvAuthToken

LEMMA NoTokenUnusable == NoToken \in Token /\ ~IsUsable(NoToken)
  BY DEF Token, NoToken, IsUsable, IsHeld

\* What the flash holds at the first start: the files are of their types and
\* the device key opens with the PIN.
LEMMA InitialFiles ==
    ASSUME NEW files \in {FreshFiles} \cup UNION {PinFiles(p) : p \in PIN}
    PROVE  /\ files = [f \in DOMAIN Content |-> files[f]]
           /\ files["pin"] \in PinFile
           /\ files["keydev"] \in KeyFile
           /\ files["force"] = FALSE
           /\ Recoverable(files["pin"], files["keydev"])
<1> DEFINE FilesOK == /\ files = [f \in DOMAIN Content |-> files[f]]
                      /\ files["pin"] \in PinFile
                      /\ files["keydev"] \in KeyFile
                      /\ files["force"] = FALSE
                      /\ Recoverable(files["pin"], files["keydev"])
<1>1. CASE files = FreshFiles
  BY <1>1, Files, Written DEF FreshFiles, Recoverable
<1>2. CASE \E p \in PIN : files \in PinFiles(p)
  <2>1. PICK p \in PIN : files \in PinFiles(p)
    BY <1>2
  <2>2. CASE files = [FreshFiles EXCEPT !.pin = NewPinFile(p),
                                        !.keydev = Sealed("pin_derive_session", p)]
    BY <2>2, Files, Written DEF FreshFiles, Recoverable
  <2>3. ASSUME NEW k \in {Plain, Sealed("hash_multi", p)},
               files = [FreshFiles EXCEPT !.pin = LegacyPinFile(p), !.keydev = k]
        PROVE  FilesOK
    <3>1. /\ LegacyPinFile(p) \in PinFile
          /\ LegacyPinFile(p).set /\ LegacyPinFile(p).legacy /\ LegacyPinFile(p).pin = p
      BY ClientPinAssumption DEF LegacyPinFile, PinFile
    <3>2. k \in KeyFile
      BY Written
    <3>3. /\ files = [f \in DOMAIN Content |-> files[f]]
          /\ files["pin"] = LegacyPinFile(p)
          /\ files["keydev"] = k
          /\ files["force"] = FALSE
      BY <2>3, Files DEF FreshFiles
    <3> QED BY <3>1, <3>2, <3>3 DEF Recoverable
  <2> QED BY <2>1, <2>2, <2>3 DEF PinFiles
<1> QED BY <1>1, <1>2

\* The initial states satisfy the invariant.
LEMMA InitIInv == Init => IInv
<1> SUFFICES ASSUME Init PROVE IInv
  OBVIOUS
<1>1. PICK files \in {FreshFiles} \cup UNION {PinFiles(p) : p \in PIN} :
        disk = Settled(files)
  BY DEF Init
<1>2. /\ files = [f \in DOMAIN Content |-> files[f]]
      /\ files["pin"] \in PinFile
      /\ files["keydev"] \in KeyFile
      /\ files["force"] = FALSE
      /\ Recoverable(files["pin"], files["keydev"])
  BY <1>1, InitialFiles
<1>3. /\ IsDisk(disk, Content)
      /\ ef_pin = files["pin"]
      /\ ef_keydev = files["keydev"]
      /\ forceChangePin = FALSE
      /\ Copies(disk, "pin") = {files["pin"]}
  BY <1>1, <1>2, SettledFiles DEF ef_pin, ef_keydev, forceChangePin
<1>4. Types
  BY <1>3, NoTokenUnusable DEF Init, Types
<1>5. GuessBudget /\ AttemptIsPaid /\ Counters
  BY <1>2, <1>3, PinFields, ClientPinAssumption
     DEF Init, GuessBudget, AttemptIsPaid, Counters, MaxMismatches
<1>6. TokenProvesCurrentPin /\ ForcedMeansNoToken /\ KeyReadableNow
  BY <1>2, <1>3, NoTokenUnusable
     DEF Init, TokenProvesCurrentPin, ForcedMeansNoToken, KeyReadableNow
<1> QED BY <1>4, <1>5, <1>6 DEF IInv

-----------------------------------------------------------------------------
(* Every step preserves the invariant.  For each action, first what the    *)
(* step makes of the files, then the parts of the invariant.               *)

\* What a handler knows that has waited for the flash: the retry it paid is
\* in the only version of ef_pin there is.
LEMMA PaidAttempt ==
    ASSUME IInv, NEW cmd, cmd # "idle", Persisted(cmd)
    PROVE  /\ ef_pin.set /\ ef_pin \in PinFile
           /\ ef_pin.pin \in PIN
           /\ Copies(disk, "pin") = {ef_pin}
           /\ wrong + 1 + ef_pin.retries <= MaxRetries
           /\ ~needsPowerCycle /\ mismatches < MaxMismatches
           /\ bootWrong <= mismatches
<1>1. IsDisk(disk, Content) /\ IsSettled(disk) /\ pc # "idle"
  BY DEF IInv, Types, Persisted
<1>2. Copies(disk, "pin") = {ef_pin}
  BY <1>1, SettledReads, Files DEF ef_pin
<1>3. ef_pin \in PinFile
  BY <1>1, ReadTypes DEF ef_pin
<1> QED BY <1>1, <1>2, <1>3, PinFields
       DEF IInv, Types, AttemptIsPaid, Counters, MaxMismatches

\* A right PIN: the counters start again, and the invariant holds if the
\* handler has restored the retries and left a key that opens.
LEMMA RightPinStep ==
    ASSUME IInv, NEW cmd, cmd # "idle", RightPin(cmd),
           IsDisk(disk', Content), NEW p \in PIN,
           ef_pin' = NewPinFile(p),
           Copies(disk, "pin")' \subseteq Copies(disk, "pin")
                                  \cup {NewPinFile(ef_pin.pin), NewPinFile(p)},
           needsPowerCycle' \in BOOLEAN, paut' \in Token, ppaut' \in BOOLEAN,
           IsUsable(paut)' => (paut.holder)' = p,
           forceChangePin' => ~IsUsable(paut)' /\ ~ppaut',
           KeyReadableNow'
    PROVE  IInv'
<1>1. /\ ef_pin.pin \in PIN
      /\ Copies(disk, "pin") = {ef_pin} /\ ef_pin \in PinFile
  BY PaidAttempt DEF RightPin
<1>2. Types'
  BY DEF IInv, Types, RightPin
<1>3. GuessBudget'
  <2>1. \A pf \in Copies(disk, "pin")' : pf \in PinFile /\ wrong' = 0
    BY <1>1, Written DEF RightPin
  <2> QED BY <2>1, PinFields, ClientPinAssumption DEF GuessBudget
<1>4. AttemptIsPaid' /\ Counters'
  BY ClientPinAssumption DEF RightPin, AttemptIsPaid, Counters, MaxMismatches
<1>5. TokenProvesCurrentPin' /\ ForcedMeansNoToken'
  BY Written DEF TokenProvesCurrentPin, ForcedMeansNoToken
<1> QED BY <1>2, <1>3, <1>4, <1>5 DEF IInv

\* The key a right PIN leaves opens with that PIN, unless a power cut had
\* left one that does not.
LEMMA ResealedKeyOpens ==
    ASSUME IInv, ef_pin.set, ef_pin \in PinFile
    PROVE  keyLost \/ Recoverable(NewPinFile(ef_pin.pin), ResealedKey)
  BY PinFields, Written
     DEF IInv, KeyReadableNow, Recoverable, ResealedKey

\* A step that leaves the files alone and can only take the token away.
LEMMA SameDiskStep ==
    ASSUME IInv, disk' = disk, pc' \in {"idle", pc},
           wrong' = wrong, bootWrong' = bootWrong, keyLost' = keyLost,
           mismatches' = mismatches, needsPowerCycle' = needsPowerCycle,
           ppaut' = ppaut, paut' \in Token, (paut.holder)' = paut.holder,
           IsUsable(paut)' => IsUsable(paut),
           pc # "idle" => bootWrong <= mismatches
    PROVE  IInv'
<1>1. /\ ef_pin' = ef_pin /\ ef_keydev' = ef_keydev
      /\ forceChangePin' = forceChangePin
      /\ Copies(disk, "pin")' = Copies(disk, "pin")
  BY DEF ef_pin, ef_keydev, forceChangePin
<1>2. Types'
  BY DEF IInv, Types
<1>3. GuessBudget' /\ AttemptIsPaid' /\ Counters'
  BY <1>1 DEF IInv, GuessBudget, AttemptIsPaid, Counters
<1>4. TokenProvesCurrentPin' /\ ForcedMeansNoToken' /\ KeyReadableNow'
  BY <1>1 DEF IInv, TokenProvesCurrentPin, ForcedMeansNoToken, KeyReadableNow
<1> QED BY <1>2, <1>3, <1>4 DEF IInv

\* The counters while nothing is attempted.
LEMMA AttemptCounters == IInv /\ pc # "idle" => bootWrong <= mismatches
  BY DEF IInv, Counters

LEMMA SetPinStep == ASSUME IInv, setPIN PROVE IInv'
<1>1. PICK p \in PIN : disk' = check_keydev_encrypted(Put(disk, "pin", NewPinFile(p)), p)
  BY DEF setPIN
<1>2. IsDisk(disk, Content) /\ ef_pin \in PinFile /\ ~ef_pin.set /\ ef_keydev \in KeyFile
  BY ReadTypes DEF IInv, Types, setPIN, ef_pin, ef_keydev
<1> DEFINE d == Put(disk, "pin", NewPinFile(p))
<1>3. /\ IsDisk(d, Content)
      /\ Read(d, "pin") = NewPinFile(p)
      /\ Read(d, "keydev") = ef_keydev
      /\ Read(d, "force") = forceChangePin
      /\ Copies(d, "pin") = Copies(disk, "pin") \cup {NewPinFile(p)}
  BY <1>2, PutPin, Written DEF ef_keydev, forceChangePin
<1>4. disk' = check_keydev_encrypted(d, p)
  BY <1>1
<1> HIDE DEF d
<1>5. /\ IsDisk(disk', Content)
      /\ ef_pin' = NewPinFile(p)
      /\ ef_keydev' = IF ef_keydev = Plain THEN Sealed("pin_derive_session", p)
                                          ELSE ef_keydev
      /\ forceChangePin' = forceChangePin
      /\ Copies(disk, "pin")' = Copies(disk, "pin") \cup {NewPinFile(p)}
  BY <1>3, <1>4, SealKey DEF ef_pin, ef_keydev, forceChangePin
<1>6. /\ paut' \in Token
      /\ (paut.holder)' = paut.holder
      /\ IsUsable(paut)' => IsUsable(paut)
  BY Ticked DEF setPIN, IInv, Types
<1>7. ~IsUsable(paut)
  BY <1>2, PinFields DEF IInv, TokenProvesCurrentPin, IsUsable, IsHeld
<1>8. Types'
  BY <1>5, <1>6 DEF IInv, Types, setPIN
<1>9. GuessBudget'
  <2>1. \A pf \in Copies(disk, "pin")' : pf \in PinFile /\ wrong' = 0
    BY <1>2, <1>5, ReadTypes, Written DEF setPIN
  <2> QED BY <2>1, PinFields, ClientPinAssumption DEF GuessBudget
<1>10. AttemptIsPaid' /\ Counters'
  BY ClientPinAssumption
     DEF setPIN, CanStart, AttemptIsPaid, Counters, MaxMismatches
<1>11. TokenProvesCurrentPin' /\ ForcedMeansNoToken'
  BY <1>5, <1>6, <1>7
     DEF IInv, setPIN, TokenProvesCurrentPin, ForcedMeansNoToken
<1>12. KeyReadableNow'
  BY <1>2, <1>5, Written DEF IInv, setPIN, KeyReadableNow, Recoverable
<1> QED BY <1>8, <1>9, <1>10, <1>11, <1>12 DEF IInv

\* An attempt is paid for with a retry, and changes nothing else in ef_pin.
LEMMA PayRetry ==
    ASSUME IsDisk(disk, Content), NEW cmd, BeginAttempt(cmd)
    PROVE  /\ disk' = Put(disk, "pin", ef_pin')
           /\ ef_pin' \in PinFile
           /\ ef_pin'.set /\ ef_pin'.pin = ef_pin.pin /\ ef_pin'.legacy = ef_pin.legacy
           /\ ef_pin'.retries = ef_pin.retries - 1
<1> DEFINE v == [ef_pin EXCEPT !.retries = @ - 1]
<1>1. /\ IsDisk(disk, Content) /\ ef_pin \in PinFile
      /\ ef_pin.set /\ ef_pin.retries > 0
      /\ ef_pin \in Copies(disk, "pin")
  BY ReadTypes DEF BeginAttempt, MayAttempt, ef_pin
<1>2. /\ v \in PinFile
      /\ v.set /\ v.pin = ef_pin.pin /\ v.legacy = ef_pin.legacy
      /\ v.retries = ef_pin.retries - 1
  <2>1. ef_pin \in [set : {TRUE}, retries : 0..MaxRetries, pin : PIN, legacy : BOOLEAN]
    <3>1. ef_pin # NoPinFile
      BY <1>1 DEF NoPinFile
    <3> QED BY <1>1, <3>1 DEF PinFile
  <2>2. ef_pin.retries - 1 \in 0..MaxRetries
    BY <1>1, <2>1, ClientPinAssumption
  <2> HIDE DEF ef_pin
  <2>3. v \in [set : {TRUE}, retries : 0..MaxRetries, pin : PIN, legacy : BOOLEAN]
    BY <2>1, <2>2
  <2>4. /\ v.set = ef_pin.set /\ v.pin = ef_pin.pin /\ v.legacy = ef_pin.legacy
        /\ v.retries = ef_pin.retries - 1
    BY <2>1
  <2> QED BY <1>1, <2>3, <2>4 DEF PinFile
<1> HIDE DEF v
<1>3. disk' = Put(disk, "pin", v)
  BY DEF BeginAttempt, MayAttempt, v
<1> QED BY <1>1, <1>2, <1>3, PutPin DEF ef_pin

LEMMA BeginAttemptStep ==
    ASSUME IInv, NEW cmd \in {"changePIN", "getToken"}, BeginAttempt(cmd)
    PROVE  IInv'
<1>1. /\ IsDisk(disk, Content) /\ ef_pin \in PinFile
      /\ ef_pin.set /\ ef_pin.retries > 0
      /\ ef_pin \in Copies(disk, "pin")
  BY ReadTypes DEF IInv, Types, BeginAttempt, MayAttempt, ef_pin
<1>2. /\ disk' = Put(disk, "pin", ef_pin')
      /\ ef_pin' \in PinFile
      /\ ef_pin'.set /\ ef_pin'.pin = ef_pin.pin /\ ef_pin'.legacy = ef_pin.legacy
      /\ ef_pin'.retries = ef_pin.retries - 1
  BY <1>1, PayRetry
<1>3. /\ IsDisk(disk', Content)
      /\ ef_keydev' = ef_keydev
      /\ forceChangePin' = forceChangePin
      /\ Copies(disk, "pin")' = Copies(disk, "pin") \cup {ef_pin'}
  BY <1>1, <1>2, PutPin DEF ef_keydev, forceChangePin
<1>4. /\ paut' \in Token
      /\ (paut.holder)' = paut.holder
      /\ IsUsable(paut)' => IsUsable(paut)
  BY Ticked DEF BeginAttempt, MayAttempt, IInv, Types
<1>5. Types'
  BY <1>3, <1>4 DEF IInv, Types, BeginAttempt, MayAttempt
<1>6. wrong + ef_pin.retries <= MaxRetries /\ wrong \in Nat /\ ef_pin.retries \in Nat
  BY <1>1, PinFields DEF IInv, Types, GuessBudget
<1>7. GuessBudget'
  BY <1>2, <1>3, <1>6, ClientPinAssumption DEF IInv, GuessBudget, BeginAttempt, MayAttempt
<1>8. AttemptIsPaid'
  BY <1>2, <1>3, <1>6, ClientPinAssumption DEF AttemptIsPaid, BeginAttempt, MayAttempt
<1>9. Counters'
  BY <1>1, <1>2, <1>3 DEF IInv, Counters, BeginAttempt, MayAttempt
<1>10. TokenProvesCurrentPin' /\ ForcedMeansNoToken'
  BY <1>2, <1>3, <1>4
     DEF IInv, BeginAttempt, MayAttempt, TokenProvesCurrentPin, ForcedMeansNoToken
<1>11. KeyReadableNow'
  BY <1>2, <1>3 DEF IInv, BeginAttempt, MayAttempt, KeyReadableNow, Recoverable
<1> QED BY <1>5, <1>7, <1>8, <1>9, <1>10, <1>11 DEF IInv

LEMMA WrongPinStep ==
    ASSUME IInv, NEW cmd \in {"changePIN", "getToken"}, WrongPin(cmd)
    PROVE  IInv'
<1>1. /\ ef_pin.set /\ ef_pin \in PinFile
      /\ Copies(disk, "pin") = {ef_pin}
      /\ wrong + 1 + ef_pin.retries <= MaxRetries
      /\ ~needsPowerCycle /\ mismatches < MaxMismatches
      /\ bootWrong <= mismatches
  BY PaidAttempt DEF WrongPin
<1>2. /\ ef_pin' = ef_pin /\ ef_keydev' = ef_keydev
      /\ forceChangePin' = forceChangePin
      /\ Copies(disk, "pin")' = {ef_pin}
      /\ paut' = paut /\ ppaut' = ppaut /\ keyLost' = keyLost
      /\ wrong' = wrong + 1 /\ bootWrong' = bootWrong + 1 /\ pc' = "idle"
  BY <1>1 DEF WrongPin, ef_pin, ef_keydev, forceChangePin
<1>3. /\ wrong \in Nat /\ bootWrong \in Nat /\ mismatches \in Nat
      /\ ef_pin.retries \in Nat
  BY <1>1, PinFields DEF IInv, Types
<1>4. \/ ef_pin.retries = 0 /\ mismatches' = mismatches
      \/ ef_pin.retries # 0 /\ mismatches' = mismatches + 1
  BY DEF WrongPin
<1> DEFINE last == mismatches + 1 >= MaxMismatches
<1>9. needsPowerCycle' = needsPowerCycle \/ needsPowerCycle' = TRUE
  BY DEF WrongPin
<1>10. ef_pin.retries # 0 /\ last => needsPowerCycle' = TRUE
  BY DEF WrongPin
<1>5. Types'
  <2>1. needsPowerCycle' \in BOOLEAN
    BY <1>9 DEF IInv, Types
  <2>2. mismatches' \in Nat /\ wrong' \in Nat /\ bootWrong' \in Nat
    BY <1>2, <1>3, <1>4
  <2>3. IsDisk(disk', Content)
    BY DEF IInv, Types, WrongPin
  <2> QED BY <1>2, <2>1, <2>2, <2>3 DEF IInv, Types
<1>6. GuessBudget' /\ AttemptIsPaid'
  BY <1>1, <1>2, <1>3 DEF GuessBudget, AttemptIsPaid
<1>7. Counters'
  <2>1. mismatches' = MaxMismatches => ef_pin.retries # 0 /\ last
    <3>1. mismatches < MaxMismatches /\ mismatches \in Nat
      BY <1>1, <1>3
    <3>2. ASSUME mismatches' = MaxMismatches
          PROVE  mismatches' = mismatches + 1 /\ ef_pin.retries # 0
      BY <1>4, <3>1, <3>2 DEF MaxMismatches
    <3> QED BY <3>1, <3>2 DEF MaxMismatches
  <2>2. mismatches' = MaxMismatches => needsPowerCycle'
    <3> HIDE DEF last
    <3> QED BY <1>10, <2>1
  <2>3. /\ mismatches' <= MaxMismatches
        /\ bootWrong' <= MaxMismatches
        /\ bootWrong' <= mismatches' \/ ef_pin.retries = 0
    BY <1>1, <1>2, <1>3, <1>4 DEF MaxMismatches
  <2>4. wrong' <= MaxRetries
    BY <1>1, <1>2, <1>3, ClientPinAssumption
  <2> QED BY <1>1, <1>2, <2>2, <2>3, <2>4 DEF Counters
<1>8. TokenProvesCurrentPin' /\ ForcedMeansNoToken' /\ KeyReadableNow'
  BY <1>2 DEF IInv, TokenProvesCurrentPin, ForcedMeansNoToken, KeyReadableNow
<1> QED BY <1>5, <1>6, <1>7, <1>8 DEF IInv

LEMMA ChangeRejectedStep == ASSUME IInv, ChangeRejected PROVE IInv'
<1>1. /\ RightPin("changePIN") /\ disk' = RetriesRestored
      /\ needsPowerCycle' = needsPowerCycle /\ paut' = paut /\ ppaut' = ppaut
  BY DEF ChangeRejected
<1>2. IsDisk(disk, Content) /\ ef_pin.set /\ ef_pin \in PinFile /\ ef_pin.pin \in PIN
  BY <1>1, PaidAttempt DEF RightPin, IInv, Types
<1>3. /\ IsDisk(disk', Content)
      /\ ef_pin' = NewPinFile(ef_pin.pin)
      /\ ef_keydev' = ResealedKey
      /\ forceChangePin' = forceChangePin
      /\ Copies(disk, "pin")' = Copies(disk, "pin") \cup {NewPinFile(ef_pin.pin)}
  BY <1>1, <1>2, RightPinDisks DEF ef_pin, ef_keydev, forceChangePin
<1>4. KeyReadableNow'
  BY <1>1, <1>2, <1>3, ResealedKeyOpens DEF KeyReadableNow, RightPin
<1>5. IsUsable(paut)' => (paut.holder)' = ef_pin.pin
  BY <1>1 DEF IInv, TokenProvesCurrentPin
<1>6. forceChangePin' => ~IsUsable(paut)' /\ ~ppaut'
  BY <1>1, <1>3 DEF IInv, ForcedMeansNoToken
<1>7. needsPowerCycle' \in BOOLEAN /\ paut' \in Token /\ ppaut' \in BOOLEAN
  BY <1>1 DEF IInv, Types
<1> QED BY <1>1, <1>2, <1>3, <1>4, <1>5, <1>6, <1>7, RightPinStep

LEMMA ChangeToSamePinStep == ASSUME IInv, ChangeToSamePin PROVE IInv'
<1>1. /\ RightPin("changePIN") /\ disk' = Rewrapped(ef_pin.pin)
      /\ needsPowerCycle' = needsPowerCycle /\ paut' = paut /\ ppaut' = ppaut
  BY DEF ChangeToSamePin
<1>2. IsDisk(disk, Content) /\ ef_pin.set /\ ef_pin \in PinFile /\ ef_pin.pin \in PIN
  BY <1>1, PaidAttempt DEF RightPin, IInv, Types
<1>3. /\ IsDisk(disk', Content)
      /\ ef_pin' = NewPinFile(ef_pin.pin)
      /\ ef_keydev' = Sealed("pin_derive_session", ef_pin.pin)
      /\ forceChangePin' = forceChangePin
      /\ Copies(disk, "pin")' = Copies(disk, "pin") \cup {NewPinFile(ef_pin.pin)}
  BY <1>1, <1>2, RewrappedDisk DEF ef_pin, ef_keydev, forceChangePin
<1>4. KeyReadableNow'
  BY <1>2, <1>3, Written DEF KeyReadableNow, Recoverable
<1>5. IsUsable(paut)' => (paut.holder)' = ef_pin.pin
  BY <1>1 DEF IInv, TokenProvesCurrentPin
<1>6. forceChangePin' => ~IsUsable(paut)' /\ ~ppaut'
  BY <1>1, <1>3 DEF IInv, ForcedMeansNoToken
<1>7. needsPowerCycle' \in BOOLEAN /\ paut' \in Token /\ ppaut' \in BOOLEAN
  BY <1>1 DEF IInv, Types
<1> QED BY <1>1, <1>2, <1>3, <1>4, <1>5, <1>6, <1>7, RightPinStep

LEMMA ChangePinStep == ASSUME IInv, ChangePin PROVE IInv'
<1>1. /\ RightPin("changePIN") /\ paut' = resetPinUvAuthToken(paut)
      /\ needsPowerCycle' = FALSE /\ ppaut' = FALSE
  BY DEF ChangePin, MayChangeTo
<1> DEFINE d(p) == Put(Rewrapped(p), "pin", NewPinFile(p))
<1>2. PICK new \in PIN :
        disk' = IF forceChangePin THEN Put(d(new), "force", FALSE) ELSE d(new)
  BY DEF ChangePin, MayChangeTo
<1>3. IsDisk(disk, Content) /\ ef_pin.set /\ ef_pin \in PinFile /\ ef_pin.pin \in PIN
  BY <1>1, PaidAttempt DEF RightPin, IInv, Types
<1>4. /\ IsDisk(d(new), Content)
      /\ Read(d(new), "pin") = NewPinFile(new)
      /\ Read(d(new), "keydev") = Sealed("pin_derive_session", new)
      /\ Copies(d(new), "pin") = Copies(disk, "pin")
                                   \cup {NewPinFile(ef_pin.pin), NewPinFile(new)}
  BY <1>3, RewrappedDisk, PutPin, Written
<1> HIDE DEF d
<1>5. /\ IsDisk(disk', Content)
      /\ ef_pin' = NewPinFile(new)
      /\ ef_keydev' = Sealed("pin_derive_session", new)
      /\ Copies(disk, "pin")' = Copies(disk, "pin")
                                   \cup {NewPinFile(ef_pin.pin), NewPinFile(new)}
  BY <1>2, <1>4, PutForce DEF ef_pin, ef_keydev
<1>6. KeyReadableNow'
  BY <1>5, Written DEF KeyReadableNow, Recoverable
<1>7. needsPowerCycle' \in BOOLEAN /\ paut' \in Token /\ ppaut' \in BOOLEAN /\ ~ppaut'
  BY <1>1, ResetToken DEF IInv, Types
<1>8. ~IsUsable(paut)'
  BY <1>1, ResetToken DEF IInv, Types
<1> QED BY <1>1, <1>5, <1>6, <1>7, <1>8, RightPinStep

\* The three ends of getPinUvAuthToken leave the same files.
LEMMA TokenStep ==
    ASSUME IInv, RightPin("getToken"), disk' = TokenDisk,
           needsPowerCycle' \in {FALSE, needsPowerCycle},
           \/ UNCHANGED <<paut, ppaut>>
           \/ ~forceChangePin /\ ppaut' = TRUE /\ UNCHANGED paut
           \/ /\ ~forceChangePin /\ UNCHANGED ppaut
              /\ \E ps \in SUBSET Perm, rp \in RP \cup {NoRp} :
                   paut' = Issued(paut, ef_pin.pin, ps, rp)
    PROVE  IInv'
<1>1. IsDisk(disk, Content) /\ ef_pin.set /\ ef_pin \in PinFile /\ ef_pin.pin \in PIN
  BY PaidAttempt DEF RightPin, IInv, Types
<1>2. /\ IsDisk(disk', Content)
      /\ ef_pin' = NewPinFile(ef_pin.pin)
      /\ ef_keydev' = ResealedKey
      /\ forceChangePin' = forceChangePin
      /\ Copies(disk, "pin")' = Copies(disk, "pin") \cup {NewPinFile(ef_pin.pin)}
  BY <1>1, RightPinDisks DEF ef_pin, ef_keydev, forceChangePin
<1>3. KeyReadableNow'
  BY <1>1, <1>2, ResealedKeyOpens DEF KeyReadableNow, RightPin
<1>4. /\ paut' \in Token
      /\ IsUsable(paut)' => (paut.holder)' = ef_pin.pin
  BY <1>1, IssuedToken DEF IInv, Types, TokenProvesCurrentPin
<1>5. forceChangePin' => ~IsUsable(paut)' /\ ~ppaut'
  BY <1>2 DEF IInv, ForcedMeansNoToken
<1>6. needsPowerCycle' \in BOOLEAN /\ ppaut' \in BOOLEAN
  BY DEF IInv, Types
<1> QED BY <1>1, <1>2, <1>3, <1>4, <1>5, <1>6, RightPinStep

LEMMA SetMinPINLengthStep == ASSUME IInv, setMinPINLength PROVE IInv'
<1> DEFINE t == pin_uv_auth_token_tick(paut)
<1>1. PICK force \in {"absent", "false", "true"} :
        /\ disk' = Put(disk, "force", force = "true")
        /\ paut' = IF force = "absent" THEN t ELSE resetPinUvAuthToken(t)
        /\ ppaut' = (ppaut /\ force = "absent")
  BY DEF setMinPINLength
<1>2. /\ pc = "idle" /\ pc' = pc /\ mismatches' = mismatches
      /\ needsPowerCycle' = needsPowerCycle /\ wrong' = wrong
      /\ bootWrong' = bootWrong /\ keyLost' = keyLost
  BY DEF setMinPINLength, CanStart
<1>3. /\ IsDisk(disk', Content)
      /\ ef_pin' = ef_pin /\ ef_keydev' = ef_keydev
      /\ forceChangePin' = (force = "true")
      /\ Copies(disk, "pin")' = Copies(disk, "pin")
  <2>1. IsDisk(disk, Content) /\ (force = "true") \in BOOLEAN
    BY DEF IInv, Types
  <2> QED BY <1>1, <2>1, PutForce DEF ef_pin, ef_keydev, forceChangePin
<1>4. /\ t \in Token /\ t.holder = paut.holder
      /\ IsUsable(t) => IsUsable(paut)
      /\ resetPinUvAuthToken(t) \in Token
      /\ ~IsUsable(resetPinUvAuthToken(t))
  BY Ticked, ResetToken DEF IInv, Types
<1> HIDE DEF t
<1>5. /\ paut' \in Token
      /\ IsUsable(paut)' => IsUsable(paut) /\ (paut.holder)' = paut.holder
      /\ force = "true" => ~IsUsable(paut)' /\ ~ppaut'
      /\ ppaut' \in BOOLEAN
  BY <1>1, <1>4
<1>6. Types'
  BY <1>2, <1>3, <1>5 DEF IInv, Types
<1>7. GuessBudget' /\ AttemptIsPaid' /\ Counters'
  BY <1>2, <1>3 DEF IInv, GuessBudget, AttemptIsPaid, Counters
<1>8. TokenProvesCurrentPin' /\ ForcedMeansNoToken' /\ KeyReadableNow'
  BY <1>2, <1>3, <1>5
     DEF IInv, TokenProvesCurrentPin, ForcedMeansNoToken, KeyReadableNow
<1> QED BY <1>6, <1>7, <1>8 DEF IInv

LEMMA ResetStep == ASSUME IInv, cbor_reset PROVE IInv'
<1>1. /\ IsDisk(disk', Content)
      /\ ef_pin' = NoPinFile /\ ef_keydev' = Plain /\ forceChangePin' = FALSE
      /\ Copies(disk, "pin")' = {NoPinFile}
  <2>1. /\ FreshFiles = [f \in DOMAIN Content |-> FreshFiles[f]]
        /\ FreshFiles["pin"] = NoPinFile
        /\ FreshFiles["keydev"] = Plain
        /\ FreshFiles["force"] = FALSE
    BY Files DEF FreshFiles
  <2>2. disk' = Settled(FreshFiles)
    BY DEF cbor_reset
  <2> HIDE DEF FreshFiles
  <2> QED BY <2>1, <2>2, SettledFiles, Written DEF ef_pin, ef_keydev, forceChangePin
<1>2. paut' \in Token /\ ~IsUsable(paut)'
  <2> DEFINE t == pin_uv_auth_token_tick(paut)
  <2>1. t \in Token
    BY Ticked DEF IInv, Types
  <2>2. paut' = [t EXCEPT !.holder = Nobody, !.granted = {}]
    BY DEF cbor_reset
  <2> HIDE DEF t
  <2> QED BY <2>1, <2>2 DEF Token, IsUsable, IsHeld
<1>3. Types'
  BY <1>1, <1>2 DEF IInv, Types, cbor_reset, CanStart
<1>4. GuessBudget' /\ AttemptIsPaid'
  BY <1>1 DEF GuessBudget, AttemptIsPaid, cbor_reset, CanStart, NoPinFile
<1>5. Counters'
  BY <1>1, ClientPinAssumption
     DEF IInv, Types, Counters, cbor_reset, NoPinFile, MaxMismatches
<1>6. TokenProvesCurrentPin' /\ ForcedMeansNoToken' /\ KeyReadableNow'
  BY <1>1, <1>2 DEF TokenProvesCurrentPin, ForcedMeansNoToken, KeyReadableNow, Recoverable
<1> QED BY <1>3, <1>4, <1>5, <1>6 DEF IInv

LEMMA DrainStep == ASSUME IInv, Drain PROVE IInv'
<1>1. IsDisk(disk, Content)
  BY DEF IInv, Types
<1>2. PICK f \in DOMAIN Content : CanDrain(disk, f) /\ disk' = Drained(disk, f)
  BY <1>1 DEF Drain, IsDisk
<1>3. /\ IsDisk(disk', Content)
      /\ ef_pin' = ef_pin /\ ef_keydev' = ef_keydev
      /\ forceChangePin' = forceChangePin
      /\ Copies(disk, "pin")' \subseteq Copies(disk, "pin")
  BY <1>1, <1>2, DrainedDisk, Files DEF ef_pin, ef_keydev, forceChangePin
<1>4. Types'
  BY <1>3 DEF IInv, Types, Drain
<1>5. GuessBudget' /\ AttemptIsPaid' /\ Counters'
  BY <1>3 DEF IInv, GuessBudget, AttemptIsPaid, Counters, Drain
<1>6. TokenProvesCurrentPin' /\ ForcedMeansNoToken' /\ KeyReadableNow'
  BY <1>3 DEF IInv, TokenProvesCurrentPin, ForcedMeansNoToken, KeyReadableNow, Drain
<1> QED BY <1>4, <1>5, <1>6 DEF IInv

LEMMA PowerCycleStep == ASSUME IInv, PowerCycle PROVE IInv'
<1>1. IsDisk(disk, Content)
  BY DEF IInv, Types
<1>2. /\ IsDisk(disk', Content)
      /\ ef_pin' = disk.flash["pin"]
      /\ ef_keydev' = disk.flash["keydev"]
      /\ ef_pin' \in Copies(disk, "pin")
      /\ Copies(disk, "pin")' \subseteq Copies(disk, "pin")
  BY <1>1, CrashedDisk, Files DEF PowerCycle, ef_pin, ef_keydev
<1>3. Types'
  BY <1>2, NoTokenUnusable DEF IInv, Types, PowerCycle
<1>4. GuessBudget' /\ AttemptIsPaid' /\ Counters'
  BY <1>2 DEF IInv, GuessBudget, AttemptIsPaid, Counters, PowerCycle, MaxMismatches
<1>5. TokenProvesCurrentPin' /\ ForcedMeansNoToken'
  BY NoTokenUnusable DEF TokenProvesCurrentPin, ForcedMeansNoToken, PowerCycle
<1>6. KeyReadableNow'
  BY <1>2 DEF KeyReadableNow, PowerCycle
<1> QED BY <1>3, <1>4, <1>5, <1>6 DEF IInv

-----------------------------------------------------------------------------
LEMMA EndAttemptStep == ASSUME IInv, EndAttempt PROVE IInv'
<1>1. CASE PersistTimeout
  BY <1>1, SameDiskStep, AttemptCounters DEF PersistTimeout, IInv, Types
<1>2. CASE DecryptFails
  BY <1>2, SameDiskStep, AttemptCounters DEF DecryptFails, IInv, Types
<1>3. CASE WrongPin("changePIN") \/ WrongPin("getToken")
  BY <1>3, WrongPinStep
<1>4. CASE LegacyKeyUnreadable("changePIN") \/ LegacyKeyUnreadable("getToken")
  BY <1>4, SameDiskStep, AttemptCounters DEF LegacyKeyUnreadable, IInv, Types
<1>5. CASE ChangeRejected
  BY <1>5, ChangeRejectedStep
<1>6. CASE ChangeToSamePin
  BY <1>6, ChangeToSamePinStep
<1>7. CASE ChangePin
  BY <1>7, ChangePinStep
<1>8. CASE TokenRefused
  BY <1>8, TokenStep DEF TokenRefused
<1>9. CASE GetPersistentToken
  BY <1>9, TokenStep DEF GetPersistentToken
<1>10. CASE GetToken
  <2>1. \E ps \in SUBSET Perm, rp \in RP \cup {NoRp} :
          paut' = Issued(paut, ef_pin.pin, ps, rp)
    <3>1. {"mc", "ga"} \in SUBSET Perm /\ Grants \subseteq SUBSET Perm
      BY ClientPinAssumption DEF Perm
    <3> QED BY <1>10, <3>1 DEF GetToken
  <2> QED BY <1>10, <2>1, TokenStep DEF GetToken
<1> QED BY <1>1, <1>2, <1>3, <1>4, <1>5, <1>6, <1>7, <1>8, <1>9, <1>10 DEF EndAttempt

\* The invariant is inductive.
LEMMA NextIInv == ASSUME IInv, [Next]_vars PROVE IInv'
<1>1. CASE setPIN
  BY <1>1, SetPinStep
<1>2. CASE BeginAttempt("changePIN") \/ BeginAttempt("getToken")
  BY <1>2, BeginAttemptStep
<1>3. CASE EndAttempt
  BY <1>3, EndAttemptStep
<1>4. CASE setMinPINLength
  BY <1>4, SetMinPINLengthStep
<1>5. CASE cbor_reset
  BY <1>5, ResetStep
<1>6. CASE OtherCommand
  <2>1. /\ paut' \in Token /\ (paut.holder)' = paut.holder
        /\ IsUsable(paut)' => IsUsable(paut)
    BY <1>6, Ticked DEF OtherCommand, IInv, Types
  <2> QED BY <1>6, <2>1, SameDiskStep, AttemptCounters DEF OtherCommand
<1>7. CASE TokenAges
  <2>1. /\ paut' \in Token /\ (paut.holder)' = paut.holder
        /\ IsUsable(paut)' => IsUsable(paut)
    BY <1>7 DEF TokenAges, IInv, Types, Token, IsUsable, IsHeld
  <2> QED BY <1>7, <2>1, SameDiskStep, AttemptCounters DEF TokenAges
<1>8. CASE Drain
  BY <1>8, DrainStep
<1>9. CASE PowerCycle
  BY <1>9, PowerCycleStep
<1>10. CASE UNCHANGED vars
  BY <1>10, SameDiskStep, AttemptCounters DEF vars, IInv, Types
<1> QED BY <1>1, <1>2, <1>3, <1>4, <1>5, <1>6, <1>7, <1>8, <1>9, <1>10 DEF Next

LEMMA Inductive == Spec => []IInv
  BY InitIInv, NextIInv, PTL DEF Spec

-----------------------------------------------------------------------------
(* The theorems.                                                           *)

\* Every state has its type, and in particular no version of ef_pin or
\* ef_keydev is anything but what the handlers write.
THEOREM TypeCorrect == Spec => []TypeOK
<1>1. IInv => TypeOK
  BY ClientPinAssumption DEF IInv, Types, Counters, TypeOK, MaxMismatches
<1> QED BY <1>1, Inductive, PTL

\* The budget of wrong PINs holds through power cuts: MAX_PIN_RETRIES of
\* them at most, whatever version of ef_pin a restart finds
\* (persist_pin_retry_counter).
THEOREM GuessBudgetHolds == Spec => []GuessBudget
<1>1. IInv => GuessBudget
  BY DEF IInv
<1> QED BY <1>1, Inductive, PTL

\* Of the two counters the code's is never ahead while a PIN is set.
Misses == /\ needsPowerCycle => bootWrong >= MaxMismatches
          /\ ef_pin.set => mismatches <= bootWrong

LEMMA MissesInductive == ASSUME IInv, Misses, [Next]_vars PROVE Misses'
<1>1. /\ IsDisk(disk, Content)
      /\ mismatches \in Nat /\ bootWrong \in Nat
  BY DEF IInv, Types
<1>2. CASE setPIN \/ PowerCycle
  BY <1>2 DEF setPIN, PowerCycle, Misses, MaxMismatches
<1>3. CASE BeginAttempt("changePIN") \/ BeginAttempt("getToken")
  BY <1>3 DEF BeginAttempt, Misses
<1>4. CASE \E cmd \in {"changePIN", "getToken"} : WrongPin(cmd)
  <2>1. ef_pin.set /\ ~needsPowerCycle
    BY <1>4, PaidAttempt DEF WrongPin
  <2>2. /\ mismatches <= bootWrong /\ bootWrong' = bootWrong + 1
        /\ \/ mismatches' = mismatches /\ UNCHANGED needsPowerCycle
           \/ mismatches' = mismatches + 1 /\ UNCHANGED needsPowerCycle
           \/ mismatches' = mismatches + 1 /\ mismatches + 1 >= MaxMismatches
    BY <1>4, <2>1 DEF WrongPin, Misses
  <2>3. mismatches' <= bootWrong'
    BY <1>1, <2>2
  <2>4. UNCHANGED needsPowerCycle \/ bootWrong' >= MaxMismatches
    BY <1>1, <2>2 DEF MaxMismatches
  <2> QED BY <2>1, <2>3, <2>4 DEF Misses
<1>5. CASE \E cmd \in {"changePIN", "getToken"} :
             RightPin(cmd) /\ needsPowerCycle' \in {FALSE, needsPowerCycle}
  <2>1. ~needsPowerCycle
    BY <1>5, PaidAttempt DEF RightPin
  <2>2. mismatches' <= bootWrong'
    BY <1>5 DEF RightPin
  <2>3. ~needsPowerCycle'
    BY <1>5, <2>1
  <2> QED BY <2>2, <2>3 DEF Misses
<1>6. CASE setMinPINLength
  <2>1. PICK v \in BOOLEAN : disk' = Put(disk, "force", v)
    BY <1>6 DEF setMinPINLength
  <2>2. ef_pin' = ef_pin
    BY <1>1, <2>1, PutForce DEF ef_pin
  <2> QED BY <1>6, <2>2 DEF setMinPINLength, Misses
<1>7. CASE cbor_reset
  <2>1. ef_pin' = NoPinFile
    <3>1. /\ FreshFiles = [f \in DOMAIN Content |-> FreshFiles[f]]
          /\ FreshFiles["pin"] = NoPinFile
          /\ FreshFiles["keydev"] = Plain
          /\ FreshFiles["force"] = FALSE
      BY Files DEF FreshFiles
    <3>2. disk' = Settled(FreshFiles)
      BY <1>7 DEF cbor_reset
    <3> HIDE DEF FreshFiles
    <3> QED BY <3>1, <3>2, SettledFiles, Written DEF ef_pin
  <2> QED BY <1>7, <2>1 DEF cbor_reset, Misses, NoPinFile
<1>8. CASE Drain
  <2>1. PICK f \in DOMAIN Content : CanDrain(disk, f) /\ disk' = Drained(disk, f)
    BY <1>1, <1>8 DEF Drain, IsDisk
  <2>2. ef_pin' = ef_pin
    BY <1>1, <2>1, DrainedDisk, Files DEF ef_pin
  <2> QED BY <1>8, <2>2 DEF Drain, Misses
<1>9. CASE UNCHANGED <<disk, mismatches, needsPowerCycle, bootWrong>>
  BY <1>9 DEF Misses, ef_pin
<1> QED BY <1>2, <1>3, <1>4, <1>5, <1>6, <1>7, <1>8, <1>9
        DEF Next, EndAttempt, PersistTimeout, DecryptFails, LegacyKeyUnreadable,
            OtherCommand, TokenAges, vars, ChangeRejected, ChangeToSamePin,
            ChangePin, TokenRefused, GetPersistentToken, GetToken

\* Three wrong PINs since the last right one or power cycle, and no more are
\* compared; and nobody has to unplug the device without them
\* (new_pin_mismatches, which changePIN and getPinUvAuthToken share).
THEOREM BootGuessLimitHolds == Spec => []BootGuessLimit
<1>1. Init => Misses
  BY DEF Init, Misses
<1>2. IInv /\ Misses => BootGuessLimit
  <2> SUFFICES ASSUME IInv, Misses PROVE BootGuessLimit
    OBVIOUS
  <2>1. /\ bootWrong <= MaxMismatches /\ mismatches <= MaxMismatches
        /\ bootWrong \in Nat /\ mismatches \in Nat
        /\ mismatches = MaxMismatches /\ ef_pin.set => needsPowerCycle
        /\ bootWrong <= mismatches \/ ef_pin.retries = 0
    BY DEF IInv, Types, Counters
  <2>2. ASSUME bootWrong = MaxMismatches, ef_pin.retries > 0
        PROVE  mismatches = MaxMismatches
    BY <2>1, <2>2 DEF MaxMismatches
  <2>3. PowerCycleIsEarned
    BY DEF IInv, Types, Counters, Misses, PowerCycleIsEarned, MaxMismatches
  <2> QED BY <2>1, <2>2, <2>3 DEF BootGuessLimit
<1> QED BY <1>1, <1>2, Inductive, MissesInductive, PTL DEF Spec

\* A usable token was given for the PIN in force (resetPinUvAuthToken at
\* every change of ef_pin).
THEOREM TokenProvesCurrentPinHolds == Spec => []TokenProvesCurrentPin
<1>1. IInv => TokenProvesCurrentPin
  BY DEF IInv
<1> QED BY <1>1, Inductive, PTL

\* No token is usable while a PIN change is forced (setMinPINLength and the
\* end of getPinUvAuthToken).
THEOREM ForcedMeansNoTokenHolds == Spec => []ForcedMeansNoToken
<1>1. IInv => ForcedMeansNoToken
  BY DEF IInv
<1> QED BY <1>1, Inductive, PTL

\* The device key opens with the PIN unless a power cut has torn the two
\* apart (changePIN, getPinUvAuthToken, setPIN).
THEOREM KeyReadableNowHolds == Spec => []KeyReadableNow
<1>1. IInv => KeyReadableNow
  BY DEF IInv
<1> QED BY <1>1, Inductive, PTL

\* A PIN blocked in the flash stays blocked until a reset, whatever power
\* cuts and pending writes there are.
THEOREM BlockedUntilResetHolds == Spec => BlockedUntilReset
<1>1. ASSUME IInv, [Next]_vars, Blocked
      PROVE  Blocked' \/ ~ef_pin'.set
  <2>1. /\ pc = "idle" /\ IsDisk(disk, Content)
        /\ ef_pin.set /\ ef_pin.retries = 0
    BY <1>1, ReadTypes DEF Blocked, IInv, Types, ef_pin
  <2>2. CASE setPIN \/ BeginAttempt("changePIN") \/ BeginAttempt("getToken")
    BY <2>1, <2>2 DEF setPIN, BeginAttempt, MayAttempt
  <2>3. CASE EndAttempt
    BY <2>1, <2>3
       DEF EndAttempt, PersistTimeout, DecryptFails, WrongPin, LegacyKeyUnreadable,
           ChangeRejected, ChangeToSamePin, ChangePin, TokenRefused,
           GetPersistentToken, GetToken, RightPin, Persisted
  <2>4. CASE setMinPINLength
    <3>1. PICK v \in BOOLEAN : disk' = Put(disk, "force", v)
      BY <2>4 DEF setMinPINLength
    <3>2. Copies(disk, "pin")' = Copies(disk, "pin") /\ pc' = "idle"
      BY <2>1, <2>4, <3>1, PutForce DEF setMinPINLength
    <3> QED BY <1>1, <3>2 DEF Blocked
  <2>5. CASE cbor_reset
    <3>1. ef_pin' = NoPinFile
      <4>1. /\ FreshFiles = [f \in DOMAIN Content |-> FreshFiles[f]]
            /\ FreshFiles["pin"] = NoPinFile
            /\ FreshFiles["keydev"] = Plain
            /\ FreshFiles["force"] = FALSE
        BY Files DEF FreshFiles
      <4>2. disk' = Settled(FreshFiles)
        BY <2>5 DEF cbor_reset
      <4> HIDE DEF FreshFiles
      <4> QED BY <4>1, <4>2, SettledFiles, Written DEF ef_pin
    <3> QED BY <3>1 DEF NoPinFile
  <2>6. CASE OtherCommand \/ TokenAges \/ UNCHANGED vars
    BY <1>1, <2>6 DEF OtherCommand, TokenAges, vars, Blocked
  <2>7. CASE Drain
    <3>1. PICK f \in DOMAIN Content : CanDrain(disk, f) /\ disk' = Drained(disk, f)
      BY <2>1, <2>7 DEF Drain, IsDisk
    <3>2. Copies(disk, "pin")' \subseteq Copies(disk, "pin") /\ pc' = "idle"
      BY <2>1, <2>7, <3>1, DrainedDisk, Files DEF Drain
    <3> QED BY <1>1, <3>2 DEF Blocked
  <2>8. CASE PowerCycle
    <3>1. Copies(disk, "pin")' \subseteq Copies(disk, "pin") /\ pc' = "idle"
      BY <2>1, <2>8, CrashedDisk, Files DEF PowerCycle
    <3> QED BY <1>1, <3>1 DEF Blocked
  <2> QED BY <1>1, <2>2, <2>3, <2>4, <2>5, <2>6, <2>7, <2>8 DEF Next
<1> QED BY <1>1, Inductive, PTL DEF Spec, BlockedUntilReset

\* A forced PIN change is only forgotten with the PIN it is about, by a
\* reset, or by a power cut before it was in the flash (setMinPINLength,
\* changePIN).
THEOREM ForcedUntilChangedHolds == Spec => ForcedUntilChanged
<1> DEFINE Kept == \/ ~(forceChangePin /\ ~forceChangePin')
                   \/ ef_pin'.pin # ef_pin.pin
                   \/ cbor_reset
                   \/ PowerCycle /\ ~disk.flash.force
<1>1. ASSUME IInv, [Next]_vars
      PROVE  Kept
  <2>1. IsDisk(disk, Content)
    BY <1>1 DEF IInv, Types
  <2>2. CASE setPIN
    <3>1. PICK p \in PIN :
            disk' = check_keydev_encrypted(Put(disk, "pin", NewPinFile(p)), p)
      BY <2>2 DEF setPIN
    <3> QED BY <2>1, <3>1, PutPin, SealKey, Written DEF forceChangePin
  <2>3. CASE BeginAttempt("changePIN") \/ BeginAttempt("getToken")
    <3>1. ef_pin' \in PinFile /\ disk' = Put(disk, "pin", ef_pin')
      BY <2>1, <2>3, PayRetry
    <3> QED BY <2>1, <3>1, PutPin DEF forceChangePin
  <2>4. CASE ChangeRejected \/ TokenRefused \/ GetPersistentToken \/ GetToken
    <3>1. ef_pin.set /\ disk' \in {RetriesRestored, TokenDisk}
      BY <1>1, <2>4, PaidAttempt
         DEF ChangeRejected, TokenRefused, GetPersistentToken, GetToken, RightPin
    <3> QED BY <2>1, <3>1, RightPinDisks DEF forceChangePin
  <2>5. CASE ChangeToSamePin
    <3>1. ef_pin.set /\ ef_pin.pin \in PIN /\ disk' = Rewrapped(ef_pin.pin)
      BY <1>1, <2>5, PaidAttempt DEF ChangeToSamePin, RightPin
    <3> QED BY <2>1, <3>1, RewrappedDisk DEF forceChangePin
  <2>6. CASE ChangePin
    <3> DEFINE d(p) == Put(Rewrapped(p), "pin", NewPinFile(p))
    <3>1. PICK new \in PIN :
            /\ forceChangePin => new # ef_pin.pin
            /\ disk' = IF forceChangePin THEN Put(d(new), "force", FALSE) ELSE d(new)
      BY <2>6 DEF ChangePin, MayChangeTo
    <3>2. ef_pin.set
      BY <1>1, <2>6, PaidAttempt DEF ChangePin, MayChangeTo, RightPin
    <3>3. IsDisk(d(new), Content) /\ Read(d(new), "pin") = NewPinFile(new)
      BY <2>1, <3>2, RewrappedDisk, PutPin, Written
    <3> HIDE DEF d
    <3>4. forceChangePin => ef_pin' = NewPinFile(new)
      BY <3>1, <3>3, PutForce DEF ef_pin
    <3> QED BY <3>1, <3>4, Written
  <2>7. CASE setMinPINLength
    <3>1. IsUsable(pin_uv_auth_token_tick(paut))
      BY <2>7 DEF setMinPINLength, IsUsable
    <3> QED BY <1>1, <3>1, Ticked DEF IInv, Types, ForcedMeansNoToken
  <2>8. CASE disk' = disk
    BY <2>8 DEF forceChangePin
  <2>9. CASE Drain
    <3>1. PICK f \in DOMAIN Content : CanDrain(disk, f) /\ disk' = Drained(disk, f)
      BY <2>1, <2>9 DEF Drain, IsDisk
    <3> QED BY <2>1, <3>1, DrainedDisk, Files DEF forceChangePin
  <2>10. CASE PowerCycle
    <3>1. disk' = Crashed(disk)
      BY <2>10 DEF PowerCycle
    <3>2. Read(Crashed(disk), "force") = disk.flash["force"]
      BY <2>1, CrashedDisk, Files, ZenonT(120)
    <3>3. forceChangePin' = disk.flash["force"]
      BY <3>1, <3>2 DEF forceChangePin
    <3> QED BY <2>10, <3>3
  <2>11. CASE \/ PersistTimeout \/ DecryptFails
              \/ WrongPin("changePIN") \/ WrongPin("getToken")
              \/ LegacyKeyUnreadable("changePIN") \/ LegacyKeyUnreadable("getToken")
              \/ OtherCommand \/ TokenAges \/ UNCHANGED vars
    BY <2>8, <2>11 DEF PersistTimeout, DecryptFails, WrongPin, LegacyKeyUnreadable,
                       OtherCommand, TokenAges, vars
  <2> QED BY <1>1, <2>2, <2>3, <2>4, <2>5, <2>6, <2>7, <2>9, <2>10, <2>11
          DEF Next, EndAttempt
<1> QED BY <1>1, Inductive, PTL DEF Spec, ForcedUntilChanged
-----------------------------------------------------------------------------
(* The device key at every moment of the flash, when files are written in  *)
(* order: a handler that leaves the key sealed under another PIN for a     *)
(* moment has a write of ef_pin behind it.                                 *)

HasHistory(d) == \E ms : IsHistory(d, Content, ms)

Mended(d) ==
    \E ms : /\ IsHistory(d, Content, ms)
            /\ \A i \in 0..Len(d.order) :
                  \/ Recoverable(ms[i].pin, ms[i].keydev)
                  \/ \E j \in 1..Len(d.order) : j > i /\ d.order[j] = "pin"

Opens(d) == Recoverable(Read(d, "pin"), Read(d, "keydev"))

RiskInv == /\ InOrder
           /\ IInv
           /\ HasHistory(disk)
           /\ keyLost \/ Mended(disk)

\* A write: a history goes on; a write of ef_pin excuses every moment before
\* it; any other write is harmless if the key opens afterwards.
LEMMA WriteMends ==
    ASSUME InOrder, NEW d, IsDisk(d, Content), HasHistory(d),
           NEW f \in DOMAIN Content, NEW v \in Content[f]
    PROVE  LET e == Put(d, f, v)
           IN  /\ HasHistory(e)
               /\ Opens(e) /\ (f = "pin" \/ Mended(d)) => Mended(e)
<1> DEFINE e == Put(d, f, v)
           n == Len(d.order)
           Excused(ms, i) == \/ Recoverable(ms[i].pin, ms[i].keydev)
                             \/ \E j \in 1..n : j > i /\ d.order[j] = "pin"
           Continues(ms, now) == /\ IsHistory(e, Content, now)
                                 /\ \A i \in 0..n : now[i] = ms[i]
                                 /\ now[n + 1] = [g \in DOMAIN Content |-> Read(e, g)]
<1>1. ASSUME NEW ms, IsHistory(d, Content, ms)
      PROVE  /\ n \in Nat
             /\ Len(e.order) = n + 1
             /\ \A i \in 1..n : e.order[i] = d.order[i]
             /\ e.order[n + 1] = f
             /\ \E now : Continues(ms, now)
  BY <1>1, PutHistory
<1> HIDE DEF e, n, Continues
<1>2. HasHistory(e)
  BY <1>1 DEF HasHistory, Continues
<1>3. ASSUME NEW ms, IsHistory(d, Content, ms), Opens(e),
             f = "pin" \/ \A i \in 0..n : Excused(ms, i)
      PROVE  Mended(e)
  <2>1. PICK now : /\ IsHistory(e, Content, now)
                   /\ \A i \in 0..n : now[i] = ms[i]
                   /\ now[n + 1] = [g \in DOMAIN Content |-> Read(e, g)]
    <3>1. PICK now : Continues(ms, now)
      BY <1>1, <1>3
    <3> QED BY <3>1 DEF Continues
  <2>2. /\ n \in Nat /\ Len(e.order) = n + 1 /\ e.order[n + 1] = f
        /\ \A i \in 1..n : e.order[i] = d.order[i]
    BY <1>1, <1>3
  <2>3. Recoverable(now[n + 1].pin, now[n + 1].keydev)
    BY <1>3, <2>1, Files DEF Opens
  <2>4. ASSUME NEW i \in 0..n
        PROVE  \/ Recoverable(now[i].pin, now[i].keydev)
               \/ \E j \in 1..(n + 1) : j > i /\ e.order[j] = "pin"
    <3>1. CASE f = "pin"
      <4>1. n + 1 \in 1..(n + 1) /\ n + 1 > i
        BY <2>2
      <4> QED BY <2>2, <3>1, <4>1
    <3>2. CASE Excused(ms, i)
      <4>1. now[i] = ms[i]
        BY <2>1
      <4>2. \A j \in 1..n : j \in 1..(n + 1) /\ e.order[j] = d.order[j]
        BY <2>2
      <4> QED BY <3>2, <4>1, <4>2
    <3> HIDE DEF Excused
    <3> QED BY <1>3, <3>1, <3>2
  <2>5. \A i \in 0..(n + 1) : i \in 0..n \/ i = n + 1
    BY <2>2
  <2>6. \A i \in 0..(n + 1) : \/ Recoverable(now[i].pin, now[i].keydev)
                              \/ \E j \in 1..(n + 1) : j > i /\ e.order[j] = "pin"
    BY <2>3, <2>4, <2>5
  <2> QED BY <2>1, <2>2, <2>6 DEF Mended
<1>4. ASSUME Opens(e), f = "pin" \/ Mended(d) PROVE Mended(e)
  <2>1. CASE f = "pin"
    <3>1. PICK ms : IsHistory(d, Content, ms)
      BY DEF HasHistory
    <3> QED BY <1>3, <1>4, <2>1, <3>1
  <2>2. CASE Mended(d)
    <3>1. PICK ms : IsHistory(d, Content, ms) /\ \A i \in 0..n : Excused(ms, i)
      BY <2>2 DEF Mended, n
    <3> HIDE DEF Excused
    <3> QED BY <1>3, <1>4, <3>1
  <2> QED BY <1>4, <2>1, <2>2
<1> QED BY <1>2, <1>4 DEF e

\* A disk with nothing to write is as good as its contents.
LEMMA SettledMends ==
    ASSUME NEW c, c = [f \in DOMAIN Content |-> c[f]]
    PROVE  /\ HasHistory(Settled(c))
           /\ Recoverable(c.pin, c.keydev) => Mended(Settled(c))
<1> DEFINE ms == [i \in 0..0 |-> c]
<1>1. IsHistory(Settled(c), Content, ms)
  BY SettledHistory
<1>2. Len(Settled(c).order) = 0 /\ \A i \in 0..0 : ms[i] = c
  BY DEF Settled
<1> HIDE DEF ms
<1> QED BY <1>1, <1>2 DEF HasHistory, Mended

\* The sealing of the device key writes only a plain one over.
LEMMA SealMends ==
    ASSUME InOrder, NEW d, IsDisk(d, Content), HasHistory(d), NEW p \in PIN
    PROVE  LET e == check_keydev_encrypted(d, p)
           IN  /\ HasHistory(e)
               /\ Opens(e) /\ Mended(d) => Mended(e)
<1>1. "keydev" \in DOMAIN Content /\ Sealed("pin_derive_session", p) \in Content["keydev"]
  BY Files, Written
<1>2. LET e == Put(d, "keydev", Sealed("pin_derive_session", p))
      IN  /\ HasHistory(e)
          /\ Opens(e) /\ ("keydev" = "pin" \/ Mended(d)) => Mended(e)
  BY <1>1, WriteMends
<1> QED BY <1>2 DEF check_keydev_encrypted

\* The upgrade of a legacy ef_pin.
LEMMA UpgradeHistory ==
    ASSUME InOrder, IsDisk(disk, Content), HasHistory(disk)
    PROVE  HasHistory(Upgraded(disk))
<1>1. "keydev" \in DOMAIN Content /\ Plain \in Content["keydev"]
  BY Files, Written
<1>2. HasHistory(Put(disk, "keydev", Plain))
  BY <1>1, WriteMends
<1> QED BY <1>2 DEF Upgraded, encrypt_keydev_f1

\* After a right PIN, with the key the handler has left to it.
LEMMA RightPinMends ==
    ASSUME InOrder, IsDisk(disk, Content), HasHistory(disk), ef_pin.set,
           NEW e \in {RetriesRestored, TokenDisk}
    PROVE  /\ HasHistory(e)
           /\ Recoverable(NewPinFile(ef_pin.pin), ResealedKey) => Mended(e)
<1> DEFINE n == NewPinFile(ef_pin.pin)
<1>1. ef_pin.pin \in PIN
  BY ReadTypes, PinFields DEF ef_pin
<1>2. n \in PinFile /\ n \in Content["pin"] /\ "pin" \in DOMAIN Content
  BY <1>1, Written, Files
<1>3. HasHistory(Upgraded(disk)) /\ IsDisk(Upgraded(disk), Content)
  BY UpgradeHistory, UpgradedDisk
<1>4. Opens(e) <=> Recoverable(n, ResealedKey)
  BY RightPinDisks DEF Opens
<1>5. CASE e = RetriesRestored
  <2> DEFINE d == Put(Upgraded(disk), "pin", n)
  <2>1. /\ IsDisk(d, Content) /\ Read(d, "pin") = n
        /\ Read(d, "keydev") = IF ef_pin.legacy THEN Plain ELSE ef_keydev
    BY <1>2, UpgradedDisk, PutPin
  <2>2. HasHistory(d) /\ (Opens(d) => Mended(d))
    BY <1>2, <1>3, WriteMends
  <2>3. e = check_keydev_encrypted(d, ef_pin.pin)
    BY <1>5 DEF RetriesRestored
  <2> HIDE DEF d
  <2>4. HasHistory(e) /\ (Opens(e) /\ Mended(d) => Mended(e))
    BY <1>1, <2>1, <2>2, <2>3, SealMends
  <2>5. Recoverable(n, ResealedKey) => Opens(d)
    BY <2>1 DEF Opens, Recoverable, ResealedKey
  <2> QED BY <1>4, <2>2, <2>4, <2>5
<1>6. CASE e = TokenDisk
  <2> DEFINE d == check_keydev_encrypted(Upgraded(disk), ef_pin.pin)
  <2>1. IsDisk(d, Content)
    BY <1>1, <1>3, SealKey
  <2>2. HasHistory(d)
    BY <1>1, <1>3, SealMends
  <2>3. e = Put(d, "pin", n)
    BY <1>6 DEF TokenDisk
  <2> HIDE DEF d, n
  <2>4. HasHistory(e) /\ (Opens(e) => Mended(e))
    BY <1>2, <2>1, <2>2, <2>3, WriteMends
  <2> QED BY <1>4, <2>4 DEF n
<1> QED BY <1>5, <1>6

\* The device key sealed under the new PIN: it opens only if that is the old
\* one.
LEMMA RewrapMends ==
    ASSUME InOrder, IsDisk(disk, Content), HasHistory(disk), ef_pin.set, NEW new \in PIN
    PROVE  /\ HasHistory(Rewrapped(new))
           /\ Recoverable(NewPinFile(ef_pin.pin), ResealedKey) /\ new = ef_pin.pin
                => Mended(Rewrapped(new))
<1> DEFINE d == encrypt_keydev_f1(RetriesRestored)
<1>1. /\ IsDisk(RetriesRestored, Content) /\ HasHistory(RetriesRestored)
      /\ Recoverable(NewPinFile(ef_pin.pin), ResealedKey) => Mended(RetriesRestored)
  BY RightPinDisks, RightPinMends
<1>2. "keydev" \in DOMAIN Content /\ Plain \in Content["keydev"] /\ Plain \in KeyFile
  BY Files, Written
<1>3. IsDisk(d, Content) /\ Read(d, "keydev") = Plain
  BY <1>1, <1>2, PutKey DEF encrypt_keydev_f1
<1>4. /\ HasHistory(d)
      /\ Opens(d) /\ Mended(RetriesRestored) => Mended(d)
  BY <1>1, <1>2, WriteMends DEF encrypt_keydev_f1
<1>5. Opens(d)
  BY <1>3 DEF Opens, Recoverable
<1>6. Rewrapped(new) = check_keydev_encrypted(d, new)
  BY DEF Rewrapped
<1> HIDE DEF d
<1>7. /\ HasHistory(Rewrapped(new))
      /\ Opens(Rewrapped(new)) /\ Mended(d) => Mended(Rewrapped(new))
  BY <1>3, <1>4, <1>6, SealMends
<1>8. new = ef_pin.pin => Opens(Rewrapped(new))
  BY RewrappedDisk, Written DEF Opens, Recoverable
<1> QED BY <1>1, <1>4, <1>5, <1>7, <1>8

\* Every step but Drain and the two that start again: the history goes on.
LEMMA HandlerMends ==
    ASSUME RiskInv, Next, IInv', ~(Drain \/ PowerCycle \/ cbor_reset)
    PROVE  RiskInv'
<1>1. /\ IsDisk(disk, Content) /\ InOrder /\ HasHistory(disk)
      /\ keyLost \/ (Mended(disk) /\ Opens(disk))
      /\ ef_pin = Read(disk, "pin") /\ ef_keydev = Read(disk, "keydev")
      /\ ef_pin \in PinFile /\ ef_keydev \in KeyFile
  BY ReadTypes DEF RiskInv, IInv, Types, KeyReadableNow, Opens, ef_pin, ef_keydev
<1>2. keyLost' = keyLost
  BY DEF Next, EndAttempt, setPIN, BeginAttempt, PersistTimeout, DecryptFails, WrongPin,
         LegacyKeyUnreadable, ChangeRejected, ChangeToSamePin, ChangePin, TokenRefused,
         GetPersistentToken, GetToken, RightPin, setMinPINLength, OtherCommand, TokenAges
<1>3. keyLost \/ Opens(disk')
  BY <1>2 DEF IInv, KeyReadableNow, Opens, ef_pin, ef_keydev
<1>4. SUFFICES HasHistory(disk') /\ (keyLost \/ Mended(disk'))
  BY <1>1, <1>2 DEF RiskInv
<1>5. CASE disk' = disk
  BY <1>1, <1>5
<1>6. CASE setPIN
  <2>1. PICK p \in PIN : disk' = check_keydev_encrypted(Put(disk, "pin", NewPinFile(p)), p)
    BY <1>6 DEF setPIN
  <2> DEFINE d == Put(disk, "pin", NewPinFile(p))
  <2>2. NewPinFile(p) \in PinFile /\ "pin" \in DOMAIN Content /\ NewPinFile(p) \in Content["pin"]
    BY Written, Files
  <2>3. IsDisk(d, Content) /\ Read(d, "pin") = NewPinFile(p) /\ Read(d, "keydev") = ef_keydev
    BY <1>1, <2>2, PutPin
  <2>4. HasHistory(d) /\ (Opens(d) => Mended(d))
    BY <1>1, <2>2, WriteMends
  <2>5. disk' = check_keydev_encrypted(d, p)
    BY <2>1
  <2> HIDE DEF d
  <2>6. HasHistory(disk') /\ (Opens(disk') /\ Mended(d) => Mended(disk'))
    BY <1>1, <2>3, <2>4, <2>5, SealMends
  <2>7. keyLost \/ Opens(d)
    <3>1. ~ef_pin.set
      BY <1>6 DEF setPIN
    <3> QED BY <1>1, <2>3, <3>1 DEF Opens, Recoverable
  <2> QED BY <1>3, <2>4, <2>6, <2>7
<1>7. CASE BeginAttempt("changePIN") \/ BeginAttempt("getToken")
  <2>1. disk' = Put(disk, "pin", [ef_pin EXCEPT !.retries = @ - 1])
    BY <1>7 DEF BeginAttempt
  <2>2. "pin" \in DOMAIN Content /\ [ef_pin EXCEPT !.retries = @ - 1] \in Content["pin"]
    <3>1. ef_pin.set /\ ef_pin.retries > 0
      BY <1>7 DEF BeginAttempt, MayAttempt
    <3>2. ef_pin \in [set : {TRUE}, retries : 0..MaxRetries, pin : PIN, legacy : BOOLEAN]
      <4>1. ef_pin # NoPinFile
        BY <3>1 DEF NoPinFile
      <4> QED BY <1>1, <4>1 DEF PinFile
    <3>3. ef_pin.retries - 1 \in 0..MaxRetries
      BY <3>1, <3>2, ClientPinAssumption
    <3>4. [ef_pin EXCEPT !.retries = @ - 1]
            \in [set : {TRUE}, retries : 0..MaxRetries, pin : PIN, legacy : BOOLEAN]
      BY <3>2, <3>3
    <3> QED BY <3>4, Files DEF PinFile
  <2>3. HasHistory(disk') /\ (Opens(disk') => Mended(disk'))
    BY <1>1, <2>1, <2>2, WriteMends
  <2> QED BY <1>3, <2>3
<1>8. CASE EndAttempt /\ disk' # disk
  <2>1. PICK cmd \in {"changePIN", "getToken"} : RightPin(cmd)
    BY <1>8 DEF EndAttempt, PersistTimeout, DecryptFails, WrongPin, LegacyKeyUnreadable,
                ChangeRejected, ChangeToSamePin, ChangePin, TokenRefused,
                GetPersistentToken, GetToken
  <2>2. ef_pin.set /\ ef_pin.pin \in PIN
    BY <2>1, PaidAttempt DEF RightPin, RiskInv
  <2>3. keyLost \/ Recoverable(NewPinFile(ef_pin.pin), ResealedKey)
    BY <1>1, <2>2, ResealedKeyOpens DEF RiskInv
  <2>4. CASE disk' \in {RetriesRestored, TokenDisk}
    BY <1>1, <2>2, <2>3, <2>4, RightPinMends
  <2>5. CASE disk' = Rewrapped(ef_pin.pin)
    BY <1>1, <2>2, <2>3, <2>5, RewrapMends
  <2>6. CASE ChangePin
    <3> DEFINE d(p) == Put(Rewrapped(p), "pin", NewPinFile(p))
    <3>1. PICK new \in PIN :
            disk' = IF forceChangePin THEN Put(d(new), "force", FALSE) ELSE d(new)
      BY <2>6 DEF ChangePin, MayChangeTo
    <3>2. /\ "pin" \in DOMAIN Content /\ "force" \in DOMAIN Content
          /\ NewPinFile(new) \in Content["pin"] /\ NewPinFile(new) \in PinFile
          /\ FALSE \in Content["force"]
      BY Written, Files
    <3>3. /\ IsDisk(Rewrapped(new), Content) /\ HasHistory(Rewrapped(new))
          /\ Read(Rewrapped(new), "keydev") = Sealed("pin_derive_session", new)
      BY <1>1, <2>2, RewrappedDisk, RewrapMends
    <3>4. /\ IsDisk(d(new), Content) /\ HasHistory(d(new))
          /\ Opens(d(new)) => Mended(d(new))
      BY <1>1, <3>2, <3>3, WriteMends, PutPin
    <3>5. Read(d(new), "pin") = NewPinFile(new)
          /\ Read(d(new), "keydev") = Sealed("pin_derive_session", new)
      BY <3>2, <3>3, PutPin
    <3> HIDE DEF d
    <3>6. Opens(d(new))
      BY <3>5, Written DEF Opens, Recoverable
    <3>7. CASE forceChangePin
      <4>1. disk' = Put(d(new), "force", FALSE)
        BY <3>1, <3>7
      <4>2. HasHistory(disk') /\ (Opens(disk') /\ Mended(d(new)) => Mended(disk'))
        BY <1>1, <3>2, <3>4, <4>1, WriteMends
      <4> QED BY <1>3, <3>4, <3>6, <4>2
    <3>8. CASE ~forceChangePin
      BY <3>1, <3>4, <3>6, <3>8
    <3> QED BY <3>7, <3>8
  <2> QED BY <1>8, <2>4, <2>5, <2>6
          DEF EndAttempt, PersistTimeout, DecryptFails, WrongPin, LegacyKeyUnreadable,
              ChangeRejected, ChangeToSamePin, TokenRefused, GetPersistentToken, GetToken
<1>9. CASE setMinPINLength
  <2>1. PICK v \in BOOLEAN : disk' = Put(disk, "force", v)
    BY <1>9 DEF setMinPINLength
  <2>2. "force" \in DOMAIN Content /\ v \in Content["force"]
    BY Files
  <2>3. HasHistory(disk') /\ (Opens(disk') /\ Mended(disk) => Mended(disk'))
    BY <1>1, <2>1, <2>2, WriteMends
  <2> QED BY <1>1, <1>3, <2>3
<1> QED BY <1>5, <1>6, <1>7, <1>8, <1>9 DEF Next, OtherCommand, TokenAges

\* A write that reaches the flash takes the first moment away.
LEMMA DrainMends ==
    ASSUME RiskInv, Drain PROVE HasHistory(disk') /\ (Mended(disk) => Mended(disk'))
<1>1. IsDisk(disk, Content) /\ InOrder /\ HasHistory(disk)
  BY DEF RiskInv, IInv, Types
<1>2. PICK f \in DOMAIN Content : CanDrain(disk, f) /\ disk' = Drained(disk, f)
  BY <1>1 DEF Drain, IsDisk
<1> DEFINE n == Len(disk.order)
           e == Drained(disk, f)
<1>3. ASSUME NEW ms, IsHistory(disk, Content, ms)
      PROVE  /\ n \in Nat \ {0}
             /\ Len(e.order) = n - 1
             /\ \A i \in 1..(n - 1) : e.order[i] = disk.order[i + 1]
             /\ \E now : /\ IsHistory(e, Content, now)
                         /\ \A i \in 0..(n - 1) : now[i] = ms[i + 1]
  BY <1>1, <1>2, <1>3, DrainedHistory
<1> HIDE DEF n, e
<1>4. HasHistory(e)
  BY <1>1, <1>3 DEF HasHistory
<1>5. ASSUME Mended(disk) PROVE Mended(e)
  <2>1. PICK ms : /\ IsHistory(disk, Content, ms)
                  /\ \A i \in 0..n : \/ Recoverable(ms[i].pin, ms[i].keydev)
                                     \/ \E j \in 1..n : j > i /\ disk.order[j] = "pin"
    BY <1>5 DEF Mended, n
  <2>2. /\ n \in Nat \ {0} /\ Len(e.order) = n - 1
        /\ \A i \in 1..(n - 1) : e.order[i] = disk.order[i + 1]
    BY <1>3, <2>1
  <2>3. PICK now : /\ IsHistory(e, Content, now)
                   /\ \A i \in 0..(n - 1) : now[i] = ms[i + 1]
    BY <1>3, <2>1
  <2>4. ASSUME NEW i \in 0..(n - 1)
        PROVE  \/ Recoverable(now[i].pin, now[i].keydev)
               \/ \E j \in 1..(n - 1) : j > i /\ e.order[j] = "pin"
    <3>1. i + 1 \in 0..n /\ now[i] = ms[i + 1]
      BY <2>2, <2>3
    <3>2. CASE Recoverable(ms[i + 1].pin, ms[i + 1].keydev)
      BY <3>1, <3>2
    <3>3. CASE \E j \in 1..n : j > i + 1 /\ disk.order[j] = "pin"
      <4>1. PICK j \in 1..n : j > i + 1 /\ disk.order[j] = "pin"
        BY <3>3
      <4>2. j - 1 \in 1..(n - 1) /\ j - 1 > i /\ (j - 1) + 1 = j
        BY <2>2, <4>1
      <4>3. e.order[j - 1] = "pin"
        BY <2>2, <4>1, <4>2
      <4> QED BY <4>2, <4>3
    <3> QED BY <2>1, <3>1, <3>2, <3>3
  <2> QED BY <2>2, <2>3, <2>4 DEF Mended
<1> QED BY <1>2, <1>4, <1>5 DEF e

LEMMA NextRiskInv == ASSUME RiskInv, [Next]_vars PROVE RiskInv'
<1>1. IInv' /\ InOrder /\ IsDisk(disk, Content)
  BY NextIInv DEF RiskInv, IInv, Types
<1>2. CASE Drain
  BY <1>1, <1>2, DrainMends DEF RiskInv, Drain
<1>3. CASE PowerCycle
  <2>1. disk.flash = [f \in DOMAIN Content |-> disk.flash[f]]
    BY <1>1 DEF IsDisk
  <2>2. /\ HasHistory(Crashed(disk))
        /\ Recoverable(disk.flash.pin, disk.flash.keydev) => Mended(Crashed(disk))
    BY <2>1, SettledMends DEF Crashed
  <2> QED BY <1>1, <1>3, <2>2 DEF RiskInv, PowerCycle
<1>4. CASE cbor_reset
  <2>1. FreshFiles = [f \in DOMAIN Content |-> FreshFiles[f]]
    BY Files DEF FreshFiles
  <2>2. Recoverable(FreshFiles.pin, FreshFiles.keydev)
    BY DEF FreshFiles, Recoverable
  <2> QED BY <1>1, <1>4, <2>1, <2>2, SettledMends DEF RiskInv, cbor_reset
<1>5. CASE UNCHANGED vars
  BY <1>1, <1>5 DEF vars, RiskInv
<1>6. CASE Next /\ ~(Drain \/ PowerCycle \/ cbor_reset)
  BY <1>1, <1>6, HandlerMends
<1> QED BY <1>2, <1>3, <1>4, <1>5, <1>6

LEMMA InitRiskInv == ASSUME InOrder, Init PROVE RiskInv
<1>1. PICK c \in {FreshFiles} \cup UNION {PinFiles(p) : p \in PIN} : disk = Settled(c)
  BY DEF Init
<1>2. c = [f \in DOMAIN Content |-> c[f]] /\ Recoverable(c["pin"], c["keydev"])
  BY InitialFiles
<1>3. HasHistory(disk) /\ Mended(disk)
  BY <1>1, <1>2, SettledMends
<1> QED BY <1>3, InitIInv DEF RiskInv

\* If the flash is written in the order of the calls, the key in it opens with
\* the PIN in it whenever no ef_pin waits to be written (changePIN and
\* getPinUvAuthToken, which rewrite ef_keydev and ef_pin one after the other).
THEOREM KeyAtRiskOnlyInRewrapHolds == InOrder /\ Spec => []KeyAtRiskOnlyInRewrap
<1>1. ASSUME RiskInv PROVE KeyAtRiskOnlyInRewrap
  <2> SUFFICES ASSUME Mended(disk) PROVE KeyAtRiskOnlyInRewrap
    BY <1>1 DEF RiskInv, KeyAtRiskOnlyInRewrap
  <2>1. PICK ms : /\ IsHistory(disk, Content, ms)
                  /\ \A i \in 0..Len(disk.order) :
                       \/ Recoverable(ms[i].pin, ms[i].keydev)
                       \/ \E j \in 1..Len(disk.order) : j > i /\ disk.order[j] = "pin"
    BY DEF Mended
  <2>2. IsDisk(disk, Content) /\ IsHistory(disk, Content, ms)
    BY <1>1, <2>1 DEF RiskInv, IInv, Types
  <2>3. LET n == Len(disk.order)
        IN  /\ n \in Nat
            /\ ms[0] = disk.flash
            /\ ms[n] = [f \in DOMAIN Content |-> Read(disk, f)]
            /\ \A i \in 1..n : /\ disk.order[i] \in DOMAIN Content
                               /\ disk.pending[disk.order[i]] # <<>>
            /\ IsSettled(disk) => n = 0
    BY <2>2, HistoryEnds
  <2>4. 0 \in 0..Len(disk.order)
    BY <2>3
  <2>5. \/ Recoverable(disk.flash.pin, disk.flash.keydev)
        \/ \E j \in 1..Len(disk.order) : disk.order[j] = "pin"
    BY <2>1, <2>3, <2>4
  <2> QED BY <2>3, <2>5 DEF KeyAtRiskOnlyInRewrap
<1>2. InOrder /\ Init => RiskInv
  BY InitRiskInv
<1> QED BY <1>1, <1>2, NextRiskInv, PTL DEF Spec

-----------------------------------------------------------------------------
(* The inductive invariant.  The properties speak of what the token has    *)
(* authorised; they need to know how its fields hang together: that only a *)
(* token in use has permissions, and that of these only lbw can be one     *)
(* nobody asked for.                                                       *)

UsesOK == /\ uses \subseteq [cmd : Perm, rp : RP \cup {NoRp}]
          /\ \A u \in uses : u.cmd \in {"mc", "ga"} => u.rp \in RP
          /\ spent \in BOOLEAN

PermittedIsInUse == paut.perms # {} => paut.inUse

InUseIsPermitted == IsHeld(paut) /\ paut.inUse => paut.perms # {}

PermittedIsGranted == IsHeld(paut) => paut.perms \subseteq paut.granted \cup {"lbw"}

TokenInv == /\ IInv
            /\ UsesOK
            /\ PermittedIsInUse
            /\ InUseIsPermitted
            /\ PermittedIsGranted
            /\ OneRelyingParty
            /\ SpentByTouch
            /\ UsedAsGranted

-----------------------------------------------------------------------------
\* The token a command works with after cbor_parse: the one before, or one
\* that has expired and is not in use.
LEMMA CurrentToken ==
    ASSUME TokenInv
    PROVE  LET t == pin_uv_auth_token_tick(paut)
           IN  /\ paut \in Token /\ t \in Token
               /\ t.holder = paut.holder /\ t.granted = paut.granted
               /\ t = paut \/ (~t.inUse /\ t.perms = {})
               /\ t.perms # {} => t = paut /\ paut.inUse /\ ~paut.expired
<1>1. paut \in Token
  BY DEF TokenInv, IInv, Types
<1>2. CASE paut.inUse /\ paut.expired
  BY <1>1, <1>2, Ticked
     DEF Token, pin_uv_auth_token_tick, stopUsingPinUvAuthToken
<1>3. CASE ~(paut.inUse /\ paut.expired)
  BY <1>1, <1>3 DEF TokenInv, PermittedIsInUse, pin_uv_auth_token_tick
<1> QED BY <1>2, <1>3

\* What authenticatorClientPIN and its neighbours make of the token: it is
\* issued, taken from everybody, grows old or is retired, and nothing else.
TooOld(t) == [t EXCEPT !.expired = TRUE]

Erased(t) == [t EXCEPT !.holder = Nobody, !.granted = {}]

Kept == {paut, pin_uv_auth_token_tick(paut), TooOld(paut)}

Revoked == {NoToken, Erased(pin_uv_auth_token_tick(paut))} \cup
           {resetPinUvAuthToken(t) : t \in {paut, pin_uv_auth_token_tick(paut)}}

LEMMA TokenMoves ==
    ASSUME Next, ~GetToken
    PROVE  paut' \in Kept \cup Revoked
<1>1. CASE setPIN \/ BeginAttempt("changePIN") \/ BeginAttempt("getToken")
  BY <1>1 DEF setPIN, BeginAttempt, Kept
<1>2. CASE EndAttempt
  BY <1>2
     DEF EndAttempt, PersistTimeout, DecryptFails, WrongPin, LegacyKeyUnreadable,
         ChangeRejected, ChangeToSamePin, ChangePin, TokenRefused, GetPersistentToken,
         Kept, Revoked
<1>3. CASE setMinPINLength
  BY <1>3 DEF setMinPINLength, Kept, Revoked
<1>4. CASE cbor_reset
  BY <1>4 DEF cbor_reset, Erased, Revoked
<1>5. CASE OtherCommand \/ TokenAges \/ Drain \/ PowerCycle
  BY <1>5 DEF OtherCommand, TokenAges, Drain, PowerCycle, TooOld, Kept, Revoked
<1> QED BY <1>1, <1>2, <1>3, <1>4, <1>5 DEF Next

\* The fields of a token that was kept, and of one that was taken away.
LEMMA KeptToken ==
    ASSUME TokenInv, paut' \in Kept
    PROVE  /\ (paut.holder)' = paut.holder /\ (paut.granted)' = paut.granted
           /\ \/ /\ (paut.perms)' = paut.perms
                 /\ (paut.inUse)' = paut.inUse
                 /\ (paut.rp)' = paut.rp
              \/ (paut.perms)' = {} /\ (paut.inUse)' = FALSE
<1>1. CASE paut' = TooOld(paut)
  BY <1>1, CurrentToken DEF Token, TooOld
<1>2. CASE paut' \in {paut, pin_uv_auth_token_tick(paut)}
  BY <1>2, CurrentToken
<1> QED BY <1>1, <1>2 DEF Kept

LEMMA RevokedToken ==
    ASSUME TokenInv, paut' \in Revoked
    PROVE  (paut.holder)' = Nobody /\ PermittedIsInUse'
<1> DEFINE t == pin_uv_auth_token_tick(paut)
<1>1. CASE paut' = NoToken
  BY <1>1 DEF NoToken, PermittedIsInUse
<1>2. CASE paut' = Erased(t)
  <2>1. (paut.holder)' = Nobody /\ (paut.perms)' = t.perms /\ (paut.inUse)' = t.inUse
    BY <1>2, CurrentToken DEF Token, Erased
  <2> QED BY <2>1, CurrentToken DEF PermittedIsInUse
<1>3. CASE paut' \in {resetPinUvAuthToken(paut), resetPinUvAuthToken(t)}
  <2>1. (paut.holder)' = Nobody /\ (paut.perms)' = {}
    BY <1>3, CurrentToken DEF Token, resetPinUvAuthToken
  <2> QED BY <2>1 DEF PermittedIsInUse
<1> QED BY <1>1, <1>2, <1>3 DEF Revoked

\* A step of ClientPin: a new token has authorised nothing, an old one does
\* not gain anything.
LEMMA ClientPinStepInv == ASSUME TokenInv, ClientPinStep PROVE TokenInv'
<1>1. IInv'
  BY NextIInv DEF TokenInv, ClientPinStep
<1>2. CASE GetToken
  <2>1. PICK ps \in SUBSET Perm, rp \in RP \cup {NoRp} :
          ps # {} /\ paut' = Issued(paut, ef_pin.pin, ps, rp)
    <3>1. {"mc", "ga"} \in SUBSET Perm /\ Grants \subseteq (SUBSET Perm) \ {{}}
      BY ClientPinAssumption DEF Perm
    <3> QED BY <1>2, <3>1 DEF GetToken
  <2>2. paut \in Token
    BY DEF TokenInv, IInv, Types
  <2>3. /\ (paut.perms)' = ps /\ (paut.granted)' = ps /\ (paut.inUse)' = TRUE
    BY <2>1, <2>2
       DEF Token, Issued, beginUsingPinUvAuthToken, resetPinUvAuthToken
  <2>4. uses' = {} /\ spent' = FALSE
    BY <1>2 DEF ClientPinStep
  <2> QED BY <1>1, <2>1, <2>3, <2>4
          DEF TokenInv, UsesOK, PermittedIsInUse, InUseIsPermitted, PermittedIsGranted,
              OneRelyingParty, SpentByTouch, UsedAsGranted
<1>3. CASE ~GetToken /\ paut' \in Revoked
  <2>1. (paut.holder)' = Nobody /\ PermittedIsInUse'
    BY <1>3, RevokedToken
  <2>2. uses' = {} /\ spent' = FALSE
    BY <2>1 DEF ClientPinStep
  <2> QED BY <1>1, <2>1, <2>2
          DEF TokenInv, UsesOK, InUseIsPermitted, PermittedIsGranted, IsHeld,
              OneRelyingParty, SpentByTouch, UsedAsGranted
<1>4. CASE ~GetToken /\ (paut.holder)' = Nobody /\ paut' \in Kept
  <2>1. uses' = {} /\ spent' = FALSE
    BY <1>4 DEF ClientPinStep
  <2>2. PermittedIsInUse'
    BY <1>4, KeptToken DEF PermittedIsInUse, TokenInv
  <2> QED BY <1>1, <1>4, <2>1, <2>2
          DEF TokenInv, UsesOK, InUseIsPermitted, PermittedIsGranted, IsHeld,
              OneRelyingParty, SpentByTouch, UsedAsGranted
<1>5. CASE ~GetToken /\ (paut.holder)' # Nobody /\ paut' \in Kept
  <2>1. uses' = uses /\ spent' = spent
    BY <1>5 DEF ClientPinStep
  <2>2. /\ (paut.holder)' = paut.holder /\ (paut.granted)' = paut.granted
        /\ \/ /\ (paut.perms)' = paut.perms
              /\ (paut.inUse)' = paut.inUse
              /\ (paut.rp)' = paut.rp
           \/ (paut.perms)' = {} /\ (paut.inUse)' = FALSE
    BY <1>5, KeptToken
  <2>3. UsesOK' /\ PermittedIsInUse' /\ InUseIsPermitted' /\ PermittedIsGranted'
    BY <2>1, <2>2
       DEF TokenInv, UsesOK, PermittedIsInUse, InUseIsPermitted, PermittedIsGranted, IsHeld
  <2>4. OneRelyingParty' /\ SpentByTouch' /\ UsedAsGranted'
    BY <2>1, <2>2
       DEF TokenInv, OneRelyingParty, SpentByTouch, UsedAsGranted, May, IsHeld
  <2> QED BY <1>1, <2>3, <2>4 DEF TokenInv
<1> QED BY <1>2, <1>3, <1>4, <1>5, TokenMoves DEF ClientPinStep

\* What any command with or without the token leaves of it: it keeps its
\* bytes and whom they were given to, loses permissions but for lbw, may get
\* its relying party, and has authorised at most what it permitted.
LEMMA CommandInv ==
    ASSUME TokenInv, CanStart, OnlyToken,
           NEW t, t = pin_uv_auth_token_tick(paut),
           paut' \in Token, paut'.holder = t.holder, paut'.granted = t.granted,
           paut'.inUse = t.inUse,
           paut'.perms = t.perms \/ (t.inUse /\ paut'.perms = {"lbw"}),
           paut'.rp = t.rp \/ t.rp = NoRp,
           spent' = spent \/ (spent' = TRUE /\ paut'.perms \subseteq {"lbw"}),
           \A u \in uses' \ uses : /\ IsHeld(t)
                                   /\ u \in [cmd : Perm, rp : RP \cup {NoRp}]
                                   /\ u.cmd \in t.perms
                                   /\ u.cmd \in {"mc", "ga"} => u.rp \in RP /\ u.rp = paut'.rp
    PROVE  TokenInv'
<1>1. /\ paut \in Token /\ t \in Token
      /\ t.holder = paut.holder /\ t.granted = paut.granted
      /\ t = paut \/ (~t.inUse /\ t.perms = {})
      /\ t.perms # {} => t = paut /\ paut.inUse /\ ~paut.expired
  BY CurrentToken
<1>2. IInv'
  <2>1. IsUsable(paut)' => IsUsable(paut)
    BY <1>1 DEF IsUsable, IsHeld, TokenInv, InUseIsPermitted
  <2> QED BY <1>1, <2>1, SameDiskStep, AttemptCounters
          DEF TokenInv, OnlyToken, CanStart
<1>3. UsesOK' /\ UsedAsGranted'
  <2>1. \A u \in uses' : /\ u \in [cmd : Perm, rp : RP \cup {NoRp}]
                         /\ u.cmd \in {"mc", "ga"} => u.rp \in RP
                         /\ u.cmd \in paut'.granted \cup {"lbw"}
    BY <1>1 DEF TokenInv, UsesOK, UsedAsGranted, PermittedIsGranted, IsHeld
  <2> QED BY <2>1 DEF TokenInv, UsesOK, UsedAsGranted
<1>4. PermittedIsInUse' /\ InUseIsPermitted' /\ PermittedIsGranted'
  BY <1>1 DEF TokenInv, PermittedIsInUse, InUseIsPermitted, PermittedIsGranted, IsHeld
<1>5. OneRelyingParty'
  <2>1. ASSUME NEW u \in uses, u.cmd \in {"mc", "ga"}, t.inUse
        PROVE  u.rp = paut'.rp
    <3>1. u.rp = paut.rp /\ u.rp \in RP /\ t = paut
      BY <1>1, <2>1 DEF TokenInv, OneRelyingParty, UsesOK
    <3> QED BY <3>1, TokenAssumption
  <2> QED BY <2>1 DEF OneRelyingParty
<1>6. SpentByTouch'
  BY <1>1 DEF TokenInv, SpentByTouch, May, IsHeld, UsesOK
<1> QED BY <1>2, <1>3, <1>4, <1>5, <1>6 DEF TokenInv

\* The fields of the token after a touch.
LEMMA Touched ==
    ASSUME NEW t \in Token
    PROVE  LET u == AfterTouch(t)
           IN  /\ u \in Token
               /\ u.holder = t.holder /\ u.granted = t.granted
               /\ u.inUse = t.inUse /\ u.rp = t.rp
               /\ u.perms = IF t.inUse THEN {"lbw"} ELSE t.perms
  BY DEF AfterTouch, Token, Perm, clearUserVerifiedFlag,
         clearPinUvAuthTokenPermissionsExceptLbw

\* makeCredential and getAssertion, which bind the token and end it.
LEMMA CredentialCommandInv ==
    ASSUME TokenInv, NEW c \in {"mc", "ga"}, NEW r \in RP, NEW touch \in BOOLEAN,
           CanStart, OnlyToken, NEW t, t = pin_uv_auth_token_tick(paut),
           Authorised(c, r, t, touch) \/ BoundOnly(c, r, t) \/ Tokenless(t, touch)
    PROVE  TokenInv'
<1>1. /\ t \in Token /\ spent \in BOOLEAN
      /\ t.perms # {} => t.inUse
      /\ t.holder = paut.holder
  BY CurrentToken DEF TokenInv, UsesOK
<1>2. Bound(t, r) \in Token
  BY <1>1 DEF Bound, Token
<1>3. /\ Bound(t, r).holder = t.holder /\ Bound(t, r).granted = t.granted
      /\ Bound(t, r).inUse = t.inUse /\ Bound(t, r).perms = t.perms
      /\ Bound(t, r).rp = r
  BY <1>1 DEF Bound, Token
<1>4. CASE Authorised(c, r, t, touch)
  <2>1. /\ IsHeld(t) /\ c \in t.perms /\ t.rp \in {NoRp, r}
        /\ t.inUse
    BY <1>1, <1>4 DEF Authorised, Verified, May
  <2>2. /\ paut' \in Token /\ paut'.holder = t.holder /\ paut'.granted = t.granted
        /\ paut'.inUse = t.inUse /\ paut'.rp = r
        /\ paut'.perms = IF touch THEN {"lbw"} ELSE t.perms
    BY <1>2, <1>3, <1>4, <2>1, Touched DEF Authorised
  <2>3. \A u \in uses' \ uses : u = Use(c, r)
    BY <1>4 DEF Authorised
  <2>4. /\ Use(c, r) \in [cmd : Perm, rp : RP \cup {NoRp}]
        /\ Use(c, r).cmd = c /\ Use(c, r).rp = r
    BY DEF Use, Perm
  <2>5. spent' = spent \/ (spent' = TRUE /\ paut'.perms \subseteq {"lbw"})
    BY <1>1, <1>4, <2>2 DEF Authorised
  <2> QED BY <2>1, <2>2, <2>3, <2>4, <2>5, CommandInv
<1>5. CASE BoundOnly(c, r, t)
  <2>1. t.rp \in {NoRp, r} /\ paut' = Bound(t, r) /\ uses' = uses /\ spent' = spent
    BY <1>5 DEF BoundOnly, Verified
  <2> QED BY <1>2, <1>3, <2>1, CommandInv
<1>6. CASE Tokenless(t, touch)
  <2>1. /\ paut' = IF touch THEN AfterTouch(t) ELSE t
        /\ spent' = (spent \/ touch) /\ uses' = uses
    BY <1>6 DEF Tokenless
  <2>2. /\ paut' \in Token /\ paut'.holder = t.holder /\ paut'.granted = t.granted
        /\ paut'.inUse = t.inUse /\ paut'.rp = t.rp
        /\ paut'.perms = IF touch /\ t.inUse THEN {"lbw"} ELSE t.perms
    BY <1>1, <2>1, Touched
  <2>3. spent' = spent \/ (spent' = TRUE /\ paut'.perms \subseteq {"lbw"})
    BY <1>1, <2>1, <2>2
  <2> QED BY <2>1, <2>2, <2>3, CommandInv
<1> QED BY <1>4, <1>5, <1>6

\* The commands that leave the token as it is.
LEMMA OtherUseInv ==
    ASSUME TokenInv, NEW c \in {"cm", "lbw", "acfg"}, NEW r \in RP \cup {NoRp},
           CanStart, OnlyToken, NEW t, t = pin_uv_auth_token_tick(paut),
           May(t, c), paut' = t, uses' = uses \cup {Use(c, r)}, spent' = spent
    PROVE  TokenInv'
<1>1. t \in Token /\ IsHeld(t) /\ c \in t.perms
  BY CurrentToken DEF May
<1>2. /\ Use(c, r) \in [cmd : Perm, rp : RP \cup {NoRp}]
      /\ Use(c, r).cmd = c /\ Use(c, r).cmd \notin {"mc", "ga"}
  BY DEF Use, Perm
<1> QED BY <1>1, <1>2, CommandInv

\* The invariant is inductive.
LEMMA TokenNextInv == ASSUME TokenInv, [TokenNext]_tokenVars PROVE TokenInv'
<1> DEFINE t == pin_uv_auth_token_tick(paut)
<1>1. CASE ClientPinStep
  BY <1>1, ClientPinStepInv
<1>2. CASE \E r \in RP, b \in BOOLEAN : cbor_make_credential(r, b)
  <2> HIDE DEF t
  <2> QED BY <1>2, CredentialCommandInv DEF cbor_make_credential
<1>3. CASE \E r \in RP, b \in BOOLEAN : cbor_get_assertion(r, b)
  BY <1>3, CredentialCommandInv DEF cbor_get_assertion
<1>4. CASE \E r \in RP \cup {NoRp} : cbor_cred_mgmt(r)
  BY <1>4, OtherUseInv DEF cbor_cred_mgmt
<1>5. CASE cbor_large_blobs
  BY <1>5, OtherUseInv DEF cbor_large_blobs
<1>6. CASE cbor_config
  BY <1>6, OtherUseInv DEF cbor_config
<1>7. CASE UNCHANGED tokenVars
  <2>1. IInv'
    BY <1>7, NextIInv DEF tokenVars, vars, TokenInv
  <2> QED BY <1>7, <2>1
          DEF tokenVars, TokenInv, UsesOK, PermittedIsInUse, InUseIsPermitted,
              PermittedIsGranted, OneRelyingParty, SpentByTouch, UsedAsGranted
<1> QED BY <1>1, <1>2, <1>3, <1>4, <1>5, <1>6, <1>7 DEF TokenNext

LEMMA TokenInitInv == ASSUME TokenInit PROVE TokenInv
<1>1. IInv /\ paut = NoToken /\ uses = {} /\ spent = FALSE
  BY InitIInv DEF TokenInit, Init
<1> QED BY <1>1
        DEF TokenInv, UsesOK, PermittedIsInUse, InUseIsPermitted, PermittedIsGranted,
            OneRelyingParty, SpentByTouch, UsedAsGranted, NoToken, IsHeld

LEMMA TokenInductive == TokenSpec => []TokenInv
  BY TokenInitInv, TokenNextInv, PTL DEF TokenSpec

-----------------------------------------------------------------------------
(* The theorems.                                                           *)

\* A token makes and asserts credentials of one relying party only, however
\* many commands, failed ones among them, come in between (has_rp_id in
\* cbor_make_credential and cbor_get_assertion).
THEOREM OneRelyingPartyHolds == TokenSpec => []OneRelyingParty
<1>1. TokenInv => OneRelyingParty
  BY DEF TokenInv
<1> QED BY <1>1, TokenInductive, PTL

\* After a touch the token is good for large blobs only, until it is issued
\* again (clearPinUvAuthTokenPermissionsExceptLbw).
THEOREM SpentByTouchHolds == TokenSpec => []SpentByTouch
<1>1. TokenInv => SpentByTouch
  BY DEF TokenInv
<1> QED BY <1>1, TokenInductive, PTL

\* What a token authorises was asked for with the PIN, large blobs apart
\* (permissions of getPinUvAuthToken).
THEOREM UsedAsGrantedHolds == TokenSpec => []UsedAsGranted
<1>1. TokenInv => UsedAsGranted
  BY DEF TokenInv
<1> QED BY <1>1, TokenInductive, PTL

\* A step that uses a token uses one that is alive and was given to who
\* proved the PIN now in force (verify with paut.data, which a PIN change
\* makes new).
THEOREM UsedWithPresentPinHolds == TokenSpec => UsedWithPresentPin
<1> DEFINE Fresh == uses' \ uses # {} => paut.holder = ef_pin.pin /\ ~paut.expired
           t == pin_uv_auth_token_tick(paut)
<1>1. ASSUME TokenInv, [TokenNext]_tokenVars, uses' \ uses # {}
      PROVE  paut.holder = ef_pin.pin /\ ~paut.expired
  <2>1. \E p \in Perm : May(t, p)
    BY <1>1 DEF TokenNext, ClientPinStep, tokenVars, cbor_make_credential,
                cbor_get_assertion, cbor_cred_mgmt, cbor_large_blobs, cbor_config,
                Authorised, BoundOnly, Tokenless, Verified, Perm
  <2>2. t.perms # {} /\ IsHeld(t)
    BY <2>1 DEF May
  <2>3. t = paut /\ ~paut.expired
    BY <1>1, <2>2, CurrentToken
  <2>4. IsUsable(paut)
    BY <2>2, <2>3 DEF IsUsable
  <2> QED BY <1>1, <2>3, <2>4 DEF TokenInv, IInv, TokenProvesCurrentPin
<1>2. ASSUME TokenInv, [TokenNext]_tokenVars PROVE Fresh
  BY <1>1, <1>2
<1> QED BY <1>2, TokenInductive, PTL DEF TokenSpec, UsedWithPresentPin
=============================================================================
