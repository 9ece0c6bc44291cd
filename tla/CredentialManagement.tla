------------------------ MODULE CredentialManagement ------------------------
(***************************************************************************)
(* CredentialStore together with the enumerations of                       *)
(* authenticatorCredentialManagement (cbor_cred_mgmt.c).                   *)
(*                                                                         *)
(* An enumeration is a Begin command and GetNext commands, which know how  *)
(* far it is from static variables only; any command of any platform may   *)
(* come in between.  That the token allows a Begin is TokenCommands.       *)
(***************************************************************************)
EXTENDS CredentialStore

CONSTANTS NoRp,       \* rpIdHashx as it is at start-up
          Dangling    \* rpIdHashx after its bytes have been freed

\* A count is a byte, and there are 256 slots.
ASSUME MgmtAssumption == /\ MaxSlots <= CountMod
                         /\ {NoRp, Dangling} \cap RP = {}

VARIABLES rp_counter, rp_total,
          cred_counter, cred_total, rpIdHashx,
          rpsGiven,     \* history: what the enumeration of relying parties gave
          rpsFresh,     \* history: it has begun, and no record changed since
          credsGiven,   \* history: the slots the other enumeration gave
          credsBegun,   \* history: the relying party it was begun for
          credsFresh    \* history: no credential changed since

rpVars == <<rp_counter, rp_total, rpsGiven, rpsFresh>>
credVars == <<cred_counter, cred_total, rpIdHashx, credsGiven, credsBegun, credsFresh>>

mgmtVars == <<storeVars, rpVars, credVars>>

-----------------------------------------------------------------------------
\* The n-th of the numbers in S, as the loops over the files find it.
Nth(S, n) == CHOOSE i \in S : Cardinality({j \in S : j <= i}) = n

\* Faulty: a relying party with one credential is not listed.
ListedAboveOne(v) == {i \in Slots : v[RpFile(i)] # Absent /\ v[RpFile(i)].count > 1}

Listed(v) == {i \in Slots : v[RpFile(i)] # Absent /\ v[RpFile(i)].count > 0}

\* Faulty: rp_total counts on from the last enumeration.
enumerateRPsBeginOnTop ==
    /\ op = Idle
    /\ rp_total' = rp_total + Cardinality(Listed(ram))
    /\ rp_counter' = IF Listed(ram) = {} THEN 1 ELSE 2
    /\ rpsGiven' = IF Listed(ram) = {} THEN {} ELSE {ram[RpFile(Min(Listed(ram)))].rp}
    /\ rpsFresh' = TRUE
    /\ UNCHANGED <<storeVars, credVars>>

\* CTAP2_ERR_NO_CREDENTIALS if there is none.
enumerateRPsBegin ==
    /\ op = Idle
    /\ rp_total' = Cardinality(Listed(ram))
    /\ rp_counter' = IF Listed(ram) = {} THEN 1 ELSE 2
    /\ rpsGiven' = IF Listed(ram) = {} THEN {} ELSE {ram[RpFile(Min(Listed(ram)))].rp}
    /\ rpsFresh' = TRUE
    /\ UNCHANGED <<storeVars, credVars>>

\* With CTAP2_ERR_NO_CREDENTIALS, for want of that many records, nothing changes.
enumerateRPsGetNextRP ==
    /\ op = Idle
    /\ rp_counter <= rp_total
    /\ rp_counter <= Cardinality(Listed(ram))
    /\ rp_counter' = rp_counter + 1
    /\ rpsGiven' = rpsGiven \cup {ram[RpFile(Nth(Listed(ram), rp_counter))].rp}
    /\ UNCHANGED <<storeVars, credVars, rp_total, rpsFresh>>

-----------------------------------------------------------------------------
\* Faulty: the relying party of the first enumeration is kept.
HashIfUnset(more, r, old) == IF more /\ old = NoRp THEN r ELSE old

\* The relying party is remembered only if there is more to give.
HashKept(more, r, old) == IF more THEN r ELSE old

\* CTAP2_ERR_NO_CREDENTIALS if there is none.
enumerateCredentialsBegin(r) ==
    /\ op = Idle
    /\ LET found == OfRp(ram, r)
       IN  /\ cred_total' = Cardinality(found)
           /\ cred_counter' = IF found = {} THEN 1 ELSE 2
           /\ rpIdHashx' = HashKept(Cardinality(found) >= 2, r, rpIdHashx)
           /\ credsGiven' = IF found = {} THEN {} ELSE {Min(found)}
    /\ credsBegun' = r
    /\ credsFresh' = TRUE
    /\ UNCHANGED <<storeVars, rpVars>>

\* With freed bytes in rpIdHashx the credentials of any relying party, or of
\* none, may be found.  When nothing is found, and after the last credential,
\* the bytes are freed.
enumerateCredentialsGetNextCredential ==
    /\ op = Idle
    /\ cred_counter <= cred_total
    /\ \E r \in IF rpIdHashx = Dangling THEN RP \cup {NoRp} ELSE {rpIdHashx} :
         LET found == OfRp(ram, r)
         IN  IF cred_counter <= Cardinality(found)
             THEN /\ cred_counter' = cred_counter + 1
                  /\ credsGiven' = credsGiven \cup {Nth(found, cred_counter)}
                  /\ rpIdHashx' = IF cred_counter + 1 <= cred_total THEN rpIdHashx
                                                                     ELSE Dangling
             ELSE rpIdHashx' = Dangling /\ UNCHANGED <<cred_counter, credsGiven>>
    /\ UNCHANGED <<storeVars, rpVars, cred_total, credsBegun, credsFresh>>

-----------------------------------------------------------------------------
MgmtInit ==
    /\ StoreInit
    /\ rp_counter = 1 /\ rp_total = 0
    /\ cred_counter = 1 /\ cred_total = 0 /\ rpIdHashx = NoRp
    /\ rpsGiven = {} /\ rpsFresh = FALSE
    /\ credsGiven = {} /\ credsBegun = NoRp /\ credsFresh = FALSE

\* Every other command keeps the static variables.
StoreStep ==
    /\ StoreCommand
    /\ rpsFresh' = (rpsFresh /\ \A i \in Slots : ram'[RpFile(i)] = ram[RpFile(i)])
    /\ credsFresh' = (credsFresh /\ \A i \in Slots : ram'[CredFile(i)] = ram[CredFile(i)])
    /\ UNCHANGED <<rp_counter, rp_total, rpsGiven>>
    /\ UNCHANGED <<cred_counter, cred_total, rpIdHashx, credsGiven, credsBegun>>

Restart ==
    /\ PowerCycle
    /\ rp_counter' = 1 /\ rp_total' = 0
    /\ cred_counter' = 1 /\ cred_total' = 0 /\ rpIdHashx' = NoRp
    /\ rpsGiven' = {} /\ rpsFresh' = FALSE
    /\ credsGiven' = {} /\ credsBegun' = NoRp /\ credsFresh' = FALSE

MgmtNext ==
    \/ StoreStep \/ Restart
    \/ enumerateRPsBegin \/ enumerateRPsGetNextRP
    \/ \E r \in RP : enumerateCredentialsBegin(r)
    \/ enumerateCredentialsGetNextCredential

MgmtSpec == MgmtInit /\ [][MgmtNext]_mgmtVars

-----------------------------------------------------------------------------
\* The type of the state.
MgmtTypeOK ==
    /\ StoreTypeOK
    /\ rp_total \in 0..MaxSlots /\ rp_counter \in 1..(MaxSlots + 1)
    /\ cred_total \in 0..MaxSlots /\ cred_counter \in 1..(MaxSlots + 1)
    /\ rpIdHashx \in RP \cup {NoRp, Dangling}
    /\ rpsGiven \subseteq RP /\ rpsFresh \in BOOLEAN
    /\ credsGiven \subseteq Slots /\ credsBegun \in RP \cup {NoRp} /\ credsFresh \in BOOLEAN

\* As long as no record changes the enumeration of relying parties gives each
\* of them once and then ends, whatever other commands come in between.
RpsGivenOnce ==
    rpsFresh =>
       /\ rpsGiven \subseteq {ram[RpFile(i)].rp : i \in Listed(ram)}
       /\ Cardinality(rpsGiven) = rp_counter - 1
       /\ rp_total = Cardinality(Listed(ram))

\* The same for the credentials of a relying party.  In particular no GetNext
\* fails, and none compares with another hash or with freed bytes.
CredentialsGivenOnce ==
    credsFresh =>
       /\ credsGiven \subseteq OfRp(ram, credsBegun)
       /\ Cardinality(credsGiven) = cred_counter - 1
       /\ cred_total = Cardinality(OfRp(ram, credsBegun))
       /\ cred_counter <= cred_total => rpIdHashx = credsBegun

\* A platform that enumerates the relying parties and then the credentials of
\* each sees every credential (unless a command has failed, or a count of
\* 2^8 reads as none).
EveryCredentialReachable ==
    op = Idle /\ mishaps = 0 /\ rpsFresh /\ rp_counter > rp_total =>
       \A i \in Stored(ram) : LET r == ram[CredFile(i)].rp
                              IN  r \in rpsGiven \/ Cardinality(OfRp(ram, r)) = CountMod
=============================================================================
