---------------------------- MODULE NextAssertion ----------------------------
(***************************************************************************)
(* authenticatorGetAssertion and GetNextAssertion (cbor_get_assertion.c):  *)
(* the first looks up the credentials of a relying party and answers with  *)
(* the newest of them; the others are kept in static variables for         *)
(* GetNextAssertion, until another command comes.                          *)
(*                                                                         *)
(* What the token allows is TokenCommands, how credentials get into their  *)
(* slots is CredentialStore.  Here the slots change with every other       *)
(* command.                                                                *)
(***************************************************************************)
EXTENDS Integers, SequencesExt

CONSTANTS Cred,        \* credentials, resident and others
          None,
          RP,
          MaxSlots,    \* MAX_RESIDENT_CREDENTIALS
          MaxList,     \* MAX_CREDENTIAL_COUNT_IN_LIST
          MaxAllow,    \* bound: the longest allowList a platform sends
          MaxCreated   \* bound: creation times, in ms since the start-up then

ASSUME AssertionAssumption == /\ MaxSlots \in Nat /\ MaxCreated \in Nat
                              /\ MaxAllow \in 0..MaxList
                              /\ MaxList \in Nat \ {0}
                              /\ None \notin Cred

VARIABLES about,                   \* what each credential says
          slots,                   \* EF_CRED
          credsx, numberOfCredentialsx, credentialCounter,
          late,                    \* there is a list, and timerx is more than 30 s ago
          request,                 \* history: the last getAssertion that was answered
          given                    \* history: the credentials it and its successors gave

listVars == <<credsx, numberOfCredentialsx, credentialCounter, late>>
vars == <<about, slots, listVars, request, given>>

-----------------------------------------------------------------------------
Slots == 1..MaxSlots

About == [rp : RP, created : 0..MaxCreated, protect : 1..3, rk : BOOLEAN]

Lists == UNION {[1..n -> Cred] : n \in 0..MaxList}

\* A platform may name a credential twice.
AllowLists == UNION {[1..n -> Cred] : n \in 0..MaxAllow}

NoRequest == [rp |-> None, uv |-> FALSE, allow |-> <<>>]

Stored == {slots[i] : i \in Slots} \ {None}

\* credProtect: 3 needs user verification, 2 does unless the platform names
\* the credential.
Protected(c, uv, allow) == /\ ~uv
                           /\ \/ about[c].protect = 3
                              \/ about[c].protect = 2 /\ allow = <<>>

Eligible(r, uv, allow) == {c \in Cred : about[c].rp = r /\ ~Protected(c, uv, allow)}

\* A resident credential counts if it is stored, another always.
Loads(c, r) == about[c].rp = r /\ (about[c].rk => c \in Stored)

\* The members of S among those of s, in the order of s.
Only(s, S) ==
    LET upto[n \in 0..Len(s)] ==
          IF n = 0 THEN <<>>
          ELSE IF s[n] \in S THEN Append(upto[n - 1], s[n]) ELSE upto[n - 1]
    IN  upto[Len(s)]

\* Faulty: the last place of the list stays empty.
FoundOneLess(r, allow) ==
    IF allow = <<>>
    THEN LET s == Only(slots, {c \in Cred : about[c].rp = r})
         IN  SubSeq(s, 1, IF Len(s) >= MaxList THEN MaxList - 1 ELSE Len(s))
    ELSE Only(allow, {c \in Cred : Loads(c, r)})

\* The credentials of r in the order of the slots, or those of the allowList,
\* as often as it names them.  Neither list can be longer than MaxList.
Found(r, allow) ==
    IF allow = <<>>
    THEN LET s == Only(slots, {c \in Cred : about[c].rp = r})
         IN  SubSeq(s, 1, IF Len(s) > MaxList THEN MaxList ELSE Len(s))
    ELSE Only(allow, {c \in Cred : Loads(c, r)})

\* Faulty: the list stays in the order of the slots.
NewestFirstNever(s) == s

\* The inner loop of the sort: whatever is newer than the credential in place
\* i and lies behind it is exchanged for it.
Exchanged(t, i, j) ==
    IF about[t[j]].created > about[t[i]].created
    THEN [t EXCEPT ![i] = t[j], ![j] = t[i]] ELSE t

NewestAt(t, i) ==
    LET upto[j \in i..Len(t)] == IF j = i THEN t ELSE Exchanged(upto[j - 1], i, j)
    IN  upto[Len(t)]

NewestFirst(s) ==
    LET upto[i \in 0..Len(s)] == IF i = 0 THEN s ELSE NewestAt(upto[i - 1], i)
    IN  upto[Len(s)]

\* Faulty: the list is not forgotten.
reset_gna_state_never == UNCHANGED listVars

reset_gna_state == /\ credsx' = <<>>
                   /\ numberOfCredentialsx' = 0
                   /\ credentialCounter' = 0
                   /\ late' = FALSE

HasNext == credentialCounter < numberOfCredentialsx

-----------------------------------------------------------------------------
\* cbor_parse, then cbor_get_assertion: with several resident credentials in
\* the allowList the platform gets one of them only.
cbor_get_assertion(r, uv, allow) ==
    LET f == Found(r, allow)
        s == NewestFirst(Only(f, Eligible(r, uv, allow)))
        resident == allow = <<>> \/ \E i \in DOMAIN f : about[f[i]].rk
        n == IF resident /\ Len(allow) > 1 THEN 1 ELSE Len(s)
    IN  /\ s # <<>>
        /\ IF n > 1
           THEN credsx' = s /\ numberOfCredentialsx' = n /\ credentialCounter' = 1 /\ late' = FALSE
           ELSE reset_gna_state
        /\ request' = [rp |-> r, uv |-> uv, allow |-> allow]
        /\ given' = <<s[1]>>
        /\ UNCHANGED <<about, slots>>

\* No credential, no touch, an error after the list was made, or the silent
\* answer, which only says that a credential of the allowList is valid.
GetAssertionFails == /\ reset_gna_state
                     /\ request' = NoRequest
                     /\ given' = <<>>
                     /\ UNCHANGED <<about, slots>>

\* When the last one is given the list goes.
cbor_get_next_assertion ==
    /\ HasNext
    /\ ~late
    /\ given' = Append(given, credsx[credentialCounter + 1])
    /\ IF credentialCounter + 1 = numberOfCredentialsx
       THEN reset_gna_state
       ELSE credentialCounter' = credentialCounter + 1 /\ UNCHANGED <<credsx, numberOfCredentialsx, late>>
    /\ UNCHANGED <<about, slots, request>>

\* There is none, it is too late, or the answer cannot be made.
GetNextFails == /\ reset_gna_state
                /\ request' = NoRequest
                /\ given' = <<>>
                /\ UNCHANGED <<about, slots>>

-----------------------------------------------------------------------------
\* Any other CTAPHID_CBOR command.
Other == /\ reset_gna_state
         /\ request' = NoRequest
         /\ given' = <<>>

StoreCredential(c, i) == /\ about[c].rk /\ c \notin Stored /\ slots[i] = None
                         /\ slots' = [slots EXCEPT ![i] = c]
                         /\ UNCHANGED about
                         /\ Other

DeleteCredential(i) == /\ slots[i] # None
                       /\ slots' = [slots EXCEPT ![i] = None]
                       /\ UNCHANGED about
                       /\ Other

\* updateUserInformation makes the credential anew, with the time of now.
UpdateUser(i, t) == /\ slots[i] # None
                    /\ about' = [about EXCEPT ![slots[i]].created = t]
                    /\ UNCHANGED slots
                    /\ Other

\* U2F and vendor commands leave the list alone, and so does the time.
TimePasses == /\ HasNext
              /\ late' = TRUE
              /\ UNCHANGED <<about, slots, credsx, numberOfCredentialsx, credentialCounter, request, given>>

Restart == /\ credsx' = <<>> /\ numberOfCredentialsx' = 0 /\ credentialCounter' = 1
           /\ late' = FALSE
           /\ request' = NoRequest
           /\ given' = <<>>
           /\ UNCHANGED <<about, slots>>

AssertionInit ==
    /\ about \in [Cred -> About]
    /\ slots \in [Slots -> {None} \cup Cred]
    /\ \A i, j \in Slots : /\ slots[i] # None => about[slots[i]].rk
                           /\ slots[i] = slots[j] /\ slots[i] # None => i = j
    /\ credsx = <<>> /\ numberOfCredentialsx = 0 /\ credentialCounter = 1
    /\ late = FALSE
    /\ request = NoRequest
    /\ given = <<>>

AssertionNext ==
    \/ \E r \in RP, uv \in BOOLEAN, allow \in AllowLists : cbor_get_assertion(r, uv, allow)
    \/ GetAssertionFails \/ cbor_get_next_assertion \/ GetNextFails
    \/ \E i \in Slots : \/ \E c \in Cred : StoreCredential(c, i)
                        \/ DeleteCredential(i)
                        \/ \E t \in 0..MaxCreated : UpdateUser(i, t)
    \/ TimePasses \/ Restart

AssertionSpec == AssertionInit /\ [][AssertionNext]_vars

-----------------------------------------------------------------------------
\* Every place of s stands for a place of t of its own.
DrawnFrom(s, t) ==
    \E place \in [DOMAIN s -> DOMAIN t] :
       /\ \A i, j \in DOMAIN s : place[i] = place[j] => i = j
       /\ \A i \in DOMAIN s : s[i] = t[place[i]]

\* The type of the state.
AssertionTypeOK ==
    /\ about \in [Cred -> About]
    /\ slots \in [Slots -> {None} \cup Cred]
    /\ credsx \in Lists
    /\ numberOfCredentialsx = Len(credsx)
    /\ credentialCounter \in 0..MaxList
    /\ late \in BOOLEAN
    /\ request \in {NoRequest} \cup [rp : RP, uv : BOOLEAN, allow : AllowLists]
    /\ given \in Lists

\* The answers to one request come newest first, and each is for a slot of its
\* own, or for a place of the allowList of its own: a credential comes twice
\* only if the platform named it twice.
GivenNewestFirst ==
    /\ \A i, j \in DOMAIN given : i < j => about[given[i]].created >= about[given[j]].created
    /\ DrawnFrom(given, IF request.allow = <<>> THEN slots ELSE request.allow)

\* No answer, not even a later one, is for a credential that is not of the
\* relying party, that its protection hides from this request, or that has
\* been deleted since.
GivenIsAllowed ==
    \A i \in DOMAIN given :
       LET c == given[i]
       IN  /\ about[c].rp = request.rp
           /\ ~Protected(c, request.uv, request.allow)
           /\ about[c].rk => c \in Stored

\* A platform without allowList that goes on until the list is empty has seen
\* all the credentials it may see, if there are not more than a list can hold.
AllGiven ==
    /\ request # NoRequest
    /\ request.allow = <<>>
    /\ credentialCounter = numberOfCredentialsx
    /\ Cardinality({c \in Stored : about[c].rp = request.rp}) <= MaxList
    => ToSet(given) = {c \in Stored : /\ about[c].rp = request.rp
                                      /\ ~Protected(c, request.uv, <<>>)}
=============================================================================
