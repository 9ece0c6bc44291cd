--------------------------- MODULE TokenCommands ----------------------------
(***************************************************************************)
(* ClientPin together with the commands that use the pinUvAuthToken:       *)
(* authenticatorMakeCredential, GetAssertion, CredentialManagement,        *)
(* LargeBlobs and Config (setMinPINLength is an action of ClientPin).      *)
(*                                                                         *)
(* Of a command only what it does with the token is kept.  A handler that  *)
(* waits for the user's touch has written nothing to the flash by then, so *)
(* it is one step; the touch that does not come is an outcome of the step. *)
(***************************************************************************)
EXTENDS ClientPin

VARIABLES uses,   \* history: what paut.data, as it is now, has authorised
          spent   \* history: a user gesture has ended it

tokenVars == <<disk, pc, mismatches, needsPowerCycle, paut, ppaut,
               wrong, bootWrong, keyLost, uses, spent>>

Use(c, r) == [cmd |-> c, rp |-> r]

-----------------------------------------------------------------------------
\* paut.permissions and verify(.., paut.data, ..).
May(t, p) == IsHeld(t) /\ p \in t.perms

\* The checks of makeCredential and getAssertion ...
Verified(t, p, r) == May(t, p) /\ t.uv /\ t.rp \in {NoRp, r}

\* Faulty: the relying party is not stored.
BoundNever(t, r) == t

\* ... and what passing them does: the token gets its relying party.
Bound(t, r) == [t EXCEPT !.rp = r]

\* Faulty: the permissions stay.
AfterTouchKeeping(t) == clearUserVerifiedFlag(t)

\* The user touched the device.
AfterTouch(t) == clearPinUvAuthTokenPermissionsExceptLbw(clearUserVerifiedFlag(t))

OnlyToken == UNCHANGED <<disk, pc, mismatches, needsPowerCycle, ppaut,
                         wrong, bootWrong, keyLost>>

\* The command c goes through for r; touch: it asks for the user's touch and
\* has it end the token.  It may still fail after the touch.
Authorised(c, r, t, touch) ==
    /\ Verified(t, c, r)
    /\ paut' = IF touch THEN AfterTouch(Bound(t, r)) ELSE Bound(t, r)
    /\ uses' \in {uses, uses \cup {Use(c, r)}}
    /\ spent' = (spent \/ touch)

\* It ends before the touch: excluded, no credential, or the user says no.
BoundOnly(c, r, t) ==
    /\ Verified(t, c, r)
    /\ paut' = Bound(t, r)
    /\ UNCHANGED <<uses, spent>>

\* It comes without pinUvAuthParam, as far as or past the touch.
Tokenless(t, touch) ==
    /\ paut' = IF touch THEN AfterTouch(t) ELSE t
    /\ spent' = (spent \/ touch)
    /\ UNCHANGED uses

\* touch: the platform sent the option up = true.  If it sent none the touch
\* is asked for all the same, but the token keeps its permissions.
cbor_make_credential(r, touch) ==
    LET t == pin_uv_auth_token_tick(paut)
    IN  /\ CanStart
        /\ Authorised("mc", r, t, touch) \/ BoundOnly("mc", r, t) \/ Tokenless(t, touch)
        /\ OnlyToken

\* touch: the option up, TRUE when it is absent.
cbor_get_assertion(r, touch) ==
    LET t == pin_uv_auth_token_tick(paut)
    IN  /\ CanStart
        /\ Authorised("ga", r, t, touch) \/ BoundOnly("ga", r, t) \/ Tokenless(t, touch)
        /\ OnlyToken

\* r = NoRp: the subcommands about the whole device, for an unbound token
\* only; otherwise those about one relying party.
cbor_cred_mgmt(r) ==
    LET t == pin_uv_auth_token_tick(paut)
    IN  /\ CanStart
        /\ May(t, "cm")
        /\ t.rp \in {NoRp, r}
        /\ paut' = t
        /\ uses' = uses \cup {Use("cm", r)}
        /\ UNCHANGED spent
        /\ OnlyToken

\* authenticatorLargeBlobs (lbw) and the subcommands of authenticatorConfig
\* other than setMinPINLength (acfg).
cbor_large_blobs ==
    LET t == pin_uv_auth_token_tick(paut)
    IN  /\ CanStart
        /\ May(t, "lbw")
        /\ paut' = t
        /\ uses' = uses \cup {Use("lbw", NoRp)}
        /\ UNCHANGED spent
        /\ OnlyToken

cbor_config ==
    LET t == pin_uv_auth_token_tick(paut)
    IN  /\ CanStart
        /\ May(t, "acfg")
        /\ paut' = t
        /\ uses' = uses \cup {Use("acfg", NoRp)}
        /\ UNCHANGED spent
        /\ OnlyToken

-----------------------------------------------------------------------------
TokenInit == Init /\ uses = {} /\ spent = FALSE

\* New bytes have authorised nothing.
ClientPinStep ==
    /\ Next
    /\ IF GetToken \/ paut'.holder = Nobody
       THEN uses' = {} /\ spent' = FALSE
       ELSE UNCHANGED <<uses, spent>>

TokenNext ==
    \/ ClientPinStep
    \/ \E r \in RP, b \in BOOLEAN : \/ cbor_make_credential(r, b)
                                    \/ cbor_get_assertion(r, b)
    \/ \E r \in RP \cup {NoRp} : cbor_cred_mgmt(r)
    \/ cbor_large_blobs
    \/ cbor_config

TokenSpec == TokenInit /\ [][TokenNext]_tokenVars

-----------------------------------------------------------------------------
\* All credentials made and asserted with one token are one relying party's,
\* the one the platform named or else the first one (has_rp_id), whatever
\* other commands, failed ones too, come in between.
OneRelyingParty ==
    \A u \in uses : u.cmd \in {"mc", "ga"} => u.rp = paut.rp \/ ~paut.inUse

\* A touch ends every token given before it, whoever's command the touch was
\* for: only large blobs can still be written with it
\* (clearPinUvAuthTokenPermissionsExceptLbw).
SpentByTouch == spent => \A p \in Perm \ {"lbw"} : ~May(paut, p)

\* Only a live token of who proved the present PIN authorises anything: not
\* one a PIN change, a reset or its age has ended since.
UsedWithPresentPin ==
    [][uses' \ uses # {} => paut.holder = ef_pin.pin /\ ~paut.expired]_tokenVars

\* Large blobs apart, a token never does more than was asked for with the
\* PIN, whatever commands it goes through (CHK-235, CHK-238).
UsedAsGranted == \A u \in uses : u.cmd \in paut.granted \cup {"lbw"}

\* CHK-237: "a LargeBlob command with PIN authentication that does not have
\* permission" is refused.
LargeBlobsAsGranted == \A u \in uses : u.cmd = "lbw" => "lbw" \in paut.granted
=============================================================================
