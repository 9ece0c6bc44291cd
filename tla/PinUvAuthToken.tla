--------------------------- MODULE PinUvAuthToken ---------------------------
(***************************************************************************)
(* The pinUvAuthToken record (paut) that cbor_client_pin.c keeps in RAM    *)
(* and the helpers that change it.  Three fields stand for data the        *)
(* properties do not tell apart in detail:                                 *)
(*   expired  the usage timers say the token is too old (they are only     *)
(*            looked at by pin_uv_auth_token_tick);                        *)
(*   holder   the PIN the platform proved to get the 32 bytes of paut.data *)
(*            as they are now, Nobody if they were never given away;       *)
(*   granted  the permissions the platform asked for with that PIN.        *)
(* holder and granted are history: no helper reads them.  user_present is  *)
(* left out, it is FALSE in every state: the only caller of                *)
(* beginUsingPinUvAuthToken passes false.                                  *)
(***************************************************************************)
CONSTANTS PIN,      \* the PINs users choose
          RP,       \* the relying parties
          Nobody,   \* not a PIN
          NoRp      \* not a relying party

ASSUME TokenAssumption == Nobody \notin PIN /\ NoRp \notin RP

\* CTAP_PERMISSION_*; PCMR is a permission of the persistent token only.
Perm == {"mc", "ga", "cm", "lbw", "acfg"}

Token == [inUse   : BOOLEAN,
          perms   : SUBSET Perm,
          rp      : RP \cup {NoRp},
          uv      : BOOLEAN,
          expired : BOOLEAN,
          holder  : PIN \cup {Nobody},
          granted : SUBSET Perm]

\* paut after a power cycle: zeroes, with paut.data whatever the flash holds.
\* Without permissions nobody can use it, so its holder does not matter.
NoToken == [inUse |-> FALSE, perms |-> {}, rp |-> NoRp, uv |-> FALSE,
            expired |-> FALSE, holder |-> Nobody, granted |-> {}]

\* Faulty: the token is left as it is.
resetPinUvAuthTokenNever(t) == t

\* New random bytes and no permission; in_use, the RP and the flags stay.
resetPinUvAuthToken(t) ==
    [t EXCEPT !.perms = {}, !.holder = Nobody, !.granted = {}]

beginUsingPinUvAuthToken(t) ==
    [t EXCEPT !.inUse = TRUE, !.uv = TRUE, !.expired = FALSE]

stopUsingPinUvAuthToken(t) ==
    [t EXCEPT !.inUse = FALSE, !.perms = {}, !.rp = NoRp, !.uv = FALSE,
              !.expired = FALSE]

\* Faulty: it never is retired.
pin_uv_auth_token_tick_never(t) == t

\* The token is only retired here, at the next CBOR command.
pin_uv_auth_token_tick(t) ==
    IF t.inUse /\ t.expired THEN stopUsingPinUvAuthToken(t) ELSE t

clearUserVerifiedFlag(t) == IF t.inUse THEN [t EXCEPT !.uv = FALSE] ELSE t

clearPinUvAuthTokenPermissionsExceptLbw(t) ==
    IF t.inUse THEN [t EXCEPT !.perms = {"lbw"}] ELSE t

\* Faulty: the new permissions come on top of the old ones.
IssuedOnTop(t, p, ps, rp) ==
    [beginUsingPinUvAuthToken(t) EXCEPT
        !.perms = t.perms \cup ps, !.granted = ps, !.rp = rp, !.holder = p]

\* The end of a getPinUvAuthToken command: a token for the platform that
\* proved p, with permissions ps, bound to rp (or to no RP yet).
Issued(t, p, ps, rp) ==
    [beginUsingPinUvAuthToken(resetPinUvAuthToken(t)) EXCEPT
        !.perms = ps, !.granted = ps, !.rp = rp, !.holder = p]

\* verify(.., paut.data, ..) can succeed: somebody was given these bytes.
IsHeld(t) == t.holder # Nobody

\* Somebody can do something with the token.
IsUsable(t) == IsHeld(t) /\ t.perms # {}
=============================================================================
