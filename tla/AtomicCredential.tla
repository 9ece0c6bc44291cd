-------------------------- MODULE AtomicCredential --------------------------
(***************************************************************************)
(* What a resident credential slot promises to the rest of the firmware:   *)
(* the credential that a restart would find changes in one step, from one  *)
(* version that somebody asked for to another.  The exceptions are a       *)
(* deletion that finds an old version still there, which it may uncover    *)
(* when it is cut short, and a creation over a credential that is there.   *)
(***************************************************************************)
CONSTANTS Credential,   \* the versions of the credential
          Absent        \* there is none

VARIABLES durable,      \* what a restart would find
          goals,        \* what was asked for and may still come true
          unsure        \* such a deletion or creation has begun

vars == <<durable, goals, unsure>>

Init == durable = Absent /\ goals = {} /\ unsure = FALSE

\* Somebody asks for a version, or for a deletion.
Ask(c) == /\ goals' = goals \cup {c}
          /\ unsure' \in {unsure, TRUE}
          /\ UNCHANGED durable

\* One of them becomes what a restart would find.
Land == durable' \in goals /\ UNCHANGED <<goals, unsure>>

\* Nothing is promised.
Disturb == /\ unsure
           /\ durable' \in Credential \cup {Absent}
           /\ UNCHANGED <<goals, unsure>>

\* Requests that are done or lost are forgotten; only a deletion that is done
\* makes a slot sure again.
Forget == /\ goals' \in SUBSET goals
          /\ unsure' \in {unsure, unsure /\ durable # Absent}
          /\ UNCHANGED durable

Next == (\E c \in Credential \cup {Absent} : Ask(c)) \/ Land \/ Disturb \/ Forget

Spec == Init /\ [][Next]_vars
=============================================================================
