-------------------------- MODULE AttemptLifecycle --------------------------
(***************************************************************************)
(* What the platform promises of one contact attempt: the row's status,    *)
(* the outcome the workflow records and the events that follow it, each    *)
(* step indivisible.  Contact is the code behind it: handlers, retries,    *)
(* late requests and redelivered revocations.                              *)
(***************************************************************************)

VARIABLES
    status,       \* contact_attempts.status, "absent" before the INSERT
    recorded,     \* the outcome the workflow has recorded, or "none"
    told,         \* the statuses contact-attempted events have announced
    interaction   \* an interaction-created event is out

vars == <<status, recorded, told, interaction>>

Init ==
    /\ status = "absent"
    /\ recorded = "none"
    /\ told = {}
    /\ interaction = FALSE

Insert ==
    /\ status = "absent"
    /\ status' = "pending"
    /\ UNCHANGED <<recorded, told, interaction>>

\* A revocation stops an attempt that is still pending.
Revoke ==
    /\ status = "pending"
    /\ status' = "blocked"
    /\ UNCHANGED <<recorded, told, interaction>>

\* The workflow's outcome is recorded once, over a revocation or not.
Record(outcome) ==
    /\ status \in {"pending", "blocked"} /\ recorded = "none"
    /\ status' = outcome
    /\ recorded' = outcome
    /\ UNCHANGED <<told, interaction>>

\* Only what is recorded is announced.
Announce ==
    /\ recorded # "none"
    /\ told' = {recorded}
    /\ UNCHANGED <<status, recorded, interaction>>

\* An attempt that went out is announced before its interaction.
TellInteraction ==
    /\ recorded \in {"delivered", "failed"} /\ told = {recorded}
    /\ interaction' = TRUE
    /\ UNCHANGED <<status, recorded, told>>

Next ==
    \/ Insert
    \/ Revoke
    \/ \E outcome \in {"blocked", "delivered", "failed"} : Record(outcome)
    \/ Announce
    \/ TellInteraction

Spec == Init /\ [][Next]_vars

=============================================================================
