-------------------------- MODULE PaymentLifecycle --------------------------
(***************************************************************************)
(* What payment/DESIGN.md says of one plan: its state machine and its      *)
(* transition rules (DESIGN.md:27-46), every call one indivisible step.    *)
(* The code does more; Payment and PaymentPlan say when it does no more.   *)
(***************************************************************************)
EXTENDS Integers

CONSTANTS
    Total,     \* the plan's total_amount, in cents
    Amounts    \* the amounts RecordPayment stores, in cents

VARIABLES
    status,    \* payment_plans.status, "absent" before ProposePlan
    paid       \* the sum of the payments received

vars == <<status, paid>>

Terminal == {"completed", "defaulted"}

Init == status = "absent" /\ paid = 0

Propose ==
    /\ status = "absent"
    /\ status' = "proposed"
    /\ UNCHANGED paid

Accept ==
    /\ status = "proposed"
    /\ status' = "accepted"
    /\ UNCHANGED paid

\* A payment activates the plan; one that reaches the total completes it too,
\* in the same transaction.
Pay(amount) ==
    /\ status \in {"accepted", "active"}
    /\ paid' = paid + amount
    /\ status' = IF paid' >= Total THEN "completed" ELSE "active"

\* The workflow's verdicts.  Only an accepted plan can be completed.
Default ==
    /\ status \in {"proposed", "accepted", "active"}
    /\ status' = "defaulted"
    /\ UNCHANGED paid

Complete ==
    /\ status \in {"accepted", "active"}
    /\ status' = "completed"
    /\ UNCHANGED paid

Next ==
    \/ Propose
    \/ Accept
    \/ \E amount \in Amounts : Pay(amount)
    \/ Default
    \/ Complete

Spec == Init /\ [][Next]_vars

=============================================================================
