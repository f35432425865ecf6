---------------------------- MODULE PaymentCalls ----------------------------
(***************************************************************************)
(* What the payment service promises of one plan when its calls overlap.   *)
(* A call decides on the status it found when it began, a payment also on  *)
(* the sum it found halfway; whatever other calls have committed since, it *)
(* then writes all it has to write in one step, or nothing.                *)
(*                                                                         *)
(* Payment, the service statement by statement, implements this module     *)
(* under any interleaving; PaymentPlan puts the workflow on top of it.     *)
(* The row's lock is not here: it only delays calls.                       *)
(***************************************************************************)
EXTENDS Integers

CONSTANTS
    Calls,     \* calls of the service's endpoints about the plan
    Total,     \* the plan's total_amount, in cents
    Amounts    \* the amounts RecordPayment stores, in cents

VARIABLES
    status,    \* payment_plans.status, committed
    paid,      \* SUM(amount) of the committed payment_received rows
    open       \* what each call between its check and its commit knows

vars == <<status, paid, open>>

Terminal == {"completed", "defaulted"}
Statuses == {"absent", "proposed", "accepted", "active"} \cup Terminal
Marks    == {"default", "complete"}

\* sum: whether the payment's transaction found the plan paid up with it.
CallStates ==
    [op     : {"none", "accept", "pay"} \cup Marks,
     amount : Nat,
     seen   : Statuses,
     sum    : {"due", "short", "full"}]

NotOpen == [op |-> "none", amount |-> 0, seen |-> "absent", sum |-> "due"]

IsOpen(k) == open[k].op # "none"

Init ==
    /\ status = "absent"
    /\ paid = 0
    /\ open = [k \in Calls |-> NotOpen]

Propose ==
    /\ status = "absent"
    /\ status' = "proposed"
    /\ UNCHANGED <<paid, open>>

\* Wrong variant: the marks miss their early return.
AdmitsAnyMark(o, s) ==
    \/ o = "accept" /\ s = "proposed"
    \/ o = "pay" /\ s \in {"accepted", "active"}
    \/ o \in Marks /\ s # "absent"

\* The statuses each call goes on with; any other ends it without a trace.
Admits(o, s) ==
    \/ o = "accept" /\ s = "proposed"
    \/ o = "pay" /\ s \in {"accepted", "active"}
    \/ o \in Marks /\ s \in Statuses \ (Terminal \cup {"absent"})

Begin(k, o, amount) ==
    /\ ~ IsOpen(k)
    /\ Admits(o, status)
    /\ open' = [open EXCEPT ![k] =
                   [op |-> o, amount |-> amount, seen |-> status, sum |-> "due"]]
    /\ UNCHANGED <<status, paid>>

\* completeIfFullyPaid: what others have not committed yet is not counted.
Sum(k) ==
    /\ open[k].op = "pay" /\ open[k].sum = "due"
    /\ open' = [open EXCEPT ![k].sum =
                   IF paid + open[k].amount >= Total THEN "full" ELSE "short"]
    /\ UNCHANGED <<status, paid>>

\* The status a call leaves: only a later payment leaves it as it is.
Outcome(c) ==
    IF c.op = "accept" THEN "accepted"
    ELSE IF c.op = "default" THEN "defaulted"
    ELSE IF c.op = "complete" \/ c.sum = "full" THEN "completed"
    ELSE IF c.seen = "accepted" THEN "active"
    ELSE status

Commit(k) ==
    /\ IsOpen(k)
    /\ open[k].op = "pay" => open[k].sum # "due"
    /\ status' = Outcome(open[k])
    /\ paid' = IF open[k].op = "pay" THEN paid + open[k].amount ELSE paid
    /\ open' = [open EXCEPT ![k] = NotOpen]

Rollback(k) ==
    /\ IsOpen(k)
    /\ open' = [open EXCEPT ![k] = NotOpen]
    /\ UNCHANGED <<status, paid>>

Next ==
    \/ Propose
    \/ \E k \in Calls :
          \/ \E amount \in Amounts : Begin(k, "pay", amount)
          \/ \E o \in {"accept"} \cup Marks : Begin(k, o, 0)
          \/ Sum(k)
          \/ Commit(k)
          \/ Rollback(k)

Spec == Init /\ [][Next]_vars

=============================================================================
