---------------------------- MODULE PaymentPlan ----------------------------
(***************************************************************************)
(* The Temporal workflow that watches over a payment plan                  *)
(* (workflows/payment_workflow.go) together with the payment service it    *)
(* calls back.  The service is PaymentCalls: calls of its endpoints, the   *)
(* workflow's marks among them, overlap in any way.                        *)
(*                                                                         *)
(* No code of the repository starts the workflow or signals it:            *)
(* workflows/DESIGN.md leaves that to "the Encore API or an external       *)
(* process".  StartPlanWorkflow, SignalAccept and SignalPayment are that   *)
(* process: it tells of an acceptance or a payment after it was committed, *)
(* late or never, and never twice.                                         *)
(***************************************************************************)
EXTENDS Integers, FiniteSets

CONSTANTS
    Calls,            \* calls of the service open at the same time; one that
                      \* is over makes room for another
    NoCall,           \* no call is serving the workflow
    Total,            \* the plan's total_amount, in cents
    Amounts,          \* the amounts RecordPayment stores, a cent at least
    NumInstallments,  \* PaymentPlanInput.NumInstallments
    MaxMissed,        \* consecutive misses that default the plan (3 in the code)
    MaxTries          \* RetryPolicy.MaximumAttempts (3 in the code)

ASSUME PlanAssumption ==
    /\ NoCall \notin Calls
    /\ Total \in Nat
    /\ Amounts \subseteq Nat \ {0}
    /\ NumInstallments \in Nat
    /\ MaxMissed \in Nat \ {0}
    /\ MaxTries \in Nat \ {0}

VARIABLES
    status, paid,    \* the plan, and
    open,            \* the calls about it under way, as PaymentCalls has them
    overlapped,      \* whether two calls were ever open together (history)
    acceptance,      \* whether an acceptance has not been told, is in the
                     \* "accept" channel, or was received by the workflow
    toSignal,        \* payments committed and not told to the workflow
    paymentCh,       \* signals waiting in the "payment_received" channel
    step,            \* what the workflow waits for, or how it closed
    tracked,         \* i: the installments the loop has been through
    missedCount,
    outcome,         \* how each installment went
    tries,           \* failed tries of the mark activity
    serving,         \* the call that serves the current try
    late             \* requests of abandoned tries still on their way

serviceVars == <<status, paid, open, overlapped>>
signalVars  == <<acceptance, toSignal, paymentCh>>
loopVars    == <<tracked, missedCount, outcome>>
markVars    == <<tries, serving, late>>
vars == <<serviceVars, signalVars, step, loopVars, markVars>>

Service   == INSTANCE PaymentCalls
Lifecycle == INSTANCE PaymentLifecycle

Installments == 1 .. NumInstallments
Verdicts     == Service!Terminal

\* A verdict as a step: the workflow executes the activity that marks the plan.
Waiting == {"acceptance", "interval", "grace"}
Running == Waiting \cup Verdicts
Steps   == {"none", "done", "error"} \cup Running

TypeOK ==
    /\ status \in Service!Statuses
    /\ paid \in Nat
    /\ open \in [Calls -> Service!CallStates]
    /\ overlapped \in BOOLEAN
    /\ acceptance \in {"none", "due", "sent", "received"}
    /\ toSignal \in Nat
    /\ paymentCh \in Nat
    /\ step \in Steps
    /\ tracked \in 0 .. NumInstallments
    /\ missedCount \in 0 .. MaxMissed
    /\ outcome \in [Installments -> {"open", "paid", "missed"}]
    /\ tries \in 0 .. MaxTries - 1
    /\ serving \in Calls \cup {NoCall}
    /\ late \subseteq [verdict : Verdicts, try : 1 .. MaxTries]

Init ==
    /\ Service!Init
    /\ overlapped = FALSE
    /\ acceptance = "none"
    /\ toSignal = 0
    /\ paymentCh = 0
    /\ step = "none"
    /\ tracked = 0
    /\ missedCount = 0
    /\ outcome = [n \in Installments |-> "open"]
    /\ tries = 0
    /\ serving = NoCall
    /\ late = {}

---------------------------------------------------------------------------
(* The payment service.                                                    *)

ProposePlan ==
    /\ Service!Propose
    /\ UNCHANGED <<overlapped, signalVars, step, loopVars, markVars>>

BeginCall(k, o, amount) ==
    /\ Service!Begin(k, o, amount)
    /\ overlapped' = (overlapped \/ \E j \in Calls : Service!IsOpen(j))

AcceptPlan(k) ==
    /\ BeginCall(k, "accept", 0)
    /\ UNCHANGED <<signalVars, step, loopVars, markVars>>

RecordPayment(k, amount) ==
    /\ BeginCall(k, "pay", amount)
    /\ UNCHANGED <<signalVars, step, loopVars, markVars>>

SumPayments(k) ==
    /\ Service!Sum(k)
    /\ UNCHANGED <<overlapped, signalVars, step, loopVars, markVars>>

\* A commit of any call but the one that serves the workflow.
CommitCall(k) ==
    /\ k # serving
    /\ Service!Commit(k)
    /\ acceptance' = IF open[k].op = "accept" /\ acceptance = "none" THEN "due"
                     ELSE acceptance
    /\ toSignal' = IF open[k].op = "pay" THEN toSignal + 1 ELSE toSignal
    /\ UNCHANGED <<overlapped, paymentCh, step, loopVars, markVars>>

\* The call that serves the workflow and fails is a try that fails first.
RollbackCall(k) ==
    /\ k # serving
    /\ Service!Rollback(k)
    /\ UNCHANGED <<overlapped, signalVars, step, loopVars, markVars>>

---------------------------------------------------------------------------
(* The process that starts the workflow and signals it.  A signal to a     *)
(* workflow that is over is an error to its sender.                        *)

StartPlanWorkflow ==
    /\ step = "none" /\ status # "absent"
    /\ step' = "acceptance"
    /\ UNCHANGED <<serviceVars, signalVars, loopVars, markVars>>

SignalAccept ==
    /\ step \in Running /\ acceptance = "due"
    /\ acceptance' = "sent"
    /\ UNCHANGED <<serviceVars, toSignal, paymentCh, step, loopVars, markVars>>

SignalPayment ==
    /\ step \in Running /\ toSignal > 0
    /\ toSignal' = toSignal - 1
    /\ paymentCh' = paymentCh + 1
    /\ UNCHANGED <<serviceVars, acceptance, step, loopVars, markVars>>

---------------------------------------------------------------------------
(* PaymentPlanWorkflow.  A Selector takes a signal that is in its channel  *)
(* before it looks at the timer.                                           *)

\* Wrong variant: the loop ends one installment early.
NextInstallmentShort(n) == IF n + 1 < NumInstallments THEN "interval" ELSE "completed"

\* Wrong variant: the loop runs once more than there are installments.
NextInstallmentLong(n) == IF n <= NumInstallments THEN "interval" ELSE "completed"

\* The loop condition: another installment, or MarkPlanCompleted.
NextInstallment(n) == IF n < NumInstallments THEN "interval" ELSE "completed"

ReceiveAccept ==
    /\ step = "acceptance" /\ acceptance = "sent"
    /\ acceptance' = "received"
    /\ step' = NextInstallment(0)
    /\ UNCHANGED <<serviceVars, toSignal, paymentCh, loopVars, markVars>>

\* The 72-hour timer.
AcceptanceTimesOut ==
    /\ step = "acceptance" /\ acceptance # "sent"
    /\ step' = "defaulted"
    /\ UNCHANGED <<serviceVars, signalVars, loopVars, markVars>>

\* workflow.Sleep: signals pile up in the channel meanwhile.
IntervalElapses ==
    /\ step = "interval"
    /\ step' = "grace"
    /\ UNCHANGED <<serviceVars, signalVars, loopVars, markVars>>

\* Wrong variant: the counter of misses is never reset.
ReceivePaymentKeepsMissed ==
    /\ step = "grace" /\ paymentCh > 0
    /\ paymentCh' = paymentCh - 1
    /\ tracked' = tracked + 1
    /\ outcome' = [outcome EXCEPT ![tracked + 1] = "paid"]
    /\ step' = NextInstallment(tracked + 1)
    /\ UNCHANGED <<serviceVars, acceptance, toSignal, missedCount, markVars>>

\* Wrong variant: the signal is looked at and left in the channel.
ReceivePaymentPeeks ==
    /\ step = "grace" /\ paymentCh > 0
    /\ tracked' = tracked + 1
    /\ missedCount' = 0
    /\ outcome' = [outcome EXCEPT ![tracked + 1] = "paid"]
    /\ step' = NextInstallment(tracked + 1)
    /\ UNCHANGED <<serviceVars, signalVars, markVars>>

\* One signal, whatever its payment's amount, covers one installment.
ReceivePayment ==
    /\ step = "grace" /\ paymentCh > 0
    /\ paymentCh' = paymentCh - 1
    /\ tracked' = tracked + 1
    /\ missedCount' = 0
    /\ outcome' = [outcome EXCEPT ![tracked + 1] = "paid"]
    /\ step' = NextInstallment(tracked + 1)
    /\ UNCHANGED <<serviceVars, acceptance, toSignal, markVars>>

\* The 3-day timer of the grace period.
GraceExpires ==
    /\ step = "grace" /\ paymentCh = 0
    /\ tracked' = tracked + 1
    /\ missedCount' = missedCount + 1
    /\ outcome' = [outcome EXCEPT ![tracked + 1] = "missed"]
    /\ step' = IF missedCount + 1 >= MaxMissed THEN "defaulted"
               ELSE NextInstallment(tracked + 1)
    /\ UNCHANGED <<serviceVars, signalVars, markVars>>

---------------------------------------------------------------------------
(* The activities MarkPlanDefaulted and MarkPlanCompleted, tried up to     *)
(* MaxTries times one after the other: the request arrives and either      *)
(* finds a verdict, which answers it, or opens a call of its own.  A try   *)
(* that fails leaves its request on its way, or its call under way: it may *)
(* still be served, next to a later try or after the workflow's end.       *)

Mark(verdict) == IF verdict = "defaulted" THEN "default" ELSE "complete"

MarkBegins(k) ==
    /\ step \in Verdicts /\ serving = NoCall
    /\ BeginCall(k, Mark(step), 0)
    /\ serving' = k
    /\ UNCHANGED <<signalVars, step, loopVars, tries, late>>

MarkFindsVerdict ==
    /\ step \in Verdicts /\ serving = NoCall
    /\ status \in Verdicts
    /\ step' = "done"
    /\ tries' = 0
    /\ UNCHANGED <<serviceVars, signalVars, loopVars, serving, late>>

MarkCommits ==
    /\ serving # NoCall
    /\ Service!Commit(serving)
    /\ step' = "done"
    /\ tries' = 0
    /\ serving' = NoCall
    /\ UNCHANGED <<overlapped, signalVars, loopVars, late>>

\* The request or its answer is lost, the service fails, or the 10 seconds are
\* over.
Abandon ==
    /\ serving' = NoCall
    /\ \/ UNCHANGED late
       \/ /\ serving = NoCall
          /\ late' = late \cup {[verdict |-> step, try |-> tries + 1]}

\* Wrong variant: an activity that is retried for ever.
MarkTryFailsForEver ==
    /\ step \in Verdicts
    /\ Abandon
    /\ UNCHANGED <<serviceVars, signalVars, step, loopVars, tries>>

MarkTryFails ==
    /\ step \in Verdicts /\ tries + 1 < MaxTries
    /\ tries' = tries + 1
    /\ Abandon
    /\ UNCHANGED <<serviceVars, signalVars, step, loopVars>>

\* The last try fails: the workflow returns the error and the plan stays as
\* it is.
MarkFails ==
    /\ step \in Verdicts /\ tries + 1 = MaxTries
    /\ step' = "error"
    /\ tries' = 0
    /\ Abandon
    /\ UNCHANGED <<serviceVars, signalVars, loopVars>>

\* An abandoned request arrives after all: it is a call like any other.
LateMarkArrives(k, request) ==
    /\ request \in late
    /\ \/ status \in Verdicts /\ UNCHANGED serviceVars
       \/ BeginCall(k, Mark(request.verdict), 0)
    /\ late' = late \ {request}
    /\ UNCHANGED <<signalVars, step, loopVars, tries, serving>>

---------------------------------------------------------------------------

Endpoints ==
    \/ ProposePlan
    \/ \E k \in Calls :
          \/ AcceptPlan(k)
          \/ \E amount \in Amounts : RecordPayment(k, amount)
          \/ SumPayments(k)
          \/ CommitCall(k)
          \/ RollbackCall(k)
          \/ \E request \in late : LateMarkArrives(k, request)

Signals == StartPlanWorkflow \/ SignalAccept \/ SignalPayment

Workflow ==
    \/ ReceiveAccept
    \/ AcceptanceTimesOut
    \/ IntervalElapses
    \/ ReceivePayment
    \/ GraceExpires
    \/ \E k \in Calls : MarkBegins(k)
    \/ MarkFindsVerdict
    \/ MarkCommits
    \/ MarkTryFails
    \/ MarkFails

Next == Endpoints \/ Signals \/ Workflow

Spec == Init /\ [][Next]_vars

\* Temporal's timers fire, its server runs activities and times them out: an
\* open workflow goes on.  Nobody has to pay, accept, signal or answer.
FairSpec == Spec /\ WF_vars(Workflow)

---------------------------------------------------------------------------
(* Properties.                                                             *)

PaidInstallments == {n \in Installments : outcome[n] = "paid"}

\* The last MaxMissed installments tracked were all missed.
MissedInARow ==
    /\ tracked >= MaxMissed
    /\ \A n \in tracked - MaxMissed + 1 .. tracked : outcome[n] = "missed"

\* A plan is defaulted for one of two reasons only: the workflow was not told
\* of an acceptance, or the last MaxMissed installments in a row were missed,
\* a payment in between starting the count afresh, with signals early or late
\* and marks retried, overlapping or served late (payment_workflow.go:48-54,
\* 100-111).
DefaultIsEarned ==
    status = "defaulted" => MissedInARow \/ (tracked = 0 /\ acceptance # "received")

\* A plan closed as completed without being paid up has been through all of
\* its installments, and never missed MaxMissed in a row at the end; no payment
\* that overlaps another completes a plan short of its total
\* (payment_workflow.go:70, 114-118; payment.go:43-71).
CompletedIsTracked ==
    status = "completed" /\ paid < Total
        => tracked = NumInstallments /\ ~ MissedInARow

\* No payment covers two installments: the installments counted as paid, the
\* signals not received yet and the payments not signalled yet never exceed
\* the amount received, a cent being the least payment
\* (payment_workflow.go:84-88).
CreditsArePaid ==
    Cardinality(PaidInstallments) + paymentCh + toSignal <= paid

\* As long as no two calls have overlapped, the plan under its workflow follows
\* the state machine of payment/DESIGN.md:30-46, though the endpoints alone do
\* not (payment.go:390 completes a proposed plan): the workflow asks only for
\* completions of plans it knows to be accepted, in its retries and in what it
\* has abandoned too (payment_workflow.go:48-54, 114-118).
FollowsLifecycle ==
    /\ Lifecycle!Init
    /\ [][~ overlapped' => Lifecycle!Next \/ UNCHANGED Lifecycle!vars]_vars

\* A started workflow comes to its end, and the plan has a verdict then unless
\* the last try of the mark activity failed or a call that overlapped the mark
\* wrote over it: no wait is without a timer (payment_workflow.go:43, 72, 92).
WorkflowEnds ==
    step = "acceptance" ~>
        \/ step = "error"
        \/ step = "done" /\ (status \in Verdicts \/ overlapped)

=============================================================================
