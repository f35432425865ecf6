------------------------------ MODULE Payment ------------------------------
(***************************************************************************)
(* The payment service (payment/payment.go) on one plan, call by call and  *)
(* statement by statement: plans share no row.                             *)
(*                                                                         *)
(* Every handler but ProposePlan reads the plan's status first, outside    *)
(* any transaction, and then writes by id without looking again.  The      *)
(* database is PostgreSQL at READ COMMITTED: a transaction's writes appear *)
(* when it commits, an UPDATE of the plan waits for the row's lock and     *)
(* keeps it to the end, an INSERT into payment_events and a SUM over it    *)
(* wait for nothing, and the SUM sees committed rows and its own.          *)
(***************************************************************************)
EXTENDS Integers, FiniteSets

CONSTANTS
    Calls,         \* calls of the service's endpoints about the plan
    NoCall,        \* the holder of a free lock
    Total,         \* the plan's total_amount, in cents
    Amounts,       \* the amounts of payments, in cents as NUMERIC(12, 2) keeps
                   \* them: what is less than half a cent is kept as 0
    MaxInFlight    \* the bound on calls under way at the same time

ASSUME PaymentAssumption ==
    /\ NoCall \notin Calls
    /\ Total \in Nat
    /\ Amounts \subseteq Nat
    /\ MaxInFlight \in Nat \ {0}

VARIABLES
    status,     \* payment_plans.status, committed
    paid,       \* SUM(amount) of the committed payment_received rows
    events,     \* committed rows of payment_events, as [call, type]
    lock,       \* the transaction holding the plan's row lock
    pc,         \* the next statement of each call
    op,         \* the endpoint each call is for
    amount,     \* the amount of each RecordPayment call
    seen,       \* the status each call read
    wrote,      \* the status each open transaction has written, if any
    published   \* payment-updated events published, as [call, type]

dbVars   == <<status, paid, events>>
callVars == <<op, amount, seen>>
vars == <<dbVars, lock, pc, callVars, wrote, published>>

Terminal == {"completed", "defaulted"}
Statuses == {"absent", "proposed", "accepted", "active"} \cup Terminal
Ops      == {"propose", "accept", "pay", "default", "complete"}
Types    == {"proposed", "accepted", "active", "payment_received"} \cup Terminal

InTx     == {"update", "sum", "complete", "commit"}
Steps    == {"idle", "publish", "done"} \cup InTx

TypeOK ==
    /\ status \in Statuses
    /\ paid \in Nat
    /\ events \subseteq [call : Calls, type : Types]
    /\ lock \in Calls \cup {NoCall}
    /\ pc \in [Calls -> Steps]
    /\ op \in [Calls -> Ops]
    /\ amount \in [Calls -> Nat]
    /\ seen \in [Calls -> Statuses]
    /\ wrote \in [Calls -> Statuses]
    /\ published \subseteq [call : Calls, type : Types]

\* "absent" in wrote stands for no UPDATE yet.
Init ==
    /\ status = "absent"
    /\ paid = 0
    /\ events = {}
    /\ lock = NoCall
    /\ pc = [k \in Calls |-> "idle"]
    /\ op = [k \in Calls |-> "propose"]
    /\ amount = [k \in Calls |-> 0]
    /\ seen = [k \in Calls |-> "absent"]
    /\ wrote = [k \in Calls |-> "absent"]
    /\ published = {}

---------------------------------------------------------------------------
(* What each endpoint reads, writes, inserts and publishes.                *)

\* Wrong variant: the handlers refuse only the status they would set.
AdmitsLoosely(o, s) ==
    \/ o = "accept"   /\ s = "proposed"
    \/ o = "pay"      /\ s \notin Terminal
    \/ o = "default"  /\ s # "defaulted"
    \/ o = "complete" /\ s # "completed"

\* The check each handler makes on the status it has read.
Admits(o, s) ==
    \/ o = "accept" /\ s = "proposed"
    \/ o = "pay" /\ s \in {"accepted", "active"}
    \/ o \in {"default", "complete"} /\ s \notin Terminal

\* Wrong variant: a status that is not in the plan_status enum.
TargetOutsideEnum(o) ==
    [accept  |-> "accepted",  pay      |-> "active",
     default |-> "defaulted", complete |-> "paid_off"][o]

Target(o) ==
    [accept  |-> "accepted",  pay      |-> "active",
     default |-> "defaulted", complete |-> "completed"][o]

\* The rows a call's transaction inserts in payment_events.
RowsOf(k) ==
    IF op[k] = "pay"
    THEN {"payment_received"} \cup ({wrote[k]} \cap {"completed"})
    ELSE {wrote[k]}

\* The events it publishes once committed.
NoticesOf(k) ==
    RowsOf(k) \cup
        (IF op[k] = "pay" /\ seen[k] = "accepted" THEN {"active"} ELSE {})

InFlight == {k \in Calls : pc[k] \notin {"idle", "done"}}

---------------------------------------------------------------------------

\* ProposePlan: plan and 'proposed' row in one transaction no other call can
\* meet, the plan's id being unknown until it commits.
ProposePlan(k) ==
    /\ pc[k] = "idle" /\ status = "absent"
    /\ status' = "proposed"
    /\ events' = events \cup {[call |-> k, type |-> "proposed"]}
    /\ pc' = [pc EXCEPT ![k] = "publish"]
    /\ wrote' = [wrote EXCEPT ![k] = "proposed"]
    /\ UNCHANGED <<paid, lock, callVars, published>>

\* AcceptPlan, RecordPayment, MarkDefaulted, MarkCompleted: the SELECT and
\* the check on what it returned; a call that fails the check returns at once
\* and leaves no trace.  A RecordPayment that read "active" has no UPDATE to
\* do before it inserts the payment.
ReadPlan(k, o, a) ==
    /\ pc[k] = "idle" /\ status # "absent"
    /\ Admits(o, status)
    /\ Cardinality(InFlight) < MaxInFlight
    /\ op' = [op EXCEPT ![k] = o]
    /\ amount' = [amount EXCEPT ![k] = a]
    /\ seen' = [seen EXCEPT ![k] = status]
    /\ pc' = [pc EXCEPT ![k] = IF o = "pay" /\ status = "active" THEN "sum"
                               ELSE "update"]
    /\ UNCHANGED <<dbVars, lock, wrote, published>>

\* Wrong variant: the UPDATE runs on the database instead of the transaction.
UpdateStatusOutsideTx(k) ==
    /\ pc[k] = "update" /\ lock = NoCall
    /\ status' = Target(op[k])
    /\ wrote' = [wrote EXCEPT ![k] = Target(op[k])]
    /\ pc' = [pc EXCEPT ![k] = IF op[k] = "pay" THEN "sum" ELSE "commit"]
    /\ UNCHANGED <<paid, events, lock, callVars, published>>

\* The UPDATE by id: it waits for the lock and checks nothing.
UpdateStatus(k) ==
    /\ pc[k] = "update" /\ lock = NoCall
    /\ lock' = k
    /\ wrote' = [wrote EXCEPT ![k] = Target(op[k])]
    /\ pc' = [pc EXCEPT ![k] = IF op[k] = "pay" THEN "sum" ELSE "commit"]
    /\ UNCHANGED <<dbVars, callVars, published>>

\* Wrong variant: the call's amount is added to a SUM that has it already.
SumPaymentsTwice(k) ==
    /\ pc[k] = "sum"
    /\ pc' = [pc EXCEPT ![k] = IF paid + 2 * amount[k] >= Total
                               THEN "complete" ELSE "commit"]
    /\ UNCHANGED <<dbVars, lock, callVars, wrote, published>>

\* Wrong variant: a sum equal to the total does not complete the plan.
SumPaymentsStrictly(k) ==
    /\ pc[k] = "sum"
    /\ pc' = [pc EXCEPT ![k] = IF paid + amount[k] > Total
                               THEN "complete" ELSE "commit"]
    /\ UNCHANGED <<dbVars, lock, callVars, wrote, published>>

\* completeIfFullyPaid: the SUM over committed rows and the call's own.
SumPayments(k) ==
    /\ pc[k] = "sum"
    /\ pc' = [pc EXCEPT ![k] = IF paid + amount[k] >= Total
                               THEN "complete" ELSE "commit"]
    /\ UNCHANGED <<dbVars, lock, callVars, wrote, published>>

CompletePlan(k) ==
    /\ pc[k] = "complete" /\ lock \in {NoCall, k}
    /\ lock' = k
    /\ wrote' = [wrote EXCEPT ![k] = "completed"]
    /\ pc' = [pc EXCEPT ![k] = "commit"]
    /\ UNCHANGED <<dbVars, callVars, published>>

Unlock(k) == lock' = IF lock = k THEN NoCall ELSE lock

\* The call returns: its local variables are gone.
Return(k) ==
    /\ pc' = [pc EXCEPT ![k] = "done"]
    /\ amount' = [amount EXCEPT ![k] = 0]
    /\ seen' = [seen EXCEPT ![k] = "absent"]
    /\ wrote' = [wrote EXCEPT ![k] = "absent"]
    /\ UNCHANGED op

Commit(k) ==
    /\ pc[k] = "commit"
    /\ status' = IF wrote[k] = "absent" THEN status ELSE wrote[k]
    /\ paid' = IF op[k] = "pay" THEN paid + amount[k] ELSE paid
    /\ events' = events \cup {[call |-> k, type |-> t] : t \in RowsOf(k)}
    /\ Unlock(k)
    /\ pc' = [pc EXCEPT ![k] = "publish"]
    /\ UNCHANGED <<callVars, wrote, published>>

\* Wrong variant: no deferred Rollback, the transaction stays open.
RollbackForgotten(k) ==
    /\ pc[k] \in InTx
    /\ Return(k)
    /\ UNCHANGED <<dbVars, lock, published>>

\* Wrong variant: a failed Commit is logged and the handler goes on.
RollbackIgnored(k) ==
    /\ pc[k] \in InTx
    /\ Unlock(k)
    /\ pc' = [pc EXCEPT ![k] = IF pc[k] = "commit" THEN "publish" ELSE "done"]
    /\ UNCHANGED <<dbVars, callVars, wrote, published>>

\* An error of a statement (the deferred Rollback runs), or a crash (the
\* database rolls the transaction back).
Rollback(k) ==
    /\ pc[k] \in InTx
    /\ Unlock(k)
    /\ Return(k)
    /\ UNCHANGED <<dbVars, published>>

\* publishPaymentEvent for each notice: a failure is logged and forgotten, a
\* crash loses what was left.
Publish(k) ==
    /\ pc[k] = "publish"
    /\ \E sent \in SUBSET NoticesOf(k) :
          published' = published \cup {[call |-> k, type |-> t] : t \in sent}
    /\ Return(k)
    /\ UNCHANGED <<dbVars, lock>>

Advance(k) ==
    \/ UpdateStatus(k)
    \/ SumPayments(k)
    \/ CompletePlan(k)
    \/ Commit(k)
    \/ Publish(k)

Next ==
    \E k \in Calls :
        \/ ProposePlan(k)
        \/ \E a \in Amounts : ReadPlan(k, "pay", a)
        \/ \E o \in Ops \ {"propose", "pay"} : ReadPlan(k, o, 0)
        \/ Advance(k)
        \/ Rollback(k)

Spec == Init /\ [][Next]_vars

\* A call that can go on does: the server runs it and PostgreSQL hands a
\* released lock to a waiter.  Nothing makes a call fail.
FairSpec == Spec /\ \A k \in Calls : WF_vars(Advance(k))

---------------------------------------------------------------------------
(* Properties under any interleaving.                                      *)

Recorded(t) == \E k \in Calls : [call |-> k, type |-> t] \in events

\* The plan's status is always backed by a row of its timeline, however the
\* calls interleave and wherever they fail: row and status commit together
\* (payment.go:91-141, 176-203, 246-279, 335-367, 394-426).
StatusIsBacked ==
    /\ status \in {"proposed", "accepted"} \cup Terminal => Recorded(status)
    /\ status = "active" => Recorded("payment_received")

\* No payment is on the books of a plan nobody accepted (payment.go:239-244).
PaymentsAfterAcceptance ==
    Recorded("payment_received") \/ status = "active" => Recorded("accepted")

\* What the timeline tells and what the plan's row says never part.
TimelineIsSound == StatusIsBacked /\ PaymentsAfterAcceptance

\* A completion recorded by RecordPayment is paid for: the SUM it acted on was
\* no larger than what is committed with it (payment.go:43-71, 272-279).
CompletionIsPaid ==
    \A e \in events : e.type = "completed" /\ op[e.call] = "pay" => paid >= Total

\* Nothing is announced that was rolled back (payment.go:277-292).
NoticesAreCommitted ==
    \A e \in published :
        IF e.type = "active"
        THEN [call |-> e.call, type |-> "payment_received"] \in events
        ELSE e \in events

\* A terminal status is final once the calls that were under way are over: no
\* later call reopens or flips the plan (payment.go:239, 331-333, 390-392).
SettledStaysSettled ==
    \A s \in Terminal :
        [](status = s /\ (\A k \in Calls : pc[k] \notin InTx) => [](status = s))

\* Every call comes to an end: no lock outlives its transaction and no two
\* calls wait for each other (payment.go:180, 250, 339, 398: defer Rollback).
CallsFinish == \A k \in Calls : pc[k] \in InTx ~> pc[k] = "done"

\* What a call knows between its check and the end of its transaction.
OpenCall(k) ==
    IF pc[k] \in InTx
    THEN [op |-> op[k], amount |-> amount[k], seen |-> seen[k],
          sum |-> IF op[k] # "pay" \/ pc[k] \in {"update", "sum"} THEN "due"
                  ELSE IF pc[k] = "complete" \/ wrote[k] = "completed" THEN "full"
                  ELSE "short"]
    ELSE [op |-> "none", amount |-> 0, seen |-> "absent", sum |-> "due"]

Service == INSTANCE PaymentCalls WITH open <- [k \in Calls |-> OpenCall(k)]

\* However calls overlap, wait, fail and roll back, each of them acts on the
\* status and the sum it once read and on nothing else, and writes all of its
\* transaction at once or none of it; it may overwrite a status, not a payment
\* (payment.go:43-71, 165-203, 224-279, 324-367, 383-426).
ImplementsCalls == Service!Spec

---------------------------------------------------------------------------
(* What payment/DESIGN.md says besides.                                    *)

\* payment/DESIGN.md:55: "The first path to fire wins": a plan that is
\* completed or defaulted keeps that status.
TerminalIsFinal ==
    [][\A s \in Terminal : status = s => status' = s]_vars

\* payment/DESIGN.md:44: an active plan is completed by RecordPayment when
\* the sum reaches the total: with no call under way none is fully paid and
\* still active.
FullyPaidIsCompleted ==
    InFlight = {} /\ status = "active" => paid < Total

\* payment/DESIGN.md:30-34, 40-46: the state machine and its transition rules;
\* checked of calls that do not overlap.
Lifecycle == INSTANCE PaymentLifecycle WITH
    Total <- Total, Amounts <- Amounts, status <- status, paid <- paid

ImplementsLifecycle == Lifecycle!Spec

=============================================================================
