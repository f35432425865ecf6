------------------------- MODULE PaymentPlanProofs -------------------------
(***************************************************************************)
(* Proofs for PaymentPlan, for any number of installments, any number of   *)
(* misses that default a plan, any amounts, any number of tries and any    *)
(* number of calls open at the same time.                                  *)
(***************************************************************************)
EXTENDS PaymentPlan, FiniteSetTheorems, TLAPS

---------------------------------------------------------------------------
(* The inductive invariant.                                                *)

Over == Verdicts \cup {"done", "error"}

\* missedCount counts the misses at the end of what is tracked, and the
\* installment before them, if there is one, was paid.
CountInv ==
    /\ missedCount <= tracked
    /\ \A n \in Installments : n > tracked => outcome[n] = "open"
    /\ \A n \in Installments :
          tracked - missedCount < n /\ n <= tracked => outcome[n] = "missed"
    /\ tracked > missedCount => outcome[tracked - missedCount] = "paid"

\* Where the workflow stands in its loop.
LoopInv ==
    /\ step \in {"none", "acceptance"} => tracked = 0 /\ acceptance # "received"
    /\ step \in {"interval", "grace"} => tracked < NumInstallments /\ acceptance = "received"
    /\ step \notin Over => missedCount < MaxMissed

\* The call that serves a try is open and does what the workflow asks for;
\* tries are counted from the verdict on; a payment is of an amount there is,
\* and a sum once found to reach the total still does.
ServingInv ==
    /\ serving # NoCall => step \in Verdicts /\ open[serving].op = Mark(step)
    /\ step \notin Verdicts => tries = 0
    /\ \A k \in Calls : open[k].op = "pay" => open[k].amount \in Amounts
    /\ \A k \in Calls : open[k].op = "pay" /\ open[k].sum = "full"
                             => paid + open[k].amount >= Total

\* The reasons for a verdict, which stay when the loop is over.
WhyDefaulted == MissedInARow \/ (tracked = 0 /\ acceptance # "received")
WhyCompleted ==
    tracked = NumInstallments /\ ~ MissedInARow /\ acceptance = "received"

\* The workflow asks for a verdict, or a call or a request that it has made is
\* still about.
Asked(v) ==
    \/ step = v
    \/ \E k \in Calls : open[k].op = Mark(v)
    \/ \E request \in late : request.verdict = v

VerdictInv ==
    /\ Asked("defaulted") \/ status = "defaulted" => step \in Over /\ WhyDefaulted
    /\ Asked("completed") \/ (status = "completed" /\ paid < Total)
          => step \in Over /\ WhyCompleted

IInv == TypeOK /\ CountInv /\ LoopInv /\ ServingInv /\ VerdictInv /\ CreditsArePaid

---------------------------------------------------------------------------
(* The steps of the specification, one by one.                             *)

\* What the service and its callers do, and what the workflow does to them.
ServiceStep ==
    \/ ProposePlan
    \/ \E k \in Calls :
          \/ AcceptPlan(k)
          \/ \E amount \in Amounts : RecordPayment(k, amount)
          \/ SumPayments(k)
          \/ CommitCall(k)
          \/ RollbackCall(k)
          \/ \E request \in late : LateMarkArrives(k, request)

LoopStep ==
    ReceiveAccept \/ AcceptanceTimesOut \/ IntervalElapses \/ ReceivePayment \/ GraceExpires

MarkStep ==
    \/ \E k \in Calls : MarkBegins(k)
    \/ MarkFindsVerdict
    \/ MarkCommits
    \/ MarkTryFails
    \/ MarkFails

\* A step is a stutter, a call's, a signal, or one of the workflow's.
LEMMA StepCases ==
    ASSUME [Next]_vars
    PROVE  UNCHANGED vars \/ ServiceStep \/ Signals \/ LoopStep \/ MarkStep
  BY DEF Next, Endpoints, Workflow, ServiceStep, LoopStep, MarkStep

\* What a service step does to the plan and to the calls.
CallStep ==
    \/ Service!Propose /\ UNCHANGED overlapped
    \/ \E k \in Calls :
          \/ \E o \in {"accept", "pay", "default", "complete"} :
                \E amount \in (IF o = "pay" THEN Amounts ELSE {0}) : BeginCall(k, o, amount)
          \/ Service!Sum(k) /\ UNCHANGED overlapped
          \/ Service!Commit(k) /\ UNCHANGED overlapped
          \/ Service!Rollback(k) /\ UNCHANGED overlapped
    \/ UNCHANGED serviceVars

\* Every step does one of these.
LEMMA CallStepCases ==
    ASSUME TypeOK, [Next]_vars
    PROVE  CallStep
  <1> USE PlanAssumption
  <1>1. CASE UNCHANGED vars \/ Signals \/ LoopStep
    BY <1>1 DEF vars, CallStep, Signals, StartPlanWorkflow, SignalAccept, SignalPayment,
       LoopStep, ReceiveAccept, AcceptanceTimesOut, IntervalElapses, ReceivePayment,
       GraceExpires
  <1>2. CASE ServiceStep
    <2>1. ASSUME NEW k \in Calls, NEW amount \in Amounts, RecordPayment(k, amount)
          PROVE  CallStep
      BY <2>1 DEF RecordPayment, CallStep
    <2>2. ASSUME NEW k \in Calls, AcceptPlan(k) PROVE CallStep
      BY <2>2 DEF AcceptPlan, CallStep
    <2>3. ASSUME NEW k \in Calls, NEW request \in late, LateMarkArrives(k, request)
          PROVE  CallStep
      BY <2>3 DEF LateMarkArrives, CallStep, Mark
    <2>4. ASSUME NEW k \in Calls, SumPayments(k) \/ CommitCall(k) \/ RollbackCall(k)
          PROVE  CallStep
      BY <2>4 DEF SumPayments, CommitCall, RollbackCall, CallStep
    <2>5. CASE ProposePlan
      BY <2>5 DEF ProposePlan, CallStep
    <2> QED BY <1>2, <2>1, <2>2, <2>3, <2>4, <2>5 DEF ServiceStep
  <1>3. CASE MarkStep
    <2>1. ASSUME NEW k \in Calls, MarkBegins(k) PROVE CallStep
      BY <2>1 DEF MarkBegins, CallStep, Mark
    <2>2. CASE MarkCommits
      <3>1. serving \in Calls
        BY <2>2 DEF MarkCommits, TypeOK
      <3> QED BY <2>2, <3>1 DEF MarkCommits, CallStep
    <2>3. CASE MarkFindsVerdict \/ MarkTryFails \/ MarkFails
      BY <2>3 DEF MarkFindsVerdict, MarkTryFails, MarkFails, CallStep
    <2> QED BY <1>3, <2>1, <2>2, <2>3 DEF MarkStep
  <1> QED BY <1>1, <1>2, <1>3, StepCases

\* The plan and the calls keep their types.
LEMMA ServiceTypes ==
    ASSUME TypeOK, CallStep
    PROVE  /\ status' \in Service!Statuses
           /\ paid' \in Nat
           /\ open' \in [Calls -> Service!CallStates]
           /\ overlapped' \in BOOLEAN
  <1> USE DEF TypeOK, Service!CallStates, Service!Marks
  <1>1. CASE Service!Propose /\ UNCHANGED overlapped
    BY <1>1 DEF Service!Propose, Service!Statuses
  <1>2. ASSUME NEW k \in Calls, NEW o \in {"accept", "pay", "default", "complete"},
               NEW amount \in (IF o = "pay" THEN Amounts ELSE {0}), BeginCall(k, o, amount)
        PROVE  /\ status' \in Service!Statuses /\ paid' \in Nat
               /\ open' \in [Calls -> Service!CallStates] /\ overlapped' \in BOOLEAN
    <2>1. amount \in Nat
      BY PlanAssumption
    <2> QED BY <1>2, <2>1 DEF BeginCall, Service!Begin
  <1>3. ASSUME NEW k \in Calls, Service!Sum(k)
        PROVE  /\ status' \in Service!Statuses /\ paid' \in Nat
               /\ open' \in [Calls -> Service!CallStates]
    BY <1>3 DEF Service!Sum
  <1>4. ASSUME NEW k \in Calls, Service!Commit(k)
        PROVE  /\ status' \in Service!Statuses /\ paid' \in Nat
               /\ open' \in [Calls -> Service!CallStates]
    <2>1. status' \in Service!Statuses
      BY <1>4 DEF Service!Commit, Service!Outcome, Service!Statuses, Service!Terminal
    <2>2. paid' \in Nat
      BY <1>4 DEF Service!Commit
    <2>3. open' \in [Calls -> Service!CallStates]
      BY <1>4 DEF Service!Commit, Service!NotOpen, Service!Statuses
    <2> QED BY <2>1, <2>2, <2>3
  <1>5. ASSUME NEW k \in Calls, Service!Rollback(k)
        PROVE  /\ status' \in Service!Statuses /\ paid' \in Nat
               /\ open' \in [Calls -> Service!CallStates]
    BY <1>5 DEF Service!Rollback, Service!NotOpen, Service!Statuses
  <1>6. CASE UNCHANGED serviceVars
    BY <1>6 DEF serviceVars
  <1> QED BY <1>1, <1>2, <1>3, <1>4, <1>5, <1>6 DEF CallStep

\* Type correctness, step by step.
LEMMA TypeStep ==
    ASSUME TypeOK, LoopInv, [Next]_vars
    PROVE  TypeOK'
  <1> USE PlanAssumption
      DEF signalVars, loopVars, markVars, Verdicts, Service!Terminal, Steps, Running,
          Waiting, Over, Installments
  <1>0. CallStep
    BY CallStepCases
  <1>1. CASE UNCHANGED vars
    BY <1>1 DEF vars, serviceVars, TypeOK
  <1>2. CASE ServiceStep
    <2>1. UNCHANGED <<paymentCh, step, loopVars, tries, serving>>
      BY <1>2 DEF ServiceStep, ProposePlan, AcceptPlan, RecordPayment, SumPayments, CommitCall,
         RollbackCall, LateMarkArrives
    <2>2. /\ acceptance' \in {"none", "due", "sent", "received"}
          /\ toSignal' \in Nat
          /\ late' \subseteq late
      BY <1>2 DEF ServiceStep, ProposePlan, AcceptPlan, RecordPayment, SumPayments, CommitCall,
         RollbackCall, LateMarkArrives, TypeOK
    <2> QED BY <1>0, <2>1, <2>2, ServiceTypes DEF TypeOK
  <1>3. CASE Signals
    BY <1>3 DEF Signals, StartPlanWorkflow, SignalAccept, SignalPayment, serviceVars, TypeOK
  <1>4. CASE ReceiveAccept \/ AcceptanceTimesOut \/ IntervalElapses
    BY <1>4 DEF ReceiveAccept, AcceptanceTimesOut, IntervalElapses, NextInstallment,
       serviceVars, TypeOK
  <1>5. CASE ReceivePayment
    <2>1. tracked + 1 \in 0 .. NumInstallments
      BY <1>5 DEF ReceivePayment, LoopInv, TypeOK
    <2> QED BY <1>5, <2>1 DEF ReceivePayment, NextInstallment, serviceVars, TypeOK
  <1>6. CASE GraceExpires
    <2>1. tracked + 1 \in 0 .. NumInstallments /\ missedCount + 1 \in 0 .. MaxMissed
      BY <1>6 DEF GraceExpires, LoopInv, TypeOK
    <2> QED BY <1>6, <2>1 DEF GraceExpires, NextInstallment, serviceVars, TypeOK
  <1>7. CASE MarkStep
    <2>1. /\ UNCHANGED <<signalVars, loopVars>>
          /\ step' \in Steps /\ tries' \in 0 .. MaxTries - 1
          /\ serving' \in Calls \cup {NoCall}
      BY <1>7 DEF MarkStep, MarkBegins, MarkFindsVerdict, MarkCommits, MarkTryFails, MarkFails,
         Abandon, TypeOK
    <2>2. late' \subseteq [verdict : Verdicts, try : 1 .. MaxTries]
      <3>1. tries + 1 \in 1 .. MaxTries
        BY DEF TypeOK
      <3> QED BY <1>7, <3>1
              DEF MarkStep, MarkBegins, MarkFindsVerdict, MarkCommits, MarkTryFails, MarkFails,
                  Abandon, TypeOK
    <2> QED BY <1>0, <2>1, <2>2, ServiceTypes DEF TypeOK
  <1> QED BY <1>1, <1>2, <1>3, <1>4, <1>5, <1>6, <1>7, StepCases DEF LoopStep

---------------------------------------------------------------------------
(* The loop.                                                               *)

\* Only ReceivePayment and GraceExpires move the loop on.
LEMMA LoopFrame ==
    ASSUME [Next]_vars
    PROVE  ReceivePayment \/ GraceExpires \/ UNCHANGED loopVars
  BY StepCases
     DEF vars, ServiceStep, ProposePlan, AcceptPlan, RecordPayment, SumPayments, CommitCall,
         RollbackCall, LateMarkArrives, Signals, StartPlanWorkflow, SignalAccept,
         SignalPayment, LoopStep, ReceiveAccept, AcceptanceTimesOut, IntervalElapses,
         MarkStep, MarkBegins, MarkFindsVerdict, MarkCommits, MarkTryFails, MarkFails

\* The counter of misses counts the misses in a row.
LEMMA CountStep ==
    ASSUME TypeOK, CountInv, LoopInv, [Next]_vars
    PROVE  CountInv'
  <1> USE PlanAssumption DEF Installments
  <1>1. CASE UNCHANGED loopVars
    BY <1>1 DEF loopVars, CountInv
  <1>2. CASE ReceivePayment
    <2>1. tracked < NumInstallments /\ tracked + 1 \in Installments
      BY <1>2 DEF ReceivePayment, LoopInv, TypeOK
    <2>2. /\ tracked' = tracked + 1 /\ missedCount' = 0
          /\ \A n \in Installments :
                outcome'[n] = IF n = tracked + 1 THEN "paid" ELSE outcome[n]
      BY <1>2 DEF ReceivePayment, TypeOK
    <2> QED BY <2>1, <2>2 DEF CountInv, TypeOK
  <1>3. CASE GraceExpires
    <2>1. tracked < NumInstallments /\ tracked + 1 \in Installments
      BY <1>3 DEF GraceExpires, LoopInv, TypeOK
    <2>2. /\ tracked' = tracked + 1 /\ missedCount' = missedCount + 1
          /\ \A n \in Installments :
                outcome'[n] = IF n = tracked + 1 THEN "missed" ELSE outcome[n]
      BY <1>3 DEF GraceExpires, TypeOK
    <2>3. tracked \in Nat /\ missedCount \in Nat
      BY DEF TypeOK
    <2>4. tracked > missedCount => /\ tracked - missedCount \in Installments
                                   /\ tracked - missedCount # tracked + 1
      BY <2>1, <2>3
    <2>5. tracked' > missedCount' => outcome'[tracked' - missedCount'] = "paid"
      BY <2>2, <2>3, <2>4 DEF CountInv
    <2> QED BY <2>1, <2>2, <2>3, <2>5 DEF CountInv
  <1> QED BY <1>1, <1>2, <1>3, LoopFrame

\* A step that is not the loop's moves neither the loop nor the workflow back
\* into it, and receives no acceptance.
LEMMA OutsideLoop ==
    ASSUME TypeOK, ServingInv, [Next]_vars, ~ LoopStep
    PROVE  /\ UNCHANGED loopVars
           /\ acceptance' = "received" <=> acceptance = "received"
           /\ \/ step' = step
              \/ step = "none" /\ step' = "acceptance"
              \/ step \in Verdicts /\ step' \in {"done", "error"}
  <1>1. CASE UNCHANGED vars
    BY <1>1 DEF vars, signalVars
  <1>2. CASE ServiceStep
    BY <1>2 DEF ServiceStep, ProposePlan, AcceptPlan, RecordPayment, SumPayments, CommitCall,
       RollbackCall, LateMarkArrives, signalVars
  <1>3. CASE Signals
    BY <1>3 DEF Signals, StartPlanWorkflow, SignalAccept, SignalPayment, signalVars
  <1>4. ASSUME MarkCommits
        PROVE  UNCHANGED <<loopVars, acceptance>> /\ step \in Verdicts /\ step' = "done"
    BY <1>4 DEF MarkCommits, ServingInv, signalVars
  <1>5. ASSUME MarkStep, ~ MarkCommits
        PROVE  /\ UNCHANGED <<loopVars, acceptance>>
               /\ step' = step \/ (step \in Verdicts /\ step' \in {"done", "error"})
    BY <1>5 DEF MarkStep, MarkBegins, MarkFindsVerdict, MarkTryFails, MarkFails, signalVars
  <1> QED BY <1>1, <1>2, <1>3, <1>4, <1>5, StepCases

\* The loop stays in its bounds.
LEMMA LoopKept ==
    ASSUME TypeOK, CountInv, LoopInv, ServingInv, [Next]_vars
    PROVE  LoopInv'
  <1> USE PlanAssumption DEF signalVars, loopVars, Verdicts, Service!Terminal, Over, TypeOK
  <1>1. CASE ~ LoopStep
    BY <1>1, OutsideLoop DEF LoopInv
  <1>2. CASE ReceiveAccept
    BY <1>2 DEF ReceiveAccept, NextInstallment, LoopInv
  <1>3. CASE AcceptanceTimesOut
    BY <1>3 DEF AcceptanceTimesOut, LoopInv
  <1>4. CASE IntervalElapses
    BY <1>4 DEF IntervalElapses, LoopInv
  <1>5. CASE ReceivePayment
    BY <1>5 DEF ReceivePayment, NextInstallment, LoopInv
  <1>6. CASE GraceExpires
    BY <1>6 DEF GraceExpires, NextInstallment, LoopInv
  <1> QED BY <1>1, <1>2, <1>3, <1>4, <1>5, <1>6 DEF LoopStep

---------------------------------------------------------------------------
(* The calls and the tries.                                                *)

\* What a call is about does not change while it is open, and sums only grow.
LEMMA CallsKept ==
    ASSUME TypeOK, ServingInv, CallStep
    PROVE  /\ paid <= paid'
           /\ \A k \in Calls : open'[k].op = "pay" =>
                 /\ open'[k].amount \in Amounts
                 /\ open'[k].sum = "full" => paid' + open'[k].amount >= Total
  <1> USE PlanAssumption DEF TypeOK, Service!CallStates, Service!Marks
  <1> DEFINE Kept == /\ paid <= paid'
                     /\ \A k \in Calls : open'[k].op = "pay" =>
                           /\ open'[k].amount \in Amounts
                           /\ open'[k].sum = "full" => paid' + open'[k].amount >= Total
  <1>1. CASE UNCHANGED <<paid, open>>
    BY <1>1 DEF ServingInv
  <1>2. ASSUME NEW k \in Calls, NEW o \in {"accept", "pay", "default", "complete"},
               NEW amount \in (IF o = "pay" THEN Amounts ELSE {0}), BeginCall(k, o, amount)
        PROVE  Kept
    BY <1>2 DEF BeginCall, Service!Begin, ServingInv
  <1>3. ASSUME NEW k \in Calls, Service!Sum(k) PROVE Kept
    BY <1>3 DEF Service!Sum, ServingInv
  <1>4. ASSUME NEW k \in Calls, Service!Commit(k) PROVE Kept
    <2>1. \A j \in Calls : open[j].amount \in Nat
      OBVIOUS
    <2>2. paid <= paid' /\ paid' \in Nat
      BY <1>4, <2>1 DEF Service!Commit
    <2>3. open'[k].op = "none" /\ \A j \in Calls : j # k => open'[j] = open[j]
      BY <1>4 DEF Service!Commit, Service!NotOpen
    <2> QED BY <2>1, <2>2, <2>3 DEF ServingInv
  <1>5. ASSUME NEW k \in Calls, Service!Rollback(k) PROVE Kept
    BY <1>5 DEF Service!Rollback, Service!NotOpen, ServingInv
  <1>6. Service!Propose \/ UNCHANGED serviceVars => UNCHANGED <<paid, open>>
    BY DEF Service!Propose, serviceVars
  <1> QED BY <1>1, <1>2, <1>3, <1>4, <1>5, <1>6 DEF CallStep

\* A step of the service leaves the call that serves the workflow as it is.
LEMMA ServingCallKept ==
    ASSUME TypeOK, ServingInv, ServiceStep, serving # NoCall
    PROVE  open'[serving].op = open[serving].op
  <1> USE DEF TypeOK, Service!CallStates, Service!Marks
  <1>0. serving \in Calls /\ open[serving].op # "none"
    BY DEF ServingInv, Mark
  <1>1. ASSUME NEW k \in Calls, NEW o, NEW amount, BeginCall(k, o, amount)
        PROVE  open'[serving].op = open[serving].op
    BY <1>0, <1>1 DEF BeginCall, Service!Begin, Service!IsOpen
  <1>2. ASSUME NEW k \in Calls, SumPayments(k) PROVE open'[serving].op = open[serving].op
    BY <1>0, <1>2 DEF SumPayments, Service!Sum
  <1>3. ASSUME NEW k \in Calls, CommitCall(k) \/ RollbackCall(k)
        PROVE  open'[serving].op = open[serving].op
    BY <1>0, <1>3 DEF CommitCall, RollbackCall, Service!Commit, Service!Rollback
  <1>4. CASE UNCHANGED open
    BY <1>4
  <1> QED BY <1>1, <1>2, <1>3, <1>4
          DEF ServiceStep, ProposePlan, Service!Propose, AcceptPlan, RecordPayment,
              LateMarkArrives, serviceVars

\* A try is served by a call of its own, and counted.
LEMMA ServingStep ==
    ASSUME TypeOK, ServingInv, [Next]_vars
    PROVE  ServingInv'
  <1> USE DEF Verdicts, Service!Terminal, markVars
  <1>0. CallStep
    BY CallStepCases
  <1> SUFFICES /\ serving' # NoCall => step' \in Verdicts /\ open'[serving'].op = Mark(step')
               /\ step' \notin Verdicts => tries' = 0
    BY <1>0, CallsKept DEF ServingInv
  <1>1. CASE UNCHANGED vars
    BY <1>1 DEF vars, serviceVars, ServingInv
  <1>2. CASE ServiceStep
    <2>1. UNCHANGED <<step, tries, serving>>
      BY <1>2 DEF ServiceStep, ProposePlan, AcceptPlan, RecordPayment, SumPayments, CommitCall,
         RollbackCall, LateMarkArrives
    <2> QED BY <1>2, <2>1, ServingCallKept DEF ServingInv
  <1>3. CASE Signals
    BY <1>3 DEF Signals, StartPlanWorkflow, SignalAccept, SignalPayment, serviceVars, ServingInv
  <1>4. CASE LoopStep
    BY <1>4 DEF LoopStep, ReceiveAccept, AcceptanceTimesOut, IntervalElapses, ReceivePayment,
       GraceExpires, ServingInv
  <1>5. ASSUME NEW k \in Calls, MarkBegins(k)
        PROVE  /\ serving' # NoCall => step' \in Verdicts /\ open'[serving'].op = Mark(step')
               /\ step' \notin Verdicts => tries' = 0
    BY <1>5 DEF MarkBegins, BeginCall, Service!Begin, TypeOK, ServingInv, Mark
  <1>6. CASE MarkFindsVerdict \/ MarkCommits \/ MarkTryFails \/ MarkFails
    BY <1>6 DEF MarkFindsVerdict, MarkCommits, MarkTryFails, MarkFails, Abandon
  <1> QED BY <1>1, <1>2, <1>3, <1>4, <1>5, <1>6, StepCases DEF MarkStep

---------------------------------------------------------------------------
(* The verdicts.                                                           *)

\* The counter tells whether the last MaxMissed installments were missed.
LEMMA CountTells == TypeOK /\ CountInv => (missedCount >= MaxMissed <=> MissedInARow)
  <1> SUFFICES ASSUME TypeOK, CountInv
               PROVE  missedCount >= MaxMissed <=> MissedInARow
    OBVIOUS
  <1> USE PlanAssumption DEF Installments, TypeOK
  <1>1. ASSUME missedCount >= MaxMissed PROVE MissedInARow
    <2>1. tracked >= MaxMissed
      BY <1>1 DEF CountInv
    <2>2. ASSUME NEW n \in tracked - MaxMissed + 1 .. tracked
          PROVE  outcome[n] = "missed"
      <3>1. n \in Installments /\ tracked - missedCount < n /\ n <= tracked
        BY <1>1, <2>1
      <3> QED BY <3>1 DEF CountInv
    <2> QED BY <2>1, <2>2 DEF MissedInARow
  <1>2. ASSUME missedCount < MaxMissed, MissedInARow PROVE FALSE
    <2>1. tracked >= MaxMissed /\ tracked > missedCount
      BY <1>2 DEF MissedInARow
    <2>2. outcome[tracked - missedCount] = "paid"
      BY <2>1 DEF CountInv
    <2>3. tracked - missedCount \in tracked - MaxMissed + 1 .. tracked
      BY <1>2
    <2> QED BY <1>2, <2>2, <2>3 DEF MissedInARow
  <1> QED BY <1>1, <1>2

\* Nobody but the workflow asks for a verdict: a call begun or a request left
\* behind is one of its own.
LEMMA AskedStep ==
    ASSUME TypeOK, ServingInv, [Next]_vars, NEW v \in Verdicts, Asked(v)'
    PROVE  Asked(v) \/ (LoopStep /\ step' = v)
  <1> USE DEF Verdicts, Service!Terminal, Mark
  <1>1. CASE step' = v
    BY <1>1, OutsideLoop DEF Asked
  <1>2. ASSUME NEW k \in Calls, open'[k].op = Mark(v) PROVE Asked(v)
    <2> USE DEF TypeOK, Service!CallStates
    <2>1. ASSUME NEW j \in Calls, NEW o, NEW amount, BeginCall(j, o, amount), o # Mark(v)
          PROVE  open[k].op = Mark(v)
      BY <1>2, <2>1 DEF BeginCall, Service!Begin
    <2>2. ASSUME NEW j \in Calls, Service!Sum(j) \/ Service!Commit(j) \/ Service!Rollback(j)
          PROVE  open[k].op = Mark(v)
      BY <1>2, <2>2 DEF Service!Sum, Service!Commit, Service!Rollback, Service!NotOpen
    <2>3. CASE UNCHANGED open
      BY <1>2, <2>3 DEF Asked
    <2>4. CASE ServiceStep
      <3>1. ASSUME NEW j \in Calls, NEW request \in late, LateMarkArrives(j, request)
            PROVE  Asked(v)
        <4>1. request.verdict \in Verdicts
          OBVIOUS
        <4>2. CASE request.verdict = v
          BY <3>1, <4>2 DEF Asked
        <4>3. CASE request.verdict # v
          BY <2>1, <2>3, <3>1, <4>1, <4>3 DEF LateMarkArrives, Asked, serviceVars
        <4> QED BY <4>2, <4>3
      <3>2. ASSUME NEW j \in Calls,
                   \/ AcceptPlan(j) \/ \E amount \in Amounts : RecordPayment(j, amount)
                   \/ SumPayments(j) \/ CommitCall(j) \/ RollbackCall(j)
            PROVE  Asked(v)
        BY <2>1, <2>2, <3>2
           DEF AcceptPlan, RecordPayment, SumPayments, CommitCall, RollbackCall, Asked
      <3>3. CASE ProposePlan
        BY <2>3, <3>3 DEF ProposePlan, Service!Propose
      <3> QED BY <2>4, <3>1, <3>2, <3>3 DEF ServiceStep
    <2>5. CASE MarkStep
      <3>1. ASSUME NEW j \in Calls, MarkBegins(j) PROVE Asked(v)
        <4>1. CASE step = v
          BY <4>1 DEF Asked
        <4>2. CASE step # v
          BY <2>1, <3>1, <4>2 DEF MarkBegins, Asked
        <4> QED BY <4>1, <4>2
      <3>2. CASE MarkCommits
        BY <2>2, <3>2 DEF MarkCommits, Asked
      <3>3. CASE MarkFindsVerdict \/ MarkTryFails \/ MarkFails
        BY <2>3, <3>3 DEF MarkFindsVerdict, MarkTryFails, MarkFails, serviceVars
      <3> QED BY <2>5, <3>1, <3>2, <3>3 DEF MarkStep
    <2>6. CASE UNCHANGED vars \/ Signals \/ LoopStep
      BY <2>3, <2>6
         DEF vars, Signals, StartPlanWorkflow, SignalAccept, SignalPayment, LoopStep,
             ReceiveAccept, AcceptanceTimesOut, IntervalElapses, ReceivePayment, GraceExpires,
             serviceVars
    <2> QED BY <2>4, <2>5, <2>6, StepCases
  <1>3. ASSUME NEW request \in late', request.verdict = v PROVE Asked(v)
    <2>1. request \in late \/ step = v
      BY <1>3, StepCases
         DEF vars, ServiceStep, ProposePlan, AcceptPlan, RecordPayment, SumPayments, CommitCall,
             RollbackCall, LateMarkArrives, Signals, StartPlanWorkflow, SignalAccept,
             SignalPayment, LoopStep, ReceiveAccept, AcceptanceTimesOut, IntervalElapses,
             ReceivePayment, GraceExpires, MarkStep, MarkBegins, MarkFindsVerdict, MarkCommits,
             MarkTryFails, MarkFails, Abandon, markVars
    <2> QED BY <1>3, <2>1 DEF Asked
  <1> QED BY <1>1, <1>2, <1>3 DEF Asked

\* A verdict that no payment has reached was asked for.
LEMMA VerdictSource ==
    ASSUME TypeOK, ServingInv, CallStep
    PROVE  /\ status' = "defaulted" => status = "defaulted" \/ Asked("defaulted")
           /\ status' = "completed" /\ paid' < Total
                 => (status = "completed" /\ paid < Total) \/ Asked("completed")
  <1> USE PlanAssumption DEF TypeOK, Service!CallStates
  <1>1. CASE UNCHANGED <<status, paid>>
    BY <1>1
  <1>2. CASE Service!Propose
    BY <1>2 DEF Service!Propose
  <1>3. ASSUME NEW k \in Calls, Service!Commit(k)
        PROVE  /\ status' = "defaulted" => status = "defaulted" \/ Asked("defaulted")
               /\ status' = "completed" /\ paid' < Total
                     => (status = "completed" /\ paid < Total) \/ Asked("completed")
    <2>1. /\ open[k].op = "default" => Asked("defaulted")
          /\ open[k].op = "complete" => Asked("completed")
      BY DEF Asked, Mark
    <2>2. open[k].op = "pay" => paid' = paid + open[k].amount
      BY <1>3 DEF Service!Commit
    <2>3. CASE open[k].op = "pay"
      BY <1>3, <2>2, <2>3 DEF Service!Commit, Service!Outcome, ServingInv
    <2>4. CASE open[k].op # "pay"
      BY <1>3, <2>1, <2>4 DEF Service!Commit, Service!Outcome, Service!IsOpen, Service!Marks
    <2> QED BY <2>3, <2>4
  <1> QED BY <1>1, <1>2, <1>3
          DEF CallStep, BeginCall, Service!Begin, Service!Sum, Service!Rollback, serviceVars

\* The reasons do not change while the loop stands still.
LEMMA ReasonFrame ==
    ASSUME UNCHANGED loopVars, acceptance' = "received" <=> acceptance = "received"
    PROVE  /\ WhyCompleted => WhyCompleted'
           /\ WhyDefaulted => WhyDefaulted'
  BY DEF loopVars, MissedInARow, WhyCompleted, WhyDefaulted

\* A verdict is given for its reason.
LEMMA VerdictStep ==
    ASSUME TypeOK, CountInv, LoopInv, ServingInv, VerdictInv, [Next]_vars
    PROVE  VerdictInv'
  <1> USE PlanAssumption DEF Verdicts, Service!Terminal, Over
  <1>0. CallStep
    BY CallStepCases
  <1>1. CASE ~ LoopStep
    <2>1. /\ Asked("defaulted")' => Asked("defaulted")
          /\ Asked("completed")' => Asked("completed")
      BY <1>1, AskedStep
    <2>2. step \in Over => step' \in Over
      BY <1>1, OutsideLoop
    <2>3. (WhyCompleted => WhyCompleted') /\ (WhyDefaulted => WhyDefaulted')
      BY <1>1, OutsideLoop, ReasonFrame
    <2> QED BY <1>0, <2>1, <2>2, <2>3, VerdictSource DEF VerdictInv
  <1>2. CASE LoopStep
    <2>1. step \notin Over /\ UNCHANGED <<status, paid>>
      BY <1>2 DEF LoopStep, ReceiveAccept, AcceptanceTimesOut, IntervalElapses, ReceivePayment,
         GraceExpires, serviceVars
    <2>2. /\ ~ Asked("defaulted") /\ ~ Asked("completed")
          /\ status' # "defaulted" /\ ~ (status' = "completed" /\ paid' < Total)
      BY <2>1 DEF VerdictInv
    <2>3. /\ Asked("defaulted")' => step' = "defaulted"
          /\ Asked("completed")' => step' = "completed"
      BY <2>2, AskedStep
    <2>4. missedCount' >= MaxMissed <=> MissedInARow'
      <3>1. TypeOK' /\ CountInv'
        BY TypeStep, CountStep
      <3>2. (TypeOK /\ CountInv => (missedCount >= MaxMissed <=> MissedInARow))'
        BY CountTells, PTL
      <3> QED BY <3>1, <3>2
    <2>5. step' = "defaulted" => WhyDefaulted'
      <3>1. CASE AcceptanceTimesOut
        BY <3>1 DEF AcceptanceTimesOut, LoopInv, WhyDefaulted, loopVars, signalVars
      <3>2. CASE GraceExpires
        BY <2>4, <3>2 DEF GraceExpires, NextInstallment, WhyDefaulted, TypeOK
      <3> QED BY <1>2, <3>1, <3>2
              DEF LoopStep, ReceiveAccept, IntervalElapses, ReceivePayment, NextInstallment
    <2>6. step' = "completed" => WhyCompleted'
      <3>1. CASE ReceiveAccept
        BY <2>4, <3>1 DEF ReceiveAccept, NextInstallment, LoopInv, WhyCompleted, loopVars, TypeOK
      <3>2. CASE ReceivePayment
        BY <2>4, <3>2 DEF ReceivePayment, NextInstallment, LoopInv, WhyCompleted, TypeOK
      <3>3. CASE GraceExpires
        BY <2>4, <3>3 DEF GraceExpires, NextInstallment, LoopInv, WhyCompleted, TypeOK, signalVars
      <3> QED BY <1>2, <3>1, <3>2, <3>3 DEF LoopStep, AcceptanceTimesOut, IntervalElapses
    <2> QED BY <2>2, <2>3, <2>5, <2>6 DEF VerdictInv
  <1> QED BY <1>1, <1>2

---------------------------------------------------------------------------
(* The credits.                                                            *)

\* The number of paid installments is a natural number.
LEMMA PaidFinite ==
    ASSUME TypeOK
    PROVE  IsFiniteSet(PaidInstallments) /\ Cardinality(PaidInstallments) \in Nat
  <1>1. IsFiniteSet(Installments)
    BY PlanAssumption, FS_Interval DEF Installments
  <1>2. IsFiniteSet(PaidInstallments)
    BY <1>1, FS_Subset DEF PaidInstallments
  <1> QED BY <1>2, FS_CardinalityType

\* The arithmetic of a step that leaves the paid installments alone.
LEMMA SumsCarryOver ==
    \A n, a, b, c, x, y, z \in Nat :
        n + a + b <= c /\ x + y + c <= a + b + z => n + x + y <= z
  OBVIOUS

LEMMA AmountsPositive == \A a \in Amounts : a \in Nat /\ a >= 1
  BY PlanAssumption

\* A payment committed is one signal to give; no signal is given twice.
LEMMA CreditStep ==
    ASSUME TypeOK, CountInv, LoopInv, ServingInv, CreditsArePaid, [Next]_vars
    PROVE  CreditsArePaid'
  <1> DEFINE N == Cardinality(PaidInstallments)
  <1>0. /\ N \in Nat /\ paymentCh \in Nat /\ toSignal \in Nat /\ paid \in Nat
        /\ N + paymentCh + toSignal <= paid
    BY PaidFinite DEF TypeOK, CreditsArePaid
  <1>1. CASE ReceivePayment
    <2>1. tracked + 1 \in Installments
      BY <1>1, PlanAssumption DEF ReceivePayment, LoopInv, TypeOK, Installments
    <2>2. tracked + 1 \notin PaidInstallments
      BY <2>1 DEF PaidInstallments, CountInv, TypeOK
    <2>3. PaidInstallments' = PaidInstallments \cup {tracked + 1}
      BY <1>1, <2>1 DEF ReceivePayment, PaidInstallments, TypeOK
    <2>4. N' = N + 1
      BY <2>2, <2>3, PaidFinite, FS_AddElement
    <2>5. paymentCh' = paymentCh - 1 /\ paid' = paid /\ toSignal' = toSignal
      BY <1>1 DEF ReceivePayment, serviceVars
    <2> QED BY <1>0, <2>4, <2>5 DEF CreditsArePaid
  <1>2. CASE GraceExpires
    <2>1. tracked + 1 \in Installments
      BY <1>2, PlanAssumption DEF GraceExpires, LoopInv, TypeOK, Installments
    <2>2. tracked + 1 \notin PaidInstallments
      BY <2>1 DEF PaidInstallments, CountInv, TypeOK
    <2>3. PaidInstallments' = PaidInstallments
      BY <1>2, <2>2 DEF GraceExpires, PaidInstallments, TypeOK
    <2> QED BY <1>2, <2>3 DEF GraceExpires, CreditsArePaid, serviceVars, signalVars
  <1>3. CASE UNCHANGED loopVars /\ ~ ReceivePayment /\ ~ GraceExpires
    <2>1. N' = N
      BY <1>3 DEF loopVars, PaidInstallments
    <2> DEFINE Carried == /\ paymentCh' + toSignal' + paid <= paymentCh + toSignal + paid'
                          /\ paymentCh' \in Nat /\ toSignal' \in Nat /\ paid' \in Nat
    <2>2. Carried
      <3>0. CallStep /\ paid <= paid' /\ paid' \in Nat
        BY CallStepCases, CallsKept, ServiceTypes
      <3>1. ASSUME UNCHANGED <<paymentCh, toSignal>> PROVE Carried
        <4>1. \A a, b, c, d \in Nat : c <= d => a + b + c <= a + b + d
          OBVIOUS
        <4> QED BY <1>0, <3>0, <3>1, <4>1
      <3>2. ASSUME NEW k \in Calls, CommitCall(k) PROVE Carried
        <4>1. CASE open[k].op = "pay"
          <5>1. open[k].amount \in Nat /\ open[k].amount >= 1
            BY <4>1, AmountsPositive DEF ServingInv
          <5>2. /\ paid' = paid + open[k].amount /\ toSignal' = toSignal + 1
                /\ paymentCh' = paymentCh
            BY <3>2, <4>1 DEF CommitCall, Service!Commit
          <5> QED BY <1>0, <5>1, <5>2
        <4>2. CASE open[k].op # "pay"
          BY <3>1, <3>2, <4>2 DEF CommitCall
        <4> QED BY <4>1, <4>2
      <3>3. CASE SignalPayment
        BY <1>0, <3>3 DEF SignalPayment, serviceVars
      <3> HIDE DEF Carried
      <3>4. CASE UNCHANGED vars \/ MarkStep
        BY <3>1, <3>4 DEF vars, MarkStep, MarkBegins, MarkFindsVerdict, MarkCommits,
           MarkTryFails, MarkFails, signalVars
      <3>5. CASE ServiceStep
        BY <3>1, <3>2, <3>5 DEF ServiceStep, ProposePlan, AcceptPlan, RecordPayment,
           SumPayments, RollbackCall, LateMarkArrives, signalVars
      <3>6. CASE Signals \/ LoopStep
        BY <1>3, <3>1, <3>3, <3>6 DEF Signals, StartPlanWorkflow, SignalAccept, LoopStep,
           ReceiveAccept, AcceptanceTimesOut, IntervalElapses, signalVars
      <3> QED BY <3>4, <3>5, <3>6, StepCases
    <2>3. N + paymentCh' + toSignal' <= paid'
      BY <1>0, <2>2, SumsCarryOver
    <2> QED BY <2>1, <2>3 DEF CreditsArePaid
  <1> QED BY <1>1, <1>2, <1>3, LoopFrame

---------------------------------------------------------------------------
(* The invariants, however calls overlap.                                  *)

\* The conjunction is inductive.
LEMMA Invariance == Spec => []IInv
  <1>1. Init => IInv
    <2> SUFFICES ASSUME Init PROVE IInv
      OBVIOUS
    <2> USE PlanAssumption DEF Init, Service!Init, Service!NotOpen, Verdicts, Service!Terminal
    <2>1. TypeOK
      <3>1. open \in [Calls -> Service!CallStates]
        BY DEF Service!CallStates, Service!Statuses
      <3>2. 0 \in 0 .. MaxTries - 1 /\ 0 \in 0 .. NumInstallments /\ 0 \in 0 .. MaxMissed
        OBVIOUS
      <3> QED BY <3>1, <3>2 DEF TypeOK, Steps, Service!Statuses
    <2>2. CountInv /\ LoopInv
      BY DEF CountInv, LoopInv, Installments, Over
    <2>3. ServingInv /\ VerdictInv
      BY DEF ServingInv, VerdictInv, Asked, Mark
    <2>4. CreditsArePaid
      <3>1. PaidInstallments = {}
        BY DEF PaidInstallments
      <3> QED BY <3>1, FS_EmptySet DEF CreditsArePaid
    <2> QED BY <2>1, <2>2, <2>3, <2>4 DEF IInv
  <1>2. IInv /\ [Next]_vars => IInv'
    BY TypeStep, CountStep, LoopKept, ServingStep, VerdictStep, CreditStep DEF IInv
  <1> QED BY <1>1, <1>2, PTL DEF Spec

\* Every reachable state of the plan, its calls and its workflow is of its type.
THEOREM TypeCorrect == Spec => []TypeOK
  <1>1. IInv => TypeOK
    BY DEF IInv
  <1> QED BY <1>1, Invariance, PTL

\* However marks, payments and acceptances overlap, no plan is ever defaulted but
\* for an acceptance the workflow was not told of, or for MaxMissed installments
\* missed in a row.
THEOREM DefaultEarned == Spec => []DefaultIsEarned
  <1>1. IInv => DefaultIsEarned
    BY DEF IInv, VerdictInv, WhyDefaulted, DefaultIsEarned
  <1> QED BY <1>1, Invariance, PTL

\* A plan completed without being paid up has been through all installments,
\* though the sum a payment completes it on may be out of date.
THEOREM CompletedTracked == Spec => []CompletedIsTracked
  <1>1. IInv => CompletedIsTracked
    BY DEF IInv, VerdictInv, WhyCompleted, CompletedIsTracked
  <1> QED BY <1>1, Invariance, PTL

\* No payment is counted for two installments.
THEOREM CreditsPaid == Spec => []CreditsArePaid
  <1>1. IInv => CreditsArePaid
    BY DEF IInv
  <1> QED BY <1>1, Invariance, PTL

---------------------------------------------------------------------------
(* The documented state machine, until two calls overlap.                  *)

\* A plan whose acceptance was told, is in the channel or was received has left
\* the negotiation for good.
AcceptedInv ==
    /\ status = "absent" => \A k \in Calls : ~ Service!IsOpen(k)
    /\ acceptance # "none" => status \notin {"absent", "proposed"}

\* What the one call under way has seen is still so, and so is what its check
\* and its sum made of it.
SerialInv ==
    ~ overlapped =>
        /\ \A j, k \in Calls : Service!IsOpen(j) /\ Service!IsOpen(k) => j = k
        /\ \A k \in Calls : Service!IsOpen(k) =>
              /\ open[k].seen = status /\ Service!Admits(open[k].op, status)
              /\ open[k].op = "pay" /\ open[k].sum = "short" => paid + open[k].amount < Total
        /\ status = "active" => paid < Total
        /\ step = "done" => status \in Verdicts

SInv == IInv /\ AcceptedInv /\ SerialInv

\* Acceptances are told once they are committed, and no commit takes them back.
LEMMA AcceptedStep ==
    ASSUME IInv, AcceptedInv, [Next]_vars
    PROVE  AcceptedInv'
  <1> USE DEF Service!IsOpen
  <1>0. TypeOK /\ CallStep
    BY CallStepCases DEF IInv
  <1>1. status' = "absent" => status = "absent" /\ \A k \in Calls : open'[k].op = "none"
    <2> SUFFICES ASSUME status' = "absent"
                 PROVE  status = "absent" /\ \A k \in Calls : open'[k].op = "none"
      OBVIOUS
    <2>1. ASSUME NEW k \in Calls, NEW o, NEW amount, BeginCall(k, o, amount)
          PROVE  status' # "absent"
      BY <1>0, <2>1 DEF BeginCall, Service!Begin, Service!Admits, Service!Statuses
    <2>2. ASSUME NEW k \in Calls, Service!Sum(k) \/ Service!Commit(k) \/ Service!Rollback(k)
          PROVE  status' # "absent"
      BY <2>2 DEF Service!Sum, Service!Commit, Service!Rollback, Service!Outcome, AcceptedInv
    <2> QED BY <1>0, <2>1, <2>2
            DEF CallStep, Service!Propose, serviceVars, AcceptedInv
  <1>2. status \notin {"absent", "proposed"} => status' \notin {"absent", "proposed"}
    BY <1>0 DEF CallStep, BeginCall, Service!Begin, Service!Propose, Service!Sum,
       Service!Commit, Service!Rollback, Service!Outcome, serviceVars
  <1>3. acceptance = "none" /\ acceptance' # "none" => status' = "accepted"
    <2>1. ASSUME NEW k \in Calls, CommitCall(k), acceptance' # acceptance
          PROVE  status' = "accepted"
      BY <2>1 DEF CommitCall, Service!Commit, Service!Outcome
    <2> QED BY <2>1, StepCases
            DEF vars, ServiceStep, ProposePlan, AcceptPlan, RecordPayment, SumPayments,
                RollbackCall, LateMarkArrives, Signals, StartPlanWorkflow, SignalAccept,
                SignalPayment, LoopStep, ReceiveAccept, AcceptanceTimesOut, IntervalElapses,
                ReceivePayment, GraceExpires, MarkStep, MarkBegins, MarkFindsVerdict,
                MarkCommits, MarkTryFails, MarkFails, signalVars
  <1> QED BY <1>1, <1>2, <1>3 DEF AcceptedInv

\* A call that commits alone makes a step of the state machine.
LEMMA SerialCommit ==
    ASSUME SInv, ~ overlapped, NEW k \in Calls, Service!Commit(k)
    PROVE  /\ Lifecycle!Next
           /\ status' = "active" => paid' < Total
           /\ status \notin Verdicts
           /\ \A j \in Calls : ~ Service!IsOpen(j)'
  <1> USE PlanAssumption DEF Service!IsOpen, Service!Terminal
  <1>1. /\ open[k].op # "none" /\ open[k].seen = status
        /\ Service!Admits(open[k].op, status)
    BY DEF Service!Commit, SInv, SerialInv
  <1>2. /\ open \in [Calls -> Service!CallStates] /\ paid \in Nat
        /\ \A j \in Calls : j # k => open[j].op = "none"
    BY <1>1 DEF SInv, IInv, TypeOK, SerialInv
  <1>3. \A j \in Calls : ~ Service!IsOpen(j)'
    BY <1>2 DEF Service!Commit, Service!NotOpen
  <1>4. status \notin Verdicts
    BY <1>1 DEF Service!Admits, Verdicts, Service!Marks
  <1>5. CASE open[k].op = "accept"
    BY <1>1, <1>3, <1>4, <1>5
       DEF Service!Commit, Service!Outcome, Service!Admits, Service!Marks, Lifecycle!Next,
           Lifecycle!Accept
  <1>6. CASE open[k].op = "default"
    <2>1. status \in {"proposed", "accepted", "active"}
      BY <1>1, <1>6 DEF Service!Admits, Service!Statuses
    <2> QED BY <1>3, <1>4, <1>6, <2>1
            DEF Service!Commit, Service!Outcome, Lifecycle!Next, Lifecycle!Default
  <1>7. CASE open[k].op = "complete"
    <2>1. Asked("completed")
      BY <1>7 DEF Asked, Mark
    <2>2. acceptance = "received"
      BY <2>1 DEF SInv, IInv, VerdictInv, WhyCompleted
    <2>3. status \in {"accepted", "active"}
      BY <1>1, <1>7, <2>2 DEF Service!Admits, Service!Statuses, SInv, AcceptedInv
    <2> QED BY <1>3, <1>4, <1>7, <2>3
            DEF Service!Commit, Service!Outcome, Lifecycle!Next, Lifecycle!Complete
  <1>8. CASE open[k].op = "pay"
    <2>1. status \in {"accepted", "active"} /\ open[k].sum \in {"short", "full"}
      BY <1>1, <1>2, <1>8 DEF Service!Admits, Service!Marks, Service!Commit, Service!CallStates
    <2>2. open[k].amount \in Amounts /\ open[k].amount \in Nat
      BY <1>8 DEF SInv, IInv, ServingInv
    <2>3. paid' = paid + open[k].amount
      BY <1>8 DEF Service!Commit
    <2>4. open[k].sum = "full" => paid' >= Total
      BY <1>8, <2>3 DEF SInv, IInv, ServingInv
    <2>5. open[k].sum = "short" => paid' < Total
      BY <1>1, <1>8, <2>3 DEF SInv, SerialInv
    <2>6. status' = IF open[k].sum = "full" THEN "completed" ELSE "active"
      BY <1>1, <1>8, <2>1 DEF Service!Commit, Service!Outcome
    <2>7. Lifecycle!Pay(open[k].amount)
      <3>1. paid' \in Nat
        BY <1>2, <2>2, <2>3
      <3>2. paid' >= Total <=> open[k].sum = "full"
        BY <2>1, <2>4, <2>5, <3>1
      <3> QED BY <2>1, <2>3, <2>6, <3>2 DEF Lifecycle!Pay
    <2> QED BY <1>3, <1>4, <2>1, <2>2, <2>5, <2>6, <2>7 DEF Lifecycle!Next
  <1> QED BY <1>1, <1>2, <1>5, <1>6, <1>7, <1>8 DEF Service!CallStates, Service!Marks

\* The workflow is done when it was told of a verdict that was there.
LEMMA DoneStep ==
    ASSUME IInv, [Next]_vars, step' = "done", step # "done"
    PROVE  status' \in Verdicts
  <1> USE DEF Verdicts, Service!Terminal
  <1>1. CASE MarkFindsVerdict
    BY <1>1 DEF MarkFindsVerdict, serviceVars
  <1>2. CASE MarkCommits
    <2>1. step \in Verdicts /\ open[serving].op = Mark(step)
      BY <1>2 DEF MarkCommits, IInv, ServingInv
    <2> QED BY <1>2, <2>1 DEF MarkCommits, Service!Commit, Service!Outcome, Mark
  <1>3. ASSUME ~ MarkFindsVerdict, ~ MarkCommits PROVE FALSE
    BY <1>3, StepCases
       DEF vars, ServiceStep, ProposePlan, AcceptPlan, RecordPayment, SumPayments, CommitCall,
           RollbackCall, LateMarkArrives, Signals, StartPlanWorkflow, SignalAccept,
           SignalPayment, LoopStep, ReceiveAccept, AcceptanceTimesOut, IntervalElapses,
           ReceivePayment, GraceExpires, NextInstallment, MarkStep, MarkBegins, MarkTryFails,
           MarkFails
  <1> QED BY <1>1, <1>2, <1>3

\* Until two calls overlap, a call finds at its commit what it found at its check.
LEMMA SerialStep ==
    ASSUME SInv, [Next]_vars
    PROVE  SerialInv'
  <1> USE DEF Service!IsOpen
  <1> SUFFICES ASSUME ~ overlapped' PROVE SerialInv'
    BY DEF SerialInv
  <1>0. /\ TypeOK /\ AcceptedInv /\ ServingInv /\ CallStep /\ paid \in Nat
        /\ open \in [Calls -> Service!CallStates]
    BY CallStepCases DEF SInv, IInv, TypeOK
  <1>1. ~ overlapped
    BY <1>0 DEF CallStep, BeginCall, serviceVars
  <1>2. SerialInv /\ step = "done" => status \in Verdicts
    BY <1>1 DEF SerialInv
  <1> DEFINE Alone ==
        /\ \A i, j \in Calls : open'[i].op # "none" /\ open'[j].op # "none" => i = j
        /\ \A j \in Calls : open'[j].op # "none" =>
              /\ open'[j].seen = status' /\ Service!Admits(open'[j].op, status')
              /\ open'[j].op = "pay" /\ open'[j].sum = "short"
                    => paid' + open'[j].amount < Total
        /\ status' = "active" => paid' < Total
        /\ status \in Verdicts => status' = status
  <1>3. SerialInv
    BY DEF SInv
  <1>4. ASSUME UNCHANGED <<status, paid, open>> PROVE Alone
    BY <1>1, <1>3, <1>4 DEF SerialInv
  <1>5. ASSUME Service!Propose PROVE Alone
    <2>1. status = "absent" /\ status' = "proposed" /\ UNCHANGED <<paid, open>>
      BY <1>5 DEF Service!Propose
    <2>2. \A j \in Calls : open[j].op = "none"
      BY <1>1, <1>3, <2>1 DEF SerialInv, Service!Admits, Service!Marks, Service!Terminal
    <2> QED BY <2>1, <2>2 DEF Verdicts, Service!Terminal
  <1>6. ASSUME NEW k \in Calls, NEW o, NEW amount, BeginCall(k, o, amount)
        PROVE  Alone
    <2>1. \A j \in Calls : open[j].op = "none"
      BY <1>6 DEF BeginCall
    <2>2. /\ open'[k] = [op |-> o, amount |-> amount, seen |-> status, sum |-> "due"]
          /\ \A j \in Calls : j # k => open'[j].op = "none"
          /\ Service!Admits(o, status) /\ UNCHANGED <<status, paid>>
      BY <1>0, <1>6, <2>1 DEF BeginCall, Service!Begin
    <2> QED BY <1>1, <1>3, <2>2 DEF SerialInv
  <1>7. ASSUME NEW k \in Calls, Service!Sum(k) PROVE Alone
    <2>1. /\ open[k].op = "pay" /\ UNCHANGED <<status, paid>>
          /\ open[k].amount \in Nat /\ Total \in Nat
      BY <1>0, <1>7, PlanAssumption DEF Service!Sum, Service!CallStates
    <2>2. /\ open'[k].op = open[k].op /\ open'[k].seen = open[k].seen
          /\ open'[k].amount = open[k].amount
          /\ open'[k].sum = IF paid + open[k].amount >= Total THEN "full" ELSE "short"
          /\ \A j \in Calls : j # k => open'[j] = open[j]
      BY <1>0, <1>7 DEF Service!Sum, Service!CallStates
    <2>3. open'[k].sum = "short" => paid + open[k].amount < Total
      BY <1>0, <2>1, <2>2
    <2> QED BY <1>1, <1>3, <2>1, <2>2, <2>3 DEF SerialInv
  <1>8. ASSUME NEW k \in Calls, Service!Commit(k) PROVE Alone
    BY <1>1, <1>8, SerialCommit
  <1>9. ASSUME NEW k \in Calls, Service!Rollback(k) PROVE Alone
    <2>1. /\ open'[k].op = "none" /\ UNCHANGED <<status, paid>>
          /\ \A j \in Calls : j # k => open'[j] = open[j]
      BY <1>0, <1>9 DEF Service!Rollback, Service!NotOpen
    <2> QED BY <1>1, <1>3, <2>1 DEF SerialInv
  <1>10. Alone
    <2> HIDE DEF Alone
    <2> QED BY <1>0, <1>4, <1>5, <1>6, <1>7, <1>8, <1>9 DEF CallStep, serviceVars
  <1>11. step' = "done" => status' \in Verdicts
    BY <1>2, <1>3, <1>10, DoneStep DEF SInv
  <1> QED BY <1>10, <1>11 DEF SerialInv

LEMMA SerialInvariance == Spec => []SInv
  <1>1. Init => AcceptedInv /\ SerialInv
    BY DEF Init, Service!Init, Service!NotOpen, Service!IsOpen, AcceptedInv, SerialInv
  <1>2. SInv /\ [Next]_vars => AcceptedInv' /\ SerialInv'
    BY AcceptedStep, SerialStep DEF SInv
  <1> QED BY <1>1, <1>2, Invariance, PTL DEF Spec, SInv

\* Until two calls overlap, the plan under its workflow makes no step that
\* payment/DESIGN.md:30-46 does not have: no verdict is left or flipped, no
\* payment is taken by a plan nobody accepted, and the marks, retried and late
\* ones included, complete accepted plans only.
THEOREM FollowsDocumented == Spec => FollowsLifecycle
  <1>1. Init => Lifecycle!Init
    BY DEF Init, Service!Init, Lifecycle!Init
  <1>2. SInv /\ [Next]_vars
           => [~ overlapped' => Lifecycle!Next \/ UNCHANGED Lifecycle!vars]_vars
    <2> SUFFICES ASSUME SInv, [Next]_vars, ~ overlapped'
                 PROVE  Lifecycle!Next \/ UNCHANGED Lifecycle!vars
      OBVIOUS
    <2>0. CallStep
      BY CallStepCases DEF SInv, IInv
    <2>1. ~ overlapped
      BY <2>0 DEF CallStep, BeginCall, serviceVars
    <2>2. ASSUME NEW k \in Calls, Service!Commit(k) PROVE Lifecycle!Next
      BY <2>1, <2>2, SerialCommit
    <2>3. CASE Service!Propose
      BY <2>3 DEF Service!Propose, Lifecycle!Next, Lifecycle!Propose
    <2>4. CASE UNCHANGED <<status, paid>>
      BY <2>4 DEF Lifecycle!vars
    <2> QED BY <2>0, <2>2, <2>3, <2>4
            DEF CallStep, BeginCall, Service!Begin, Service!Sum, Service!Rollback, serviceVars
  <1> QED BY <1>1, <1>2, SerialInvariance, PTL DEF Spec, FollowsLifecycle

---------------------------------------------------------------------------
(* The safety half of WorkflowEnds: the workflow has a bounded number of   *)
(* steps, and is done on a verdict only.                                   *)

\* The workflow is done on a verdict, whatever overlaps its mark, and that
\* verdict stands as long as no two calls have overlapped
\* (payment_workflow.go:50-53, 104-118; payment.go:331-333, 390-392).
THEOREM DoneHasVerdict ==
    Spec => /\ [][step' = "done" /\ step # "done" => status' \in Verdicts]_vars
            /\ [](step = "done" /\ ~ overlapped => status \in Verdicts)
  <1>1. SInv /\ [Next]_vars => [step' = "done" /\ step # "done" => status' \in Verdicts]_vars
    BY DoneStep DEF SInv
  <1>2. SInv => (step = "done" /\ ~ overlapped => status \in Verdicts)
    BY DEF SInv, SerialInv
  <1> QED BY <1>1, <1>2, SerialInvariance, PTL DEF Spec

\* How many steps the workflow can still take: a try is two, its request's
\* arrival and its end.
StepsLeft ==
    IF step = "acceptance" THEN 2 * NumInstallments + 2 * MaxTries + 1
    ELSE IF step = "interval" THEN 2 * (NumInstallments - tracked) + 2 * MaxTries
    ELSE IF step = "grace" THEN 2 * (NumInstallments - tracked) + 2 * MaxTries - 1
    ELSE IF step \in Verdicts
    THEN 2 * (MaxTries - tries) - (IF serving = NoCall THEN 0 ELSE 1)
    ELSE 0

\* No wait of the workflow repeats: each of its steps uses up one of those it had
\* left, whatever signals come and calls overlap in between, and nothing gives it
\* more (payment_workflow.go:43-118).
THEOREM WorkflowIsBounded ==
    Spec => /\ [](StepsLeft \in 0 .. 2 * NumInstallments + 2 * MaxTries + 1)
            /\ [](step \in Running => StepsLeft > 0)
            /\ [][/\ Workflow => StepsLeft' < StepsLeft
                  /\ step # "none" /\ ~ Workflow => StepsLeft' = StepsLeft]_vars
  <1> USE PlanAssumption DEF Verdicts, Service!Terminal
  <1>1. IInv => /\ StepsLeft \in 0 .. 2 * NumInstallments + 2 * MaxTries + 1
                /\ step \in Running => StepsLeft > 0
    BY DEF IInv, TypeOK, LoopInv, StepsLeft, Running, Waiting, Over
  <1>2. IInv /\ [Next]_vars =>
          [/\ Workflow => StepsLeft' < StepsLeft
           /\ step # "none" /\ ~ Workflow => StepsLeft' = StepsLeft]_vars
    <2> SUFFICES ASSUME IInv, [Next]_vars
                 PROVE  /\ Workflow => StepsLeft' < StepsLeft
                        /\ step # "none" /\ ~ Workflow => StepsLeft' = StepsLeft
      OBVIOUS
    <2>0. /\ tracked \in 0 .. NumInstallments /\ tries \in 0 .. MaxTries - 1
          /\ LoopInv /\ ServingInv /\ TypeOK
      BY DEF IInv, TypeOK
    <2> USE <2>0 DEF LoopInv, StepsLeft, NextInstallment, loopVars, markVars
    <2>1. ASSUME step \notin Verdicts PROVE tries = 0 /\ serving = NoCall
      BY <2>1 DEF ServingInv
    <2>2. ASSUME ReceiveAccept PROVE StepsLeft' < StepsLeft
      BY <2>1, <2>2 DEF ReceiveAccept
    <2>3. ASSUME AcceptanceTimesOut PROVE StepsLeft' < StepsLeft
      BY <2>1, <2>3 DEF AcceptanceTimesOut
    <2>4. ASSUME IntervalElapses PROVE StepsLeft' < StepsLeft
      BY <2>4 DEF IntervalElapses
    <2>5. ASSUME ReceivePayment PROVE StepsLeft' < StepsLeft
      BY <2>1, <2>5 DEF ReceivePayment
    <2>6. ASSUME GraceExpires PROVE StepsLeft' < StepsLeft
      BY <2>1, <2>6 DEF GraceExpires
    <2>7. ASSUME NEW k \in Calls, MarkBegins(k) PROVE StepsLeft' < StepsLeft
      BY <2>7 DEF MarkBegins
    <2>8. ASSUME MarkFindsVerdict \/ MarkFails PROVE StepsLeft' < StepsLeft
      BY <2>8 DEF MarkFindsVerdict, MarkFails
    <2>9. ASSUME MarkCommits PROVE StepsLeft' < StepsLeft
      BY <2>9 DEF MarkCommits, ServingInv
    <2>10. ASSUME MarkTryFails PROVE StepsLeft' < StepsLeft
      BY <2>10 DEF MarkTryFails, Abandon
    <2>11. ASSUME ~ Workflow, step # "none" PROVE StepsLeft' = StepsLeft
      <3>1. UNCHANGED <<step, tracked, tries, serving>>
        BY <2>11, StepCases
           DEF vars, Workflow, ServiceStep, ProposePlan, AcceptPlan, RecordPayment, SumPayments,
               CommitCall, RollbackCall, LateMarkArrives, Signals, StartPlanWorkflow,
               SignalAccept, SignalPayment, LoopStep, MarkStep
      <3> QED BY <3>1
    <2> QED BY <2>2, <2>3, <2>4, <2>5, <2>6, <2>7, <2>8, <2>9, <2>10, <2>11 DEF Workflow
  <1> QED BY <1>1, <1>2, Invariance, PTL DEF Spec

=============================================================================
