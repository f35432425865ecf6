--------------------------- MODULE ContactProofs ---------------------------
(***************************************************************************)
(* Invariance proofs for Contact: every safety property holds for any set  *)
(* of consumers and attempts, any cap and any number of tries.             *)
(***************************************************************************)
EXTENDS Contact, FiniteSetTheorems, TLAPS

---------------------------------------------------------------------------
(* The inductive invariant, in parts.                                      *)

Counted(a) == handler[a] = "counted" \/ wf[a] # "none"

\* Where the handler, the workflow and the row of an attempt can stand
\* together.
HandlerInv ==
    /\ \A a \in Attempts :
          /\ handler[a] \in {"idle", "fetched"} => row[a].status = "absent"
          /\ handler[a] \in {"inserted", "counted"} => row[a].status # "absent"
          /\ handler[a] # "done" => wf[a] = "none" /\ a \notin aged
          /\ wf[a] # "none" => row[a].status # "absent"
    /\ \A r \in late : wf[r.attempt] # "none"

\* What the workflow has decided at each of its steps.
DecisionInv ==
    \A a \in Attempts :
        /\ wf[a] \in {"none", "check"} => decision[a] = "none"
        /\ wf[a] \in {"sanitize", "deliver", "score"} => decision[a] = "allowed"
        /\ wf[a] \in WriteActivities \cup {"completed"} => decision[a] # "none"
        /\ wf[a] = "publishInteraction" => decision[a] = "allowed"
        /\ \A op \in WriteActivities :
              [attempt |-> a, op |-> op] \in late => decision[a] # "none"
        /\ [attempt |-> a, op |-> "publishInteraction"] \in late
              => decision[a] = "allowed"

\* A delivery outcome in the table is the workflow's, with sanitized content.
OutcomeInv ==
    \A a \in Attempts :
        row[a].status \in {"delivered", "failed"} =>
            /\ decision[a] = "allowed"
            /\ row[a].status = Outcome(a)
            /\ row[a].content = "sanitized"

\* The record was acknowledged: the row holds the workflow's outcome for good.
Recorded(a) ==
    /\ decision[a] # "none"
    /\ row[a].status = Outcome(a)

Announced(a) == [attempt |-> a, status |-> Outcome(a)] \in attempted

PublishInv ==
    \A a \in Attempts :
        /\ wf[a] \in {"publishAttempted", "publishInteraction", "completed"}
              => Recorded(a)
        /\ [attempt |-> a, op |-> "publishAttempted"] \in late => Recorded(a)
        /\ [attempt |-> a, op |-> "publishInteraction"] \in late
              => Recorded(a) /\ Announced(a)
        /\ wf[a] \in {"publishInteraction", "completed"} => Announced(a)
        /\ wf[a] = "completed" /\ decision[a] = "allowed" => a \in interactions

EventInv ==
    /\ \A e \in attempted : Recorded(e.attempt) /\ e.status = Outcome(e.attempt)
    /\ \A a \in interactions : decision[a] = "allowed" /\ Announced(a)

\* The snapshots of one consumer's attempts are ordered by inclusion, up to
\* the rows that have left the window since: a later SELECT sees all an
\* earlier one saw.
SnapshotInv ==
    /\ IsFiniteSet(Inserted)
    /\ \A a \in Attempts :
          /\ recent[a] \subseteq {x \in Inserted : ConsumerOf[x] = ConsumerOf[a]}
          /\ Counted(a) => a \in recent[a]
    /\ \A a, b \in Attempts :
          ConsumerOf[a] = ConsumerOf[b] /\ Counted(a) /\ Counted(b) =>
              \/ recent[a] \ aged \subseteq recent[b]
              \/ recent[b] \ aged \subseteq recent[a]

AllowedInWindow(c) ==
    {a \in Attempts : ConsumerOf[a] = c /\ decision[a] = "allowed" /\ a \notin aged}

\* One snapshot below the cap covers every allowed attempt in the window.  Its
\* owner may have left the window itself, which is why it is not required to
\* be one of them: that makes the condition inductive.
Covers(m, c) ==
    /\ ConsumerOf[m] = c /\ wf[m] # "none"
    /\ AllowedInWindow(c) \subseteq recent[m] \ aged
    /\ Cardinality(recent[m] \ aged) < MaxAttempts

CapInv ==
    \A c \in Consumers :
        AllowedInWindow(c) = {} \/ \E m \in Attempts : Covers(m, c)

FlowInv == TypeOK /\ HandlerInv /\ DecisionInv /\ OutcomeInv /\ PublishInv /\ EventInv
IInv == FlowInv /\ SnapshotInv /\ CapInv

---------------------------------------------------------------------------
(* Type correctness.                                                       *)

\* The initial state is well typed.
LEMMA TypeInit == Init => TypeOK
  <1> SUFFICES ASSUME Init PROVE TypeOK
    OBVIOUS
  <1> USE ContactAssumption
  <1>1. row \in [Attempts -> Rows]
    BY DEF Init, Rows
  <1>2. tries \in [Attempts -> 0 .. MaxTries - 1]
    BY DEF Init
  <1> QED BY <1>1, <1>2 DEF Init, TypeOK, ConsentStatus, HandlerSteps

\* Serving a request, on time or late, keeps the table and the events typed.
LEMMA ServeType ==
    ASSUME TypeOK, NEW a \in Attempts, NEW op \in WriteActivities, Serve(a, op)
    PROVE  /\ row' \in [Attempts -> Rows]
           /\ attempted' \subseteq [attempt : Attempts, status : Outcomes]
           /\ interactions' \subseteq Attempts
  <1>1. Outcome(a) \in Outcomes
    BY DEF Outcome, Outcomes
  <1>2. CASE op = "record"
    <2>1. row[a] \in Rows
      BY DEF TypeOK
    <2>2. row[a].reason \in {"none", "consent_revoked", "rule"}
          /\ row[a].content \in {"none", "raw", "sanitized"}
      BY <2>1 DEF Rows
    <2>3. [status  |-> Outcome(a),
           reason  |-> IF Outcome(a) = "blocked" THEN "rule" ELSE row[a].reason,
           content |-> IF Outcome(a) = "blocked" THEN row[a].content ELSE "sanitized"]
          \in Rows
      BY <1>1, <2>2 DEF Rows
    <2> QED BY <1>2, <2>3 DEF Serve, UpdateContactResult, TypeOK, eventVars
  <1>3. CASE op = "publishAttempted"
    BY <1>1, <1>3 DEF Serve, TypeOK
  <1>4. CASE op = "publishInteraction"
    BY <1>4 DEF Serve, TypeOK
  <1> QED BY <1>2, <1>3, <1>4 DEF WriteActivities

\* Every step keeps the state well typed.
LEMMA TypeStep == TypeOK /\ [Next]_vars => TypeOK'
  <1> SUFFICES ASSUME TypeOK, [Next]_vars PROVE TypeOK'
    OBVIOUS
  <1> USE ContactAssumption
  <1> USE DEF consumerVars, tableVars, handlerVars, wfVars, eventVars
  <1>1. CASE UNCHANGED vars
    BY <1>1 DEF vars, TypeOK
  <1>2. ASSUME NEW c \in Consumers, ConsumerNext(c) PROVE TypeOK'
    BY <1>2 DEF ConsumerNext, UpdateConsent, PublishConsentChanged,
       PublishConsentChangedFails, TypeOK
  <1>3. ASSUME NEW c \in Consumers, SubscriberNext(c) PROVE TypeOK'
    <2>1. BlockPending(c)
      BY <1>3 DEF SubscriberNext, HandleConsentChanged, HandleConsentChangedUnacked
    <2>2. \A a \in Attempts : row[a] \in Rows
      BY DEF TypeOK
    <2>3. \A a \in Attempts :
            [row[a] EXCEPT !.status = "blocked", !.reason = "consent_revoked"] \in Rows
      BY <2>2 DEF Rows, Outcomes
    <2>4. row' \in [Attempts -> Rows]
      BY <2>1, <2>2, <2>3 DEF BlockPending
    <2> QED BY <1>3, <2>4 DEF SubscriberNext, HandleConsentChanged,
               HandleConsentChangedUnacked, TypeOK
  <1>4. ASSUME NEW a \in Attempts, HandlerNext(a) PROVE TypeOK'
    <2>1. CASE FetchConsumer(a)
      BY <2>1 DEF FetchConsumer, TypeOK, HandlerSteps
    <2>2. CASE InsertPendingAttempt(a)
      <3>1. [status |-> "pending", reason |-> "none", content |-> "raw"] \in Rows
        BY DEF Rows
      <3> QED BY <2>2, <3>1 DEF InsertPendingAttempt, TypeOK, HandlerSteps
    <2>3. CASE FetchRecentContactTimestamps(a)
      BY <2>3 DEF FetchRecentContactTimestamps, TypeOK, HandlerSteps, Inserted
    <2>4. CASE StartWorkflow(a)
      BY <2>4 DEF StartWorkflow, TypeOK, HandlerSteps, Running
    <2>5. CASE InitiateContactFails(a)
      BY <2>5 DEF InitiateContactFails, TypeOK, HandlerSteps
    <2> QED BY <1>4, <2>1, <2>2, <2>3, <2>4, <2>5 DEF HandlerNext
  <1>5. ASSUME NEW a \in Attempts, WorkflowNext(a) PROVE TypeOK'
    <2>1. CASE CheckComplianceAllows(a)
      BY <2>1 DEF CheckComplianceAllows, GoTo, TypeOK, Running
    <2>2. CASE CheckComplianceBlocks(a)
      BY <2>2 DEF CheckComplianceBlocks, GoTo, TypeOK, Running, WriteActivities
    <2>3. CASE PureActivity(a)
      BY <2>3 DEF PureActivity, GoTo, After, TypeOK, Running, WriteActivities
    <2>4. CASE WriteActivity(a)
      <3>1. /\ row' \in [Attempts -> Rows]
            /\ attempted' \subseteq [attempt : Attempts, status : Outcomes]
            /\ interactions' \subseteq Attempts
        BY <2>4, ServeType DEF WriteActivity
      <3>2. After(a) \in Running \cup Closed
        BY <2>4 DEF WriteActivity, After, WriteActivities, Running, Closed
      <3>3. /\ wf' \in [Attempts -> {"none"} \cup Running \cup Closed]
            /\ tries' \in [Attempts -> 0 .. MaxTries - 1]
        BY <2>4, <3>2 DEF WriteActivity, GoTo, TypeOK
      <3> QED BY <2>4, <3>1, <3>3 DEF WriteActivity, TypeOK
    <2>5. CASE ActivityTryFails(a)
      BY <2>5 DEF ActivityTryFails, Abandon, TypeOK, Requests
    <2>6. CASE ActivityFails(a)
      BY <2>6 DEF ActivityFails, Abandon, GoTo, TypeOK, Requests, Closed
    <2>7. CASE WorkflowTimesOut(a)
      BY <2>7 DEF WorkflowTimesOut, Abandon, GoTo, TypeOK, Requests, Closed
    <2> QED BY <1>5, <2>1, <2>2, <2>3, <2>4, <2>5, <2>6, <2>7 DEF WorkflowNext
  <1>6. ASSUME NEW a \in Attempts, LeaveWindow(a) PROVE TypeOK'
    BY <1>6 DEF LeaveWindow, TypeOK
  <1>7. ASSUME NEW r \in late, LateRequestServed(r) PROVE TypeOK'
    <2>1. r.attempt \in Attempts /\ r.op \in WriteActivities
      BY DEF TypeOK, Requests
    <2>2. /\ row' \in [Attempts -> Rows]
          /\ attempted' \subseteq [attempt : Attempts, status : Outcomes]
          /\ interactions' \subseteq Attempts
      BY <1>7, <2>1, ServeType DEF LateRequestServed
    <2> QED BY <1>7, <2>2 DEF LateRequestServed, TypeOK
  <1> QED BY <1>1, <1>2, <1>3, <1>4, <1>5, <1>6, <1>7 DEF Next

\* Type correctness: the state stays in the domains of the tables, topics and
\* program counters the code has.
THEOREM TypeCorrect == Spec => []TypeOK
  BY TypeInit, TypeStep, PTL DEF Spec

---------------------------------------------------------------------------
(* What the shared operators do, once and for all.                         *)

\* Serving a request touches one row, or one topic.
LEMMA ServeEffect ==
    ASSUME TypeOK, NEW a \in Attempts, NEW op \in WriteActivities, Serve(a, op)
    PROVE  /\ op # "record" => UNCHANGED row
           /\ \A b \in Attempts : b # a => row'[b] = row[b]
           /\ op = "record" =>
                /\ row'[a].status = Outcome(a)
                /\ Outcome(a) # "blocked" => /\ row'[a].content = "sanitized"
                                             /\ row'[a].reason = row[a].reason
           /\ attempted' = IF op = "publishAttempted"
                           THEN attempted \cup {[attempt |-> a, status |-> Outcome(a)]}
                           ELSE attempted
           /\ interactions' = IF op = "publishInteraction"
                              THEN interactions \cup {a} ELSE interactions
  <1>1. CASE op = "record"
    BY <1>1 DEF Serve, UpdateContactResult, TypeOK, eventVars
  <1>2. CASE op # "record"
    BY <1>2 DEF Serve
  <1> QED BY <1>1, <1>2

\* The revocation subscriber touches pending rows only.
LEMMA BlockPendingEffect ==
    ASSUME TypeOK, NEW c \in Consumers, BlockPending(c)
    PROVE  \A a \in Attempts :
              \/ row'[a] = row[a]
              \/ row[a].status = "pending" /\ row'[a].status = "blocked"
  <1> SUFFICES ASSUME NEW a \in Attempts
               PROVE  \/ row'[a] = row[a]
                      \/ row[a].status = "pending" /\ row'[a].status = "blocked"
    OBVIOUS
  <1>1. row[a] \in Rows
    BY DEF TypeOK
  <1>2. CASE ConsumerOf[a] = c /\ row[a].status = "pending"
    <2>1. row'[a] = [row[a] EXCEPT !.status = "blocked", !.reason = "consent_revoked"]
      BY <1>2 DEF BlockPending
    <2>2. row'[a].status = "blocked"
      BY <1>1, <2>1 DEF Rows
    <2> QED BY <1>2, <2>2
  <1>3. CASE ~ (ConsumerOf[a] = c /\ row[a].status = "pending")
    BY <1>3 DEF BlockPending
  <1> QED BY <1>2, <1>3

\* An outcome is one of three, and "blocked" exactly when the check blocked.
LEMMA OutcomeValue ==
    ASSUME NEW a \in Attempts
    PROVE  /\ Outcome(a) \in {"blocked", "delivered", "failed"}
           /\ Outcome(a) = "blocked" <=> decision[a] = "blocked"
  BY DEF Outcome

---------------------------------------------------------------------------
(* Handler, workflow and row stay in step.                                 *)

\* No step takes the handler, the workflow and the row of an attempt apart.
LEMMA HandlerStep == TypeOK /\ HandlerInv /\ [Next]_vars => HandlerInv'
  <1> SUFFICES ASSUME TypeOK, HandlerInv, [Next]_vars PROVE HandlerInv'
    OBVIOUS
  <1> USE DEF consumerVars, tableVars, handlerVars, wfVars, eventVars
  <1>1. CASE UNCHANGED vars
    BY <1>1 DEF vars, HandlerInv
  <1>2. ASSUME NEW c \in Consumers, ConsumerNext(c) PROVE HandlerInv'
    BY <1>2 DEF ConsumerNext, UpdateConsent, PublishConsentChanged,
       PublishConsentChangedFails, HandlerInv
  <1>3. ASSUME NEW c \in Consumers, SubscriberNext(c) PROVE HandlerInv'
    <2>1. BlockPending(c) /\ UNCHANGED <<aged, handler, wf, late>>
      BY <1>3 DEF SubscriberNext, HandleConsentChanged, HandleConsentChangedUnacked
    <2> QED BY <2>1, BlockPendingEffect DEF HandlerInv
  <1>4. ASSUME NEW a \in Attempts, HandlerNext(a) PROVE HandlerInv'
    <2>1. CASE FetchConsumer(a)
      BY <2>1 DEF FetchConsumer, TypeOK, HandlerInv
    <2>2. CASE InsertPendingAttempt(a)
      BY <2>2 DEF InsertPendingAttempt, TypeOK, HandlerInv
    <2>3. CASE FetchRecentContactTimestamps(a)
      BY <2>3 DEF FetchRecentContactTimestamps, TypeOK, HandlerInv
    <2>4. CASE StartWorkflow(a)
      BY <2>4 DEF StartWorkflow, TypeOK, HandlerInv
    <2>5. CASE InitiateContactFails(a)
      BY <2>5 DEF InitiateContactFails, TypeOK, HandlerInv
    <2> QED BY <1>4, <2>1, <2>2, <2>3, <2>4, <2>5 DEF HandlerNext
  <1>5. ASSUME NEW a \in Attempts, WorkflowNext(a) PROVE HandlerInv'
    <2>1. wf[a] # "none" /\ UNCHANGED <<aged, handler>>
      BY <1>5 DEF WorkflowNext, CheckComplianceAllows, CheckComplianceBlocks,
         PureActivity, WriteActivity, ActivityTryFails, ActivityFails,
         WorkflowTimesOut, Running, WriteActivities
    <2>2. \A b \in Attempts : b # a => wf'[b] = wf[b]
      BY <1>5 DEF WorkflowNext, CheckComplianceAllows, CheckComplianceBlocks,
         PureActivity, WriteActivity, ActivityTryFails, ActivityFails,
         WorkflowTimesOut, GoTo, TypeOK
    <2>3. wf'[a] # "none"
      BY <1>5, <2>1 DEF WorkflowNext, CheckComplianceAllows, CheckComplianceBlocks,
         PureActivity, WriteActivity, ActivityTryFails, ActivityFails,
         WorkflowTimesOut, GoTo, TypeOK, After, WriteActivities
    <2>4. late' = late \/ \E op \in WriteActivities :
                              late' = late \cup {[attempt |-> a, op |-> op]}
      BY <1>5 DEF WorkflowNext, CheckComplianceAllows, CheckComplianceBlocks,
         PureActivity, WriteActivity, ActivityTryFails, ActivityFails,
         WorkflowTimesOut, Abandon
    <2>5. \A r \in late' : wf'[r.attempt] # "none"
      <3>1. \A r \in late : r.attempt \in Attempts
        BY DEF TypeOK, Requests
      <3> QED BY <2>2, <2>3, <2>4, <3>1 DEF HandlerInv
    <2>6. CASE WriteActivity(a)
      <3>1. Serve(a, wf[a]) /\ wf[a] \in WriteActivities
        BY <2>6 DEF WriteActivity
      <3>2. \A b \in Attempts : b # a => row'[b] = row[b]
        BY <3>1, ServeEffect
      <3>3. row'[a].status # "absent"
        BY <2>1, <3>1, ServeEffect, OutcomeValue DEF HandlerInv
      <3>4. handler[a] = "done"
        BY <2>1 DEF HandlerInv
      <3> QED BY <2>1, <2>2, <2>5, <3>2, <3>3, <3>4 DEF HandlerInv
    <2>7. CASE UNCHANGED row
      <3>1. handler[a] = "done"
        BY <2>1 DEF HandlerInv
      <3> QED BY <2>1, <2>2, <2>5, <2>7, <3>1 DEF HandlerInv
    <2> QED BY <1>5, <2>6, <2>7 DEF WorkflowNext, CheckComplianceAllows,
               CheckComplianceBlocks, PureActivity, ActivityTryFails, ActivityFails,
               WorkflowTimesOut
  <1>6. ASSUME NEW a \in Attempts, LeaveWindow(a) PROVE HandlerInv'
    BY <1>6 DEF LeaveWindow, HandlerInv
  <1>7. ASSUME NEW r \in late, LateRequestServed(r) PROVE HandlerInv'
    <2>1. /\ r.attempt \in Attempts /\ r.op \in WriteActivities
          /\ Serve(r.attempt, r.op)
      BY <1>7 DEF LateRequestServed, TypeOK, Requests
    <2>2. \A b \in Attempts : b # r.attempt => row'[b] = row[b]
      BY <2>1, ServeEffect
    <2>3. row[r.attempt].status # "absent" /\ handler[r.attempt] = "done"
      BY <2>1 DEF HandlerInv
    <2>4. row'[r.attempt].status # "absent"
      BY <2>1, <2>3, ServeEffect, OutcomeValue
    <2>5. late' \subseteq late /\ UNCHANGED <<aged, handler, wf>>
      BY <1>7 DEF LateRequestServed
    <2> QED BY <2>1, <2>2, <2>3, <2>4, <2>5 DEF HandlerInv
  <1> QED BY <1>1, <1>2, <1>3, <1>4, <1>5, <1>6, <1>7 DEF Next

---------------------------------------------------------------------------
(* Decisions, recorded outcomes and events.                                *)

\* A step that neither runs an activity nor serves a late request.
Quiet ==
    /\ UNCHANGED <<decision, late, attempted, interactions>>
    /\ \A a \in Attempts :
          /\ wf'[a] = wf[a] \/ (wf[a] = "none" /\ wf'[a] = "check")
          /\ \/ row'[a] = row[a]
             \/ /\ row[a].status \in {"absent", "pending"}
                /\ row'[a].status \in {"pending", "blocked"}

\* The steps that matter to what follows are the workflow's and late requests.
LEMMA StepKinds ==
    ASSUME TypeOK, HandlerInv, [Next]_vars
    PROVE  \/ Quiet
           \/ \E a \in Attempts : WorkflowNext(a)
           \/ \E r \in late : LateRequestServed(r)
  <1> USE DEF consumerVars, tableVars, handlerVars, wfVars, eventVars
  <1>1. CASE UNCHANGED vars
    BY <1>1 DEF vars, Quiet
  <1>2. ASSUME NEW c \in Consumers, ConsumerNext(c) PROVE Quiet
    BY <1>2 DEF ConsumerNext, UpdateConsent, PublishConsentChanged,
       PublishConsentChangedFails, Quiet
  <1>3. ASSUME NEW c \in Consumers, SubscriberNext(c) PROVE Quiet
    <2>1. BlockPending(c) /\ UNCHANGED <<wfVars, late, eventVars>>
      BY <1>3 DEF SubscriberNext, HandleConsentChanged, HandleConsentChangedUnacked
    <2> QED BY <2>1, BlockPendingEffect DEF Quiet
  <1>4. ASSUME NEW a \in Attempts, HandlerNext(a) PROVE Quiet
    <2>1. CASE InsertPendingAttempt(a)
      BY <2>1 DEF InsertPendingAttempt, Quiet, TypeOK, HandlerInv
    <2>2. CASE StartWorkflow(a)
      BY <2>2 DEF StartWorkflow, Quiet, TypeOK, HandlerInv
    <2> QED BY <1>4, <2>1, <2>2 DEF HandlerNext, FetchConsumer,
               FetchRecentContactTimestamps, InitiateContactFails, Quiet
  <1>5. ASSUME NEW a \in Attempts, LeaveWindow(a) PROVE Quiet
    BY <1>5 DEF LeaveWindow, Quiet
  <1> QED BY <1>1, <1>2, <1>3, <1>4, <1>5 DEF Next

\* What a workflow's step leaves alone.
LEMMA WorkflowFrame ==
    ASSUME TypeOK, NEW a \in Attempts, WorkflowNext(a)
    PROVE  /\ \A b \in Attempts : b # a =>
                /\ wf'[b] = wf[b] /\ decision'[b] = decision[b] /\ row'[b] = row[b]
           /\ wf[a] # "check" => decision' = decision
           /\ WriteActivity(a) \/ UNCHANGED <<row, attempted, interactions>>
           /\ late' = late \/ /\ wf[a] \in WriteActivities
                              /\ late' = late \cup {[attempt |-> a, op |-> wf[a]]}
  <1> USE DEF consumerVars, tableVars, handlerVars, wfVars, eventVars
  <1>1. \A b \in Attempts : b # a => wf'[b] = wf[b] /\ decision'[b] = decision[b]
    BY DEF WorkflowNext, CheckComplianceAllows, CheckComplianceBlocks,
       PureActivity, WriteActivity, ActivityTryFails, ActivityFails,
       WorkflowTimesOut, GoTo, TypeOK
  <1>2. WriteActivity(a) \/ UNCHANGED <<row, attempted, interactions>>
    BY DEF WorkflowNext, CheckComplianceAllows, CheckComplianceBlocks,
       PureActivity, ActivityTryFails, ActivityFails, WorkflowTimesOut
  <1>3. \A b \in Attempts : b # a => row'[b] = row[b]
    BY <1>2, ServeEffect DEF WriteActivity
  <1>4. wf[a] # "check" => decision' = decision
    BY DEF WorkflowNext, CheckComplianceAllows, CheckComplianceBlocks,
       PureActivity, WriteActivity, ActivityTryFails, ActivityFails, WorkflowTimesOut
  <1>5. late' = late \/ /\ wf[a] \in WriteActivities
                        /\ late' = late \cup {[attempt |-> a, op |-> wf[a]]}
    BY DEF WorkflowNext, CheckComplianceAllows, CheckComplianceBlocks, Abandon,
       PureActivity, WriteActivity, ActivityTryFails, ActivityFails, WorkflowTimesOut
  <1> QED BY <1>1, <1>2, <1>3, <1>4, <1>5

\* The order of the activities.
LEMMA AfterValue ==
    ASSUME NEW a
    PROVE  /\ wf[a] = "sanitize" => After(a) = "deliver"
           /\ wf[a] = "deliver" => After(a) = "score"
           /\ wf[a] = "score" => After(a) = "record"
           /\ wf[a] = "record" => After(a) = "publishAttempted"
           /\ wf[a] = "publishAttempted" =>
                 After(a) = IF decision[a] = "allowed" THEN "publishInteraction"
                            ELSE "completed"
           /\ wf[a] = "publishInteraction" => After(a) = "completed"
  BY DEF After

\* Each workflow decides once, and its later steps and requests agree with
\* what it decided.
LEMMA DecisionStep ==
    ASSUME TypeOK, HandlerInv, DecisionInv, [Next]_vars
    PROVE  DecisionInv'
  <1> USE DEF consumerVars, tableVars, handlerVars, wfVars, eventVars
  <1>1. CASE Quiet
    BY <1>1 DEF Quiet, DecisionInv, WriteActivities
  <1>2. ASSUME NEW a \in Attempts, WorkflowNext(a) PROVE DecisionInv'
    <2>1. CASE CheckComplianceAllows(a)
      BY <2>1 DEF CheckComplianceAllows, GoTo, TypeOK, DecisionInv, WriteActivities
    <2>2. CASE CheckComplianceBlocks(a)
      BY <2>2 DEF CheckComplianceBlocks, GoTo, TypeOK, DecisionInv, WriteActivities
    <2>3. CASE PureActivity(a)
      BY <2>3, AfterValue DEF PureActivity, GoTo, TypeOK, DecisionInv, WriteActivities
    <2>4. CASE WriteActivity(a)
      BY <2>4, AfterValue DEF WriteActivity, GoTo, TypeOK, DecisionInv, WriteActivities
    <2>5. CASE ActivityTryFails(a) \/ ActivityFails(a) \/ WorkflowTimesOut(a)
      <3>1. /\ decision' = decision
            /\ \A b \in Attempts : wf'[b] = wf[b] \/ wf'[b] = "failed"
        BY <2>5 DEF ActivityTryFails, ActivityFails, WorkflowTimesOut, GoTo, TypeOK
      <3>2. \A b \in Attempts, op \in WriteActivities :
               [attempt |-> b, op |-> op] \in late' =>
                  [attempt |-> b, op |-> op] \in late \/ (b = a /\ op = wf[a])
        BY <1>2, WorkflowFrame
      <3> QED BY <3>1, <3>2 DEF DecisionInv, WriteActivities
    <2> QED BY <1>2, <2>1, <2>2, <2>3, <2>4, <2>5 DEF WorkflowNext
  <1>3. ASSUME NEW r \in late, LateRequestServed(r) PROVE DecisionInv'
    BY <1>3 DEF LateRequestServed, DecisionInv
  <1> QED BY <1>1, <1>2, <1>3, StepKinds

\* Delivery outcomes enter the table from the workflow alone.
LEMMA OutcomeStep ==
    ASSUME TypeOK, HandlerInv, DecisionInv, OutcomeInv, [Next]_vars
    PROVE  OutcomeInv'
  <1>1. CASE Quiet
    BY <1>1 DEF Quiet, OutcomeInv, Outcome
  <1>2. ASSUME NEW a \in Attempts, NEW op \in WriteActivities, Serve(a, op),
               decision[a] # "none", decision' = decision
        PROVE  OutcomeInv'
    <2>1. decision[a] \in {"allowed", "blocked"}
      BY <1>2 DEF TypeOK
    <2>2. \A b \in Attempts : Outcome(b)' = Outcome(b)
      BY <1>2 DEF Outcome
    <2>3. \A b \in Attempts : b # a => row'[b] = row[b]
      BY <1>2, ServeEffect
    <2>4. CASE op = "record"
      BY <1>2, <2>1, <2>2, <2>3, <2>4, ServeEffect, OutcomeValue DEF OutcomeInv
    <2>5. CASE op # "record"
      BY <1>2, <2>2, <2>5, ServeEffect DEF OutcomeInv
    <2> QED BY <2>4, <2>5
  <1>3. ASSUME NEW a \in Attempts, WorkflowNext(a) PROVE OutcomeInv'
    <2>1. CASE WriteActivity(a)
      BY <1>2, <2>1 DEF WriteActivity, DecisionInv
    <2>2. CASE UNCHANGED row
      <3>1. \A b \in Attempts : decision[b] # "none" => decision'[b] = decision[b]
        BY <1>3, WorkflowFrame DEF DecisionInv
      <3> QED BY <2>2, <3>1 DEF OutcomeInv, Outcome
    <2> QED BY <1>3, <2>1, <2>2, WorkflowFrame
  <1>4. ASSUME NEW r \in late, LateRequestServed(r) PROVE OutcomeInv'
    <2>1. /\ r.attempt \in Attempts /\ r.op \in WriteActivities
          /\ r = [attempt |-> r.attempt, op |-> r.op]
      BY DEF TypeOK, Requests
    <2>2. decision[r.attempt] # "none"
      BY <2>1 DEF DecisionInv
    <2> QED BY <1>2, <1>4, <2>1, <2>2 DEF LateRequestServed, wfVars
  <1> QED BY <1>1, <1>3, <1>4, StepKinds

\* Once the record is acknowledged the row and the events stay in agreement.
LEMMA PublishStep ==
    ASSUME TypeOK, HandlerInv, DecisionInv, OutcomeInv, PublishInv, EventInv,
           [Next]_vars
    PROVE  PublishInv' /\ EventInv'
  <1>1. \A e \in attempted : e.attempt \in Attempts /\ e.status \in Outcomes
                             /\ e = [attempt |-> e.attempt, status |-> e.status]
    BY DEF TypeOK
  <1>2. \A b \in Attempts : Recorded(b) => row[b].status \in Outcomes
    BY DEF Recorded, Outcome, Outcomes
  <1>3. CASE Quiet
    <2>1. \A b \in Attempts : Outcome(b)' = Outcome(b)
      BY <1>3 DEF Quiet, Outcome
    <2>2. \A b \in Attempts : Recorded(b) => Recorded(b)'
      BY <1>2, <1>3, <2>1 DEF Quiet, Recorded, Outcomes
    <2>3. \A b \in Attempts : Announced(b)' <=> Announced(b)
      BY <1>3, <2>1 DEF Quiet, Announced
    <2>4. PublishInv'
      BY <1>3, <2>2, <2>3 DEF Quiet, PublishInv
    <2>5. EventInv'
      BY <1>1, <1>3, <2>1, <2>2, <2>3, Zenon DEF Quiet, EventInv, TypeOK
    <2> QED BY <2>4, <2>5
  <1>4. ASSUME NEW a \in Attempts, NEW op \in WriteActivities, Serve(a, op),
               decision' = decision, decision[a] # "none",
               op # "record" => Recorded(a),
               op = "publishInteraction" => decision[a] = "allowed" /\ Announced(a)
        PROVE  /\ \A b \in Attempts : Recorded(b) => Recorded(b)'
               /\ op = "record" => Recorded(a)'
               /\ \A b \in Attempts : Announced(b) => Announced(b)'
               /\ op = "publishAttempted" => Announced(a)'
               /\ interactions \subseteq interactions'
               /\ op = "publishInteraction" => a \in interactions'
               /\ EventInv'
    <2>1. \A b \in Attempts : Outcome(b)' = Outcome(b)
      BY <1>4 DEF Outcome
    <2>2. \A b \in Attempts : Recorded(b) => Recorded(b)'
      BY <1>4, <2>1, ServeEffect DEF Recorded
    <2>3. op = "record" => Recorded(a)'
      BY <1>4, <2>1, ServeEffect DEF Recorded
    <2>4. \A b \in Attempts : Announced(b) => Announced(b)'
      BY <1>4, <2>1, ServeEffect DEF Announced
    <2>5. op = "publishAttempted" => Announced(a)'
      BY <1>4, <2>1, ServeEffect DEF Announced
    <2>6. \A e \in attempted' : e \in attempted \/
                                (e = [attempt |-> a, status |-> Outcome(a)]
                                 /\ op = "publishAttempted")
      BY <1>4, ServeEffect
    <2>7. \A e \in attempted' : Recorded(e.attempt)' /\ e.status = Outcome(e.attempt)'
      <3> SUFFICES ASSUME NEW e \in attempted'
                   PROVE  Recorded(e.attempt)' /\ e.status = Outcome(e.attempt)'
        OBVIOUS
      <3>1. CASE e \in attempted
        <4>1. e.attempt \in Attempts /\ Recorded(e.attempt)
              /\ e.status = Outcome(e.attempt)
          BY <1>1, <3>1 DEF EventInv
        <4> QED BY <2>1, <2>2, <4>1
      <3>2. CASE e = [attempt |-> a, status |-> Outcome(a)] /\ op = "publishAttempted"
        <4>1. e.attempt = a /\ e.status = Outcome(a) /\ Recorded(a)
          BY <1>4, <3>2
        <4> QED BY <2>1, <2>2, <4>1
      <3> QED BY <2>6, <3>1, <3>2
    <2>8. \A b \in interactions' : b \in interactions \/ (b = a /\ op = "publishInteraction")
      BY <1>4, ServeEffect
    <2>9. \A b \in interactions' : decision'[b] = "allowed" /\ Announced(b)'
      BY <1>4, <2>4, <2>8 DEF EventInv, TypeOK
    <2>10. interactions \subseteq interactions'
           /\ (op = "publishInteraction" => a \in interactions')
      BY <1>4, ServeEffect
    <2> QED BY <2>2, <2>3, <2>4, <2>5, <2>7, <2>9, <2>10 DEF EventInv
  <1>5. ASSUME NEW a \in Attempts, WorkflowNext(a) PROVE PublishInv' /\ EventInv'
    <2>1. CASE WriteActivity(a)
      <3>1. /\ wf[a] \in WriteActivities /\ Serve(a, wf[a])
            /\ decision' = decision /\ late' = late
            /\ wf' = [wf EXCEPT ![a] = After(a)]
        BY <2>1 DEF WriteActivity, GoTo
      <3>2. /\ decision[a] # "none"
            /\ wf[a] # "record" => Recorded(a)
            /\ wf[a] = "publishInteraction" => decision[a] = "allowed" /\ Announced(a)
        BY <3>1 DEF DecisionInv, PublishInv, WriteActivities
      <3>3. /\ \A b \in Attempts : Recorded(b) => Recorded(b)'
            /\ wf[a] = "record" => Recorded(a)'
            /\ \A b \in Attempts : Announced(b) => Announced(b)'
            /\ wf[a] = "publishAttempted" => Announced(a)'
            /\ interactions \subseteq interactions'
            /\ wf[a] = "publishInteraction" => a \in interactions'
            /\ EventInv'
        BY <1>4, <3>1, <3>2
      <3>4. \A b \in Attempts : b # a => wf'[b] = wf[b]
        BY <3>1 DEF TypeOK
      <3>5. /\ wf[a] = "record" => wf'[a] = "publishAttempted"
            /\ wf[a] = "publishAttempted" =>
                 wf'[a] = IF decision[a] = "allowed" THEN "publishInteraction"
                          ELSE "completed"
            /\ wf[a] = "publishInteraction" => wf'[a] = "completed"
        BY <3>1 DEF TypeOK, After
      <3>6. wf[a] \in {"record", "publishAttempted", "publishInteraction"}
        BY <3>1 DEF WriteActivities
      <3>7. Recorded(a)'
        BY <3>2, <3>3, <3>6
      <3>8. wf[a] # "record" => Announced(a)'
        BY <3>2, <3>3, <3>6
      <3>9. PublishInv'
        <4> SUFFICES ASSUME NEW b \in Attempts
                     PROVE  /\ wf'[b] \in {"publishAttempted", "publishInteraction",
                                           "completed"} => Recorded(b)'
                            /\ [attempt |-> b, op |-> "publishAttempted"] \in late'
                                  => Recorded(b)'
                            /\ [attempt |-> b, op |-> "publishInteraction"] \in late'
                                  => Recorded(b)' /\ Announced(b)'
                            /\ wf'[b] \in {"publishInteraction", "completed"}
                                  => Announced(b)'
                            /\ wf'[b] = "completed" /\ decision'[b] = "allowed"
                                  => b \in interactions'
          BY DEF PublishInv
        <4>1. CASE b = a
          <5>1. wf'[a] \in {"publishInteraction", "completed"} => wf[a] # "record"
            BY <3>5
          <5>2. wf'[a] = "completed" /\ decision'[a] = "allowed"
                   => wf[a] = "publishInteraction"
            BY <3>1, <3>5, <3>6
          <5> QED BY <3>1, <3>3, <3>7, <3>8, <4>1, <5>1, <5>2 DEF PublishInv
        <4>2. CASE b # a
          BY <3>1, <3>3, <3>4, <4>2 DEF PublishInv
        <4> QED BY <4>1, <4>2
      <3> QED BY <3>3, <3>9
    <2>2. CASE UNCHANGED <<row, attempted, interactions>>
      <3>1. \A b \in Attempts : decision[b] # "none" => decision'[b] = decision[b]
        BY <1>5, WorkflowFrame DEF DecisionInv
      <3>2. \A b \in Attempts : Recorded(b) => Recorded(b)' /\ (Announced(b) => Announced(b)')
        BY <2>2, <3>1 DEF Recorded, Announced, Outcome
      <3>3. EventInv'
        <4>1. \A e \in attempted : Recorded(e.attempt)' /\ e.status = Outcome(e.attempt)'
          BY <1>1, <2>2, <3>1, <3>2 DEF EventInv, Recorded, Outcome
        <4>2. \A b \in interactions : decision'[b] = "allowed" /\ Announced(b)'
          <5>1. \A b \in interactions : b \in Attempts /\ decision[b] = "allowed"
                                        /\ Announced(b)
            BY DEF EventInv, TypeOK
          <5>2. \A b \in Attempts : Announced(b) /\ decision[b] = "allowed" => Announced(b)'
            BY <2>2, <3>1 DEF Announced, Outcome
          <5> QED BY <3>1, <5>1, <5>2
        <4> QED BY <2>2, <4>1, <4>2 DEF EventInv
      <3>4. \A b \in Attempts : wf'[b] = wf[b]
               \/ wf'[b] \in {"sanitize", "deliver", "score", "record", "failed"}
               \/ (b = a /\ WriteActivity(a))
        BY <1>5 DEF WorkflowNext, CheckComplianceAllows, CheckComplianceBlocks,
           PureActivity, ActivityTryFails, ActivityFails, WorkflowTimesOut, GoTo,
           After, TypeOK, WriteActivity
      <3>5. CASE ~ WriteActivity(a)
        <4>1. \A b \in Attempts, op \in WriteActivities :
                 [attempt |-> b, op |-> op] \in late' =>
                    [attempt |-> b, op |-> op] \in late \/ (b = a /\ op = wf[a])
          BY <1>5, WorkflowFrame
        <4>2. "publishAttempted" \in WriteActivities /\ "publishInteraction" \in WriteActivities
          BY DEF WriteActivities
        <4>3. \A b \in Attempts : wf[b] = "completed" => wf'[b] = "completed"
          BY <1>5 DEF WorkflowNext, CheckComplianceAllows, CheckComplianceBlocks,
             PureActivity, ActivityTryFails, ActivityFails, WorkflowTimesOut, GoTo,
             After, TypeOK, WriteActivity, Running, WriteActivities
        <4>4. \A b \in Attempts : decision[b] = "none" =>
                 wf[b] \notin {"publishAttempted", "publishInteraction", "completed"}
          BY DEF DecisionInv, WriteActivities
        <4>5. PublishInv'
          BY <2>2, <3>1, <3>2, <3>4, <3>5, <4>1, <4>2, <4>4 DEF PublishInv
        <4> QED BY <3>3, <4>5
      <3> QED BY <2>1, <3>5
    <2> QED BY <1>5, <2>1, <2>2, WorkflowFrame
  <1>6. ASSUME NEW r \in late, LateRequestServed(r) PROVE PublishInv' /\ EventInv'
    <2>1. /\ r.attempt \in Attempts /\ r.op \in WriteActivities
          /\ r = [attempt |-> r.attempt, op |-> r.op]
      BY DEF TypeOK, Requests
    <2>2. /\ Serve(r.attempt, r.op) /\ late' \subseteq late
          /\ decision' = decision /\ wf' = wf
      BY <1>6 DEF LateRequestServed, wfVars
    <2>3. /\ decision[r.attempt] # "none"
          /\ r.op # "record" => Recorded(r.attempt)
          /\ r.op = "publishInteraction" =>
               decision[r.attempt] = "allowed" /\ Announced(r.attempt)
      BY <2>1 DEF DecisionInv, PublishInv, WriteActivities
    <2>4. /\ \A b \in Attempts : Recorded(b) => Recorded(b)'
          /\ \A b \in Attempts : Announced(b) => Announced(b)'
          /\ interactions \subseteq interactions'
          /\ EventInv'
      BY <1>4, <2>1, <2>2, <2>3
    <2>5. PublishInv'
      BY <2>2, <2>4 DEF PublishInv
    <2> QED BY <2>4, <2>5
  <1> QED BY <1>3, <1>5, <1>6, StepKinds

---------------------------------------------------------------------------
(* The flow of an attempt: what its events and its row promise.            *)

\* The initial state, with no row and no event.
LEMMA FlowInit == Init => FlowInv
  BY TypeInit DEF Init, FlowInv, HandlerInv, DecisionInv, OutcomeInv, PublishInv,
     EventInv, WriteActivities, Closed

\* Every step keeps the flow invariant.
LEMMA FlowStep == FlowInv /\ [Next]_vars => FlowInv'
  BY TypeStep, HandlerStep, DecisionStep, OutcomeStep, PublishStep DEF FlowInv

\* The events and the rows agree for ever.
LEMMA FlowInvariant == Spec => []FlowInv
  BY FlowInit, FlowStep, PTL DEF Spec

\* Every contact-attempted event agrees with its row for ever: the audit log
\* and the table cannot tell two stories.
THEOREM EventsAgree == Spec => []EventsAgreeWithRows
  <1>1. FlowInv => EventsAgreeWithRows
    BY DEF FlowInv, EventInv, Recorded, EventsAgreeWithRows
  <1> QED BY <1>1, FlowInvariant, PTL

\* An interaction's attempt has its outcome in the table and its event out.
LEMMA FlowBacked == FlowInv => InteractionBacked
  <1> SUFFICES ASSUME FlowInv, NEW a \in interactions
               PROVE  /\ row[a].status \in {"delivered", "failed"}
                      /\ row[a].content = "sanitized"
                      /\ [attempt |-> a, status |-> row[a].status] \in attempted
    BY DEF InteractionBacked
  <1>1. a \in Attempts /\ decision[a] = "allowed" /\ Announced(a)
    BY DEF FlowInv, TypeOK, EventInv
  <1>2. row[a].status = Outcome(a)
    <2>1. \E e \in attempted : e.attempt = a /\ e.status = Outcome(a)
      BY <1>1 DEF Announced
    <2> QED BY <2>1 DEF FlowInv, EventInv, Recorded
  <1>3. row[a].status \in {"delivered", "failed"}
    BY <1>1, <1>2 DEF Outcome
  <1> QED BY <1>1, <1>2, <1>3 DEF FlowInv, OutcomeInv, Announced

\* Every interaction-created event is backed by a delivery in the table, its
\* sanitized content and its contact-attempted event.
THEOREM InteractionsBacked == Spec => []InteractionBacked
  BY FlowBacked, FlowInvariant, PTL

\* A completed workflow has recorded and announced all it decided.
THEOREM CompletedAnnounced == Spec => []CompletedIsAnnounced
  <1>1. FlowInv => CompletedIsAnnounced
    BY DEF FlowInv, PublishInv, Recorded, Announced, CompletedIsAnnounced
  <1> QED BY <1>1, FlowInvariant, PTL

\* No step touches a row with a delivery outcome.
LEMMA OutcomeKept ==
    ASSUME FlowInv, [Next]_vars, NEW a \in Attempts,
           row[a].status \in {"delivered", "failed"}
    PROVE  row'[a] = row[a]
  <1>1. row[a] \in Rows
    BY DEF FlowInv, TypeOK
  <1>2. ASSUME NEW op \in WriteActivities, Serve(a, op) PROVE row'[a] = row[a]
    <2>1. CASE op = "record"
      <3>1. row'[a] = [status |-> Outcome(a), reason |-> row[a].reason,
                       content |-> "sanitized"]
        BY <1>2, <2>1 DEF Serve, UpdateContactResult, FlowInv, OutcomeInv,
           TypeOK
      <3>2. row[a].status = Outcome(a) /\ row[a].content = "sanitized"
        BY DEF FlowInv, OutcomeInv
      <3> QED BY <1>1, <3>1, <3>2 DEF Rows
    <2>2. CASE op # "record"
      BY <1>2, <2>2 DEF Serve
    <2> QED BY <2>1, <2>2
  <1>3. CASE Quiet
    BY <1>3 DEF Quiet
  <1>4. ASSUME NEW b \in Attempts, WorkflowNext(b) PROVE row'[a] = row[a]
    BY <1>2, <1>4, WorkflowFrame DEF WriteActivity, FlowInv
  <1>5. ASSUME NEW r \in late, LateRequestServed(r) PROVE row'[a] = row[a]
    <2>1. r.attempt \in Attempts /\ r.op \in WriteActivities /\ Serve(r.attempt, r.op)
      BY <1>5 DEF FlowInv, TypeOK, Requests, LateRequestServed
    <2> QED BY <1>2, <2>1, ServeEffect DEF FlowInv
  <1> QED BY <1>3, <1>4, <1>5, StepKinds DEF FlowInv

\* A delivery outcome, once recorded, is never changed by any step.
THEOREM OutcomesFinal == Spec => RecordedOutcomeIsFinal
  <1>1. FlowInv /\ [Next]_vars =>
          [\A a \in Attempts :
              row[a].status \in {"delivered", "failed"} => row'[a] = row[a]]_vars
    BY OutcomeKept
  <1> QED BY <1>1, FlowInvariant, PTL DEF Spec, RecordedOutcomeIsFinal

---------------------------------------------------------------------------
(* The frequency cap.                                                      *)

\* The table grows by at most one row a step.
LEMMA InsertedStep ==
    ASSUME TypeOK, HandlerInv, [Next]_vars
    PROVE  Inserted' = Inserted \/ \E a \in Attempts : Inserted' = Inserted \cup {a}
  <1> USE DEF consumerVars, tableVars, handlerVars, wfVars, eventVars
  <1>1. ASSUME \A b \in Attempts :
                  row'[b].status = "absent" <=> row[b].status = "absent"
        PROVE  Inserted' = Inserted
    BY <1>1 DEF Inserted
  <1>2. CASE UNCHANGED vars
    BY <1>1, <1>2 DEF vars
  <1>3. ASSUME NEW c \in Consumers, ConsumerNext(c) \/ SubscriberNext(c)
        PROVE  Inserted' = Inserted
    <2>1. UNCHANGED row \/ BlockPending(c)
      BY <1>3 DEF ConsumerNext, UpdateConsent, PublishConsentChanged,
         PublishConsentChangedFails, SubscriberNext, HandleConsentChanged,
         HandleConsentChangedUnacked
    <2> QED BY <1>1, <2>1, BlockPendingEffect
  <1>4. ASSUME NEW a \in Attempts, HandlerNext(a)
        PROVE  Inserted' = Inserted \/ Inserted' = Inserted \cup {a}
    <2>1. CASE InsertPendingAttempt(a)
      BY <2>1 DEF InsertPendingAttempt, Inserted, TypeOK
    <2>2. CASE UNCHANGED row
      BY <1>1, <2>2
    <2> QED BY <1>4, <2>1, <2>2 DEF HandlerNext, FetchConsumer, StartWorkflow,
               FetchRecentContactTimestamps, InitiateContactFails
  <1>5. ASSUME NEW a \in Attempts, NEW op \in WriteActivities, Serve(a, op),
               wf[a] # "none"
        PROVE  Inserted' = Inserted
    <2>1. row[a].status # "absent"
      BY <1>5 DEF HandlerInv
    <2>2. row'[a].status # "absent"
      BY <1>5, <2>1, ServeEffect, OutcomeValue
    <2> QED BY <1>1, <1>5, <2>1, <2>2, ServeEffect
  <1>6. ASSUME NEW a \in Attempts, WorkflowNext(a) PROVE Inserted' = Inserted
    <2>1. CASE WriteActivity(a)
      BY <1>5, <2>1 DEF WriteActivity, WriteActivities
    <2>2. CASE UNCHANGED row
      BY <1>1, <2>2
    <2> QED BY <1>6, <2>1, <2>2, WorkflowFrame
  <1>7. ASSUME NEW r \in late, LateRequestServed(r) PROVE Inserted' = Inserted
    <2>1. /\ r.attempt \in Attempts /\ r.op \in WriteActivities
          /\ Serve(r.attempt, r.op)
      BY <1>7 DEF TypeOK, Requests, LateRequestServed
    <2> QED BY <1>5, <2>1 DEF HandlerInv
  <1>8. ASSUME NEW a \in Attempts, LeaveWindow(a) PROVE Inserted' = Inserted
    BY <1>1, <1>8 DEF LeaveWindow
  <1> QED BY <1>2, <1>3, <1>4, <1>6, <1>7, <1>8 DEF Next

\* What a step does to the snapshots: one more is taken, or none changes and
\* none comes to count that did not.
SnapshotTaken(a) ==
    /\ FetchRecentContactTimestamps(a)
    /\ UNCHANGED aged
    /\ \A b \in Attempts : Counted(b)' => Counted(b) \/ b = a

SnapshotsKept ==
    /\ UNCHANGED recent
    /\ aged \subseteq aged'
    /\ \A b \in Attempts : Counted(b)' => Counted(b)

\* A step takes one attempt's snapshot or keeps them all, up to rows that leave
\* the window.
LEMMA SnapshotKinds ==
    ASSUME TypeOK, HandlerInv, [Next]_vars
    PROVE  SnapshotsKept \/ \E a \in Attempts : SnapshotTaken(a)
  <1> USE DEF consumerVars, tableVars, handlerVars, wfVars, eventVars
  <1>1. CASE UNCHANGED vars
    BY <1>1 DEF vars, SnapshotsKept, Counted
  <1>2. ASSUME NEW c \in Consumers, ConsumerNext(c) \/ SubscriberNext(c)
        PROVE  SnapshotsKept
    BY <1>2 DEF ConsumerNext, UpdateConsent, PublishConsentChanged,
       PublishConsentChangedFails, SubscriberNext, HandleConsentChanged,
       HandleConsentChangedUnacked, SnapshotsKept, Counted
  <1>3. ASSUME NEW a \in Attempts, HandlerNext(a)
        PROVE  SnapshotsKept \/ SnapshotTaken(a)
    <2>1. CASE FetchRecentContactTimestamps(a)
      BY <2>1 DEF FetchRecentContactTimestamps, SnapshotTaken, Counted, TypeOK
    <2>2. CASE FetchConsumer(a) \/ InsertPendingAttempt(a) \/ InitiateContactFails(a)
      BY <2>2 DEF FetchConsumer, InsertPendingAttempt, InitiateContactFails,
         SnapshotsKept, Counted, TypeOK
    <2>3. CASE StartWorkflow(a)
      BY <2>3 DEF StartWorkflow, SnapshotsKept, Counted, TypeOK
    <2> QED BY <1>3, <2>1, <2>2, <2>3 DEF HandlerNext
  <1>4. ASSUME NEW a \in Attempts, WorkflowNext(a) PROVE SnapshotsKept
    <2>1. UNCHANGED <<recent, aged, handler>> /\ wf[a] # "none"
      BY <1>4 DEF WorkflowNext, CheckComplianceAllows, CheckComplianceBlocks,
         PureActivity, WriteActivity, ActivityTryFails, ActivityFails,
         WorkflowTimesOut, Running, WriteActivities
    <2> QED BY <1>4, <2>1, WorkflowFrame DEF SnapshotsKept, Counted
  <1>5. ASSUME NEW a \in Attempts, LeaveWindow(a) PROVE SnapshotsKept
    BY <1>5 DEF LeaveWindow, SnapshotsKept, Counted
  <1>6. ASSUME NEW r \in late, LateRequestServed(r) PROVE SnapshotsKept
    BY <1>6 DEF LateRequestServed, SnapshotsKept, Counted
  <1> QED BY <1>1, <1>2, <1>3, <1>4, <1>5, <1>6 DEF Next

\* Snapshots of one consumer stay ordered by inclusion.
LEMMA SnapshotStep ==
    ASSUME TypeOK, HandlerInv, SnapshotInv, [Next]_vars
    PROVE  SnapshotInv'
  <1>1. Inserted \subseteq Inserted' /\ IsFiniteSet(Inserted')
    BY InsertedStep, FS_AddElement DEF SnapshotInv
  <1>2. CASE SnapshotsKept
    BY <1>1, <1>2 DEF SnapshotsKept, SnapshotInv
  <1>3. ASSUME NEW a \in Attempts, SnapshotTaken(a) PROVE SnapshotInv'
    <2>1. recent'[a] = {b \in Inserted \ aged : ConsumerOf[b] = ConsumerOf[a]}
          /\ \A b \in Attempts : b # a => recent'[b] = recent[b]
      BY <1>3 DEF SnapshotTaken, FetchRecentContactTimestamps, TypeOK
    <2>2. a \in Inserted \ aged
      BY <1>3 DEF SnapshotTaken, FetchRecentContactTimestamps, HandlerInv, Inserted
    <2>3. \A b \in Attempts :
             recent'[b] \subseteq {x \in Inserted' : ConsumerOf[x] = ConsumerOf[b]}
      BY <1>1, <2>1 DEF SnapshotInv
    <2>4. \A b \in Attempts : Counted(b)' => b \in recent'[b]
      BY <1>3, <2>1, <2>2 DEF SnapshotTaken, SnapshotInv
    <2>5. \A b \in Attempts : ConsumerOf[b] = ConsumerOf[a]
             => recent[b] \ aged \subseteq recent'[a]
      BY <2>1 DEF SnapshotInv
    <2>6. ASSUME NEW b \in Attempts, NEW d \in Attempts,
                 ConsumerOf[b] = ConsumerOf[d], Counted(b)', Counted(d)'
          PROVE  \/ recent'[b] \ aged' \subseteq recent'[d]
                 \/ recent'[d] \ aged' \subseteq recent'[b]
      <3>1. CASE b = a \/ d = a
        BY <1>3, <2>1, <2>5, <2>6, <3>1 DEF SnapshotTaken
      <3>2. CASE b # a /\ d # a
        BY <1>3, <2>1, <2>6, <3>2 DEF SnapshotTaken, SnapshotInv
      <3> QED BY <3>1, <3>2
    <2> QED BY <1>1, <2>3, <2>4, <2>6 DEF SnapshotInv
  <1> QED BY <1>2, <1>3, SnapshotKinds

\* Whoever covers the allowed attempts goes on covering them while no new one
\* is allowed; a newly allowed attempt is covered, or covers the others.
LEMMA CapStep ==
    ASSUME TypeOK, HandlerInv, DecisionInv, SnapshotInv, CapInv, [Next]_vars
    PROVE  CapInv'
  <1>1. ASSUME NEW m \in Attempts
        PROVE  /\ IsFiniteSet(recent[m] \ aged)
               /\ Cardinality(recent[m] \ aged) \in Nat
    <2>1. IsFiniteSet(recent[m] \ aged)
      BY FS_Subset DEF SnapshotInv
    <2> QED BY <2>1, FS_CardinalityType
  <1>2. aged \subseteq aged'
        /\ \A m \in Attempts : wf[m] # "none" => recent'[m] = recent[m]
    BY SnapshotKinds DEF SnapshotsKept, SnapshotTaken, HandlerInv, TypeOK,
       FetchRecentContactTimestamps
  <1>3. \A m \in Attempts : wf[m] # "none" => wf'[m] # "none"
    <2>1. ASSUME NEW a \in Attempts, WorkflowNext(a) PROVE wf'[a] # "none"
      BY <2>1 DEF WorkflowNext, CheckComplianceAllows, CheckComplianceBlocks,
         PureActivity, WriteActivity, ActivityTryFails, ActivityFails,
         WorkflowTimesOut, GoTo, TypeOK, After, Running, WriteActivities
    <2>2. ASSUME NEW r \in late, LateRequestServed(r) PROVE wf' = wf
      BY <2>2 DEF LateRequestServed, wfVars
    <2> QED BY <2>1, <2>2, StepKinds, WorkflowFrame DEF Quiet
  <1>4. ASSUME NEW m \in Attempts, NEW c \in Consumers, Covers(m, c),
               AllowedInWindow(c)' \subseteq recent[m] \ aged
        PROVE  Covers(m, c)'
    <2>1. wf[m] # "none" /\ ConsumerOf[m] = c
          /\ Cardinality(recent[m] \ aged) < MaxAttempts
      BY <1>4 DEF Covers
    <2>2. recent'[m] \ aged' \subseteq recent[m] \ aged
      BY <1>2, <2>1
    <2>3. Cardinality(recent'[m] \ aged') <= Cardinality(recent[m] \ aged)
          /\ IsFiniteSet(recent'[m] \ aged')
      BY <1>1, <2>2, FS_Subset
    <2>4. Cardinality(recent'[m] \ aged') < MaxAttempts
      BY <1>1, <2>1, <2>3, FS_CardinalityType, ContactAssumption
    <2>5. AllowedInWindow(c)' \subseteq recent'[m] \ aged'
      BY <1>2, <1>4, <2>1 DEF AllowedInWindow
    <2> QED BY <1>3, <2>1, <2>4, <2>5 DEF Covers
  <1>5. CASE \A b \in Attempts : decision'[b] = "allowed" => decision[b] = "allowed"
    <2>1. \A c \in Consumers : AllowedInWindow(c)' \subseteq AllowedInWindow(c)
      BY <1>2, <1>5 DEF AllowedInWindow
    <2> QED BY <1>4, <2>1 DEF CapInv, Covers
  <1>6. ASSUME NEW a \in Attempts, CheckComplianceAllows(a) PROVE CapInv'
    <2>1. /\ wf[a] = "check" /\ UNCHANGED <<recent, aged>>
          /\ ~ (Cardinality(recent[a] \ aged) >= MaxAttempts)
          /\ decision' = [decision EXCEPT ![a] = "allowed"]
          /\ wf'[a] # "none"
      BY <1>6 DEF CheckComplianceAllows, FrequencyCapRule, tableVars, handlerVars,
         GoTo, TypeOK
    <2>2. \A b \in Attempts : b # a => decision'[b] = decision[b]
      BY <2>1 DEF TypeOK
    <2>3. a \in recent[a]
      BY <2>1 DEF SnapshotInv, Counted
    <2> SUFFICES ASSUME NEW c \in Consumers
                 PROVE  AllowedInWindow(c)' = {} \/ \E m \in Attempts : Covers(m, c)'
      BY DEF CapInv
    <2>4. AllowedInWindow(c)' \subseteq AllowedInWindow(c) \cup ({a} \ aged)
      BY <2>1, <2>2 DEF AllowedInWindow
    <2>5. CASE ConsumerOf[a] # c
      <3>1. AllowedInWindow(c)' \subseteq AllowedInWindow(c)
        BY <2>1, <2>2, <2>5 DEF AllowedInWindow
      <3> QED BY <1>4, <3>1 DEF CapInv, Covers
    <2>6. CASE ConsumerOf[a] = c
      <3>1. ASSUME AllowedInWindow(c) \subseteq recent[a] PROVE Covers(a, c)'
        <4>1. AllowedInWindow(c)' \subseteq recent'[a] \ aged'
          BY <2>1, <2>3, <2>4, <3>1 DEF AllowedInWindow
        <4>2. Cardinality(recent[a] \ aged) < MaxAttempts
          <5> DEFINE n == Cardinality(recent[a] \ aged)
          <5>1. n \in Nat
            BY <1>1
          <5>2. ~ (n >= MaxAttempts)
            BY <2>1
          <5> HIDE DEF n
          <5>3. n < MaxAttempts
            BY <5>1, <5>2, ContactAssumption
          <5> QED BY <5>3 DEF n
        <4>3. recent'[a] = recent[a] /\ aged' = aged
          BY <2>1
        <4> QED BY <2>1, <2>6, <4>1, <4>2, <4>3 DEF Covers
      <3>2. ASSUME NEW m \in Attempts, Covers(m, c) PROVE Covers(m, c)' \/ Covers(a, c)'
        <4>1. \/ recent[m] \ aged \subseteq recent[a]
              \/ recent[a] \ aged \subseteq recent[m]
          BY <2>1, <2>6, <3>2 DEF SnapshotInv, Counted, Covers
        <4>2. CASE recent[m] \ aged \subseteq recent[a]
          BY <3>1, <3>2, <4>2 DEF Covers
        <4>3. CASE recent[a] \ aged \subseteq recent[m]
          BY <1>4, <2>3, <2>4, <3>2, <4>3 DEF Covers
        <4> QED BY <4>1, <4>2, <4>3
      <3>3. CASE AllowedInWindow(c) = {}
        BY <3>1, <3>3
      <3> QED BY <3>2, <3>3 DEF CapInv
    <2> QED BY <2>5, <2>6
  <1>7. ASSUME ~ \E a \in Attempts : CheckComplianceAllows(a)
        PROVE  \A b \in Attempts : decision'[b] = "allowed" => decision[b] = "allowed"
    <2>1. CASE Quiet
      BY <2>1 DEF Quiet
    <2>2. ASSUME NEW a \in Attempts, WorkflowNext(a)
          PROVE  \A b \in Attempts : decision'[b] = "allowed" => decision[b] = "allowed"
      BY <1>7, <2>2 DEF WorkflowNext, CheckComplianceBlocks, PureActivity,
         WriteActivity, ActivityTryFails, ActivityFails, WorkflowTimesOut, TypeOK
    <2>3. ASSUME NEW r \in late, LateRequestServed(r) PROVE decision' = decision
      BY <2>3 DEF LateRequestServed, wfVars
    <2> QED BY <2>1, <2>2, <2>3, StepKinds
  <1> QED BY <1>5, <1>6, <1>7

\* The initial state: no row, no snapshot, nothing allowed.
LEMMA IInvInit == Init => IInv
  <1> SUFFICES ASSUME Init PROVE IInv
    OBVIOUS
  <1>1. Inserted = {}
    BY DEF Init, Inserted
  <1>2. SnapshotInv
    BY <1>1, FS_EmptySet DEF Init, SnapshotInv, Counted
  <1>3. CapInv
    BY DEF Init, CapInv, AllowedInWindow
  <1> QED BY <1>2, <1>3, FlowInit DEF IInv

\* Every step keeps the inductive invariant.
LEMMA IInvStep == IInv /\ [Next]_vars => IInv'
  BY FlowStep, SnapshotStep, CapStep DEF IInv, FlowInv

\* The inductive invariant implies the cap.
LEMMA IInvCap == IInv => CapHolds
  <1> SUFFICES ASSUME IInv, NEW c \in Consumers
               PROVE  /\ IsFiniteSet(AllowedInWindow(c))
                      /\ Cardinality(AllowedInWindow(c)) < MaxAttempts
    BY DEF CapHolds, AllowedInWindow
  <1>1. CASE AllowedInWindow(c) = {}
    BY <1>1, FS_EmptySet, ContactAssumption
  <1>2. ASSUME NEW m \in Attempts, Covers(m, c)
        PROVE  /\ IsFiniteSet(AllowedInWindow(c))
               /\ Cardinality(AllowedInWindow(c)) < MaxAttempts
    <2>1. IsFiniteSet(recent[m] \ aged)
      BY FS_Subset DEF IInv, SnapshotInv
    <2>2. /\ IsFiniteSet(AllowedInWindow(c))
          /\ Cardinality(AllowedInWindow(c)) <= Cardinality(recent[m] \ aged)
      BY <1>2, <2>1, FS_Subset DEF Covers
    <2> QED BY <1>2, <2>1, <2>2, FS_CardinalityType, ContactAssumption DEF Covers
  <1> QED BY <1>1, <1>2 DEF IInv, CapInv

\* The frequency cap holds for any number of consumers and concurrent calls
\* and any cap: in no window do MaxAttempts attempts of a consumer go out.
THEOREM FrequencyCap == Spec => []CapHolds
  BY IInvInit, IInvStep, IInvCap, PTL DEF Spec

---------------------------------------------------------------------------
(* Every attempt follows the abstract lifecycle.                           *)

RuleRecorded(a) == row[a].reason = "rule"

\* block_reason names a rule once a blocked result is recorded, and only then.
ReasonInv ==
    \A a \in Attempts :
        /\ row[a].status \in {"absent", "pending"} => row[a].reason = "none"
        /\ RuleRecorded(a) => row[a].status = "blocked" /\ decision[a] = "blocked"
        /\ decision[a] = "blocked" =>
              /\ wf[a] \in {"publishAttempted", "completed"} => RuleRecorded(a)
              /\ [attempt |-> a, op |-> "publishAttempted"] \in late => RuleRecorded(a)

LifeInv == FlowInv /\ ReasonInv

\* Serving a request keeps or sets the rule, and sets it for a blocked record.
LEMMA ServeReason ==
    ASSUME LifeInv, NEW a \in Attempts, NEW op \in WriteActivities, Serve(a, op),
           decision[a] # "none", row[a].status # "absent"
    PROVE  /\ \A b \in Attempts : RuleRecorded(b) => RuleRecorded(b)'
           /\ op = "record" /\ decision[a] = "blocked" => RuleRecorded(a)'
           /\ \A b \in Attempts :
                 /\ row'[b].status \in {"absent", "pending"} => row'[b].reason = "none"
                 /\ RuleRecorded(b)' => /\ row'[b].status = "blocked"
                                        /\ decision[b] = "blocked"
  <1>1. CASE op = "record"
    <2>1. row' = [row EXCEPT ![a] =
              [status  |-> Outcome(a),
               reason  |-> IF Outcome(a) = "blocked" THEN "rule" ELSE @.reason,
               content |-> IF Outcome(a) = "blocked" THEN @.content ELSE "sanitized"]]
      BY <1>1 DEF Serve, UpdateContactResult
    <2>2. /\ row'[a].status = Outcome(a)
          /\ row'[a].reason = IF Outcome(a) = "blocked" THEN "rule" ELSE row[a].reason
      BY <2>1 DEF LifeInv, FlowInv, TypeOK
    <2>3. \A b \in Attempts : b # a => row'[b] = row[b]
      BY <2>1 DEF LifeInv, FlowInv, TypeOK
    <2> QED BY <1>1, <2>2, <2>3, OutcomeValue DEF LifeInv, ReasonInv, RuleRecorded
  <1>2. CASE op # "record"
    BY <1>2 DEF Serve, LifeInv, ReasonInv, RuleRecorded
  <1> QED BY <1>1, <1>2

\* The late requests are for workflows that have decided, on rows that exist.
LEMMA LateRequest ==
    ASSUME LifeInv, NEW r \in late
    PROVE  /\ r.attempt \in Attempts /\ r.op \in WriteActivities
           /\ r = [attempt |-> r.attempt, op |-> r.op]
           /\ decision[r.attempt] # "none"
           /\ row[r.attempt].status # "absent"
  <1>1. /\ r.attempt \in Attempts /\ r.op \in WriteActivities
        /\ r = [attempt |-> r.attempt, op |-> r.op]
    BY DEF LifeInv, FlowInv, TypeOK, Requests
  <1> QED BY <1>1 DEF LifeInv, FlowInv, DecisionInv, HandlerInv

\* No step records a rule without a blocked result, or takes one back.
LEMMA ReasonStep == LifeInv /\ [Next]_vars => ReasonInv'
  <1> SUFFICES ASSUME LifeInv, [Next]_vars PROVE ReasonInv'
    OBVIOUS
  <1> USE DEF consumerVars, tableVars, handlerVars, wfVars, eventVars
  <1>1. ASSUME UNCHANGED <<decision, late, wf>>,
               \A a \in Attempts :
                  \/ row'[a] = row[a]
                  \/ row[a].status = "pending" /\ row'[a].status = "blocked"
                     /\ row'[a].reason = "consent_revoked"
        PROVE  ReasonInv'
    BY <1>1 DEF LifeInv, ReasonInv, RuleRecorded
  <1>2. CASE UNCHANGED vars
    BY <1>1, <1>2 DEF vars
  <1>3. ASSUME NEW c \in Consumers, ConsumerNext(c) PROVE ReasonInv'
    BY <1>1, <1>3 DEF ConsumerNext, UpdateConsent, PublishConsentChanged,
       PublishConsentChangedFails
  <1>4. ASSUME NEW c \in Consumers, SubscriberNext(c) PROVE ReasonInv'
    <2>1. BlockPending(c) /\ UNCHANGED <<wfVars, late>>
      BY <1>4 DEF SubscriberNext, HandleConsentChanged, HandleConsentChangedUnacked
    <2>2. ASSUME NEW a \in Attempts, row'[a] # row[a]
          PROVE  /\ row[a].status = "pending" /\ row'[a].status = "blocked"
                 /\ row'[a].reason = "consent_revoked"
      <3>1. row[a] \in Rows
        BY DEF LifeInv, FlowInv, TypeOK
      <3>2. /\ row[a].status = "pending"
            /\ row'[a] = [row[a] EXCEPT !.status = "blocked",
                                        !.reason = "consent_revoked"]
        BY <2>1, <2>2 DEF BlockPending
      <3> QED BY <3>1, <3>2 DEF Rows
    <2> QED BY <1>1, <2>1, <2>2
  <1>5. ASSUME NEW a \in Attempts, HandlerNext(a) PROVE ReasonInv'
    <2>1. CASE InsertPendingAttempt(a)
      <3>1. /\ \A b \in Attempts : b # a => row'[b] = row[b]
            /\ row'[a].status = "pending" /\ row'[a].reason = "none"
            /\ wf[a] = "none" /\ UNCHANGED <<decision, late, wf>>
        BY <2>1 DEF InsertPendingAttempt, LifeInv, FlowInv, TypeOK, HandlerInv
      <3>2. decision[a] = "none"
        BY <3>1 DEF LifeInv, FlowInv, DecisionInv
      <3> QED BY <3>1, <3>2 DEF LifeInv, ReasonInv, RuleRecorded
    <2>2. CASE StartWorkflow(a)
      <3>1. /\ \A b \in Attempts : wf'[b] = wf[b] \/ wf'[b] = "check"
            /\ UNCHANGED <<decision, late, row>>
        BY <2>2 DEF StartWorkflow, LifeInv, FlowInv, TypeOK
      <3> QED BY <3>1 DEF LifeInv, ReasonInv, RuleRecorded
    <2> QED BY <1>1, <1>5, <2>1, <2>2 DEF HandlerNext, FetchConsumer,
               FetchRecentContactTimestamps, InitiateContactFails
  <1>6. ASSUME NEW a \in Attempts, LeaveWindow(a) PROVE ReasonInv'
    BY <1>1, <1>6 DEF LeaveWindow
  <1>7. ASSUME NEW a \in Attempts, WorkflowNext(a) PROVE ReasonInv'
    <2>1. CASE WriteActivity(a)
      <3>1. /\ wf[a] \in WriteActivities /\ Serve(a, wf[a])
            /\ UNCHANGED <<decision, late>>
            /\ \A b \in Attempts : b # a => wf'[b] = wf[b]
            /\ wf'[a] = After(a)
        BY <2>1 DEF WriteActivity, GoTo, LifeInv, FlowInv, TypeOK
      <3>2. decision[a] # "none" /\ row[a].status # "absent"
        BY <3>1 DEF LifeInv, FlowInv, DecisionInv, HandlerInv, WriteActivities
      <3>3. wf'[a] \in {"publishAttempted", "completed"} /\ decision[a] = "blocked"
               => RuleRecorded(a)'
        BY <3>1, <3>2, ServeReason DEF After, WriteActivities, LifeInv, ReasonInv,
           FlowInv, DecisionInv
      <3> QED BY <3>1, <3>2, <3>3, ServeReason DEF LifeInv, ReasonInv
    <2>2. CASE UNCHANGED row
      <3>1. \A b \in Attempts : b # a => wf'[b] = wf[b] /\ decision'[b] = decision[b]
        BY <1>7, WorkflowFrame DEF LifeInv, FlowInv
      <3>2. \/ wf[a] = "check" /\ late' = late /\ wf'[a] # "publishAttempted"
               /\ wf'[a] # "completed"
            \/ decision' = decision
        BY <1>7 DEF WorkflowNext, CheckComplianceAllows, CheckComplianceBlocks,
           PureActivity, WriteActivity, ActivityTryFails, ActivityFails,
           WorkflowTimesOut, Abandon, GoTo, LifeInv, FlowInv, TypeOK
      <3>3. wf[a] = "check" => decision[a] = "none"
        BY DEF LifeInv, FlowInv, DecisionInv
      <3>4. \A op \in WriteActivities :
               [attempt |-> a, op |-> op] \in late => decision[a] # "none"
        BY DEF LifeInv, FlowInv, DecisionInv
      <3>5. \A b \in Attempts, op \in WriteActivities :
               [attempt |-> b, op |-> op] \in late' =>
                  [attempt |-> b, op |-> op] \in late \/ (b = a /\ op = wf[a])
        BY <1>7, WorkflowFrame DEF LifeInv, FlowInv
      <3>6. wf'[a] \in {"publishAttempted", "completed"} => wf'[a] = wf[a] \/ WriteActivity(a)
        BY <1>7 DEF WorkflowNext, CheckComplianceAllows, CheckComplianceBlocks,
           PureActivity, ActivityTryFails, ActivityFails, After, WriteActivities,
           WorkflowTimesOut, GoTo, LifeInv, FlowInv, TypeOK
      <3>7. CASE wf[a] = "check" /\ late' = late /\ wf'[a] # "publishAttempted"
                 /\ wf'[a] # "completed"
        BY <2>2, <3>1, <3>3, <3>4, <3>7 DEF LifeInv, ReasonInv, RuleRecorded,
           WriteActivities
      <3>8. CASE decision' = decision
        BY <2>1, <2>2, <3>1, <3>5, <3>6, <3>8 DEF LifeInv, ReasonInv, RuleRecorded,
           WriteActivities
      <3> QED BY <3>2, <3>7, <3>8
    <2> QED BY <1>7, <2>1, <2>2, WorkflowFrame DEF LifeInv, FlowInv
  <1>8. ASSUME NEW r \in late, LateRequestServed(r) PROVE ReasonInv'
    <2>1. /\ Serve(r.attempt, r.op) /\ UNCHANGED wfVars /\ late' \subseteq late
      BY <1>8 DEF LateRequestServed
    <2> QED BY <2>1, LateRequest, ServeReason DEF LifeInv, ReasonInv
  <1> QED BY <1>2, <1>3, <1>4, <1>5, <1>6, <1>7, <1>8 DEF Next

\* The initial state, with no row.
LEMMA LifeInit == Init => LifeInv
  BY FlowInit DEF Init, LifeInv, ReasonInv, RuleRecorded

\* What the row and the events say of an attempt, held for ever.
LEMMA LifeInvariant == Spec => []LifeInv
  <1>1. LifeInv /\ [Next]_vars => LifeInv'
    BY FlowStep, ReasonStep DEF LifeInv
  <1> QED BY <1>1, LifeInit, PTL DEF Spec

Told(a) == {e.status : e \in {x \in attempted : x.attempt = a}}

\* The row holds what the workflow recorded, and nothing else was announced.
LEMMA RecordedValue ==
    ASSUME LifeInv, NEW a \in Attempts
    PROVE  /\ RecordedIn(row[a]) \in {"none", Outcome(a)}
           /\ row[a].status \in {"absent", "pending"} => RecordedIn(row[a]) = "none"
           /\ Told(a) \subseteq {Outcome(a)}
           /\ Announced(a) => Outcome(a) \in Told(a)
  <1>1. RecordedIn(row[a]) \in {"none", Outcome(a)}
    <2>1. CASE row[a].status \in {"delivered", "failed"}
      BY <2>1 DEF RecordedIn, LifeInv, FlowInv, OutcomeInv
    <2>2. CASE row[a].status \notin {"delivered", "failed"}
      BY <2>2, OutcomeValue DEF RecordedIn, LifeInv, ReasonInv, RuleRecorded
    <2> QED BY <2>1, <2>2
  <1>2. row[a].status \in {"absent", "pending"} => RecordedIn(row[a]) = "none"
    BY DEF RecordedIn, LifeInv, ReasonInv
  <1>3. Told(a) \subseteq {Outcome(a)}
    BY DEF Told, LifeInv, FlowInv, EventInv
  <1>4. Announced(a) => Outcome(a) \in Told(a)
    <2> SUFFICES ASSUME Announced(a) PROVE Outcome(a) \in Told(a)
      OBVIOUS
    <2> DEFINE e == [attempt |-> a, status |-> Outcome(a)]
    <2>1. e \in attempted /\ e.attempt = a /\ e.status = Outcome(a)
      BY DEF Announced
    <2> QED BY <2>1 DEF Told
  <1> QED BY <1>1, <1>2, <1>3, <1>4

\* A request served, on time or late, is a step of the lifecycle or none.
LEMMA ServeFollows ==
    ASSUME LifeInv, NEW a \in Attempts, NEW op \in WriteActivities, Serve(a, op),
           decision[a] # "none", row[a].status # "absent",
           op = "publishAttempted" => RecordedIn(row[a]) = Outcome(a),
           op = "publishInteraction" =>
              /\ decision[a] = "allowed"
              /\ RecordedIn(row[a]) = Outcome(a) /\ Announced(a)
    PROVE  Attempt(a)!Next \/ UNCHANGED Attempt(a)!vars
  <1>1. TypeOK
    BY DEF LifeInv, FlowInv
  <1>2. Outcome(a) \in {"blocked", "delivered", "failed"}
    BY OutcomeValue
  <1>3. CASE op = "record"
    <2>1. /\ row'[a].status = Outcome(a)
          /\ row'[a].reason = IF Outcome(a) = "blocked" THEN "rule" ELSE row[a].reason
          /\ UNCHANGED <<attempted, interactions>>
      BY <1>1, <1>3 DEF Serve, UpdateContactResult, TypeOK, eventVars
    <2>2. RecordedIn(row'[a]) = Outcome(a)
      BY <1>2, <2>1 DEF RecordedIn
    <2>3. CASE RecordedIn(row[a]) = "none"
      <3>1. row[a].status \in {"pending", "blocked"}
        <4>1. row[a] \in Rows
          BY <1>1 DEF TypeOK
        <4> QED BY <2>3, <4>1 DEF RecordedIn, Rows, Outcomes
      <3>2. Attempt(a)!Record(Outcome(a))
        BY <2>1, <2>2, <2>3, <3>1 DEF Attempt!Record
      <3> QED BY <1>2, <3>2 DEF Attempt!Next
    <2>4. CASE RecordedIn(row[a]) = Outcome(a)
      <3>1. row[a].status = Outcome(a)
        BY <1>2, <2>4 DEF RecordedIn, LifeInv, ReasonInv, RuleRecorded
      <3> QED BY <2>1, <2>2, <2>4, <3>1 DEF Attempt!vars
    <2> QED BY <2>3, <2>4, RecordedValue
  <1>4. CASE op = "publishAttempted"
    <2>1. /\ attempted' = attempted \cup {[attempt |-> a, status |-> Outcome(a)]}
          /\ UNCHANGED <<row, interactions>>
      BY <1>4 DEF Serve
    <2>2. Told(a)' = {Outcome(a)}
      <3> DEFINE e == [attempt |-> a, status |-> Outcome(a)]
      <3>1. e.attempt = a /\ e.status = Outcome(a) /\ e \in attempted'
        BY <2>1
      <3>2. Outcome(a) \in Told(a)'
        BY <3>1 DEF Told
      <3>3. \A x \in attempted' : x \in attempted \/ x = e
        BY <2>1
      <3>4. \A x \in attempted' : x.attempt = a => x.status = Outcome(a)
        BY <3>1, <3>3 DEF LifeInv, FlowInv, EventInv
      <3>5. Told(a)' \subseteq {Outcome(a)}
        BY <3>4 DEF Told
      <3> QED BY <3>2, <3>5
    <2>3. Attempt(a)!Announce
      BY <1>2, <1>4, <2>1, <2>2 DEF Attempt!Announce, Told
    <2> QED BY <2>3 DEF Attempt!Next
  <1>5. CASE op = "publishInteraction"
    <2>1. interactions' = interactions \cup {a} /\ UNCHANGED <<row, attempted>>
      BY <1>5 DEF Serve
    <2>2. Outcome(a) \in {"delivered", "failed"}
      BY <1>5 DEF Outcome
    <2>3. Told(a) = {Outcome(a)}
      BY <1>5, RecordedValue
    <2>4. (a \in interactions)' = TRUE
      BY <2>1
    <2>5. Attempt(a)!TellInteraction
      BY <1>5, <2>1, <2>2, <2>3, <2>4 DEF Attempt!TellInteraction, Told
    <2> QED BY <2>5 DEF Attempt!Next
  <1> QED BY <1>3, <1>4, <1>5 DEF WriteActivities

\* Whoever may publish has recorded first.
LEMMA RecordedFirst ==
    ASSUME LifeInv, NEW a \in Attempts, Recorded(a),
           decision[a] = "blocked" => RuleRecorded(a)
    PROVE  RecordedIn(row[a]) = Outcome(a)
  BY OutcomeValue DEF Recorded, RecordedIn, RuleRecorded, Outcome, LifeInv, FlowInv, TypeOK

\* Every step is, for every attempt, a step of the lifecycle or none.
LEMMA StepFollows ==
    ASSUME LifeInv, [Next]_vars, NEW a \in Attempts
    PROVE  Attempt(a)!Next \/ UNCHANGED Attempt(a)!vars
  <1> USE DEF consumerVars, tableVars, handlerVars, wfVars, eventVars
  <1>0. TypeOK /\ HandlerInv
    BY DEF LifeInv, FlowInv
  <1>1. ASSUME row'[a] = row[a], UNCHANGED <<attempted, interactions>>
        PROVE  UNCHANGED Attempt(a)!vars
    BY <1>1 DEF Attempt!vars
  <1>2. ASSUME NEW b \in Attempts, NEW op \in WriteActivities, Serve(b, op), b # a
        PROVE  UNCHANGED Attempt(a)!vars
    <2>1. row'[a] = row[a]
      BY <1>0, <1>2, ServeEffect
    <2>2. Told(a)' = Told(a)
      <3>1. \A x : x.attempt = a => (x \in attempted' <=> x \in attempted)
        BY <1>0, <1>2, ServeEffect
      <3> QED BY <3>1 DEF Told
    <2>3. (a \in interactions)' = (a \in interactions)
      BY <1>0, <1>2, ServeEffect
    <2> QED BY <2>1, <2>2, <2>3 DEF Attempt!vars, Told
  <1>3. CASE UNCHANGED vars
    BY <1>1, <1>3 DEF vars
  <1>4. ASSUME NEW c \in Consumers, ConsumerNext(c) PROVE UNCHANGED Attempt(a)!vars
    BY <1>1, <1>4 DEF ConsumerNext, UpdateConsent, PublishConsentChanged,
       PublishConsentChangedFails
  <1>5. ASSUME NEW c \in Consumers, SubscriberNext(c)
        PROVE  Attempt(a)!Next \/ UNCHANGED Attempt(a)!vars
    <2>1. BlockPending(c) /\ UNCHANGED eventVars
      BY <1>5 DEF SubscriberNext, HandleConsentChanged, HandleConsentChangedUnacked
    <2>2. CASE row'[a] = row[a]
      BY <1>1, <2>1, <2>2
    <2>3. CASE row'[a] # row[a]
      <3>1. row[a] \in Rows
        BY <1>0 DEF TypeOK
      <3>2. /\ row[a].status = "pending"
            /\ row'[a] = [row[a] EXCEPT !.status = "blocked",
                                        !.reason = "consent_revoked"]
        BY <2>1, <2>3 DEF BlockPending
      <3>3. row'[a].status = "blocked" /\ row'[a].reason = "consent_revoked"
        BY <3>1, <3>2 DEF Rows
      <3>4. RecordedIn(row[a]) = "none" /\ RecordedIn(row'[a]) = "none"
        BY <3>2, <3>3, RecordedValue DEF RecordedIn
      <3>5. Attempt(a)!Revoke
        BY <2>1, <3>2, <3>3, <3>4 DEF Attempt!Revoke
      <3> QED BY <3>5 DEF Attempt!Next
    <2> QED BY <2>2, <2>3
  <1>6. ASSUME NEW b \in Attempts, HandlerNext(b)
        PROVE  Attempt(a)!Next \/ UNCHANGED Attempt(a)!vars
    <2>1. CASE InsertPendingAttempt(b) /\ b = a
      <3>1. /\ row'[a].status = "pending" /\ row'[a].reason = "none"
            /\ row[a].status = "absent" /\ UNCHANGED eventVars
        BY <1>0, <2>1 DEF InsertPendingAttempt, TypeOK, HandlerInv
      <3>2. RecordedIn(row[a]) = "none" /\ RecordedIn(row'[a]) = "none"
        BY <3>1, RecordedValue DEF RecordedIn
      <3>3. Attempt(a)!Insert
        BY <3>1, <3>2 DEF Attempt!Insert
      <3> QED BY <3>3 DEF Attempt!Next
    <2>2. CASE InsertPendingAttempt(b) /\ b # a
      BY <1>0, <1>1, <2>2 DEF InsertPendingAttempt, TypeOK
    <2> QED BY <1>1, <1>6, <2>1, <2>2 DEF HandlerNext, FetchConsumer, StartWorkflow,
               FetchRecentContactTimestamps, InitiateContactFails
  <1>7. ASSUME NEW b \in Attempts, LeaveWindow(b) PROVE UNCHANGED Attempt(a)!vars
    BY <1>1, <1>7 DEF LeaveWindow
  <1>8. ASSUME NEW b \in Attempts, WorkflowNext(b)
        PROVE  Attempt(a)!Next \/ UNCHANGED Attempt(a)!vars
    <2>1. CASE WriteActivity(b) /\ b = a
      <3>1. wf[a] \in WriteActivities /\ Serve(a, wf[a])
        BY <2>1 DEF WriteActivity
      <3>2. decision[a] # "none" /\ row[a].status # "absent"
        BY <3>1 DEF LifeInv, FlowInv, DecisionInv, HandlerInv, WriteActivities
      <3>3. wf[a] = "publishAttempted" => RecordedIn(row[a]) = Outcome(a)
        BY RecordedFirst DEF LifeInv, FlowInv, PublishInv, ReasonInv
      <3>4. wf[a] = "publishInteraction" =>
               /\ decision[a] = "allowed"
               /\ RecordedIn(row[a]) = Outcome(a) /\ Announced(a)
        BY RecordedFirst DEF LifeInv, FlowInv, DecisionInv, PublishInv
      <3> QED BY <3>1, <3>2, <3>3, <3>4, ServeFollows
    <2>2. CASE WriteActivity(b) /\ b # a
      BY <1>2, <2>2 DEF WriteActivity
    <2> QED BY <1>0, <1>1, <1>8, <2>1, <2>2, WorkflowFrame
  <1>9. ASSUME NEW r \in late, LateRequestServed(r)
        PROVE  Attempt(a)!Next \/ UNCHANGED Attempt(a)!vars
    <2>1. Serve(r.attempt, r.op)
      BY <1>9 DEF LateRequestServed
    <2>2. CASE r.attempt = a
      <3>1. r.op = "publishAttempted" => RecordedIn(row[a]) = Outcome(a)
        BY <2>2, LateRequest, RecordedFirst DEF LifeInv, FlowInv, PublishInv, ReasonInv
      <3>2. r.op = "publishInteraction" =>
               /\ decision[a] = "allowed"
               /\ RecordedIn(row[a]) = Outcome(a) /\ Announced(a)
        BY <2>2, LateRequest, RecordedFirst DEF LifeInv, FlowInv, DecisionInv, PublishInv
      <3> QED BY <2>1, <2>2, <3>1, <3>2, LateRequest, ServeFollows
    <2>3. CASE r.attempt # a
      BY <1>2, <2>1, <2>3, LateRequest
    <2> QED BY <2>2, <2>3
  <1> QED BY <1>3, <1>4, <1>5, <1>6, <1>7, <1>8, <1>9 DEF Next

\* The code behind an attempt, with its retries, late requests and redelivered
\* revocations, implements the lifecycle: an outcome is recorded once, over a
\* revocation at most, announced only then, and the interaction after that.
THEOREM FollowsLifecycle == Spec => AttemptsFollowLifecycle
  <1>1. Init => \A a \in Attempts : Attempt(a)!Init
    BY DEF Init, Attempt!Init, RecordedIn
  <1>2. LifeInv /\ [Next]_vars =>
           [\A a \in Attempts : UNCHANGED Attempt(a)!vars \/ Attempt(a)!Next]_vars
    BY StepFollows
  <1> QED BY <1>1, <1>2, LifeInvariant, PTL DEF Spec, AttemptsFollowLifecycle

---------------------------------------------------------------------------
(* The argument behind WorkflowCloses, without its last, temporal step.    *)

\* How many activities the workflow has left at most, the current included.
ActivitiesLeft(a) ==
    [none |-> 0, check |-> 7, sanitize |-> 6, deliver |-> 5, score |-> 4, record |-> 3,
     publishAttempted |-> 2, publishInteraction |-> 1, completed |-> 0, failed |-> 0][wf[a]]

\* How many tries those activities have left at most.
TriesLeft(a) == ActivitiesLeft(a) * MaxTries - tries[a]

\* Going on, to an activity that comes later or to the end, takes tries away
\* whatever the number of tries an activity has.
LEMMA FewerTries ==
    ASSUME NEW m \in 0 .. 7, NEW n \in 0 .. 7, n < m, NEW t \in 0 .. MaxTries - 1
    PROVE  /\ n * MaxTries - 0 < m * MaxTries - t
           /\ 0 < m * MaxTries - t
  <1>1. MaxTries \in Nat \ {0}
    BY ContactAssumption
  <1>2. ASSUME NEW i \in {1, 2, 3, 4, 5, 6, 7}, NEW j \in {0, 1, 2, 3, 4, 5, 6}, j < i
        PROVE  j * MaxTries < i * MaxTries - t
    BY <1>1, <1>2
  <1>3. m \in {1, 2, 3, 4, 5, 6, 7} /\ n \in {0, 1, 2, 3, 4, 5, 6}
    OBVIOUS
  <1>4. n * MaxTries < m * MaxTries - t /\ 0 * MaxTries < m * MaxTries - t
    BY <1>2, <1>3
  <1>5. n * MaxTries \in Int /\ 0 * MaxTries = 0
    BY <1>1, <1>3
  <1> QED BY <1>4, <1>5

\* What a step of the workflow does to the activity and its tries.
LEMMA WorkflowGoesOn ==
    ASSUME FlowInv, NEW a \in Attempts, WorkflowNext(a)
    PROVE  /\ wf[a] \in Running
           /\ \/ wf'[a] = wf[a] /\ tries'[a] = tries[a] + 1 /\ tries'[a] < MaxTries
              \/ tries'[a] = 0 /\ ActivitiesLeft(a)' < ActivitiesLeft(a)
  <1> USE DEF FlowInv, TypeOK, GoTo, ActivitiesLeft, WriteActivities, Running
  <1>1. CASE CheckComplianceAllows(a) \/ CheckComplianceBlocks(a)
    BY <1>1 DEF CheckComplianceAllows, CheckComplianceBlocks
  <1>2. CASE PureActivity(a)
    BY <1>2, AfterValue DEF PureActivity
  <1>3. CASE WriteActivity(a)
    BY <1>3, AfterValue DEF WriteActivity
  <1>4. CASE ActivityTryFails(a)
    BY <1>4 DEF ActivityTryFails
  <1>5. CASE ActivityFails(a) \/ WorkflowTimesOut(a)
    BY <1>5 DEF ActivityFails, WorkflowTimesOut
  <1> QED BY <1>1, <1>2, <1>3, <1>4, <1>5 DEF WorkflowNext

\* Nobody else moves a workflow that has started.
LEMMA OthersLeaveIt ==
    ASSUME FlowInv, [Next]_vars, NEW a \in Attempts, wf[a] # "none", ~ WorkflowNext(a)
    PROVE  wf'[a] = wf[a] /\ tries'[a] = tries[a]
  <1> USE DEF consumerVars, tableVars, handlerVars, wfVars, eventVars
  <1>1. ASSUME NEW b \in Attempts, WorkflowNext(b)
        PROVE  wf'[a] = wf[a] /\ tries'[a] = tries[a]
    <2>1. b # a
      BY <1>1
    <2> QED BY <1>1, <2>1 DEF WorkflowNext, CheckComplianceAllows, CheckComplianceBlocks,
         PureActivity, WriteActivity, ActivityTryFails, ActivityFails, WorkflowTimesOut,
         GoTo, FlowInv, TypeOK
  <1>2. ASSUME NEW b \in Attempts, HandlerNext(b) \/ LeaveWindow(b)
        PROVE  wf'[a] = wf[a] /\ tries'[a] = tries[a]
    <2>1. CASE StartWorkflow(b)
      <3>1. b # a
        BY <2>1 DEF StartWorkflow, FlowInv, HandlerInv
      <3> QED BY <2>1, <3>1 DEF StartWorkflow, FlowInv, TypeOK
    <2> QED BY <1>2, <2>1 DEF HandlerNext, FetchConsumer, InsertPendingAttempt,
               FetchRecentContactTimestamps, InitiateContactFails, LeaveWindow
  <1>3. ASSUME NEW c \in Consumers, ConsumerNext(c) \/ SubscriberNext(c)
        PROVE  wf'[a] = wf[a] /\ tries'[a] = tries[a]
    BY <1>3 DEF ConsumerNext, UpdateConsent, PublishConsentChanged,
       PublishConsentChangedFails, SubscriberNext, HandleConsentChanged,
       HandleConsentChangedUnacked
  <1>4. ASSUME NEW r \in late, LateRequestServed(r)
        PROVE  wf'[a] = wf[a] /\ tries'[a] = tries[a]
    BY <1>4 DEF LateRequestServed
  <1>5. CASE UNCHANGED vars
    BY <1>5 DEF vars
  <1> QED BY <1>1, <1>2, <1>3, <1>4, <1>5 DEF Next

\* Retries end: every step of a started workflow takes one of at most
\* 7 * MaxTries tries away, no step of anyone else gives one back, and there is
\* one left while the workflow is open (contact_workflow.go:14-22).
THEOREM WorkflowIsBounded ==
    Spec => [][\A a \in Attempts :
                 /\ WorkflowNext(a) => TriesLeft(a)' < TriesLeft(a)
                 /\ wf[a] # "none" /\ ~ WorkflowNext(a) => TriesLeft(a)' = TriesLeft(a)
                 /\ wf[a] \in Running => TriesLeft(a) \in 1 .. 7 * MaxTries]_vars
  <1> DEFINE Fewer(a) ==
                 /\ WorkflowNext(a) => TriesLeft(a)' < TriesLeft(a)
                 /\ wf[a] # "none" /\ ~ WorkflowNext(a) => TriesLeft(a)' = TriesLeft(a)
                 /\ wf[a] \in Running => TriesLeft(a) \in 1 .. 7 * MaxTries
  <1>1. ASSUME FlowInv, FlowInv', [Next]_vars, NEW a \in Attempts PROVE Fewer(a)
    <2>0. /\ tries[a] \in 0 .. MaxTries - 1 /\ MaxTries \in Nat \ {0}
          /\ ActivitiesLeft(a) \in 0 .. 7 /\ ActivitiesLeft(a)' \in 0 .. 7
          /\ wf[a] \in Running => ActivitiesLeft(a) \in 1 .. 7
      BY <1>1, ContactAssumption
         DEF FlowInv, TypeOK, ActivitiesLeft, Running, Closed, WriteActivities
    <2>1. ASSUME WorkflowNext(a) PROVE TriesLeft(a)' < TriesLeft(a)
      <3>1. CASE wf'[a] = wf[a] /\ tries'[a] = tries[a] + 1
        <4>1. ActivitiesLeft(a)' = ActivitiesLeft(a)
          BY <3>1 DEF ActivitiesLeft
        <4>2. ActivitiesLeft(a) * MaxTries \in Int
          BY <2>0
        <4> HIDE DEF ActivitiesLeft
        <4> QED BY <2>0, <3>1, <4>1, <4>2 DEF TriesLeft
      <3>2. CASE tries'[a] = 0 /\ ActivitiesLeft(a)' < ActivitiesLeft(a)
        BY <2>0, <3>2, FewerTries DEF TriesLeft
      <3> QED BY <1>1, <2>1, <3>1, <3>2, WorkflowGoesOn
    <2>2. ASSUME wf[a] # "none", ~ WorkflowNext(a) PROVE TriesLeft(a)' = TriesLeft(a)
      BY <1>1, <2>2, OthersLeaveIt DEF TriesLeft, ActivitiesLeft
    <2>3. ASSUME wf[a] \in Running PROVE TriesLeft(a) \in 1 .. 7 * MaxTries
      <3> DEFINE m == ActivitiesLeft(a)
      <3>1. m \in {1, 2, 3, 4, 5, 6, 7}
        BY <2>0, <2>3
      <3>2. 0 < m * MaxTries - tries[a]
        BY <2>0, <3>1, FewerTries
      <3>3. m * MaxTries <= 7 * MaxTries /\ m * MaxTries \in Int
        BY <2>0, <3>1
      <3> HIDE DEF m
      <3>4. m * MaxTries - tries[a] \in 1 .. 7 * MaxTries
        BY <2>0, <3>2, <3>3
      <3> QED BY <3>4 DEF TriesLeft, m
    <2> QED BY <2>1, <2>2, <2>3
  <1>2. FlowInv /\ FlowInv' /\ [Next]_vars => [\A a \in Attempts : Fewer(a)]_vars
    BY <1>1
  <1> QED BY <1>2, FlowInvariant, PTL DEF Spec

---------------------------------------------------------------------------
(* When a row is final.                                                    *)

\* Nothing is left that could write the row: the handler has returned, no
\* workflow is open and no abandoned record is still on its way.
Settled(a) ==
    /\ handler[a] = "done"
    /\ wf[a] \notin Running
    /\ [attempt |-> a, op |-> "record"] \notin late
    /\ row[a].status # "pending"

\* The row of a settled attempt, its outcome, reason and content, is final: a
\* blocked one too, which BlockedIsTerminal does not promise before that.  No
\* revocation, redelivered or new, and no late publish touches it.
THEOREM SettledRowsAreFinal ==
    \A a \in Attempts : \A r \in Rows :
        Spec => [](Settled(a) /\ row[a] = r => [](Settled(a) /\ row[a] = r))
  <1> SUFFICES ASSUME NEW a \in Attempts, NEW r \in Rows
               PROVE  Spec => [](Settled(a) /\ row[a] = r => [](Settled(a) /\ row[a] = r))
    OBVIOUS
  <1>1. ASSUME FlowInv, Settled(a), [Next]_vars PROVE Settled(a)' /\ row'[a] = row[a]
    <2> USE DEF consumerVars, tableVars, handlerVars, wfVars, eventVars
    <2>1. ASSUME UNCHANGED <<handler, wf, late, row>> PROVE Settled(a)' /\ row'[a] = row[a]
      BY <1>1, <2>1 DEF Settled
    <2>2. ASSUME NEW c \in Consumers, ConsumerNext(c) \/ SubscriberNext(c)
          PROVE  Settled(a)' /\ row'[a] = row[a]
      <3>1. UNCHANGED <<handler, wf, late>> /\ (BlockPending(c) \/ UNCHANGED row)
        BY <2>2 DEF ConsumerNext, UpdateConsent, PublishConsentChanged,
           PublishConsentChangedFails, SubscriberNext, HandleConsentChanged,
           HandleConsentChangedUnacked
      <3>2. row'[a] = row[a]
        BY <1>1, <3>1, BlockPendingEffect DEF FlowInv, Settled
      <3> QED BY <1>1, <3>1, <3>2 DEF Settled
    <2>3. ASSUME NEW b \in Attempts, HandlerNext(b) PROVE Settled(a)' /\ row'[a] = row[a]
      <3>1. b # a
        BY <1>1, <2>3 DEF Settled, HandlerNext, FetchConsumer, InsertPendingAttempt,
           FetchRecentContactTimestamps, StartWorkflow, InitiateContactFails
      <3> QED BY <1>1, <2>3, <3>1 DEF Settled, HandlerNext, FetchConsumer,
           InsertPendingAttempt, FetchRecentContactTimestamps, StartWorkflow,
           InitiateContactFails, FlowInv, TypeOK
    <2>4. ASSUME NEW b \in Attempts, WorkflowNext(b) PROVE Settled(a)' /\ row'[a] = row[a]
      <3>1. b # a /\ UNCHANGED handler
        BY <1>1, <2>4, WorkflowGoesOn DEF Settled, WorkflowNext, CheckComplianceAllows,
           CheckComplianceBlocks, PureActivity, WriteActivity, ActivityTryFails,
           ActivityFails, WorkflowTimesOut
      <3>2. wf'[a] = wf[a] /\ row'[a] = row[a]
            /\ ([attempt |-> a, op |-> "record"] \in late'
                   => [attempt |-> a, op |-> "record"] \in late)
        BY <1>1, <2>4, <3>1, WorkflowFrame DEF FlowInv
      <3> QED BY <1>1, <3>1, <3>2 DEF Settled
    <2>5. ASSUME NEW q \in late, LateRequestServed(q) PROVE Settled(a)' /\ row'[a] = row[a]
      <3>1. /\ q.attempt \in Attempts /\ q.op \in WriteActivities
            /\ q = [attempt |-> q.attempt, op |-> q.op]
            /\ Serve(q.attempt, q.op) /\ late' = late \ {q} /\ UNCHANGED <<handler, wf>>
        BY <1>1, <2>5 DEF FlowInv, TypeOK, Requests, LateRequestServed
      <3>2. q.attempt # a \/ q.op # "record"
        BY <1>1, <3>1 DEF Settled
      <3>3. row'[a] = row[a]
        BY <1>1, <3>1, <3>2, ServeEffect DEF FlowInv
      <3> QED BY <1>1, <3>1, <3>3 DEF Settled
    <2>6. ASSUME NEW b \in Attempts, LeaveWindow(b) PROVE Settled(a)' /\ row'[a] = row[a]
      BY <2>1, <2>6 DEF LeaveWindow
    <2>7. CASE UNCHANGED vars
      BY <2>1, <2>7 DEF vars
    <2> QED BY <1>1, <2>2, <2>3, <2>4, <2>5, <2>6, <2>7 DEF Next
  <1>2. FlowInv /\ (Settled(a) /\ row[a] = r) /\ [Next]_vars => (Settled(a) /\ row[a] = r)'
    BY <1>1
  <1> QED BY <1>2, FlowInvariant, PTL DEF Spec

---------------------------------------------------------------------------
(* The argument behind RevocationReachesPending and OnlyFailuresStrand.    *)

\* An attempt that is pending and named by a revocation on the topic stays so
\* until it is no longer pending: the revocation is not acknowledged before its
\* UPDATE has committed, the UPDATE misses no pending row, and no row becomes
\* pending again (subscribers.go:22-46).
THEOREM RevocationIsKept ==
    Spec => [][\A a \in Attempts :
                 /\ row[a].status = "pending" /\ ConsumerOf[a] \in revokedTopic
                       => row'[a].status # "pending" \/ ConsumerOf[a] \in revokedTopic'
                 /\ HandleConsentChanged(ConsumerOf[a]) => row'[a].status # "pending"
                 /\ row[a].status \notin {"absent", "pending"}
                       => row'[a].status \notin {"absent", "pending"}]_vars
  <1> DEFINE Kept(a) ==
                 /\ row[a].status = "pending" /\ ConsumerOf[a] \in revokedTopic
                       => row'[a].status # "pending" \/ ConsumerOf[a] \in revokedTopic'
                 /\ HandleConsentChanged(ConsumerOf[a]) => row'[a].status # "pending"
                 /\ row[a].status \notin {"absent", "pending"}
                       => row'[a].status \notin {"absent", "pending"}
  <1>1. ASSUME FlowInv, [Next]_vars, NEW a \in Attempts PROVE Kept(a)
    <2> USE DEF consumerVars, tableVars, handlerVars, wfVars, eventVars
    <2>0. TypeOK /\ HandlerInv /\ row[a] \in Rows
      BY <1>1 DEF FlowInv, TypeOK
    <2>1. ASSUME NEW c \in Consumers, BlockPending(c), ConsumerOf[a] = c
          PROVE  row'[a].status # "pending"
      <3>1. CASE row[a].status = "pending"
        <4>1. row'[a] = [row[a] EXCEPT !.status = "blocked", !.reason = "consent_revoked"]
          BY <2>1, <3>1 DEF BlockPending
        <4> QED BY <2>0, <4>1 DEF Rows
      <3>2. CASE row[a].status # "pending"
        BY <2>1, <3>2 DEF BlockPending
      <3> QED BY <3>1, <3>2
    <2>2. HandleConsentChanged(ConsumerOf[a]) => row'[a].status # "pending"
      BY <2>1, ContactAssumption DEF HandleConsentChanged
    <2>3. revokedTopic \subseteq revokedTopic'
          \/ \E c \in Consumers : BlockPending(c) /\ revokedTopic' = revokedTopic \ {c}
      BY <1>1 DEF Next, vars, ConsumerNext, UpdateConsent, PublishConsentChanged,
         PublishConsentChangedFails, SubscriberNext, HandleConsentChanged,
         HandleConsentChangedUnacked, HandlerNext, FetchConsumer, InsertPendingAttempt,
         FetchRecentContactTimestamps, StartWorkflow, InitiateContactFails, LeaveWindow,
         WorkflowNext, CheckComplianceAllows, CheckComplianceBlocks, PureActivity,
         WriteActivity, ActivityTryFails, ActivityFails, WorkflowTimesOut,
         LateRequestServed
    <2>4. ConsumerOf[a] \in revokedTopic
             => row'[a].status # "pending" \/ ConsumerOf[a] \in revokedTopic'
      BY <2>1, <2>3
    <2>5. ASSUME NEW b \in Attempts, NEW op \in WriteActivities, Serve(b, op)
          PROVE  row'[a] = row[a] \/ row'[a].status \in Outcomes
      BY <2>0, <2>5, ServeEffect, OutcomeValue DEF Outcomes
    <2>6. \/ row'[a] = row[a]
          \/ row'[a].status \in Outcomes
          \/ row[a].status \in {"absent", "pending"}
      <3>1. CASE Quiet
        BY <3>1 DEF Quiet
      <3>2. ASSUME NEW b \in Attempts, WorkflowNext(b)
            PROVE  row'[a] = row[a] \/ row'[a].status \in Outcomes
        BY <2>0, <2>5, <3>2, WorkflowFrame DEF WriteActivity
      <3>3. ASSUME NEW r \in late, LateRequestServed(r)
            PROVE  row'[a] = row[a] \/ row'[a].status \in Outcomes
        BY <2>0, <2>5, <3>3 DEF LateRequestServed, TypeOK, Requests
      <3> QED BY <1>1, <2>0, <3>1, <3>2, <3>3, StepKinds
    <2> QED BY <2>2, <2>4, <2>6 DEF Outcomes
  <1>2. FlowInv /\ [Next]_vars => [\A a \in Attempts : Kept(a)]_vars
    BY <1>1
  <1> QED BY <1>2, FlowInvariant, PTL DEF Spec

\* A pending row is one that a handler or a workflow is still at work on, or the
\* leftover of one that failed: none is forgotten by a workflow that completed,
\* and none waits for a workflow while its handler has returned with success.
THEOREM PendingIsAccountedFor ==
    Spec => [](\A a \in Attempts : row[a].status = "pending" =>
                  \/ handler[a] \in {"inserted", "counted"}
                  \/ wf[a] \in Running
                  \/ handler[a] = "done" /\ wf[a] \in {"none", "failed"})
  <1>1. ASSUME FlowInv, NEW a \in Attempts, row[a].status = "pending"
        PROVE  \/ handler[a] \in {"inserted", "counted"}
               \/ wf[a] \in Running
               \/ handler[a] = "done" /\ wf[a] \in {"none", "failed"}
    <2>1. handler[a] \in {"inserted", "counted", "done"}
      BY <1>1 DEF FlowInv, TypeOK, HandlerSteps, HandlerInv
    <2>2. wf[a] # "completed"
      BY <1>1, OutcomeValue DEF FlowInv, PublishInv, Recorded
    <2> QED BY <1>1, <2>1, <2>2 DEF FlowInv, TypeOK, Closed
  <1>2. FlowInv => \A a \in Attempts : row[a].status = "pending" =>
                  \/ handler[a] \in {"inserted", "counted"}
                  \/ wf[a] \in Running
                  \/ handler[a] = "done" /\ wf[a] \in {"none", "failed"}
    BY <1>1
  <1> QED BY <1>2, FlowInvariant, PTL

=============================================================================
