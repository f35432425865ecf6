------------------------------ MODULE Contact ------------------------------
(***************************************************************************)
(* The life of a contact attempt: the consent part of the consumer service *)
(* (consumer/consumer.go), the contact service's handlers and subscriber   *)
(* (contact/contact.go, contact/subscribers.go) and the Temporal workflow  *)
(* that carries an attempt out (workflows/contact_workflow.go, with the    *)
(* activities of workflows/activities.go).                                 *)
(*                                                                         *)
(* An attempt is one call of InitiateContact, named by the id of the row   *)
(* it inserts in contact_attempts.  Each SQL statement is one atomic step; *)
(* everything between two statements, calls or activities interleaves.     *)
(***************************************************************************)
EXTENDS Integers, FiniteSets

CONSTANTS
    Consumers,      \* consumer ids
    Attempts,       \* contact attempt ids
    ConsumerOf,     \* the consumer each request names
    Undeliverable,  \* attempts SimulateDelivery fails: those with id % 10 = 0
    MaxAttempts,    \* FrequencyCapRule.MaxAttempts (7 in the code)
    MaxTries        \* RetryPolicy.MaximumAttempts (3 in the code)

ASSUME ContactAssumption ==
    /\ ConsumerOf \in [Attempts -> Consumers]
    /\ Undeliverable \subseteq Attempts
    /\ MaxAttempts \in Nat \ {0}
    /\ MaxTries \in Nat \ {0}

VARIABLES
    consent,       \* consumers.consent_status
    revoking,      \* consumers of UpdateConsent calls past the UPDATE, before Publish
    revokedTopic,  \* revocations on consent-changed not yet acknowledged by contact
    row,           \* the table contact_attempts
    aged,          \* rows whose attempted_at has left the trailing 7-day window
    handler,       \* where each InitiateContact call stands
    seenConsent,   \* the consent status that call read
    recent,        \* the rows whose timestamps that call read
    wf,            \* the activity each workflow is executing, or how it closed
    tries,         \* failed tries of that activity
    decision,      \* checkResult.Allowed of each workflow
    late,          \* requests of abandoned tries that may still reach the API
    attempted,     \* contact-attempted events published, as [attempt, status]
    interactions   \* attempts an interaction-created event was published for

consumerVars == <<consent, revoking, revokedTopic>>
tableVars    == <<row, aged>>
handlerVars  == <<handler, seenConsent, recent>>
wfVars       == <<wf, tries, decision>>
eventVars    == <<attempted, interactions>>
vars == <<consumerVars, tableVars, handlerVars, wfVars, late, eventVars>>

---------------------------------------------------------------------------
(* States.                                                                 *)

ConsentStatus == {"granted", "revoked"}
Outcomes      == {"blocked", "delivered", "failed"}

\* The columns the properties tell apart.  "absent" is a row not inserted
\* yet; block_reason is the revocation subscriber's, or the name of a rule.
Rows == [status  : {"absent", "pending"} \cup Outcomes,
         reason  : {"none", "consent_revoked", "rule"},
         content : {"none", "raw", "sanitized"}]

HandlerSteps == {"idle", "fetched", "inserted", "counted", "done"}

WriteActivities == {"record", "publishAttempted", "publishInteraction"}
Running == {"check", "sanitize", "deliver", "score"} \cup WriteActivities
Closed  == {"completed", "failed"}

Requests == [attempt : Attempts, op : WriteActivities]

TypeOK ==
    /\ consent \in [Consumers -> ConsentStatus]
    /\ revoking \subseteq Consumers
    /\ revokedTopic \subseteq Consumers
    /\ row \in [Attempts -> Rows]
    /\ aged \subseteq Attempts
    /\ handler \in [Attempts -> HandlerSteps]
    /\ seenConsent \in [Attempts -> ConsentStatus]
    /\ recent \in [Attempts -> SUBSET Attempts]
    /\ wf \in [Attempts -> {"none"} \cup Running \cup Closed]
    /\ tries \in [Attempts -> 0 .. MaxTries - 1]
    /\ decision \in [Attempts -> {"none", "allowed", "blocked"}]
    /\ late \subseteq Requests
    /\ attempted \subseteq [attempt : Attempts, status : Outcomes]
    /\ interactions \subseteq Attempts

Init ==
    /\ consent = [c \in Consumers |-> "granted"]
    /\ revoking = {}
    /\ revokedTopic = {}
    /\ row = [a \in Attempts |->
                [status |-> "absent", reason |-> "none", content |-> "none"]]
    /\ aged = {}
    /\ handler = [a \in Attempts |-> "idle"]
    /\ seenConsent = [a \in Attempts |-> "granted"]
    /\ recent = [a \in Attempts |-> {}]
    /\ wf = [a \in Attempts |-> "none"]
    /\ tries = [a \in Attempts |-> 0]
    /\ decision = [a \in Attempts |-> "none"]
    /\ late = {}
    /\ attempted = {}
    /\ interactions = {}

---------------------------------------------------------------------------
(* Consumer service: the UPDATE commits first, the event follows, and a    *)
(* failed publish is an error to the caller, who may or may not call again.*)
(* The contact subscriber drops every event but a revocation, so only      *)
(* revocations are kept on the topic.                                      *)

UpdateConsent(c, status) ==
    /\ consent' = [consent EXCEPT ![c] = status]
    /\ revoking' = IF status = "revoked" THEN revoking \cup {c} ELSE revoking
    /\ UNCHANGED <<revokedTopic, tableVars, handlerVars, wfVars, late, eventVars>>

PublishConsentChanged(c) ==
    /\ c \in revoking
    /\ revoking' = revoking \ {c}
    /\ revokedTopic' = revokedTopic \cup {c}
    /\ UNCHANGED <<consent, tableVars, handlerVars, wfVars, late, eventVars>>

PublishConsentChangedFails(c) ==
    /\ c \in revoking
    /\ revoking' = revoking \ {c}
    /\ UNCHANGED <<consent, revokedTopic, tableVars, handlerVars, wfVars, late,
                   eventVars>>

---------------------------------------------------------------------------
(* Contact service: the consent-changed subscription.                      *)

\* Wrong variant: the UPDATE without its condition on the status.
BlockEveryRow(c) ==
    row' = [a \in Attempts |->
              IF ConsumerOf[a] = c /\ row[a].status # "absent"
              THEN [row[a] EXCEPT !.status = "blocked",
                                  !.reason = "consent_revoked"]
              ELSE row[a]]

BlockPending(c) ==
    row' = [a \in Attempts |->
              IF ConsumerOf[a] = c /\ row[a].status = "pending"
              THEN [row[a] EXCEPT !.status = "blocked",
                                  !.reason = "consent_revoked"]
              ELSE row[a]]

\* Wrong variant: a failed UPDATE is logged and the message acknowledged.
HandleConsentChangedDropsError(c) ==
    /\ c \in revokedTopic
    /\ BlockPending(c) \/ UNCHANGED row
    /\ revokedTopic' = revokedTopic \ {c}
    /\ UNCHANGED <<consent, revoking, aged, handlerVars, wfVars, late, eventVars>>

\* The handler's UPDATE commits and the message is acknowledged.
HandleConsentChanged(c) ==
    /\ c \in revokedTopic
    /\ BlockPending(c)
    /\ revokedTopic' = revokedTopic \ {c}
    /\ UNCHANGED <<consent, revoking, aged, handlerVars, wfVars, late, eventVars>>

\* The UPDATE commits and the acknowledgement is lost: the topic is
\* at-least-once and the message will come again.
HandleConsentChangedUnacked(c) ==
    /\ c \in revokedTopic
    /\ BlockPending(c)
    /\ UNCHANGED <<consumerVars, aged, handlerVars, wfVars, late, eventVars>>

---------------------------------------------------------------------------
(* Contact service: InitiateContact, one action per statement or call.     *)

FetchConsumer(a) ==
    /\ handler[a] = "idle"
    /\ handler' = [handler EXCEPT ![a] = "fetched"]
    /\ seenConsent' = [seenConsent EXCEPT ![a] = consent[ConsumerOf[a]]]
    /\ UNCHANGED <<consumerVars, tableVars, recent, wfVars, late, eventVars>>

InsertPendingAttempt(a) ==
    /\ handler[a] = "fetched"
    /\ handler' = [handler EXCEPT ![a] = "inserted"]
    /\ row' = [row EXCEPT ![a] =
                 [status |-> "pending", reason |-> "none", content |-> "raw"]]
    /\ UNCHANGED <<consumerVars, aged, seenConsent, recent, wfVars, late, eventVars>>

Inserted == {a \in Attempts : row[a].status # "absent"}

\* Wrong variant: the attempt leaves its own row out of the count.
FetchOtherContactTimestamps(a) ==
    /\ handler[a] = "inserted"
    /\ handler' = [handler EXCEPT ![a] = "counted"]
    /\ recent' = [recent EXCEPT ![a] =
                    {b \in Inserted \ (aged \cup {a}) : ConsumerOf[b] = ConsumerOf[a]}]
    /\ UNCHANGED <<consumerVars, tableVars, seenConsent, wfVars, late, eventVars>>

\* The SELECT runs after the INSERT: the attempt finds its own row.
FetchRecentContactTimestamps(a) ==
    /\ handler[a] = "inserted"
    /\ handler' = [handler EXCEPT ![a] = "counted"]
    /\ recent' = [recent EXCEPT ![a] =
                    {b \in Inserted \ aged : ConsumerOf[b] = ConsumerOf[a]}]
    /\ UNCHANGED <<consumerVars, tableVars, seenConsent, wfVars, late, eventVars>>

\* The call that reaches Temporal starts the workflow whether or not its
\* answer comes back; workflow_id, written next, is read by no one.
StartWorkflow(a) ==
    /\ handler[a] = "counted"
    /\ handler' = [handler EXCEPT ![a] = "done"]
    /\ wf' = [wf EXCEPT ![a] = "check"]
    /\ UNCHANGED <<consumerVars, tableVars, seenConsent, recent, tries, decision,
                   late, eventVars>>

\* An error return of a call or a statement, a Temporal client that does not
\* connect, or a crash of the process: what was written stays written.
InitiateContactFails(a) ==
    /\ handler[a] \in {"fetched", "inserted", "counted"}
    /\ handler' = [handler EXCEPT ![a] = "done"]
    /\ UNCHANGED <<consumerVars, tableVars, seenConsent, recent, wfVars, late,
                   eventVars>>

\* Seven days pass for a row whose attempt is over.
LeaveWindow(a) ==
    /\ a \in Inserted \ aged
    /\ handler[a] = "done" /\ wf[a] \notin Running
    /\ aged' = aged \cup {a}
    /\ UNCHANGED <<consumerVars, row, handlerVars, wfVars, late, eventVars>>

---------------------------------------------------------------------------
(* The API handlers the workflow's activities call.  A request's contents  *)
(* follow from the workflow's results so far, so a request is just its     *)
(* kind: a retry of an activity sends the same request again.              *)

\* The status a workflow records: checkResult.Allowed, then deliveryResult.
Outcome(a) == IF decision[a] = "blocked" THEN "blocked"
              ELSE IF a \in Undeliverable THEN "failed" ELSE "delivered"

\* The UPDATE has no condition on the row's status.  An empty string keeps
\* the column's value: a blocked result has no content, the others no reason.
UpdateContactResult(a) ==
    row' = [row EXCEPT ![a] =
              [status  |-> Outcome(a),
               reason  |-> IF Outcome(a) = "blocked" THEN "rule" ELSE @.reason,
               content |-> IF Outcome(a) = "blocked" THEN @.content ELSE "sanitized"]]

Serve(a, op) ==
    \/ /\ op = "record"
       /\ UpdateContactResult(a)
       /\ UNCHANGED eventVars
    \/ /\ op = "publishAttempted"
       /\ attempted' = attempted \cup {[attempt |-> a, status |-> Outcome(a)]}
       /\ UNCHANGED <<row, interactions>>
    \/ /\ op = "publishInteraction"
       /\ interactions' = interactions \cup {a}
       /\ UNCHANGED <<row, attempted>>

---------------------------------------------------------------------------
(* The workflow: wf[a] is the activity it waits for.  An activity is tried *)
(* up to MaxTries times; when the last try fails the workflow returns the  *)
(* error and records nothing more.                                         *)

\* Wrong variant: the result is recorded after it is announced.
AfterRecordsLast(a) ==
    [sanitize |-> "deliver",
     deliver  |-> "score",
     score    |-> "publishAttempted",
     publishAttempted   |-> "publishInteraction",
     publishInteraction |-> "record",
     record   |-> "completed"][wf[a]]

\* The activity ContactWorkflow executes after the one it has finished.
After(a) ==
    [sanitize |-> "deliver",
     deliver  |-> "score",
     score    |-> "record",
     record   |-> "publishAttempted",
     publishAttempted |->
        IF decision[a] = "allowed" THEN "publishInteraction" ELSE "completed",
     publishInteraction |-> "completed"][wf[a]]

GoTo(a, next) ==
    /\ wf' = [wf EXCEPT ![a] = next]
    /\ tries' = [tries EXCEPT ![a] = 0]

\* FrequencyCapRule counts the timestamps of the input that are in the window
\* when the rule runs; ConsentCheckRule judges the status of the input.
FrequencyCapRule(a) == Cardinality(recent[a] \ aged) >= MaxAttempts
ConsentCheckRule(a) == seenConsent[a] = "revoked"

\* RunAllRules with no violation: the other rules (hour of the day, attorney,
\* opt-out wording) may always find one.
CheckComplianceAllows(a) ==
    /\ wf[a] = "check"
    /\ ~ FrequencyCapRule(a) /\ ~ ConsentCheckRule(a)
    /\ decision' = [decision EXCEPT ![a] = "allowed"]
    /\ GoTo(a, "sanitize")
    /\ UNCHANGED <<consumerVars, tableVars, handlerVars, late, eventVars>>

\* Wrong variant: a blocked workflow ends without recording anything.
CheckComplianceEnds(a) ==
    /\ wf[a] = "check"
    /\ decision' = [decision EXCEPT ![a] = "blocked"]
    /\ GoTo(a, "completed")
    /\ UNCHANGED <<consumerVars, tableVars, handlerVars, late, eventVars>>

CheckComplianceBlocks(a) ==
    /\ wf[a] = "check"
    /\ decision' = [decision EXCEPT ![a] = "blocked"]
    /\ GoTo(a, "record")
    /\ UNCHANGED <<consumerVars, tableVars, handlerVars, late, eventVars>>

\* SanitizePII, SimulateDelivery and ScoreInteraction change no stored state.
PureActivity(a) ==
    /\ wf[a] \in {"sanitize", "deliver", "score"}
    /\ GoTo(a, After(a))
    /\ UNCHANGED <<consumerVars, tableVars, handlerVars, decision, late, eventVars>>

WriteActivity(a) ==
    /\ wf[a] \in WriteActivities
    /\ Serve(a, wf[a])
    /\ GoTo(a, After(a))
    /\ UNCHANGED <<consumerVars, aged, handlerVars, decision, late>>

\* The request of a try the worker has given up on is lost, or still on its
\* way to the API (which includes: served, with the answer lost).
Abandon(a) ==
    \/ UNCHANGED late
    \/ /\ wf[a] \in WriteActivities
       /\ late' = late \cup {[attempt |-> a, op |-> wf[a]]}

\* Wrong variant: retries without MaximumAttempts.
ActivityTryFailsForEver(a) ==
    /\ wf[a] \in Running
    /\ Abandon(a)
    /\ UNCHANGED <<consumerVars, tableVars, handlerVars, wfVars, eventVars>>

\* Wrong variant: one try too many.
ActivityTryFailsOnceMore(a) ==
    /\ wf[a] \in Running
    /\ tries[a] + 1 <= MaxTries
    /\ tries' = [tries EXCEPT ![a] = @ + 1]
    /\ Abandon(a)
    /\ UNCHANGED <<consumerVars, tableVars, handlerVars, wf, decision, eventVars>>

ActivityTryFails(a) ==
    /\ wf[a] \in Running
    /\ tries[a] + 1 < MaxTries
    /\ tries' = [tries EXCEPT ![a] = @ + 1]
    /\ Abandon(a)
    /\ UNCHANGED <<consumerVars, tableVars, handlerVars, wf, decision, eventVars>>

\* Wrong variant: an event that cannot be published is given up and the
\* workflow goes on.
ActivityFailsQuietly(a) ==
    /\ wf[a] \in Running
    /\ tries[a] + 1 = MaxTries
    /\ GoTo(a, IF wf[a] = "publishAttempted" THEN After(a) ELSE "failed")
    /\ Abandon(a)
    /\ UNCHANGED <<consumerVars, tableVars, handlerVars, decision, eventVars>>

ActivityFails(a) ==
    /\ wf[a] \in Running
    /\ tries[a] + 1 = MaxTries
    /\ GoTo(a, "failed")
    /\ Abandon(a)
    /\ UNCHANGED <<consumerVars, tableVars, handlerVars, decision, eventVars>>

\* WorkflowExecutionTimeout: 60 seconds pass, the worker being slow or down.
WorkflowTimesOut(a) ==
    /\ wf[a] \in Running
    /\ GoTo(a, "failed")
    /\ Abandon(a)
    /\ UNCHANGED <<consumerVars, tableVars, handlerVars, decision, eventVars>>

LateRequestServed(r) ==
    /\ r \in late
    /\ Serve(r.attempt, r.op)
    /\ late' = late \ {r}
    /\ UNCHANGED <<consumerVars, aged, handlerVars, wfVars>>

---------------------------------------------------------------------------

ConsumerNext(c) ==
    \/ \E s \in ConsentStatus : UpdateConsent(c, s)
    \/ PublishConsentChanged(c)
    \/ PublishConsentChangedFails(c)

SubscriberNext(c) ==
    \/ HandleConsentChanged(c)
    \/ HandleConsentChangedUnacked(c)

HandlerNext(a) ==
    \/ FetchConsumer(a)
    \/ InsertPendingAttempt(a)
    \/ FetchRecentContactTimestamps(a)
    \/ StartWorkflow(a)
    \/ InitiateContactFails(a)

WorkflowNext(a) ==
    \/ CheckComplianceAllows(a)
    \/ CheckComplianceBlocks(a)
    \/ PureActivity(a)
    \/ WriteActivity(a)
    \/ ActivityTryFails(a)
    \/ ActivityFails(a)
    \/ WorkflowTimesOut(a)

Next ==
    \/ \E c \in Consumers : ConsumerNext(c) \/ SubscriberNext(c)
    \/ \E a \in Attempts : HandlerNext(a) \/ WorkflowNext(a) \/ LeaveWindow(a)
    \/ \E r \in late : LateRequestServed(r)

Spec == Init /\ [][Next]_vars

\* Temporal drives every open workflow to its end, and the topic redelivers a
\* message until it is acknowledged.  Nothing else is assumed: callers, lost
\* requests and publishes may stop anywhere.
Fairness ==
    /\ \A a \in Attempts : WF_vars(WorkflowNext(a))
    /\ \A c \in Consumers : WF_vars(HandleConsentChanged(c))

FairSpec == Spec /\ Fairness

---------------------------------------------------------------------------
(* Safety.                                                                 *)

\* Fewer than MaxAttempts attempts inside any one trailing window ever pass
\* the frequency cap, however many InitiateContact calls run at once: each
\* counts after it has inserted, so two calls cannot both miss the other
\* (contact.go:97-105, rules.go:70-90).
CapHolds ==
    \A c \in Consumers :
        LET allowed == {a \in Attempts : /\ ConsumerOf[a] = c
                                         /\ decision[a] = "allowed"
                                         /\ a \notin aged}
        IN  IsFiniteSet(allowed) /\ Cardinality(allowed) < MaxAttempts

\* A contact-attempted event tells the row's outcome, from the moment it is
\* published on: neither a redelivered revocation nor a request of an
\* abandoned try moves the row away from what was announced
\* (contact_workflow.go:151-174, contact.go:265-279, subscribers.go:27-31).
EventsAgreeWithRows ==
    \A e \in attempted : row[e.attempt].status = e.status

\* An interaction-created event is only about an attempt that went out and
\* whose row holds sanitized content and whose contact-attempted event is
\* out: the scoring and audit subscribers find what the event announces
\* (contact_workflow.go:151-188).
InteractionBacked ==
    \A a \in interactions :
        /\ row[a].status \in {"delivered", "failed"}
        /\ row[a].content = "sanitized"
        /\ [attempt |-> a, status |-> row[a].status] \in attempted

\* A workflow that completes has recorded its outcome and announced it, with
\* the interaction too when the attempt was allowed: retries, lost answers
\* and revocations in between never make it skip one
\* (contact_workflow.go:53-90, 151-195).
CompletedIsAnnounced ==
    \A a \in Attempts : wf[a] = "completed" =>
        /\ row[a].status = Outcome(a)
        /\ [attempt |-> a, status |-> Outcome(a)] \in attempted
        /\ decision[a] = "allowed" => a \in interactions

---------------------------------------------------------------------------
(* Action properties.                                                      *)

\* A recorded delivery outcome is final: no later step of any actor changes
\* the status, reason or content of a delivered or failed attempt
\* (contact.go:267-275 writes it, subscribers.go:27-31 must leave it alone).
RecordedOutcomeIsFinal ==
    [][\A a \in Attempts :
          row[a].status \in {"delivered", "failed"} => row'[a] = row[a]]_vars

\* contact/DESIGN.md:105-109 lists the transitions of an attempt: all leave
\* "pending", none leaves "blocked".
BlockedIsTerminal ==
    [][\A a \in Attempts :
          row[a].status = "blocked" => row'[a].status = "blocked"]_vars

\* consumer/DESIGN.md:40: the compliance check inside the workflow "re-reads
\* consent status from the DB at execution time", so it allows no attempt
\* while the stored consent is revoked.
CheckRereadsConsent ==
    [][\A a \in Attempts :
          decision[a] = "none" /\ decision'[a] = "allowed"
              => consent[ConsumerOf[a]] = "granted"]_vars

---------------------------------------------------------------------------
(* Liveness.                                                               *)

\* A revocation that reached the topic stops every attempt then pending: none
\* stays pending for ever, whatever became of its handler or workflow
\* (subscribers.go:22-46).
RevocationReachesPending ==
    \A a \in Attempts :
        (row[a].status = "pending" /\ ConsumerOf[a] \in revokedTopic)
            ~> row[a].status # "pending"

\* Every workflow that starts closes: retries are bounded and no activity
\* waits on another attempt (contact_workflow.go:14-22).
WorkflowCloses ==
    \A a \in Attempts : wf[a] \in Running ~> wf[a] \in Closed

---------------------------------------------------------------------------
(* Every attempt follows the lifecycle of AttemptLifecycle.                *)

\* What the row says the workflow has recorded: block_reason names a rule
\* only once a blocked result was recorded.
RecordedIn(r) ==
    IF r.status \in {"delivered", "failed"} THEN r.status
    ELSE IF r.reason = "rule" THEN "blocked" ELSE "none"

Attempt(a) == INSTANCE AttemptLifecycle WITH
    status      <- row[a].status,
    recorded    <- RecordedIn(row[a]),
    told        <- {e.status : e \in {x \in attempted : x.attempt = a}},
    interaction <- (a \in interactions)

AttemptsFollowLifecycle ==
    /\ \A a \in Attempts : Attempt(a)!Init
    /\ [][\A a \in Attempts : UNCHANGED Attempt(a)!vars \/ Attempt(a)!Next]_vars

=============================================================================
