------------------------------- MODULE Intake -------------------------------
(***************************************************************************)
(* What stands between a caller and a started contact workflow: the        *)
(* consumer rows (consumer/consumer.go), the accounts (Account), the       *)
(* checks of InitiateContact and the Temporal client its process shares    *)
(* (contact/contact.go:45-154), processes that stop and start again.       *)
(*                                                                         *)
(* Contact models what the row and the workflow then go through; here a    *)
(* row is only there or not, and a workflow only started or not.           *)
(***************************************************************************)
EXTENDS Account

CONSTANTS
    Consumers,    \* consumer ids, one per CreateConsumer request
    ExternalId,   \* the external_id each of those requests gives
    Calls,        \* calls of InitiateContact, by the id of the row
    ConsumerIn,   \* the consumer_id each of them names
    AccountIn,    \* the account_id each of them names
    Processes,    \* processes of the API
    ProcessOf     \* the process each call arrives at

ASSUME IntakeAssumption ==
    /\ Owners = Consumers
    /\ ConsumerIn \in [Calls -> Consumers]
    /\ AccountIn \in [Calls -> Accounts]
    /\ ProcessOf \in [Calls -> Processes]

VARIABLES
    consumers,  \* ids of the rows of consumers
    announced,  \* consumers whose created event was published
    call,       \* where each InitiateContact call stands
    attempts,   \* ids of the rows of contact_attempts
    client,     \* temporalOnce and its two results, in each process
    workflows,  \* workflows started, by attempt
    linked      \* attempts whose workflow_id is stored

consumerVars == <<consumers, announced>>
callVars     == <<call, attempts, workflows, linked>>
vars == <<accountVars, consumerVars, callVars, client>>

Working  == {"begun", "found", "owned", "inserted", "counted", "dialing",
             "connected", "started"}
Returned == {"ok", "error", "refused", "crashed"}

TypeOK ==
    /\ AccountTypeOK
    /\ consumers \subseteq Consumers
    /\ announced \subseteq Consumers
    /\ call \in [Calls -> {"idle"} \cup Working \cup Returned]
    /\ attempts \subseteq Calls
    /\ client \in [Processes -> {"undialed", "dialing", "connected", "failed"}]
    /\ workflows \subseteq Calls
    /\ linked \subseteq Calls

Init ==
    /\ AccountInit
    /\ consumers = {}
    /\ announced = {}
    /\ call = [k \in Calls |-> "idle"]
    /\ attempts = {}
    /\ client = [p \in Processes |-> "undialed"]
    /\ workflows = {}
    /\ linked = {}

---------------------------------------------------------------------------
(* Consumer service.                                                       *)

\* external_id is UNIQUE: the INSERT of a second row with it is an error.
CreateConsumer(c) ==
    /\ c \notin consumers
    /\ \A d \in consumers : ExternalId[d] # ExternalId[c]
    /\ consumers' = consumers \cup {c}
    /\ announced' \in {announced, announced \cup {c}}
    /\ UNCHANGED <<accountVars, callVars, client>>

---------------------------------------------------------------------------
(* InitiateContact, one action per call, statement or wait.                *)

GoOn(k, from, to) ==
    /\ call[k] = from
    /\ call' = [call EXCEPT ![k] = to]

\* The request is valid, or is answered InvalidArgument at once.
BeginCall(k) ==
    /\ GoOn(k, "idle", "begun")
    /\ UNCHANGED <<accountVars, consumerVars, attempts, workflows, linked, client>>

GetConsumer(k) ==
    /\ ConsumerIn[k] \in consumers
    /\ GoOn(k, "begun", "found")
    /\ UNCHANGED <<accountVars, consumerVars, attempts, workflows, linked, client>>

ConsumerNotFound(k) ==
    /\ ConsumerIn[k] \notin consumers
    /\ GoOn(k, "begun", "refused")
    /\ UNCHANGED <<accountVars, consumerVars, attempts, workflows, linked, client>>

\* Wrong variant: the account exists, whosever it is.
HasAccount(k) == status[AccountIn[k]] # "absent"

OwnsAccount(k) ==
    status[AccountIn[k]] # "absent" /\ owner[AccountIn[k]] = ConsumerIn[k]

GetAccount(k) ==
    /\ OwnsAccount(k)
    /\ GoOn(k, "found", "owned")
    /\ UNCHANGED <<accountVars, consumerVars, attempts, workflows, linked, client>>

\* No such account, or another consumer's.
AccountRefused(k) ==
    /\ ~ OwnsAccount(k)
    /\ GoOn(k, "found", "refused")
    /\ UNCHANGED <<accountVars, consumerVars, attempts, workflows, linked, client>>

InsertPendingAttempt(k) ==
    /\ GoOn(k, "owned", "inserted")
    /\ attempts' = attempts \cup {k}
    /\ UNCHANGED <<accountVars, consumerVars, workflows, linked, client>>

FetchRecentContactTimestamps(k) ==
    /\ GoOn(k, "inserted", "counted")
    /\ UNCHANGED <<accountVars, consumerVars, attempts, workflows, linked, client>>

\* Wrong variant: without sync.Once, whoever finds no client dials.
DialIfNoClient(k) ==
    /\ client[ProcessOf[k]] # "connected"
    /\ GoOn(k, "counted", "dialing")
    /\ client' = [client EXCEPT ![ProcessOf[k]] = "dialing"]
    /\ UNCHANGED <<accountVars, consumerVars, attempts, workflows, linked>>

\* temporalOnce.Do: the first caller of the process dials.
EnterOnce(k) ==
    /\ client[ProcessOf[k]] = "undialed"
    /\ GoOn(k, "counted", "dialing")
    /\ client' = [client EXCEPT ![ProcessOf[k]] = "dialing"]
    /\ UNCHANGED <<accountVars, consumerVars, attempts, workflows, linked>>

\* client.Dial returns: its answer is every later caller's.
DialSucceeds(k) ==
    /\ GoOn(k, "dialing", "connected")
    /\ client' = [client EXCEPT ![ProcessOf[k]] = "connected"]
    /\ UNCHANGED <<accountVars, consumerVars, attempts, workflows, linked>>

DialFails(k) ==
    /\ GoOn(k, "dialing", "error")
    /\ client' = [client EXCEPT ![ProcessOf[k]] = "failed"]
    /\ UNCHANGED <<accountVars, consumerVars, attempts, workflows, linked>>

\* The others wait in temporalOnce.Do until then, and share the answer.
ShareClient(k) ==
    /\ client[ProcessOf[k]] = "connected"
    /\ GoOn(k, "counted", "connected")
    /\ UNCHANGED <<accountVars, consumerVars, attempts, workflows, linked, client>>

ShareFailure(k) ==
    /\ client[ProcessOf[k]] = "failed"
    /\ GoOn(k, "counted", "error")
    /\ UNCHANGED <<accountVars, consumerVars, attempts, workflows, linked, client>>

ExecuteWorkflow(k) ==
    /\ GoOn(k, "connected", "started")
    /\ workflows' = workflows \cup {k}
    /\ UNCHANGED <<accountVars, consumerVars, attempts, linked, client>>

\* The error of a workflow that was started all the same: its answer is lost.
ExecuteWorkflowUnanswered(k) ==
    /\ GoOn(k, "connected", "error")
    /\ workflows' = workflows \cup {k}
    /\ UNCHANGED <<accountVars, consumerVars, attempts, linked, client>>

\* A failed UPDATE of workflow_id is only logged.
StoreWorkflowID(k) ==
    /\ GoOn(k, "started", "ok")
    /\ linked' \in {linked, linked \cup {k}}
    /\ UNCHANGED <<accountVars, consumerVars, attempts, workflows, client>>

\* Wrong variant: a failed SELECT or start is logged and answered with the id.
CallFailsQuietly(k) ==
    /\ call[k] \in {"begun", "found", "owned", "inserted", "connected"}
    /\ call' = [call EXCEPT ![k] = IF k \in attempts THEN "ok" ELSE "error"]
    /\ UNCHANGED <<accountVars, consumerVars, attempts, workflows, linked, client>>

\* An error of a lookup, of a statement or of the start.
CallFails(k) ==
    /\ call[k] \in {"begun", "found", "owned", "inserted", "connected"}
    /\ call' = [call EXCEPT ![k] = "error"]
    /\ UNCHANGED <<accountVars, consumerVars, attempts, workflows, linked, client>>

\* Wrong variant: one request dies, the others of its process live on.
CrashOne(p) ==
    \E d \in {k \in Calls : ProcessOf[k] = p /\ call[k] \in Working} :
        /\ call' = [call EXCEPT ![d] = "crashed"]
        /\ UNCHANGED <<accountVars, consumerVars, attempts, workflows, linked, client>>

\* A process stops with all its calls, and starts again with nothing dialed.
CrashAndRestart(p) ==
    /\ call' = [k \in Calls |->
                  IF ProcessOf[k] = p /\ call[k] \in Working THEN "crashed" ELSE call[k]]
    /\ client' = [client EXCEPT ![p] = "undialed"]
    /\ UNCHANGED <<accountVars, consumerVars, attempts, workflows, linked>>

---------------------------------------------------------------------------

CallNext(k) ==
    \/ GetConsumer(k) \/ ConsumerNotFound(k)
    \/ GetAccount(k) \/ AccountRefused(k)
    \/ InsertPendingAttempt(k)
    \/ FetchRecentContactTimestamps(k)
    \/ EnterOnce(k) \/ DialSucceeds(k) \/ DialFails(k)
    \/ ShareClient(k) \/ ShareFailure(k)
    \/ ExecuteWorkflow(k) \/ ExecuteWorkflowUnanswered(k)
    \/ StoreWorkflowID(k)
    \/ CallFails(k)

Next ==
    \/ AccountNext /\ UNCHANGED <<consumerVars, callVars, client>>
    \/ \E c \in Consumers : CreateConsumer(c)
    \/ \E k \in Calls : BeginCall(k) \/ CallNext(k)
    \/ \E p \in Processes : CrashAndRestart(p)

Spec == Init /\ [][Next]_vars

\* A call that has begun goes on while its process runs: every lookup,
\* statement, dial and start returns, with an answer or an error.
FairSpec == Spec /\ \A k \in Calls : WF_vars(CallNext(k))

---------------------------------------------------------------------------
(* Safety.                                                                 *)

\* Every row of contact_attempts is for a consumer that exists and an account
\* that is that consumer's, though the three are in three databases without
\* foreign keys, looked up one after the other, and accounts are created for
\* consumers nobody has checked (contact.go:84-97, account.go:72-79).
AttemptsAreOwned ==
    \A k \in attempts :
        /\ ConsumerIn[k] \in consumers
        /\ status[AccountIn[k]] # "absent"
        /\ owner[AccountIn[k]] = ConsumerIn[k]

\* The caller is told the truth: an accepted call has its row and its
\* workflow, a refused one has left nothing behind.  A pending row without a
\* workflow is only ever that of a call answered with an error, lost in a
\* crash, or still running (contact.go:97-154).
AnswersAreTrue ==
    \A k \in Calls :
        /\ call[k] = "ok" => k \in attempts \cap workflows
        /\ call[k] = "refused" => k \notin attempts
        /\ k \in workflows => k \in attempts
        /\ k \in linked => k \in workflows

\* One call of a process dials, and no call uses a client that was not dialed
\* or whose dial failed: concurrent first calls share one dial and its answer,
\* across restarts of the process (contact.go:45-56, 109-123).
OneDialForAll ==
    \A k \in Calls :
        /\ call[k] = "dialing" =>
              /\ client[ProcessOf[k]] = "dialing"
              /\ \A j \in Calls \ {k} :
                    ProcessOf[j] = ProcessOf[k] => call[j] # "dialing"
        /\ call[k] \in {"connected", "started"} => client[ProcessOf[k]] = "connected"

---------------------------------------------------------------------------
(* Liveness.                                                               *)

\* Every call returns or goes down with its process: none waits for ever in
\* temporalOnce.Do for a dial that no one is making (contact.go:51-56).
CallsReturn ==
    \A k \in Calls : call[k] \in Working ~> call[k] \in Returned

=============================================================================
