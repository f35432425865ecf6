# Verification of compliance-platform

TLA+ models of the compliance platform (Go services on Encore, workflows on
Temporal, PostgreSQL behind each service), TLC runs on small instances, and
theorems checked by TLAPS for every value of the constants. Every definition is
translated from the source; `PROJECT.json` maps each one to its lines.

## 1. The system

| Component | State | Operations | Talks to |
|---|---|---|---|
| consumer service (`consumer/`) | table `consumers` (consent, flags) | CreateConsumer, GetConsumer, UpdateConsent | publishes `consent-changed`, `consumer-lifecycle` |
| account service (`account/`) | table `accounts` | CreateAccount, GetAccount, ListAccountsByConsumer, UpdateAccountStatus | publishes `account-lifecycle` |
| contact service (`contact/`) | table `contact_attempts`, one Temporal client | InitiateContact, ListContacts, UpdateContactResult, UpdateScorecardResult, PublishContactAttempted, PublishInteractionCreated; subscribes to `consent-changed` | reads consumer and account, starts the contact workflow, publishes `contact-attempted`, `interaction-created` |
| contact workflow (`workflows/contact_workflow.go`) | Temporal's history | check, sanitize, deliver, score, record, publish | calls compliance and contact over HTTP |
| compliance service (`compliance/`) | none | CheckContact, SanitizeText, ScoreInteraction | none |
| payment service (`payment/`) | tables `payment_plans`, `payment_events` | ProposePlan, AcceptPlan, RecordPayment, GetPlan, MarkDefaulted, MarkCompleted | publishes `payment-updated` |
| payment plan workflow (`workflows/payment_workflow.go`) | Temporal's history, two signal channels | wait for acceptance, track installments, mark the plan | calls payment over HTTP |
| audit service (`audit/`) | append-only table `audit_log` | RecordAudit, two queries, six subscriptions | subscribes to all six topics |
| scoring service (`scoring/`) | none | one subscription on `interaction-created` | calls compliance and contact |

What is hard here, and what must hold:

* **Consent against delivery.** A revocation travels by event while handlers and
  workflows are at work on the same rows. A recorded outcome must stay, a pending
  attempt must be blocked, rows and events must tell the same story.
* **Retries and late requests.** An activity is tried three times, its request
  may be served after the try was given up, a workflow may time out anywhere.
* **The frequency cap.** Calls for one consumer insert and count concurrently.
* **Checks outside transactions.** The payment handlers check a status they read
  before they open their transaction, then update by id. The workflow's marks are
  such calls too, and so is a mark whose activity was given up.
* **Months of signals.** The plan workflow must neither default a payer, nor let
  one payment count twice, nor wait for ever.
* **Two scorers, one column.** The workflow and the scoring service score the same
  interaction by different rubrics; late requests and redelivered messages decide
  which scorecard a row ends with.
* **Limits that depend on time.** Rows are counted at one moment, checked at
  another, delivered at a third; timestamps lose their fraction on the way.
* **Three databases, no foreign keys.** A call looks up the consumer, then the
  account, then inserts, while others create and update; its process may stop.
* **At-least-once delivery into an append-only log.** An event must get its row,
  no event may be dropped for another's sake, duplicates must stay bounded.

`PROJECT.json` lists each hazard at its line with the properties that watch it.

## 2. The modules

```
ComplianceRules ── ContactTiming ── MCContactTiming      ContactTimingProofs
Contact ────────── MCContact                             ContactProofs
   └─ AttemptLifecycle (abstract; INSTANCEd by Contact, one per attempt)
Contact + Sanitizer + Scorecard ── Scoring ── MCScoring  ScoringProofs, SanitizerProofs
Account ── Intake ── MCIntake                            IntakeProofs
Payment ────────── MCPayment                             PaymentProofs
   ├─ PaymentCalls (abstract: overlapping calls; implemented by Payment)
   └─ PaymentLifecycle (abstract: the state machine the documentation gives)
PaymentPlan ────── MCPaymentPlan                         PaymentPlanProofs
   ├─ PaymentCalls (the service the workflow calls back)
   └─ PaymentLifecycle
Audit ──────────── MCAudit                               AuditProofs
```

InitiateContact appears in three modules, each of which looks at one side of it:
`Intake` at what comes before the workflow (lookups, the shared client, crashes),
`ContactTiming` at when it counts and delivers, `Contact` at the row, the workflow
and the events. They are not composed with one another: what one keeps track of,
the others leave to a free choice.

### Contact

Consent, the contact service and the contact workflow, composed: they share the
rows of `contact_attempts`. An attempt is one call of InitiateContact.

| Variable | Stands for |
|---|---|
| `consent`, `revoking`, `revokedTopic` | `consumers.consent_status`; UpdateConsent calls between UPDATE and Publish; revocations not yet acknowledged |
| `row`, `aged` | the rows (status, who set the block reason, whether the content is sanitized); rows outside the trailing week |
| `handler`, `seenConsent`, `recent` | where each InitiateContact call stands and the two things it read |
| `wf`, `tries`, `decision` | the activity each workflow is at, its failed tries, the check's verdict |
| `late` | requests of abandoned tries that may still arrive |
| `attempted`, `interactions` | the events published |

Each SQL statement is one step. `InitiateContactFails` is every error return and
every crash between two of them. `WriteActivity` is an activity whose request was
served and answered; `ActivityTryFails`, `ActivityFails` and `WorkflowTimesOut`
leave the request lost or in `late`, which also covers a request that was served
and whose answer was lost. Rules that depend on the clock, on wording or on flags
nothing in the model changes are a free choice to block (`CheckComplianceBlocks`).

Abstracted: PostgreSQL's clock is `aged`; `aged` takes in only attempts that are
over, because an attempt lives a minute (`contact.go:122`) and the window a week.
`completed_at` and `compliance_result` are not kept; `scorecard_result` is in
`Scoring`.

### AttemptLifecycle

The abstract specification of one attempt: inserted, revoked while pending, an
outcome recorded once, announced, and after that its interaction. It has five
one-step operations where the code has handlers, retries, late requests and
redelivered revocations. `AttemptsFollowLifecycle` in `Contact` states that every
attempt implements it. `status`, `told` and `interaction` are read off the tables and
topics; `recorded`, what the workflow has recorded, is read off the row: a
`block_reason` that names a rule is only there once a blocked result was recorded.
The abstract specification lets an outcome be recorded over a revocation, because
the code does (see contact_blocked below).

### Sanitizer, Scorecard and Scoring

`Sanitizer` is SanitizePII on texts of digits, separators and phrases: three
patterns applied in turn, each replacing its leftmost matches that do not overlap.
`Scorecard` is EvaluateScorecard and the two rubrics it is called with, a phrase being
one symbol and a keyword of another phrase where `strings.Contains` would find it.

`Scoring` extends `Contact` with both: `message` is each request's text, `score` the
row's `scorecard_result`, `toScore` the interaction-created messages not yet
acknowledged. Every step of `Contact` is a step here; a served record or publish
request carries its scorecard or text along (`Carry`), and
`HandleInteractionCreated` overwrites the column by id as
`scoring/subscribers.go` does, once or again after a lost acknowledgement.

### ComplianceRules and ContactTiming

`ComplianceRules` is the rule engine: five predicates on a request and the
aggregation, a pure function. `ContactTiming` runs the attempts of one consumer against
a clock in ticks, several to a second, so that `attempted_at`, which keeps
microseconds, and the RFC 3339 timestamps in the workflow's input, which do not,
differ as they do in the code. An attempt inserts, counts, starts its workflow,
checks and delivers, perhaps more than once; `Abandon` is every failure and crash.
`Deadlines` never lets the clock pass the workflow's timeout (60 s in the code) or
`HandlerTime`: the code sets no bound on InitiateContact, so `HandlerTime` is an
assumption about the deployment. Database, API and worker read one clock.

### Account and Intake

`Account` is the account service: rows created for a consumer id nobody checks, and
UpdateAccountStatus as PostgreSQL runs its statement at READ COMMITTED: `OpenUpdate`
takes the snapshot its CTE reads, `CommitUpdate` applies the UPDATE to what is
committed by then. `overlapped` is a history variable: accounts two statements were
open on at a time.

`Intake` puts CreateConsumer (unique `external_id`), the accounts and InitiateContact
together: one action per lookup, statement or wait. `client` is the process's
`temporalOnce` with its result: the first caller dials, the others wait and share its
client or its error. `CrashAndRestart` stops all the calls of a process and forgets
its client. A call that names an account of any status goes on, as in the code.

### Payment, PaymentCalls and PaymentLifecycle

`Payment` is one plan and any number of overlapping endpoint calls: plans share
no row. `pc` is a call's next statement, `seen` what it read before its
transaction, `wrote` what its open transaction has written, `lock` the row lock an
UPDATE takes and a commit or rollback releases. A transaction's writes appear when
it commits; a SUM sees committed rows and its own (READ COMMITTED, PostgreSQL's
default). Amounts are cents as NUMERIC(12,2) keeps them: a positive amount under half
a cent is stored as 0. Inserting a payment takes only a share lock on the plan's key, which no
status update waits for. `Rollback` is a failed statement, the deferred
`tx.Rollback()`, or a crash; `Publish` may lose any of its events, since
`publishPaymentEvent` only logs a failure. Calls that fail validation or their
status check leave no trace and are not steps.

`PaymentCalls` is the abstract specification of the service: a call begins with the
status it reads, a payment takes its sum later, and the call then commits all it
writes in one step, over whatever others have committed meanwhile, or rolls back.
`open` is what each call between its check and its commit knows. `ImplementsCalls`
in `Payment` checks that the statements refine it under any interleaving: `status`
and `paid` map to themselves, `OpenCall` reads `open` off `pc`, `seen` and `wrote`.

`PaymentLifecycle` is the state machine of payment/DESIGN.md:30-46 with each call one
step, and no wider: only an accepted or active plan can be completed. The code does
not implement it. Overlapping calls break it (payment_terminal), and even calls that
do not overlap complete a proposed plan (payment_serial); `SerialFollows` proves that
the second is their only step outside it, and `FollowsLifecycle` says when a plan
under its workflow makes none.

### PaymentPlan

PaymentPlanWorkflow with the payment service behind it, as `PaymentCalls` has it:
accepts, payments and marks are calls that begin, sum and commit with other calls in
between. A try of a mark activity is a request that finds a verdict
(`MarkFindsVerdict`) or opens a call of its own (`MarkBegins`, `serving`), which
commits and answers (`MarkCommits`). A try may be given up at any point: its request
is then lost or in `late`, its call goes on beside the retry. `overlapped` is a
history variable: whether two calls were ever open together. `acceptance`, `toSignal`
and `paymentCh` follow each acceptance and payment from the commit through the signal to its receipt;
`step` is what the workflow waits for, or the verdict whose mark activity it
executes; `tracked` and `missedCount` are the loop's `i` and counter. `outcome`
is a history variable: how each installment went, for the properties only. Nobody
in the repository starts or signals the workflow, so the process that does is
external: it may be late or silent but does not invent signals.

Payments here are of a cent at least: one of 0.00 would cover an installment like any
other, since signals count payments.

When a payment signal and the grace timer are both ready the Selector takes the
signal, as it takes a signal that waited during the sleep.

### Audit

One message per published event: topic, entity, kind, second. A row of the log is
the message and the number of its copy. `DedupKey` is the
six handlers' keys side by side. A delivery is two steps, the SELECT and the
INSERT, and up to `Deliveries` of them run at once; `InsertUnacked` is a lost
acknowledgement, `InsertFails` an error or a crash, `CheckFails` the query error
on which `isDuplicate` answers false.

## 3. The runs

| Run | Instance | States | Checks |
|---|---|---|---|
| contact_safety | 1 consumer, 2 attempts, one undeliverable, cap 2, 2 tries | 1.6 million | TypeOK, AttemptsFollowLifecycle, CompletedIsAnnounced, CapHolds |
| scoring | 1 attempt, the code's 3 tries, 6 texts, fair | 29 thousand | ScoringTypeOK, StoredContentIsClean, ScoredIsBacked, ServiceScoreSettles, RevocationReachesPending, WorkflowCloses, InteractionsAreScored, OnlyFailuresStrand |
| contact_timing | 3 attempts, cap 2, 2 ticks to a second, window of 6 ticks, 1 tick each for handler and workflow, 10 ticks in all | 4 million, up to symmetry | TypeOK, CapPerWindow, DeliveredInHours, CapBlocksOnlyAtLimit |
| intake | 2 calls of 1 process, 2 consumers with one external id, 1 account, 2 updates, fair | 467 thousand | TypeOK, AttemptsAreOwned, AnswersAreTrue, OneDialForAll, TransitionsAddUp, CallsReturn |
| payment_concurrent | 4 calls, 3 at a time, total 2, amounts 1 and 2, fair | 327 thousand | TypeOK, TimelineIsSound, CompletionIsPaid, NoticesAreCommitted, CallsFinish, SettledStaysSettled, ImplementsCalls |
| payment_plan | 2 calls at a time, any number in all, total 3, amounts 1 and 2, 5 installments, default after 3, 3 tries, fair | 1.1 million | TypeOK, DefaultIsEarned, CompletedIsTracked, CreditsArePaid, FollowsLifecycle, WorkflowEnds |
| audit | revoke and grant in one second, a later revoke; 2 deliveries, 1 failed check, fair | 4 thousand | TypeOK, EventIsOnRecord, TimedEventIsOnRecord, DuplicatesAreBounded, EventGetsThrough |

AttemptsFollowLifecycle has three consequences that are stated in `Contact`, proved in
`ContactProofs` and not checked a second time: EventsAgreeWithRows, RecordedOutcomeIsFinal
and, but for the content of the row, InteractionBacked.

Bounds, and why they are enough:

* contact_safety: two attempts meet in the cap, in the revocation's UPDATE of several
  rows and nowhere else; with a cap of two, both counting each other or missing each
  other both happen. Two tries give a first try and a retry, with the late request of
  the first. `late` and the event sets hold identical requests once: serving one again
  changes nothing further.
* scoring: attempts share neither text nor column, so one is enough. The texts put
  numbers next to one another that share digits and separators, under phrases of
  either rubric, both and none.
* contact_timing: a cap of two is reached by two attempts and exceeded by the third.
  The window is three seconds of two ticks, so a stamp cut to the second can fall on
  the other side of the window's edge. With a life of two ticks the cap protects a stretch of
  `Protected` = 6 - 2 - 2 + 1 = 3 ticks; TLC finds a violation of the same statement
  for one tick more, so the bound is tight. The local day's clock is put back once.
  The clock stops after a window and a half, when a first row has left it.
* intake: one process and two calls give a call that dials and one that waits, finds a
  client or finds an error; one account and two updates give every overlap. The two
  consumers race for one external id, and the account belongs to either.
* payment_concurrent: a payment and a mark, or two payments, meet while a third call is
  between its own check and its transaction. One plan is enough, since plans share
  nothing. Its fairness leaves no symmetry.
* payment_plan: five installments allow a miss, a payment and three misses in a row,
  and two misses on either side of a payment, which must not default; the limits of
  three are the code's. Two calls open at a time overlap as calls do that decide on
  what one of them overwrites: a mark and a payment, an accept and a mark, a mark and
  its retry, two payments; a call that is over makes room for the next. Against a total
  of 3 payments stop short, reach it, or go beyond; two that overlap leave the plan
  active and paid up, and a workflow can be done without a verdict left in the row.
* audit: three messages are the smallest timeline in which an event repeats with the
  same kind; the other topics have coarser keys of the same form.
* `MaxInFlight`, `MaxCheckErrors`, `MaxTries`, `MaxMissed`, `MaxTime` and `MaxSpaces` are
  the only bounds; MaxTries and MaxMissed stand for limits of the code (both 3),
  MaxSpaces cuts off the phone pattern's `\s*`.

Deadlock is checked in the contact and scoring runs (a consumer can always change
consent) and not elsewhere: plans, calls, events and the clock come to an end.

### Where code and documentation part

Five runs check a sentence of the documentation that the code does not keep:

| Run | Property | What TLC shows |
|---|---|---|
| contact_stale_consent | CheckRereadsConsent | consumer/DESIGN.md:40 says the check "re-reads consent status from the DB at execution time"; it judges the status read before the row was inserted |
| contact_blocked | BlockedIsTerminal | contact/DESIGN.md:9,105-109: a revocation cancels the workflow and blocked has no successor; the workflow goes on and overwrites the block |
| payment_serial | ImplementsLifecycle | payment/DESIGN.md:30-34,46: a plan is completed from accepted or active; `MarkCompleted` (payment.go:390) turns away terminal plans only and completes a proposed one, with no call overlapping |
| payment_terminal | TerminalIsFinal | payment/DESIGN.md:55 "The first path to fire wins"; of two overlapping calls the last one wins |
| payment_fully_paid | FullyPaidIsCompleted | payment/DESIGN.md:44,52: two overlapping payments reach the total and complete nothing |

TerminalIsFinal and FullyPaidIsCompleted are proved of calls that do not overlap
(`SerialTerminal`, `SerialCompletes`): there the disagreement is the race, nothing
else. SettledStaysSettled is what remains of finality under concurrency. The completion
of a proposed plan is no race; the plan workflow, which asks for completions only after
it has received an acceptance, never causes it (`FollowsLifecycle`).

Seen while modelling, without a run of their own:

* workflows/DESIGN.md:13 says there are no orphaned pending rows; a failure
  between contact.go:97 and :119, or the 60-second timeout, leaves one.
  OnlyFailuresStrand says that nothing else does.
* A failed dial is kept by `sync.Once`: until the process restarts every later
  InitiateContact inserts a pending row and answers with an error.
* account/account.go:174-175 calls the previous status an update reports exact "even
  under concurrency", and account/DESIGN.md:89 "guaranteed to match the actual
  transition". The CTE reads the snapshot of the statement's start: two updates that
  overlap both report the status before the first. TransitionsAddUp holds of every
  account on which none have overlapped.
* docs/PRD.md:201 ties completion to the sum of payments; the plan workflow
  completes a plan whose installments were signalled, whatever their amounts, and a
  payment stored as 0.00 counts. CompletedIsTracked says what such a completion still
  guarantees.
* docs/PRD.md:155 blocks from the seventh earlier attempt on; an attempt counts
  its own row, so the seventh in a week is blocked, after six that were allowed.
* The weekly cap counts insertions, not deliveries: it protects any stretch of a week
  less an attempt's life and a second, and a longer one may hold one delivery more.
* contact/DESIGN.md:102 says the database holds no unsanitized content after the
  workflow; the blocked path leaves the raw message.
* scoring/subscribers.go:92-93 calls the second scoring "a safe no-op"; its
  rubric is not the workflow's, and a record request of an abandoned try that comes
  later puts the workflow's scorecard back. ServiceScoreSettles says when it is final.
* The audit log skips an account's second status change as a duplicate of the first:
  account/DESIGN.md:97 accepts that, audit/DESIGN.md:5 promises "every state change".
* payment/DESIGN.md:98 and audit/DESIGN.md:100 give each installment payment its own
  audit entry; the key's time is a whole second, so two payments of a plan within one
  share an entry. TimedEventIsOnRecord is stated for events alone in their second.

## 4. Fairness

* Scoring, which includes Contact: weak fairness of each open workflow (Temporal
  schedules it and its tries are bounded), of `HandleConsentChanged` and
  `HandleInteractionCreated` (the topics redeliver until acknowledged), and of a
  handler that has begun, which goes on to an answer or an error. Callers, publishes
  and late requests may stop anywhere.
* Intake: weak fairness of each call's next step: a lookup, statement, dial or start
  returns, with an answer or an error. Nobody has to call, and processes may stop.
* Payment: weak fairness of each call's next statement. Nothing makes a call fail.
  PostgreSQL hands a released lock to a waiter; since each call takes the lock once,
  weak fairness is enough for that.
* PaymentPlan: weak fairness of the workflow as a whole: timers fire and activities
  are retried or given up. Nobody has to pay, accept or signal, and no call of the
  service has to come to its commit.
* Audit: strong fairness of delivering a published message and of its INSERT
  succeeding, because another delivery or a failed INSERT may interrupt either
  again and again; weak fairness of ending a delivery. This is what at-least-once
  delivery with retries to a database that recovers provides.

## 5. The proofs

All theorems are for every value of the constants under the modules' named
assumptions, which TLC evaluates in the runs.

**ContactProofs.** `TypeCorrect`; `EventsAgree`, `InteractionsBacked`,
`CompletedAnnounced`, `OutcomesFinal` from the inductive `FlowInv`; `FrequencyCap`
from `IInv`; `FollowsLifecycle` from `LifeInv`. The properties about events are not
inductive: nothing in them keeps a late request from overwriting a row. `FlowInv`
adds how far handler, workflow and row can be apart (`HandlerInv`), what has been
decided at each step and behind each late request (`DecisionInv`), that a delivery
outcome in the table is the workflow's own (`OutcomeInv`), and that from the
acknowledged record on the row holds it for good (`PublishInv`, `EventInv`): a retry
or a late request writes what is there. The cap needs the order of statements in
InitiateContact: each call counts after it has inserted, so the snapshots of one
consumer's attempts are ordered by inclusion (`SnapshotInv`), and one snapshot below
the cap covers all the allowed attempts of the window (`CapInv`); its owner need not
be in the window itself, which is what makes the condition inductive. The refinement
of `AttemptLifecycle` needs `ReasonInv` besides `FlowInv`: the mapping reads what
was recorded off the block reason, and a rule's reason must neither come from a
revocation nor disappear. Every action then maps to one abstract step or to none.
`SettledRowsAreFinal` says from when on a row is final, which for a blocked row
BlockedIsTerminal does not hold before: its handler has returned, its workflow is
over and no late record request is left.

**SanitizerProofs.** `SanitizedIsClean` and `SanitizedOnce` are about SanitizePII on
every text. `ReplaceAll` is a function recursive in the position it looks at: the
proof shows that a function with that equation exists, extending one from the end of
the text to its start, and then inducts over the position, with least
counterexamples in place of an induction theorem. The three patterns are applied in
turn, so the heart is that a tag put into the text by one of them is never part of a
match of another.

**ScoringProofs.** `ScoringImplementsContact`: dropping texts and scorecards, every
step is a step of `Contact`, so `Contact`'s invariants hold here. On them rest
`ScoringTypeCorrect`, `ScoresBacked` and `ScoresSettle`, with `StageInv` (an
interaction is published, or on its way, only in the workflow's last step, after
which no new record request comes up) and `ScoreInv`. With SanitizerProofs they give
`StoredIsClean`. `ScoreWithin` and `RequiredPoints` are about EvaluateScorecard: the
sum of the weights is a fold over a set, of which the lemmas show that it adds up,
that it grows with the set, and what it is for a rubric's three items.
`ScoresAreInRange` takes the result to every row: no late request or rescoring
leaves a scorecard that the rubrics could not give.

**ContactTimingProofs.** `TypeCorrect`, `CapProtects`, `HoursKept`, `CapIsExact`.
For every stretch of the protected length the proof exhibits one attempt whose check
counted all the attempts that delivered in it, the last of them to read the table
(`CoverInv`); its count was below the cap. That there is a last one is `ChainInv`:
of two calls, what one has read the other has read too, or it has left the window.
`TimeInv` and `SendInv` bound how long after its row an attempt delivers.

**IntakeProofs.** `TypeCorrect`, `Owned`, `AnswersTrue`, `OneDial`, `AddsUp`,
`NobodyStranded`. `CallInv` says what each step of a call has established and left
behind; rows are never deleted and accounts never change hands, so the lookups stay
true. `OpenInv` says that on an account whose updates never overlapped, an open
statement has read the present status: its commit then moves one unit from the old
status to the new. `DialInv` says that while `temporalOnce` is being done, a call of
that process is doing it, also after crashes and failed dials.

**PaymentProofs.** `TypeCorrect`, `TimelineSound`, `CompletionPaid`,
`NoticesCommitted`, from one inductive invariant that adds to the properties what an
open transaction is bound to commit: `CallInv` (what a call has written fits its
endpoint and its statement), `RowInv` (rows are a finished transaction's, and all of
its rows are there), `AcceptedInv` (a payment under way is one of an accepted plan)
and `PaidInv` (a call that has found the plan paid still finds it paid, since the
sum only grows), `LockInv` (the row's lock is held by the open transaction that has
written the row, and no other has). `LockInv` gives `WritersExclude` and
`NoDeadlock`: who waits, waits for a transaction that can go on. `BooksOnlyGrow`
says what no overlap can undo: payments, the timeline, events, and that a plan was
accepted. `SettledStays`: a call that begins on a terminal status opens no
transaction. `CallsImplemented` is the refinement of `PaymentCalls` under any
interleaving: every statement maps to one step of a call or to none. `SeenInv` gives
what the mapping leaves out, that what a payment has written follows from the status
it read. For calls that do not overlap (the theorems assume MaxInFlight = 1)
`SerialInv` adds that what the one call under way has read is still so. From it come
`SerialFollows` (every step is one of the documented state machine or completes a
proposed plan), on which `SerialTerminal` rests, and `SerialCompletes`.

**PaymentPlanProofs.** `TypeCorrect`, `DefaultEarned`, `CompletedTracked`,
`CreditsPaid`, `FollowsDocumented`, for any number of calls. `CountInv` is the heart: `missedCount` is the length
of the run of misses that ends at `tracked`, which turns the counter's test into
`MissedInARow`. `LoopInv` bounds the loop; `VerdictInv` carries a verdict's reason
from the workflow's decision through its requests and calls, retried, abandoned or
served after the workflow is over. CreditsArePaid is inductive with the type invariant.
For `FollowsDocumented`, `SerialInv` adds that until two calls overlap the open call
still finds what it saw at its check, and `AcceptedInv` that an acceptance told to the
workflow has left the plan accepted for good, so that no mark completes a proposed one.
`DoneHasVerdict`: a workflow becomes done only on a verdict in the row, whatever
overlaps its mark; that the verdict stands is proved until calls overlap, and not so
afterwards.

**AuditProofs.** `TypeCorrect`, `EventsOnRecord`, `TimedEventsOnRecord`, from
`KeyOnRecord` (an acknowledged message has a row under its key; rows only grow) and
three lemmas on what `DedupKey` tells apart. `DuplicatesBounded` from `BoundInv`: a
key's rows and the deliveries about to insert one are together within the bound,
since a check passes only while there is no row, or fails and is counted.

The same invariants give two exact statements of what `DuplicatesAreBounded` bounds.
`ExactlyOnce`: with one delivery at a time and checks that answer, one row per
acknowledged key. `RedeliveryAddsNothing`: once a key has its row and no delivery is
past its check, nothing but a failed check adds another.

**What liveness rests on.** TLAPS proves no liveness property here: the steps from
weak or strong fairness, which need ENABLED, are TLC's. What those steps rest on is
proved for all constants:

| Property (TLC) | Proved of the code's steps |
|---|---|
| WorkflowCloses | `WorkflowIsBounded` (Contact): each step of a started workflow takes one of its 7 * MaxTries tries, nobody gives one back |
| RevocationReachesPending | `RevocationIsKept`: a pending attempt stays named on the topic until it is not pending, and does not become pending again |
| OnlyFailuresStrand | `PendingIsAccountedFor`: a pending row has a handler or workflow at work on it, or one that failed |
| InteractionsAreScored | `InteractionIsKept`: its message stays until the row holds the service's scorecard |
| CallsReturn | `CallsAreBounded` (Intake): each step of a call is progress nobody undoes; `NobodyStranded` |
| CallsFinish | `CallsAreBounded` (Payment), `NoDeadlock` |
| WorkflowEnds | `WorkflowIsBounded` (PaymentPlan): each step uses up one of 2 * NumInstallments + 2 * MaxTries + 1; `DoneHasVerdict` |

EventGetsThrough has no such counterpart: its deliveries may fail without bound, and
all of it is in the fairness.

**Model-checked only.** The eight liveness properties above; everything else the
passing runs check is stated by a theorem.

Definitions that proofs unfold choose between cases by disjunction, IF or a record
of the cases, not by CASE: tlapm 1.4.5 gives two CASE expressions in one obligation
to the SMT solver as equal, and a proof must not rest on that.

## 6. Not modelled, and what is left

In order of importance:

1. A delivery try that outlives its workflow: in `ContactTiming` nothing is delivered
   after `Abandon`, while a worker that stalls inside an abandoned try could still
   deliver. CapPerWindow and DeliveredInHours say nothing of such a delivery.
2. Clock skew between the database, the API and the compliance service.
3. A sender that repeats its signals: `PaymentPlan` is told of each payment once.

Left out for good: reads (GetPlan, ListContacts, ListAccountsByConsumer, audit
queries), metrics, logging, tracing, percentages and the wording of violations, the
worker's start-up, and the private RecordAudit endpoint, which nothing in the
repository calls.
