--------------------------- MODULE ContactTiming ---------------------------
(***************************************************************************)
(* The attempts of one consumer against the clock: when InitiateContact    *)
(* inserts a row and counts its predecessors (contact/contact.go), when    *)
(* the workflow has the rules run and the message delivered                *)
(* (workflows/contact_workflow.go), and what the two limits that depend on *)
(* time, the contacts per week and the hours of the day, are then worth    *)
(* for the deliveries themselves.                                          *)
(*                                                                         *)
(* The database, the API process and the compliance service read one       *)
(* clock.  Everything that does not take time is in Contact: here an       *)
(* activity that fails for good, an error return and a crash are Abandon.  *)
(***************************************************************************)
EXTENDS ComplianceRules

CONSTANTS
    Attempts,         \* ids of the consumer's contact attempts
    Profile,          \* what each request and the consumer's row say
    HandlerTime,      \* from a call's INSERT to the start of its workflow
    WorkflowTimeout,  \* WorkflowExecutionTimeout (60 s), in ticks
    MaxTime           \* the clock stops here

\* The code sets no deadline for InitiateContact: HandlerTime is whatever
\* bound the deployment gives it.
ASSUME TimingAssumption ==
    /\ IsFiniteSet(Attempts)
    /\ HandlerTime \in Nat /\ WorkflowTimeout \in Nat /\ MaxTime \in Nat
    /\ HandlerTime + WorkflowTimeout + TicksPerSecond <= Window

VARIABLES
    clock,
    step,         \* where each attempt stands
    attemptedAt,  \* contact_attempts.attempted_at
    seen,         \* the rows whose timestamps the workflow's input carries
    startedAt,    \* when the workflow started
    checkedAt,    \* when the rules ran
    violations,   \* the rules the result says are violated
    sends         \* runs of SimulateDelivery, as [attempt, at]

vars == <<clock, step, attemptedAt, seen, startedAt, checkedAt, violations, sends>>

Times == 0 .. MaxTime
Handling == {"inserted", "counted"}
Running  == {"check", "deliver"}
Steps    == {"idle", "done"} \cup Handling \cup Running

\* The time a row or a workflow has had when it was last at work.
Life == HandlerTime + WorkflowTimeout

TypeOK ==
    /\ clock \in Times
    /\ step \in [Attempts -> Steps]
    /\ attemptedAt \in [Attempts -> Times]
    /\ seen \in [Attempts -> SUBSET Attempts]
    /\ startedAt \in [Attempts -> Times]
    /\ checkedAt \in [Attempts -> Times]
    /\ violations \in [Attempts -> SUBSET DefaultRules]
    /\ sends \subseteq [attempt : Attempts, at : Times]

Init ==
    /\ clock = 0
    /\ step = [a \in Attempts |-> "idle"]
    /\ attemptedAt = [a \in Attempts |-> 0]
    /\ seen = [a \in Attempts |-> {}]
    /\ startedAt = [a \in Attempts |-> 0]
    /\ checkedAt = [a \in Attempts |-> 0]
    /\ violations = [a \in Attempts |-> {}]
    /\ sends = {}

---------------------------------------------------------------------------
(* InitiateContact.                                                        *)

\* Wrong variant: attempted_at is written as a local time, ahead of the clock.
InsertLocalTime(a) ==
    /\ step[a] = "idle"
    /\ step' = [step EXCEPT ![a] = "inserted"]
    /\ attemptedAt' = [attemptedAt EXCEPT ![a] = clock + TicksPerSecond]
    /\ UNCHANGED <<clock, seen, startedAt, checkedAt, violations, sends>>

\* attempted_at is the database's now() at full precision.
InsertPendingAttempt(a) ==
    /\ step[a] = "idle"
    /\ step' = [step EXCEPT ![a] = "inserted"]
    /\ attemptedAt' = [attemptedAt EXCEPT ![a] = clock]
    /\ UNCHANGED <<clock, seen, startedAt, checkedAt, violations, sends>>

Inserted == {b \in Attempts : step[b] # "idle"}

\* Wrong variant: an attempt that is still at work is left out of the count.
FetchFinishedContactTimestamps(a) ==
    /\ step[a] = "inserted"
    /\ step' = [step EXCEPT ![a] = "counted"]
    /\ seen' = [seen EXCEPT ![a] =
                  {b \in Inserted : /\ attemptedAt[b] >= clock - Window
                                    /\ step[b] = "done" \/ b = a}]
    /\ UNCHANGED <<clock, attemptedAt, startedAt, checkedAt, violations, sends>>

\* The SELECT compares attempted_at at full precision.
FetchRecentContactTimestamps(a) ==
    /\ step[a] = "inserted"
    /\ step' = [step EXCEPT ![a] = "counted"]
    /\ seen' = [seen EXCEPT ![a] =
                  {b \in Inserted : attemptedAt[b] >= clock - Window}]
    /\ UNCHANGED <<clock, attemptedAt, startedAt, checkedAt, violations, sends>>

StartWorkflow(a) ==
    /\ step[a] = "counted"
    /\ step' = [step EXCEPT ![a] = "check"]
    /\ startedAt' = [startedAt EXCEPT ![a] = clock]
    /\ UNCHANGED <<clock, attemptedAt, seen, checkedAt, violations, sends>>

---------------------------------------------------------------------------
(* The workflow.                                                           *)

\* The workflow's input carries a timestamp in RFC 3339, which has no
\* fraction of a second.
Stamp(b) == attemptedAt[b] - (attemptedAt[b] % TicksPerSecond)

\* buildWorkflowInput, then ComplianceCheckInput: no check_time is sent, so
\* the rules read the clock when they run.
CheckRequest(a) ==
    [timezone  |-> Profile[a].timezone,
     consent   |-> Profile[a].consent,
     dnc       |-> Profile[a].dnc,
     attorney  |-> Profile[a].attorney,
     channel   |-> Profile[a].channel,
     content   |-> Profile[a].content,
     checkTime |-> clock,
     stamps    |-> [b \in seen[a] |-> Stamp(b)]]

\* The try whose answer the workflow gets.
CheckCompliance(a) ==
    /\ step[a] = "check"
    /\ checkedAt' = [checkedAt EXCEPT ![a] = clock]
    /\ violations' = [violations EXCEPT ![a] = RunAllRules(CheckRequest(a))]
    /\ step' = [step EXCEPT ![a] =
                  IF Allowed(RunAllRules(CheckRequest(a))) THEN "deliver" ELSE "done"]
    /\ UNCHANGED <<clock, attemptedAt, seen, startedAt, sends>>

\* A try of SimulateDelivery that runs: its answer reaches the workflow, or
\* is lost and the activity is tried again.
SimulateDelivery(a) ==
    /\ step[a] = "deliver"
    /\ sends' = sends \cup {[attempt |-> a, at |-> clock]}
    /\ \E next \in {"deliver", "done"} : step' = [step EXCEPT ![a] = next]
    /\ UNCHANGED <<clock, attemptedAt, seen, startedAt, checkedAt, violations>>

Abandon(a) ==
    /\ step[a] \in Handling \cup Running
    /\ step' = [step EXCEPT ![a] = "done"]
    /\ UNCHANGED <<clock, attemptedAt, seen, startedAt, checkedAt, violations, sends>>

---------------------------------------------------------------------------
(* Time passes up to the next deadline of a call or a workflow at work.    *)

Deadlines ==
    \A a \in Attempts :
        /\ step[a] \in Handling => clock < attemptedAt[a] + HandlerTime
        /\ step[a] \in Running  => clock < startedAt[a] + WorkflowTimeout

Tick ==
    /\ clock < MaxTime
    /\ Deadlines
    /\ clock' = clock + 1
    /\ UNCHANGED <<step, attemptedAt, seen, startedAt, checkedAt, violations, sends>>

Next ==
    \/ Tick
    \/ \E a \in Attempts :
          \/ InsertPendingAttempt(a)
          \/ FetchRecentContactTimestamps(a)
          \/ StartWorkflow(a)
          \/ CheckCompliance(a)
          \/ SimulateDelivery(a)
          \/ Abandon(a)

Spec == Init /\ [][Next]_vars

---------------------------------------------------------------------------
(* Safety.                                                                 *)

\* The attempts with a delivery in a stretch of time.
Reached(first, last) == {s.attempt : s \in {x \in sends : x.at \in first .. last}}

\* How long a stretch the cap protects: the week, less the life of an attempt
\* (a row is stamped when it is inserted, and delivered later) and less what
\* cutting the stamp to a second and the two ends of the window cost.
Protected == Window - Life - TicksPerSecond + 1

\* Fewer than MaxAttempts attempts deliver to the consumer in any stretch of
\* the protected length, wherever it starts and however the attempts in it
\* overlap (contact.go:176-200, rules.go:65-90).
CapPerWindow ==
    \A t \in Times : Cardinality(Reached(t, t + Protected)) < MaxAttempts

HoursOpen(zone, t) ==
    zone \in Zones /\ LocalSecond[zone][t \div TicksPerSecond] \in Open .. Close

\* Every delivery comes within the workflow's timeout of a moment at which the
\* consumer's hours were open: the rule judges the moment of the check, not
\* that of the delivery (rules.go:20-47, contact_workflow.go:39, 103).
DeliveredInHours ==
    \A s \in sends : \E t \in s.at - WorkflowTimeout .. s.at :
        t >= 0 /\ HoursOpen(Profile[s.attempt].timezone, t)

\* The cap refuses an attempt only when the consumer really had MaxAttempts
\* rows, its own with them, in the window before the check: a timestamp cut
\* to the second never counts a row from before the window, and no row counts
\* twice (contact.go:194, rules.go:70-90).
CapBlocksOnlyAtLimit ==
    \A a \in Attempts :
        "frequency_cap" \in violations[a] =>
            Cardinality({b \in Inserted :
                attemptedAt[b] \in checkedAt[a] - Window .. checkedAt[a]}) >= MaxAttempts

=============================================================================
