------------------------------- MODULE Audit -------------------------------
(***************************************************************************)
(* The audit service's subscriptions (audit/subscribers.go) and the write  *)
(* path they share (audit/audit.go): every event published on one of the   *)
(* six topics is to become a row of audit_log, at-least-once delivery and  *)
(* all.  A message is the part of an event the handlers build the          *)
(* deduplication key from; the SELECT that looks the key up and the INSERT *)
(* are two statements, and deliveries run side by side.                    *)
(***************************************************************************)
EXTENDS Integers, FiniteSets

CONSTANTS
    Messages,       \* the events published: [topic, entity, kind, at]
    Deliveries,     \* the deliveries that may run at the same time
    MaxCheckErrors  \* the bound on failures of isDuplicate's query

Topics == {"contact-attempted", "interaction-created", "consent-changed",
           "consumer-lifecycle", "account-lifecycle", "payment-updated"}

ASSUME AuditAssumption ==
    /\ \A m \in Messages : m.topic \in Topics
    /\ IsFiniteSet(Deliveries)
    /\ MaxCheckErrors \in Nat

VARIABLES
    published,    \* the messages their services have published
    acked,        \* the messages a delivery of which returned nil
    inserting,    \* deliveries past isDuplicate, as [by, message]
    log,          \* the rows of audit_log, as [message, copy]
    checkErrors   \* failures of isDuplicate's query so far

vars == <<published, acked, inserting, log, checkErrors>>

\* Whatever is acknowledged, under way or on record was published as it is there.
TypeOK ==
    /\ published \subseteq Messages
    /\ acked \subseteq published
    /\ inserting \subseteq [by : Deliveries, message : published]
    /\ log \subseteq [message : published, copy : Nat \ {0}]
    /\ checkErrors \in 0 .. MaxCheckErrors

Init ==
    /\ published = {}
    /\ acked = {}
    /\ inserting = {}
    /\ log = {}
    /\ checkErrors = 0

---------------------------------------------------------------------------
(* The deduplication keys: entity is the id of the attempt, the consumer,  *)
(* the account or the plan; kind the status, action or type of the event;  *)
(* at the second it happened in, which is as fine as RFC 3339 goes.        *)

\* Wrong variant: keys as if every event happened once in its entity's life.
DedupKeyWithoutTime(m) ==
    IF m.topic \in {"contact-attempted", "interaction-created"}
    THEN <<m.topic, m.entity>>
    ELSE <<m.topic, m.entity, m.kind>>

\* Wrong variant: the consent status is not part of the key.
DedupKeyWithoutStatus(m) ==
    CASE m.topic = "consent-changed" -> <<m.topic, m.entity, m.at>>
      [] m.topic = "payment-updated" -> <<m.topic, m.entity, m.kind, m.at>>
      [] OTHER -> <<m.topic, m.entity, m.kind>>

DedupKey(m) ==
    IF m.topic \in {"contact-attempted", "interaction-created"}
    THEN <<m.topic, m.entity>>
    ELSE IF \/ m.topic = "consent-changed"
            \/ m.topic = "payment-updated" /\ m.kind = "payment_received"
    THEN <<m.topic, m.entity, m.kind, m.at>>
    ELSE <<m.topic, m.entity, m.kind>>

SameKey(m) == {n \in Messages : DedupKey(n) = DedupKey(m)}

RowsOf(m)    == {r \in log : r.message = m}
RowsOfKey(m) == {r \in log : r.message \in SameKey(m)}

\* What isDuplicate's query answers.
IsDuplicate(m) == RowsOfKey(m) # {}

---------------------------------------------------------------------------

Idle(d) == \A i \in inserting : i.by # d

\* The service behind the topic publishes; an event whose Publish fails is
\* logged and never becomes a message.
Publish(m) ==
    /\ m \in Messages \ published
    /\ published' = published \cup {m}
    /\ UNCHANGED <<acked, inserting, log, checkErrors>>

\* Wrong variant: handleAuditEvent returns an error for a duplicate.
SkipDuplicateWithError(d, m) ==
    /\ Idle(d) /\ m \in published \ acked
    /\ IsDuplicate(m)
    /\ UNCHANGED vars

\* handleAuditEvent on a message that has its row: nil is returned.
SkipDuplicate(d, m) ==
    /\ Idle(d) /\ m \in published \ acked
    /\ IsDuplicate(m)
    /\ acked' = acked \cup {m}
    /\ UNCHANGED <<published, inserting, log, checkErrors>>

\* Wrong variant: every delivery inserts.
PassCheckAlways(d, m) ==
    /\ Idle(d) /\ m \in published \ acked
    /\ inserting' = inserting \cup {[by |-> d, message |-> m]}
    /\ UNCHANGED <<published, acked, log, checkErrors>>

PassCheck(d, m) ==
    /\ Idle(d) /\ m \in published \ acked
    /\ ~ IsDuplicate(m)
    /\ inserting' = inserting \cup {[by |-> d, message |-> m]}
    /\ UNCHANGED <<published, acked, log, checkErrors>>

\* The query fails: the message is taken for new.
CheckFails(d, m) ==
    /\ Idle(d) /\ m \in published \ acked
    /\ checkErrors < MaxCheckErrors
    /\ checkErrors' = checkErrors + 1
    /\ inserting' = inserting \cup {[by |-> d, message |-> m]}
    /\ UNCHANGED <<published, acked, log>>

\* Wrong variant: every change is recorded as a grant of consent, the action
\* handleConsentChanged starts from.
RecordAsGranted(m) ==
    log' = log \cup {[message |-> [m EXCEPT !.kind = "granted"],
                      copy |-> Cardinality(RowsOf(m)) + 1]}

\* A new row, told from the message's earlier ones by its number.
Record(m) ==
    log' = log \cup {[message |-> m, copy |-> Cardinality(RowsOf(m)) + 1]}

\* recordAuditEntry's INSERT commits and the message is acknowledged.
Insert(i) ==
    /\ i \in inserting
    /\ Record(i.message)
    /\ acked' = acked \cup {i.message}
    /\ inserting' = inserting \ {i}
    /\ UNCHANGED <<published, checkErrors>>

\* The INSERT commits and the acknowledgement is lost, or comes too late.
InsertUnacked(i) ==
    /\ i \in inserting
    /\ Record(i.message)
    /\ inserting' = inserting \ {i}
    /\ UNCHANGED <<published, acked, checkErrors>>

\* The INSERT fails and the handler returns the error, or the process dies:
\* the message will come again.
InsertFails(i) ==
    /\ i \in inserting
    /\ inserting' = inserting \ {i}
    /\ UNCHANGED <<published, acked, log, checkErrors>>

Next ==
    \/ \E m \in Messages : Publish(m)
    \/ \E d \in Deliveries, m \in Messages :
          SkipDuplicate(d, m) \/ PassCheck(d, m) \/ CheckFails(d, m)
    \/ \E i \in inserting : Insert(i) \/ InsertUnacked(i) \/ InsertFails(i)

Spec == Init /\ [][Next]_vars

\* A message is delivered until it is acknowledged, a delivery ends, and a
\* database that is asked again and again answers at last.
Deliver(m)   == \E d \in Deliveries : SkipDuplicate(d, m) \/ PassCheck(d, m)
Finish(i)    == Insert(i) \/ InsertUnacked(i) \/ InsertFails(i)
Succeed(m)   == \E d \in Deliveries : Insert([by |-> d, message |-> m])

FairSpec ==
    /\ Spec
    /\ \A m \in Messages : SF_vars(Deliver(m)) /\ SF_vars(Succeed(m))
    /\ \A d \in Deliveries, m \in Messages : WF_vars(Finish([by |-> d, message |-> m]))

---------------------------------------------------------------------------
(* Properties.                                                             *)

\* An acknowledged event has a row of its topic, entity and kind: dedup never
\* lets one entity's or one kind's event stand in for another's, and an error
\* never drops one (subscribers.go:84-108, 127-197, 218-231).
EventIsOnRecord ==
    \A m \in acked : \E n \in Messages :
        /\ RowsOf(n) # {}
        /\ n.topic = m.topic /\ n.entity = m.entity
        /\ m.topic \notin {"contact-attempted", "interaction-created"} => n.kind = m.kind

Timed(m) == \/ m.topic = "consent-changed"
            \/ m.topic = "payment-updated" /\ m.kind = "payment_received"

\* A consent change or a payment that has its second to itself has a row to
\* itself: an earlier one never hides it (subscribers.go:150-160, 184-188).
TimedEventIsOnRecord ==
    \A m \in acked :
        Timed(m) /\ (\A n \in Messages \ {m} :
                        n.topic = m.topic /\ n.entity = m.entity /\ n.kind = m.kind
                           => n.at # m.at)
        => RowsOf(m) # {}

\* Duplicate rows come from deliveries that ran side by side or from a failed
\* check, never from redelivery alone: one key has at most one row for every
\* delivery that may run at once and one for every failed check
\* (subscribers.go:84-90, 217-231).
DuplicatesAreBounded ==
    \A m \in Messages :
        Cardinality(RowsOfKey(m)) <= Cardinality(Deliveries) + checkErrors

\* Every published event gets to its row: redelivery, lost acknowledgements
\* and failed inserts only delay it (subscribers.go:84-108).
EventGetsThrough == \A m \in Messages : m \in published ~> m \in acked

=============================================================================
