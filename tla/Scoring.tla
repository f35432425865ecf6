------------------------------ MODULE Scoring ------------------------------
(***************************************************************************)
(* The scoring service (scoring/subscribers.go) at work on the attempts of *)
(* Contact: the text of each attempt, the scorecard in its row and the     *)
(* interaction-created messages that make the service score it again.      *)
(* Every step of Contact is a step here; the requests that write the row   *)
(* or publish the interaction carry the scorecard and the text with them.  *)
(***************************************************************************)
EXTENDS Contact, Sanitizer, Scorecard

CONSTANT Texts   \* the message_content of requests, which is never empty

ASSUME ScoringAssumption == \A text \in Texts : text \in Seq({text[i] : i \in DOMAIN text})

VARIABLES
    message,   \* the message_content of each InitiateContact request
    score,     \* contact_attempts.scorecard_result
    toScore    \* attempts whose interaction-created event scoring has not acked

scoringVars == <<message, score, toScore>>
allVars == <<vars, scoringVars>>

Sanitized == [text \in Texts |-> SanitizePII(text)]

WorkflowScore(a) == EvaluateScorecard(Sanitized[message[a]], WorkflowRubric)
ServiceScore(a)  == EvaluateScorecard(Sanitized[message[a]], ServiceRubric)

\* SQL's NULL or the JSON null a blocked result sends: no rubric's maximum is 0.
NoScore == [total_score |-> 0, max_score |-> 0, required_passed |-> FALSE]

ScoringTypeOK ==
    /\ message \in [Attempts -> Texts]
    /\ DOMAIN score = Attempts
    /\ \A a \in Attempts : score[a] \in {NoScore, WorkflowScore(a), ServiceScore(a)}
    /\ toScore \subseteq Attempts

ScoringInit ==
    /\ Init
    /\ message \in [Attempts -> Texts]
    /\ score = [a \in Attempts |-> NoScore]
    /\ toScore = {}

---------------------------------------------------------------------------
(* The scorecard a served request carries.                                 *)

\* Wrong variant: a blocked result is sent with a scorecard too.
CarryAlways(a, op) ==
    /\ score' = IF op = "record" THEN [score EXCEPT ![a] = WorkflowScore(a)] ELSE score
    /\ toScore' = IF op = "publishInteraction" THEN toScore \cup {a} ELSE toScore

Carry(a, op) ==
    \/ /\ op = "record"
       /\ score' = [score EXCEPT ![a] =
                      IF Outcome(a) = "blocked" THEN NoScore ELSE WorkflowScore(a)]
       /\ UNCHANGED toScore
    \/ /\ op = "publishAttempted"
       /\ UNCHANGED <<score, toScore>>
    \/ /\ op = "publishInteraction"
       /\ toScore' = toScore \cup {a}
       /\ UNCHANGED score

---------------------------------------------------------------------------
(* The interaction-created subscription: score the text of the event, then *)
(* overwrite the column by id.  A failure of either call leaves the        *)
(* message on the topic, which is no step.                                 *)

\* Wrong variant: the new points are added to the old.
AddToScorecardResult(a) ==
    score' = [score EXCEPT ![a] =
                [ServiceScore(a) EXCEPT !.total_score = @ + score[a].total_score]]

UpdateScorecardResult(a) == score' = [score EXCEPT ![a] = ServiceScore(a)]

\* Wrong variant: a failed update is logged and the message acknowledged.
HandleInteractionDropsError(a) ==
    /\ a \in toScore
    /\ UpdateScorecardResult(a) \/ UNCHANGED score
    /\ toScore' = toScore \ {a}
    /\ UNCHANGED <<vars, message>>

HandleInteractionCreated(a) ==
    /\ a \in toScore
    /\ UpdateScorecardResult(a)
    /\ toScore' = toScore \ {a}
    /\ UNCHANGED <<vars, message>>

\* The UPDATE commits and the acknowledgement is lost.
HandleInteractionCreatedUnacked(a) ==
    /\ a \in toScore
    /\ UpdateScorecardResult(a)
    /\ UNCHANGED <<vars, message, toScore>>

---------------------------------------------------------------------------

\* The steps of Contact that serve no request.
ServesNothing(a) ==
    \/ HandlerNext(a)
    \/ LeaveWindow(a)
    \/ CheckComplianceAllows(a)
    \/ CheckComplianceBlocks(a)
    \/ PureActivity(a)
    \/ ActivityTryFails(a)
    \/ ActivityFails(a)
    \/ WorkflowTimesOut(a)

ScoringNext ==
    \/ \E c \in Consumers :
          (ConsumerNext(c) \/ SubscriberNext(c)) /\ UNCHANGED scoringVars
    \/ \E a \in Attempts :
          \/ ServesNothing(a) /\ UNCHANGED scoringVars
          \/ WriteActivity(a) /\ Carry(a, wf[a]) /\ UNCHANGED message
          \/ HandleInteractionCreated(a)
          \/ HandleInteractionCreatedUnacked(a)
    \/ \E r \in late :
          LateRequestServed(r) /\ Carry(r.attempt, r.op) /\ UNCHANGED message

ScoringSpec == ScoringInit /\ [][ScoringNext]_allVars

\* Contact's fairness, a topic that redelivers until it is acknowledged, and
\* handlers that go on once they have begun, to an answer or an error.
HandlerGoesOn(a) ==
    FetchRecentContactTimestamps(a) \/ StartWorkflow(a) \/ InitiateContactFails(a)

FairScoringSpec ==
    /\ ScoringSpec
    /\ Fairness
    /\ \A a \in Attempts : /\ WF_allVars(HandleInteractionCreated(a))
                           /\ WF_vars(HandlerGoesOn(a))

---------------------------------------------------------------------------
(* Properties.                                                             *)

StoredText(a) ==
    IF row[a].content = "sanitized" THEN Sanitized[message[a]] ELSE message[a]

\* The text kept with an attempt that went out, and the text of its event,
\* show no card, social security or phone number, whichever come side by side
\* and whatever one redaction leaves for the next (sanitizer.go:25-31,
\* contact_workflow.go:92-99, 155, 182).
StoredContentIsClean ==
    \A a \in Attempts :
        row[a].status \in {"delivered", "failed"} \/ a \in toScore
            => ~ ShowsPII(StoredText(a))

\* A scorecard in the row is that of the text in the row, of an attempt that
\* went out: no revocation, retry or late request leaves a blocked attempt
\* with a score or a score with another text (contact_workflow.go:60-65,
\* 151-158, contact.go:265-303).
ScoredIsBacked ==
    \A a \in Attempts :
        score[a] # NoScore =>
            /\ row[a].status \in {"delivered", "failed"}
            /\ score[a] \in {EvaluateScorecard(StoredText(a), WorkflowRubric),
                             EvaluateScorecard(StoredText(a), ServiceRubric)}

\* The service's scorecard stays once no record request of an abandoned try is
\* left: redelivery rewrites the same result and no new request of that kind
\* can come up (subscribers.go:91-96, contact_workflow.go:150-185).
ServiceScoreSettles ==
    [][\A a \in Attempts :
          a \in interactions /\ score[a] = ServiceScore(a)
             /\ [attempt |-> a, op |-> "record"] \notin late
          => /\ score'[a] = ServiceScore(a)
             /\ [attempt |-> a, op |-> "record"] \notin late']_allVars

\* Every message about an interaction ends in a row with the service's
\* scorecard, whatever failed or came twice in between
\* (subscribers.go:60-113).
InteractionsAreScored ==
    \A a \in Attempts : a \in toScore ~> score[a] = ServiceScore(a)

\* An attempt stays pending for ever only if its handler failed before it had
\* started the workflow, or its workflow failed (contact.go:97-130,
\* contact_workflow.go:14-22).
OnlyFailuresStrand ==
    \A a \in Attempts :
        row[a].status = "pending" ~>
            \/ row[a].status # "pending"
            \/ handler[a] = "done" /\ wf[a] \in {"none", "failed"}

=============================================================================
