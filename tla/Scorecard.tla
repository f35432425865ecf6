----------------------------- MODULE Scorecard -----------------------------
(***************************************************************************)
(* EvaluateScorecard (compliance/scorecard.go) and the two rubrics it is   *)
(* called with: the contact workflow's and the scoring service's.          *)
(* Matching is by keyword; a phrase of a text is a symbol, and what        *)
(* matters of its letters is which keywords it contains.                   *)
(***************************************************************************)
EXTENDS FiniteSetsExt, Sequences

Item(id, required, keywords, weight) ==
    [id |-> id, required |-> required, keywords |-> keywords, weight |-> weight]

\* The literal rubric of ContactWorkflow, step 4.
WorkflowRubric ==
    {Item("agent-id", TRUE, {"my name is", "this is", "calling from"}, 3),
     Item("mini-miranda", TRUE,
          {"attempt to collect a debt", "information will be used"}, 4),
     Item("payment-option", FALSE, {"payment plan", "settle", "arrangement"}, 3)}

\* defaultRubric of the scoring service.
ServiceRubric ==
    {Item("agent-id", TRUE, {"this is", "my name is", "speaking with"}, 3),
     Item("mini-miranda", TRUE,
          {"this is an attempt to collect a debt", "debt collector"}, 4),
     Item("payment-option", FALSE, {"payment plan", "pay in full", "settlement"}, 3)}

\* Keywords inside longer phrases: strings.Contains finds them there too.
KeywordsWithin(phrase) ==
    {phrase} \cup
        CASE phrase = "this is an attempt to collect a debt" ->
                {"this is", "attempt to collect a debt"}
          [] phrase = "settlement" -> {"settle"}
          [] OTHER -> {}

Passes(item, text) ==
    \E i \in 1 .. Len(text) : KeywordsWithin(text[i]) \cap item.keywords # {}

Weight(items) == MapThenSumSet(LAMBDA item : item.weight, items)

EvaluateScorecard(text, rubric) ==
    LET passed == {item \in rubric : Passes(item, text)}
    IN  [total_score     |-> Weight(passed),
         max_score       |-> Weight(rubric),
         required_passed |-> \A item \in rubric \ passed : ~ item.required]

=============================================================================
