-------------------------- MODULE ComplianceRules --------------------------
(***************************************************************************)
(* The compliance service's rule engine (compliance/rules.go): a pure      *)
(* function of a ContactCheckRequest.  Time is counted in ticks, so that   *)
(* what is cut to whole seconds and what is not can be told apart.         *)
(*                                                                         *)
(* A request is a record: timezone, consent, dnc, attorney, channel,       *)
(* content, checkTime (the server's clock: the workflow sends none) and    *)
(* stamps, the recent contact timestamps, one per row: a function from     *)
(* rows to ticks.                                                          *)
(***************************************************************************)
EXTENDS Integers, FiniteSets

CONSTANTS
    TicksPerSecond,
    Zones,         \* the timezone names time.LoadLocation knows
    LocalSecond,   \* by zone and second: the second of the local day
    Open, Close,   \* 08:00:00 and 21:00:00 as seconds of the local day
    Window,        \* FrequencyCapRule.WindowDays (7 days), in ticks
    MaxAttempts    \* FrequencyCapRule.MaxAttempts (7 in the code)

ASSUME RulesAssumption ==
    /\ TicksPerSecond \in Nat \ {0}
    /\ Window \in Nat /\ Window % TicksPerSecond = 0
    /\ MaxAttempts \in Nat \ {0}

\* Wrong variant: the hour alone is compared, so 21:00:01 is still inside.
TimeWindowRuleByHour(req) ==
    \/ req.timezone \notin Zones
    \/ LocalSecond[req.timezone][req.checkTime \div TicksPerSecond] \notin Open .. Close + 1

\* The clock is read in whole seconds; both ends of the day are inside.
TimeWindowRule(req) ==
    \/ req.timezone \notin Zones
    \/ LocalSecond[req.timezone][req.checkTime \div TicksPerSecond] \notin Open .. Close

\* Wrong variant: the window has no lower end.
CountedSinceEver(req) == {r \in DOMAIN req.stamps : req.stamps[r] <= req.checkTime}

\* The timestamps in the trailing window, both ends included.
Counted(req) ==
    {r \in DOMAIN req.stamps : req.stamps[r] \in req.checkTime - Window .. req.checkTime}

FrequencyCapRule(req) == Cardinality(Counted(req)) >= MaxAttempts

AttorneyBlockRule(req) == req.attorney

ConsentCheckRule(req) == req.consent = "revoked" \/ req.dnc

\* content is one of "empty", "plain" and "optOut" (with a keyword).
OptOutValidationRule(req) ==
    req.channel \in {"sms", "email"} /\ req.content = "plain"

DefaultRules == {"time_window", "frequency_cap", "attorney_block",
                 "consent_check", "opt_out_validation"}

Violates(rule, req) ==
    \/ rule = "time_window"        /\ TimeWindowRule(req)
    \/ rule = "frequency_cap"      /\ FrequencyCapRule(req)
    \/ rule = "attorney_block"     /\ AttorneyBlockRule(req)
    \/ rule = "consent_check"      /\ ConsentCheckRule(req)
    \/ rule = "opt_out_validation" /\ OptOutValidationRule(req)

\* The violations found: no rule cuts the others off.
RunAllRules(req) == {rule \in DefaultRules : Violates(rule, req)}

Allowed(violations) == violations = {}

=============================================================================
