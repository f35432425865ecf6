--------------------------- MODULE MCContactTiming ---------------------------
(* A small instance of ContactTiming for TLC. *)
EXTENDS ContactTiming, TLC

CONSTANTS a1, a2, a3

\* A local day of three seconds, open in its seconds 0 and 1, whose clock is
\* put back once: second 1 comes again.
FallBack == [z \in Zones |-> <<1, 1, 2, 0, 1>> @@ (0 :> 0)]

\* The third attempt is an SMS without opt-out wording.
Profiles ==
    [a \in Attempts |->
        [timezone |-> "known", consent |-> "granted", dnc |-> FALSE,
         attorney |-> FALSE,
         channel  |-> IF a = a3 THEN "sms" ELSE "voice",
         content  |-> "plain"]]

Voices == Permutations({a1, a2})

=============================================================================
