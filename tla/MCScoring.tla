----------------------------- MODULE MCScoring -----------------------------
(* Small instances of Scoring for TLC. *)
EXTENDS Scoring, TLC

CONSTANTS c1, a1

OneConsumer == [a \in Attempts |-> c1]

N(n)  == Repeat(n, "9")
Ssn   == N(3) \o <<"-">> \o N(2) \o <<"-">> \o N(4)
Card  == N(4) \o <<"-">> \o N(4) \o <<" ">> \o N(8)
Phone == N(3) \o <<".">> \o N(3) \o <<"-">> \o N(4)
Call  == <<"(">> \o N(3) \o <<")", " ">> \o N(3) \o <<"-">> \o N(4)
Intl  == <<"+", "1">> \o N(10)

\* Numbers side by side, sharing digits and separators, under phrases of
\* either rubric, of both and of none.
Samples ==
    {<<"this is an attempt to collect a debt">> \o Card \o Ssn,
     <<"calling from">> \o Intl \o N(4) \o <<"-">> \o N(2) \o <<"-">> \o N(4),
     <<"debt collector", "settlement">> \o Ssn \o Phone,
     N(5) \o Card \o <<"-">> \o N(2) \o <<"-">> \o N(4) \o <<"settle">>,
     Call \o Phone \o Phone \o <<"information will be used">>,
     N(2) \o Ssn \o <<"-">> \o N(3) \o <<"-">> \o N(4) \o N(16)}

=============================================================================
