------------------------------ MODULE MCIntake ------------------------------
(* A small instance of Intake for TLC. *)
EXTENDS Intake, TLC

CONSTANTS c1, c2, k1, k2, p1

SameExternalId == [c \in Consumers |-> "ext"]
NamedConsumer  == [k \in Calls |-> c1]
NamedAccount   == [k \in Calls |-> "acc"]
OneProcess     == [k \in Calls |-> p1]
OneAccount     == [u \in Updates |-> "acc"]

Requested == [u \in Updates |-> "delinquent"]

=============================================================================
