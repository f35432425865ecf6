----------------------------- MODULE MCContact -----------------------------
(* Small instances of Contact for TLC. *)
EXTENDS Contact, TLC

CONSTANTS c1, a1, a2

\* Every attempt is the same consumer's: consumers share no state.
OneConsumer == [a \in Attempts |-> c1]

=============================================================================
