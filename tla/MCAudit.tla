------------------------------ MODULE MCAudit ------------------------------
(* Small instances of Audit for TLC. *)
EXTENDS Audit, TLC

CONSTANTS d1, d2

Event(topic, kind, at) == [topic |-> topic, entity |-> 1, kind |-> kind, at |-> at]

\* A consumer who revokes and grants within a second, and revokes again later.
Timeline ==
    {Event("consent-changed", "revoked", 1),
     Event("consent-changed", "granted", 1),
     Event("consent-changed", "revoked", 2)}

=============================================================================
