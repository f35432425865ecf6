------------------------------ MODULE Account ------------------------------
(***************************************************************************)
(* The account service (account/account.go): accounts are created for a    *)
(* consumer id nobody checks, and their status is updated by one SQL       *)
(* statement that also returns the status before it.                       *)
(*                                                                         *)
(* The statement runs at READ COMMITTED: its CTE reads the status from the *)
(* snapshot taken when the statement starts, its UPDATE waits for the row  *)
(* and is applied to whatever has been committed by then.                  *)
(***************************************************************************)
EXTENDS Integers, FiniteSets

CONSTANTS
    Accounts,       \* account ids
    Owners,         \* consumer ids a CreateAccount request may name
    AccountStatus,  \* the account_status ENUM
    Updates,        \* calls of UpdateAccountStatus
    UpdateOf,       \* the account each of them names
    NewStatus       \* the status each of them asks for

ASSUME AccountAssumption ==
    /\ IsFiniteSet(Updates)
    /\ UpdateOf \in [Updates -> Accounts]
    /\ NewStatus \in [Updates -> AccountStatus]
    /\ "current" \in AccountStatus
    /\ "absent" \notin AccountStatus

VARIABLES
    status,      \* accounts.status; "absent" before the row is inserted
    owner,       \* accounts.consumer_id
    created,     \* the status each account was created with
    update,      \* where each UpdateAccountStatus call stands
    prev,        \* the status its CTE read
    lifecycle,   \* account-lifecycle events published, by account or update
    overlapped   \* accounts two statements have been open on at a time

accountVars == <<status, owner, created, update, prev, lifecycle, overlapped>>

UpdateSteps == {"idle", "open", "committed", "done", "lost", "failed"}

AccountTypeOK ==
    /\ status \in [Accounts -> AccountStatus \cup {"absent"}]
    /\ owner \in [Accounts -> Owners]
    /\ created \in [Accounts -> AccountStatus]
    /\ update \in [Updates -> UpdateSteps]
    /\ prev \in [Updates -> AccountStatus]
    /\ lifecycle \subseteq Accounts \cup Updates
    /\ overlapped \subseteq Accounts

AccountInit ==
    /\ status = [a \in Accounts |-> "absent"]
    /\ owner \in [Accounts -> Owners]
    /\ created = [a \in Accounts |-> "current"]
    /\ update = [u \in Updates |-> "idle"]
    /\ prev = [u \in Updates |-> "current"]
    /\ lifecycle = {}
    /\ overlapped = {}

---------------------------------------------------------------------------

\* Wrong variant: a status that is not of the ENUM is accepted.
CreateAccountUnchecked(a) ==
    /\ status[a] = "absent"
    /\ \E s \in AccountStatus \cup {"unknown"} :
          /\ status' = [status EXCEPT ![a] = s]
          /\ created' = [created EXCEPT ![a] = s]
    /\ UNCHANGED <<owner, update, prev, lifecycle, overlapped>>

\* owner[a] is fixed beforehand: it is whatever the request names.  The
\* created event is best-effort, and lost when the process stops before it.
CreateAccount(a) ==
    /\ status[a] = "absent"
    /\ \E s \in AccountStatus :
          /\ status' = [status EXCEPT ![a] = s]
          /\ created' = [created EXCEPT ![a] = s]
    /\ lifecycle' \in {lifecycle, lifecycle \cup {a}}
    /\ UNCHANGED <<owner, update, prev, overlapped>>

\* The statement starts: the snapshot its CTE reads.
OpenUpdate(u) ==
    /\ update[u] = "idle"
    /\ status[UpdateOf[u]] # "absent"
    /\ prev' = [prev EXCEPT ![u] = status[UpdateOf[u]]]
    /\ update' = [update EXCEPT ![u] = "open"]
    /\ overlapped' = overlapped \cup
          {a \in {UpdateOf[u]} : \E v \in Updates : update[v] = "open" /\ UpdateOf[v] = a}
    /\ UNCHANGED <<status, owner, created, lifecycle>>

\* Wrong variant: without the CTE, RETURNING gives the status after the UPDATE.
CommitUpdateReturnsNew(u) ==
    /\ update[u] = "open"
    /\ status' = [status EXCEPT ![UpdateOf[u]] = NewStatus[u]]
    /\ prev' = [prev EXCEPT ![u] = NewStatus[u]]
    /\ update' = [update EXCEPT ![u] = "committed"]
    /\ UNCHANGED <<owner, created, lifecycle, overlapped>>

\* The UPDATE has the row: it commits over whatever status is there.
CommitUpdate(u) ==
    /\ update[u] = "open"
    /\ status' = [status EXCEPT ![UpdateOf[u]] = NewStatus[u]]
    /\ update' = [update EXCEPT ![u] = "committed"]
    /\ UNCHANGED <<owner, created, prev, lifecycle, overlapped>>

\* No such account, or an error of the statement.
UpdateFails(u) ==
    /\ update[u] \in {"idle", "open"}
    /\ update[u] = "idle" => status[UpdateOf[u]] = "absent"
    /\ update' = [update EXCEPT ![u] = "failed"]
    /\ UNCHANGED <<status, owner, created, prev, lifecycle, overlapped>>

\* The transition is counted and published from prev to the new status: a
\* publish that fails is logged, a process that stops says nothing.
ReportTransition(u) ==
    /\ update[u] = "committed"
    /\ \/ /\ update' = [update EXCEPT ![u] = "done"]
          /\ lifecycle' \in {lifecycle, lifecycle \cup {u}}
       \/ /\ update' = [update EXCEPT ![u] = "lost"]
          /\ UNCHANGED lifecycle
    /\ UNCHANGED <<status, owner, created, prev, overlapped>>

AccountNext ==
    \/ \E a \in Accounts : CreateAccount(a)
    \/ \E u \in Updates : \/ OpenUpdate(u) \/ CommitUpdate(u)
                          \/ UpdateFails(u) \/ ReportTransition(u)

---------------------------------------------------------------------------

\* The updates of an account that have committed, and report it unless their
\* process stops.
Committed(a) ==
    {u \in Updates : UpdateOf[u] = a /\ update[u] \in {"committed", "done", "lost"}}

Into(a, s)  == Cardinality({u \in Committed(a) : NewStatus[u] = s})
OutOf(a, s) == Cardinality({u \in Committed(a) : prev[u] = s})

Is(x, s) == IF x = s THEN 1 ELSE 0

\* The transitions reported of an account add up: what went into a status and
\* has not left it is where the account is.  Holds of every account no two
\* statements were open on at a time: an earlier reading of the status, or a
\* transition reported twice, would break the chain (account.go:186-202; the
\* comment at account.go:173-175 claims it under concurrency too).
TransitionsAddUp ==
    \A a \in Accounts \ overlapped :
        status[a] # "absent" =>
            \A s \in AccountStatus :
                Into(a, s) - OutOf(a, s) = Is(status[a], s) - Is(created[a], s)

=============================================================================
