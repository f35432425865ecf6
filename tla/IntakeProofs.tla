---------------------------- MODULE IntakeProofs ----------------------------
(***************************************************************************)
(* Proofs about Intake and the Account it composes, for any number of      *)
(* calls, processes, consumers, accounts and status updates.               *)
(***************************************************************************)
EXTENDS Intake, FiniteSetTheorems, TLAPS

---------------------------------------------------------------------------
(* The inductive invariant.                                                *)

\* What each step of a call has established and what it has left behind.
CallInv ==
    \A k \in Calls :
        /\ call[k] \in Working \ {"begun"} => ConsumerIn[k] \in consumers
        /\ call[k] \in Working \ {"begun", "found"} => OwnsAccount(k)
        /\ call[k] \in {"inserted", "counted", "dialing", "connected", "started", "ok"}
              => k \in attempts
        /\ call[k] \in {"started", "ok"} => k \in workflows
        /\ call[k] \in {"idle", "begun", "found", "owned", "refused"} => k \notin attempts
        /\ k \in workflows => k \in attempts
        /\ k \in linked => k \in workflows

\* Of an account no two statements were open on at a time, one is at most, and
\* what it has read is still the status.
OpenInv ==
    \A u \in Updates : update[u] = "open" /\ UpdateOf[u] \notin overlapped =>
        /\ prev[u] = status[UpdateOf[u]]
        /\ \A v \in Updates : update[v] = "open" /\ UpdateOf[v] = UpdateOf[u] => v = u

\* An update that is past the first lookup has an account to update.
ExistsInv ==
    \A u \in Updates :
        update[u] \in {"open", "committed", "done", "lost"} => status[UpdateOf[u]] # "absent"

\* While temporalOnce of a process is being done, one of its calls is doing it:
\* the others wait for an answer that is on its way.
DialInv ==
    \A p \in Processes :
        client[p] = "dialing" => \E k \in Calls : ProcessOf[k] = p /\ call[k] = "dialing"

IInv == /\ TypeOK /\ CallInv /\ AttemptsAreOwned /\ OneDialForAll /\ DialInv
        /\ OpenInv /\ ExistsInv /\ TransitionsAddUp

---------------------------------------------------------------------------
(* The account service's steps.                                            *)

LEMMA AccountTypeStep ==
    ASSUME AccountTypeOK, AccountNext
    PROVE  AccountTypeOK'
  <1> USE AccountAssumption DEF AccountTypeOK, UpdateSteps
  <1>1. ASSUME NEW a \in Accounts, CreateAccount(a) PROVE AccountTypeOK'
    BY <1>1 DEF CreateAccount
  <1>2. ASSUME NEW u \in Updates, OpenUpdate(u) PROVE AccountTypeOK'
    BY <1>2 DEF OpenUpdate
  <1>3. ASSUME NEW u \in Updates, CommitUpdate(u) PROVE AccountTypeOK'
    BY <1>3 DEF CommitUpdate
  <1>4. ASSUME NEW u \in Updates, UpdateFails(u) PROVE AccountTypeOK'
    BY <1>4 DEF UpdateFails
  <1>5. ASSUME NEW u \in Updates, ReportTransition(u) PROVE AccountTypeOK'
    BY <1>5 DEF ReportTransition
  <1> QED BY <1>1, <1>2, <1>3, <1>4, <1>5 DEF AccountNext

\* An account that exists stays, and stays its owner's.
LEMMA AccountsStay ==
    ASSUME AccountTypeOK, AccountNext
    PROVE  /\ UNCHANGED owner
           /\ \A a \in Accounts : status[a] # "absent" => status'[a] # "absent"
  BY AccountAssumption
     DEF AccountTypeOK, AccountNext, CreateAccount, OpenUpdate, CommitUpdate,
         UpdateFails, ReportTransition

LEMMA OpenStep ==
    ASSUME AccountTypeOK, OpenInv, ExistsInv, AccountNext
    PROVE  OpenInv' /\ ExistsInv'
  <1> USE AccountAssumption DEF AccountTypeOK, OpenInv, ExistsInv
  <1>1. ASSUME NEW a \in Accounts, CreateAccount(a) PROVE OpenInv' /\ ExistsInv'
    BY <1>1 DEF CreateAccount
  <1>2. ASSUME NEW u \in Updates, OpenUpdate(u) PROVE OpenInv' /\ ExistsInv'
    BY <1>2 DEF OpenUpdate
  <1>3. ASSUME NEW u \in Updates, CommitUpdate(u) PROVE OpenInv' /\ ExistsInv'
    BY <1>3 DEF CommitUpdate
  <1>4. ASSUME NEW u \in Updates, UpdateFails(u) PROVE OpenInv' /\ ExistsInv'
    BY <1>4 DEF UpdateFails
  <1>5. ASSUME NEW u \in Updates, ReportTransition(u) PROVE OpenInv' /\ ExistsInv'
    BY <1>5 DEF ReportTransition
  <1> QED BY <1>1, <1>2, <1>3, <1>4, <1>5 DEF AccountNext

\* One more update in a set of them, if it belongs there.
LEMMA OneMore ==
    ASSUME NEW S \in SUBSET Updates, NEW T \in SUBSET Updates, NEW u \in Updates \ S,
           NEW b \in {0, 1}, T = IF b = 1 THEN S \cup {u} ELSE S
    PROVE  Cardinality(T) = Cardinality(S) + b /\ Cardinality(S) \in Nat
  <1>1. IsFiniteSet(S) /\ Cardinality(S) \in Nat
    BY AccountAssumption, FS_Subset, FS_CardinalityType
  <1>2. CASE b = 1
    <2>1. Cardinality(S \cup {u}) = Cardinality(S) + 1
      BY <1>1, FS_AddElement
    <2> QED BY <1>1, <1>2, <2>1
  <1>3. CASE b = 0
    BY <1>1, <1>3
  <1> QED BY <1>2, <1>3

LEMMA AddUpStep ==
    ASSUME AccountTypeOK, OpenInv, ExistsInv, TransitionsAddUp, AccountNext
    PROVE  TransitionsAddUp'
  <1> USE AccountAssumption
  <1>0. ASSUME NEW a \in Accounts, status'[a] = status[a], created'[a] = created[a],
               a \notin overlapped, status[a] # "absent",
               Committed(a)' = Committed(a),
               \A u \in Committed(a) : prev'[u] = prev[u]
        PROVE  \A s \in AccountStatus :
                  Into(a, s)' - OutOf(a, s)' = Is(status'[a], s) - Is(created'[a], s)
    <2> SUFFICES ASSUME NEW s \in AccountStatus
                 PROVE  Into(a, s)' - OutOf(a, s)' = Is(status'[a], s) - Is(created'[a], s)
      OBVIOUS
    <2>1. {u \in Committed(a)' : NewStatus[u] = s} = {u \in Committed(a) : NewStatus[u] = s}
          /\ {u \in Committed(a)' : prev'[u] = s} = {u \in Committed(a) : prev[u] = s}
      BY <1>0
    <2>2. Into(a, s)' = Into(a, s) /\ OutOf(a, s)' = OutOf(a, s)
      BY <2>1 DEF Into, OutOf
    <2> QED BY <1>0, <2>2 DEF TransitionsAddUp
  <1>1. ASSUME NEW b \in Accounts, CreateAccount(b) PROVE TransitionsAddUp'
    <2>1. /\ status[b] = "absent" /\ UNCHANGED <<update, prev, overlapped>>
          /\ status'[b] = created'[b]
          /\ \A a \in Accounts : a # b => UNCHANGED <<status[a], created[a]>>
      BY <1>1 DEF CreateAccount, AccountTypeOK
    <2>2. \A a \in Accounts : Committed(a)' = Committed(a)
      BY <2>1 DEF Committed
    <2>3. Committed(b) = {}
      BY <2>1 DEF Committed, ExistsInv
    <2>4. ASSUME NEW s \in AccountStatus
          PROVE  Into(b, s)' - OutOf(b, s)' = Is(status'[b], s) - Is(created'[b], s)
      <3>1. {u \in Committed(b)' : NewStatus[u] = s} = {}
            /\ {u \in Committed(b)' : prev'[u] = s} = {}
        BY <2>2, <2>3
      <3>2. Into(b, s)' = 0 /\ OutOf(b, s)' = 0
        BY <3>1, FS_EmptySet DEF Into, OutOf
      <3> QED BY <2>1, <3>2 DEF Is
    <2> QED BY <1>0, <2>1, <2>2, <2>4 DEF TransitionsAddUp
  <1>2. ASSUME NEW u \in Updates, OpenUpdate(u) PROVE TransitionsAddUp'
    <2>1. /\ UNCHANGED <<status, created>> /\ overlapped \subseteq overlapped'
          /\ update[u] = "idle" /\ update' = [update EXCEPT ![u] = "open"]
          /\ \A v \in Updates : v # u => prev'[v] = prev[v]
      BY <1>2 DEF OpenUpdate, AccountTypeOK
    <2>2. \A a \in Accounts : Committed(a)' = Committed(a) /\ u \notin Committed(a)
      BY <2>1 DEF Committed, AccountTypeOK
    <2>3. \A a \in Accounts : \A v \in Committed(a) : prev'[v] = prev[v]
      BY <2>1, <2>2 DEF Committed
    <2> QED BY <1>0, <2>1, <2>2, <2>3 DEF TransitionsAddUp
  <1>3. ASSUME NEW u \in Updates, CommitUpdate(u) PROVE TransitionsAddUp'
    <2> DEFINE b == UpdateOf[u]
    <2>1. /\ update[u] = "open" /\ UNCHANGED <<created, prev, overlapped>>
          /\ update' = [update EXCEPT ![u] = "committed"]
          /\ status' = [status EXCEPT ![b] = NewStatus[u]]
      BY <1>3 DEF CommitUpdate
    <2>2. b \in Accounts /\ status'[b] = NewStatus[u] /\ status[b] # "absent"
      BY <2>1 DEF AccountTypeOK, ExistsInv
    <2>3. \A a \in Accounts : a # b => Committed(a)' = Committed(a) /\ status'[a] = status[a]
      BY <2>1 DEF Committed, AccountTypeOK
    <2>4. Committed(b)' = Committed(b) \cup {u} /\ u \notin Committed(b)
      BY <2>1 DEF Committed, AccountTypeOK
    <2>5. ASSUME b \notin overlapped, NEW s \in AccountStatus
          PROVE  Into(b, s)' - OutOf(b, s)' = Is(status'[b], s) - Is(created'[b], s)
      <3> DEFINE I == {v \in Committed(b) : NewStatus[v] = s}
                 O == {v \in Committed(b) : prev[v] = s}
      <3>1. prev[u] = status[b]
        BY <2>1, <2>5 DEF OpenInv
      <3>2. Into(b, s) = Cardinality(I) /\ OutOf(b, s) = Cardinality(O)
        BY DEF Into, OutOf
      <3>3. Into(b, s)' = Cardinality({v \in Committed(b)' : NewStatus[v] = s})
            /\ OutOf(b, s)' = Cardinality({v \in Committed(b)' : prev[v] = s})
        BY <2>1 DEF Into, OutOf
      <3>4. {v \in Committed(b)' : NewStatus[v] = s}
               = IF Is(NewStatus[u], s) = 1 THEN I \cup {u} ELSE I
        BY <2>4 DEF Is
      <3>5. {v \in Committed(b)' : prev[v] = s}
               = IF Is(prev[u], s) = 1 THEN O \cup {u} ELSE O
        BY <2>4 DEF Is
      <3>6. /\ I \in SUBSET Updates /\ O \in SUBSET Updates /\ u \in Updates \ I /\ u \in Updates \ O
            /\ {v \in Committed(b)' : NewStatus[v] = s} \in SUBSET Updates
            /\ {v \in Committed(b)' : prev[v] = s} \in SUBSET Updates
            /\ Is(NewStatus[u], s) \in {0, 1} /\ Is(prev[u], s) \in {0, 1}
        BY <2>4 DEF Committed, Is
      <3>7. Into(b, s)' = Into(b, s) + Is(NewStatus[u], s) /\ Into(b, s) \in Nat
        BY <3>2, <3>3, <3>4, <3>6, OneMore
      <3>8. OutOf(b, s)' = OutOf(b, s) + Is(prev[u], s) /\ OutOf(b, s) \in Nat
        <4> DEFINE T == {v \in Committed(b)' : prev[v] = s}
        <4> HIDE DEF T, O
        <4>1. Cardinality(T) = Cardinality(O) + Is(prev[u], s) /\ Cardinality(O) \in Nat
          BY <3>5, <3>6, OneMore DEF T
        <4> QED BY <3>2, <3>3, <4>1 DEF T
      <3>9. Into(b, s) - OutOf(b, s) = Is(status[b], s) - Is(created[b], s)
        BY <2>2, <2>5 DEF TransitionsAddUp
      <3>10. Is(status[b], s) \in Int /\ Is(created[b], s) \in Int /\ Is(NewStatus[u], s) \in Int
        BY DEF Is
      <3> HIDE DEF b, I, O
      <3> QED BY <2>1, <2>2, <3>1, <3>7, <3>8, <3>9, <3>10 DEF b
    <2> QED BY <1>0, <2>1, <2>2, <2>3, <2>5 DEF TransitionsAddUp
  <1>4. ASSUME NEW u \in Updates, UpdateFails(u) PROVE TransitionsAddUp'
    <2>1. /\ UNCHANGED <<status, created, prev, overlapped>>
          /\ \A a \in Accounts : Committed(a)' = Committed(a)
      BY <1>4 DEF UpdateFails, Committed, AccountTypeOK
    <2> QED BY <1>0, <2>1 DEF TransitionsAddUp
  <1>5. ASSUME NEW u \in Updates, ReportTransition(u) PROVE TransitionsAddUp'
    <2>1. /\ UNCHANGED <<status, created, prev, overlapped>>
          /\ \A a \in Accounts : Committed(a)' = Committed(a)
      BY <1>5 DEF ReportTransition, Committed, AccountTypeOK
    <2> QED BY <1>0, <2>1 DEF TransitionsAddUp
  <1> QED BY <1>1, <1>2, <1>3, <1>4, <1>5 DEF AccountNext

---------------------------------------------------------------------------
(* The steps of Intake.                                                    *)

callsOnly == <<accountVars, consumerVars>>

\* A step of one call takes it from one step to the next.
LEMMA StepCases ==
    ASSUME [Next]_vars
    PROVE  \/ UNCHANGED vars
           \/ AccountNext /\ UNCHANGED <<consumerVars, callVars, client>>
           \/ \E c \in Consumers : CreateConsumer(c)
           \/ \E k \in Calls : BeginCall(k) \/ CallNext(k)
           \/ \E p \in Processes : CrashAndRestart(p)
  BY DEF Next

LEMMA CallsLeaveTheRest ==
    ASSUME NEW k \in Calls, BeginCall(k) \/ CallNext(k)
    PROVE  UNCHANGED callsOnly
  BY DEF callsOnly, CallNext, BeginCall, GetConsumer, ConsumerNotFound, GetAccount,
         AccountRefused, InsertPendingAttempt, FetchRecentContactTimestamps, EnterOnce,
         DialSucceeds, DialFails, ShareClient, ShareFailure, ExecuteWorkflow,
         ExecuteWorkflowUnanswered, StoreWorkflowID, CallFails

LEMMA TypeStep ==
    ASSUME TypeOK, [Next]_vars
    PROVE  TypeOK'
  <1> USE IntakeAssumption
  <1>0. ASSUME UNCHANGED accountVars PROVE AccountTypeOK'
    BY <1>0 DEF TypeOK, AccountTypeOK, accountVars
  <1>1. CASE UNCHANGED vars
    BY <1>0, <1>1 DEF vars, TypeOK, consumerVars, callVars
  <1>2. CASE AccountNext /\ UNCHANGED <<consumerVars, callVars, client>>
    BY <1>2, AccountTypeStep DEF TypeOK, consumerVars, callVars
  <1>3. ASSUME NEW c \in Consumers, CreateConsumer(c) PROVE TypeOK'
    BY <1>0, <1>3 DEF CreateConsumer, TypeOK, callVars
  <1>4. ASSUME NEW k \in Calls, BeginCall(k) \/ CallNext(k) PROVE TypeOK'
    <2>1. AccountTypeOK' /\ UNCHANGED <<consumers, announced>>
      BY <1>0, <1>4, CallsLeaveTheRest DEF callsOnly, consumerVars
    <2> QED BY <1>4, <2>1 DEF TypeOK, Working, Returned, GoOn, CallNext, BeginCall,
         GetConsumer, ConsumerNotFound, GetAccount, AccountRefused,
         InsertPendingAttempt, FetchRecentContactTimestamps, EnterOnce, DialSucceeds,
         DialFails, ShareClient, ShareFailure, ExecuteWorkflow,
         ExecuteWorkflowUnanswered, StoreWorkflowID, CallFails
  <1>5. ASSUME NEW p \in Processes, CrashAndRestart(p) PROVE TypeOK'
    BY <1>0, <1>5 DEF CrashAndRestart, TypeOK, Returned, consumerVars
  <1> QED BY <1>1, <1>2, <1>3, <1>4, <1>5, StepCases

LEMMA CallStep ==
    ASSUME TypeOK, CallInv, [Next]_vars
    PROVE  CallInv'
  <1> USE IntakeAssumption DEF Working
  <1>1. CASE UNCHANGED vars
    BY <1>1 DEF vars, CallInv, OwnsAccount, consumerVars, callVars, accountVars
  <1>2. CASE AccountNext /\ UNCHANGED <<consumerVars, callVars, client>>
    <2>1. \A k \in Calls : OwnsAccount(k) => OwnsAccount(k)'
      BY <1>2, AccountsStay DEF OwnsAccount, TypeOK
    <2> QED BY <1>2, <2>1 DEF CallInv, consumerVars, callVars
  <1>3. ASSUME NEW c \in Consumers, CreateConsumer(c) PROVE CallInv'
    BY <1>3 DEF CreateConsumer, CallInv, OwnsAccount, callVars, accountVars
  <1>4. ASSUME NEW k \in Calls, BeginCall(k) \/ CallNext(k) PROVE CallInv'
    <2>1. UNCHANGED <<status, owner, consumers>>
      BY <1>4, CallsLeaveTheRest DEF callsOnly, accountVars, consumerVars
    <2>2. \A j \in Calls : OwnsAccount(j)' = OwnsAccount(j)
      BY <2>1 DEF OwnsAccount
    <2> QED BY <1>4, <2>1, <2>2 DEF TypeOK, CallInv, GoOn, CallNext, BeginCall,
         GetConsumer, ConsumerNotFound, GetAccount, AccountRefused,
         InsertPendingAttempt, FetchRecentContactTimestamps, EnterOnce, DialSucceeds,
         DialFails, ShareClient, ShareFailure, ExecuteWorkflow,
         ExecuteWorkflowUnanswered, StoreWorkflowID, CallFails
  <1>5. ASSUME NEW p \in Processes, CrashAndRestart(p) PROVE CallInv'
    BY <1>5 DEF CrashAndRestart, CallInv, OwnsAccount, accountVars, consumerVars
  <1> QED BY <1>1, <1>2, <1>3, <1>4, <1>5, StepCases

LEMMA OwnedStep ==
    ASSUME TypeOK, CallInv, AttemptsAreOwned, [Next]_vars
    PROVE  AttemptsAreOwned'
  <1> USE IntakeAssumption
  <1>1. UNCHANGED owner /\ consumers \subseteq consumers'
        /\ \A a \in Accounts : status[a] # "absent" => status'[a] # "absent"
    <2>1. CASE AccountNext /\ UNCHANGED <<consumerVars, callVars, client>>
      BY <2>1, AccountsStay DEF TypeOK, consumerVars
    <2>2. ASSUME NEW k \in Calls, BeginCall(k) \/ CallNext(k) PROVE UNCHANGED callsOnly
      BY <2>2, CallsLeaveTheRest
    <2> QED BY <2>1, <2>2, StepCases
            DEF vars, callsOnly, accountVars, consumerVars, CreateConsumer, CrashAndRestart
  <1>2. attempts' \subseteq attempts \/ \E k \in Calls : InsertPendingAttempt(k)
    BY StepCases DEF vars, callVars, CreateConsumer, CrashAndRestart, CallNext, BeginCall,
         GetConsumer, ConsumerNotFound, GetAccount, AccountRefused,
         FetchRecentContactTimestamps, EnterOnce, DialSucceeds,
         DialFails, ShareClient, ShareFailure, ExecuteWorkflow,
         ExecuteWorkflowUnanswered, StoreWorkflowID, CallFails
  <1>3. attempts \subseteq Calls
    BY DEF TypeOK
  <1>4. CASE attempts' \subseteq attempts
    BY <1>1, <1>3, <1>4 DEF AttemptsAreOwned
  <1>5. ASSUME NEW k \in Calls, InsertPendingAttempt(k) PROVE AttemptsAreOwned'
    <2>1. ConsumerIn[k] \in consumers /\ OwnsAccount(k) /\ attempts' = attempts \cup {k}
      BY <1>5 DEF InsertPendingAttempt, GoOn, CallInv, Working
    <2> QED BY <1>1, <1>3, <2>1 DEF AttemptsAreOwned, OwnsAccount
  <1> QED BY <1>2, <1>4, <1>5

LEMMA DialStep ==
    ASSUME TypeOK, OneDialForAll, [Next]_vars
    PROVE  OneDialForAll'
  <1> USE IntakeAssumption DEF TypeOK, OneDialForAll
  <1>1. CASE UNCHANGED <<call, client>>
    BY <1>1
  <1>2. ASSUME NEW p \in Processes, CrashAndRestart(p) PROVE OneDialForAll'
    <2>1. \A k \in Calls : /\ ProcessOf[k] = p => call'[k] \notin Working
                           /\ ProcessOf[k] # p => call'[k] = call[k]
      BY <1>2 DEF CrashAndRestart, Returned, Working
    <2>2. \A q \in Processes : q # p => client'[q] = client[q]
      BY <1>2 DEF CrashAndRestart
    <2>3. \A k \in Calls : call'[k] \in {"dialing", "connected", "started"} => ProcessOf[k] # p
      BY <2>1 DEF Working
    <2> QED BY <2>1, <2>2, <2>3
  <1>3. ASSUME NEW k \in Calls, BeginCall(k) \/ CallNext(k) PROVE OneDialForAll'
    BY <1>3 DEF GoOn, CallNext, BeginCall, GetConsumer, ConsumerNotFound, GetAccount,
         AccountRefused, InsertPendingAttempt, FetchRecentContactTimestamps, EnterOnce,
         DialSucceeds, DialFails, ShareClient, ShareFailure, ExecuteWorkflow,
         ExecuteWorkflowUnanswered, StoreWorkflowID, CallFails
  <1> QED BY <1>1, <1>2, <1>3, StepCases DEF vars, callVars, CreateConsumer

LEMMA DialerStep ==
    ASSUME TypeOK, OneDialForAll, DialInv, [Next]_vars
    PROVE  DialInv'
  <1> USE IntakeAssumption DEF TypeOK, DialInv
  <1>1. CASE UNCHANGED <<call, client>>
    BY <1>1
  <1>2. ASSUME NEW p \in Processes, CrashAndRestart(p) PROVE DialInv'
    <2>1. client'[p] = "undialed"
          /\ \A q \in Processes : q # p => client'[q] = client[q]
      BY <1>2 DEF CrashAndRestart
    <2>2. \A k \in Calls : ProcessOf[k] # p => call'[k] = call[k]
      BY <1>2 DEF CrashAndRestart
    <2> QED BY <2>1, <2>2
  <1>3. ASSUME NEW k \in Calls, BeginCall(k) \/ CallNext(k) PROVE DialInv'
    <2>1. \A j \in Calls \ {k} : call'[j] = call[j]
      BY <1>3 DEF GoOn, CallNext, BeginCall, GetConsumer, ConsumerNotFound, GetAccount,
         AccountRefused, InsertPendingAttempt, FetchRecentContactTimestamps, EnterOnce,
         DialSucceeds, DialFails, ShareClient, ShareFailure, ExecuteWorkflow,
         ExecuteWorkflowUnanswered, StoreWorkflowID, CallFails
    <2>2. CASE EnterOnce(k)
      BY <2>1, <2>2 DEF EnterOnce, GoOn
    <2>3. CASE DialSucceeds(k) \/ DialFails(k)
      BY <2>1, <2>3 DEF DialSucceeds, DialFails, GoOn
    <2>4. CASE UNCHANGED client /\ call[k] # "dialing"
      BY <2>1, <2>4
    <2> QED BY <1>3, <2>2, <2>3, <2>4
        DEF GoOn, CallNext, BeginCall, GetConsumer, ConsumerNotFound, GetAccount,
         AccountRefused, InsertPendingAttempt, FetchRecentContactTimestamps,
         ShareClient, ShareFailure, ExecuteWorkflow,
         ExecuteWorkflowUnanswered, StoreWorkflowID, CallFails
  <1> QED BY <1>1, <1>2, <1>3, StepCases DEF vars, callVars, CreateConsumer

\* A step that leaves the accounts alone leaves what is said of them alone.
LEMMA AccountsUnchanged ==
    ASSUME OpenInv, ExistsInv, TransitionsAddUp, UNCHANGED accountVars
    PROVE  OpenInv' /\ ExistsInv' /\ TransitionsAddUp'
  <1>1. UNCHANGED <<status, owner, created, update, prev, lifecycle, overlapped>>
    BY DEF accountVars
  <1>2. OpenInv' /\ ExistsInv'
    BY <1>1 DEF OpenInv, ExistsInv
  <1>3. \A a : Committed(a)' = Committed(a)
    BY <1>1 DEF Committed
  <1>4. \A a, s : Into(a, s)' = Into(a, s) /\ OutOf(a, s)' = OutOf(a, s)
    BY <1>1, <1>3 DEF Into, OutOf
  <1>5. TransitionsAddUp'
    BY <1>1, <1>4 DEF TransitionsAddUp, Is
  <1> QED BY <1>2, <1>5

LEMMA Invariance == Spec => []IInv
  <1>1. Init => IInv
    <2> SUFFICES ASSUME Init PROVE IInv
      OBVIOUS
    <2> USE AccountAssumption, IntakeAssumption DEF Init, AccountInit
    <2>1. TypeOK
      BY DEF TypeOK, AccountTypeOK, UpdateSteps
    <2>2. CallInv /\ AttemptsAreOwned /\ OneDialForAll /\ DialInv
      BY DEF CallInv, AttemptsAreOwned, OneDialForAll, DialInv, Working
    <2>3. OpenInv /\ ExistsInv /\ TransitionsAddUp
      BY DEF OpenInv, ExistsInv, TransitionsAddUp
    <2> QED BY <2>1, <2>2, <2>3 DEF IInv
  <1>2. IInv /\ [Next]_vars => IInv'
    <2> SUFFICES ASSUME IInv, [Next]_vars PROVE IInv'
      OBVIOUS
    <2>1. TypeOK' /\ CallInv' /\ AttemptsAreOwned' /\ OneDialForAll' /\ DialInv'
      BY TypeStep, CallStep, OwnedStep, DialStep, DialerStep DEF IInv
    <2>2. AccountNext \/ UNCHANGED accountVars
      BY StepCases, CallsLeaveTheRest
         DEF vars, callsOnly, CreateConsumer, CrashAndRestart
    <2>3. OpenInv' /\ ExistsInv' /\ TransitionsAddUp'
      <3>1. CASE AccountNext
        BY <3>1, OpenStep, AddUpStep DEF IInv, TypeOK
      <3>2. CASE UNCHANGED accountVars
        BY <3>2, AccountsUnchanged DEF IInv
      <3> QED BY <2>2, <3>1, <3>2
    <2> QED BY <2>1, <2>3 DEF IInv
  <1> QED BY <1>1, <1>2, PTL DEF Spec

---------------------------------------------------------------------------

\* The rows, the calls and the clients stay of their types through every
\* interleaving of creations, updates, calls and crashes.
THEOREM TypeCorrect == Spec => []TypeOK
  BY Invariance, PTL DEF IInv

\* No row of contact_attempts without its consumer and that consumer's account
\* (contact.go:84-97), for any number of concurrent calls.
THEOREM Owned == Spec => []AttemptsAreOwned
  BY Invariance, PTL DEF IInv

\* An accepted call has its row and its workflow, a refused one left nothing
\* (contact.go:97-154), whatever fails or crashes in between.
THEOREM AnswersTrue == Spec => []AnswersAreTrue
  <1>1. IInv => AnswersAreTrue
    BY DEF IInv, CallInv, AnswersAreTrue
  <1> QED BY <1>1, Invariance, PTL

\* temporalOnce: one dial per process run, shared by all its calls
\* (contact.go:45-56), for any number of processes.
THEOREM OneDial == Spec => []OneDialForAll
  BY Invariance, PTL DEF IInv

\* Nobody is stranded in temporalOnce.Do (contact.go:51-56): a call that waits
\* there waits for a call of its own process that is dialing, whatever failed or
\* went down before.
THEOREM NobodyStranded == Spec => []DialInv
  BY Invariance, PTL DEF IInv

\* How many steps a call of InitiateContact has left at most.
StepsLeft(k) ==
    [idle |-> 9, begun |-> 8, found |-> 7, owned |-> 6, inserted |-> 5, counted |-> 4,
     dialing |-> 3, connected |-> 2, started |-> 1,
     ok |-> 0, error |-> 0, refused |-> 0, crashed |-> 0][call[k]]

\* No step of a call is ever taken back or repeated: each step of its own brings
\* it nearer to its answer, and no step of another call, of a process that goes
\* down or of the other services takes it further away (contact.go:69-154).
\* With NobodyStranded this is the argument behind CallsReturn.
THEOREM CallsAreBounded ==
    Spec => [][\A k \in Calls :
                 /\ BeginCall(k) \/ CallNext(k) => StepsLeft(k)' < StepsLeft(k)
                 /\ StepsLeft(k)' <= StepsLeft(k)
                 /\ call[k] \in Working => StepsLeft(k) > 0]_vars
  <1> DEFINE Nearer(k) == /\ BeginCall(k) \/ CallNext(k) => StepsLeft(k)' < StepsLeft(k)
                          /\ StepsLeft(k)' <= StepsLeft(k)
                          /\ call[k] \in Working => StepsLeft(k) > 0
  <1>1. ASSUME TypeOK, TypeOK', [Next]_vars, NEW k \in Calls PROVE Nearer(k)
    <2>0. StepsLeft(k) \in Nat /\ (call[k] \in Working => StepsLeft(k) > 0)
      BY <1>1 DEF TypeOK, StepsLeft, Working, Returned
    <2>1. ASSUME BeginCall(k) \/ CallNext(k) PROVE StepsLeft(k)' < StepsLeft(k)
      BY <1>1, <2>1 DEF StepsLeft, TypeOK, GoOn, CallNext, BeginCall, GetConsumer,
         ConsumerNotFound, GetAccount,
         AccountRefused, InsertPendingAttempt, FetchRecentContactTimestamps, EnterOnce,
         DialSucceeds, DialFails, ShareClient, ShareFailure, ExecuteWorkflow,
         ExecuteWorkflowUnanswered, StoreWorkflowID, CallFails
    <2>2. call'[k] = call[k] => StepsLeft(k)' = StepsLeft(k)
      BY DEF StepsLeft
    <2>3. ASSUME NEW j \in Calls \ {k}, BeginCall(j) \/ CallNext(j)
          PROVE  call'[k] = call[k]
      BY <1>1, <2>3 DEF TypeOK, GoOn, CallNext, BeginCall, GetConsumer,
         ConsumerNotFound, GetAccount,
         AccountRefused, InsertPendingAttempt, FetchRecentContactTimestamps, EnterOnce,
         DialSucceeds, DialFails, ShareClient, ShareFailure, ExecuteWorkflow,
         ExecuteWorkflowUnanswered, StoreWorkflowID, CallFails
    <2>4. ASSUME NEW p \in Processes, CrashAndRestart(p) PROVE StepsLeft(k)' <= StepsLeft(k)
      <3>1. call'[k] = call[k] \/ call'[k] = "crashed"
        BY <1>1, <2>4 DEF TypeOK, CrashAndRestart
      <3>2. call'[k] = "crashed" => StepsLeft(k)' = 0
        BY DEF StepsLeft
      <3> QED BY <2>0, <2>2, <3>1, <3>2
    <2>5. StepsLeft(k)' <= StepsLeft(k)
      <3>1. CASE UNCHANGED call
        BY <2>0, <2>2, <3>1
      <3>2. StepsLeft(k)' \in Nat
        BY <1>1 DEF TypeOK, StepsLeft, Working, Returned
      <3> HIDE DEF StepsLeft
      <3> QED BY <1>1, <2>0, <2>1, <2>2, <2>3, <2>4, <3>1, <3>2, StepCases
              DEF vars, callVars, CreateConsumer
    <2> QED BY <2>0, <2>1, <2>5
  <1>2. TypeOK /\ TypeOK' /\ [Next]_vars => [\A k \in Calls : Nearer(k)]_vars
    BY <1>1
  <1> QED BY <1>2, Invariance, PTL DEF Spec, IInv

\* Of every account whose updates never overlapped, the transitions reported
\* add up to its status (account.go:186-202), for any number of updates.
THEOREM AddsUp == Spec => []TransitionsAddUp
  BY Invariance, PTL DEF IInv

=============================================================================
