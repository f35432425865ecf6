--------------------------- MODULE PaymentProofs ---------------------------
(***************************************************************************)
(* Proofs for Payment, for any set of calls and any amounts: what holds    *)
(* under any number of calls in flight, that the statements implement      *)
(* PaymentCalls, then what holds when calls do not overlap.                *)
(***************************************************************************)
EXTENDS Payment, FiniteSetTheorems, TLAPS

---------------------------------------------------------------------------
(* The inductive invariant.                                                *)

\* What a call has written at each of its statements.
CallInv ==
    \A k \in Calls :
        /\ pc[k] = "idle" => op[k] = "propose"
        /\ pc[k] \in {"idle", "update"} => wrote[k] = "absent"
        /\ pc[k] \in InTx => op[k] # "propose"
        /\ pc[k] \in {"sum", "complete"} => op[k] = "pay"
        /\ pc[k] \in InTx \cup {"publish"} /\ op[k] = "pay"
              => wrote[k] \in {"absent", "active", "completed"}
        /\ pc[k] = "commit" /\ op[k] # "pay" => wrote[k] = Target(op[k])
        /\ pc[k] = "publish" /\ op[k] # "pay"
              => wrote[k] \in {"proposed", "accepted"} \cup Terminal

\* Rows are a finished transaction's, and all of its rows are there.
RowInv ==
    /\ \A e \in events : pc[e.call] \in {"publish", "done"}
    /\ \A k \in Calls : pc[k] = "publish" =>
          \A t \in RowsOf(k) : [call |-> k, type |-> t] \in events

\* A payment under way is one of an accepted plan.
AcceptedInv ==
    /\ PaymentsAfterAcceptance
    /\ \A k \in Calls : pc[k] \in InTx /\ op[k] = "pay" => Recorded("accepted")

\* A call that has found the plan paid still finds it paid: SUM only grows.
PaidInv ==
    /\ CompletionIsPaid
    /\ \A k \in Calls :
          /\ pc[k] = "complete" => paid + amount[k] >= Total
          /\ pc[k] \in InTx /\ op[k] = "pay" /\ wrote[k] = "completed"
                => paid + amount[k] >= Total

\* The row's lock is held by the one open transaction that has written the row.
LockInv ==
    \A k \in Calls : lock = k <=> pc[k] \in InTx /\ wrote[k] # "absent"

IInv ==
    /\ TypeOK
    /\ CallInv
    /\ LockInv
    /\ RowInv
    /\ StatusIsBacked
    /\ AcceptedInv
    /\ PaidInv
    /\ NoticesAreCommitted

---------------------------------------------------------------------------
(* The steps of the specification, one by one.                             *)

\* A step is a stutter or one statement of one call.
LEMMA StepCases ==
    ASSUME [Next]_vars
    PROVE  \/ UNCHANGED vars
           \/ \E k \in Calls :
                 \/ ProposePlan(k)
                 \/ \E o \in Ops \ {"propose"}, a \in Amounts \cup {0} :
                       ReadPlan(k, o, a)
                 \/ UpdateStatus(k)
                 \/ SumPayments(k)
                 \/ CompletePlan(k)
                 \/ Commit(k)
                 \/ Rollback(k)
                 \/ Publish(k)
  BY DEF Next, Advance, Ops

\* Type correctness.
LEMMA TypeInit == Init => TypeOK
  BY DEF Init, TypeOK, Statuses, Steps, Ops, Types

\* Every step keeps the types.
LEMMA TypeStep ==
    ASSUME TypeOK, CallInv, [Next]_vars
    PROVE  TypeOK'
  <1> USE DEF dbVars, callVars
  <1>1. CASE UNCHANGED vars
    BY <1>1 DEF vars, TypeOK
  <1>2. ASSUME NEW k \in Calls, ProposePlan(k) PROVE TypeOK'
    BY <1>2 DEF ProposePlan, TypeOK, Statuses, Steps, Types
  <1>3. ASSUME NEW k \in Calls, NEW o \in Ops \ {"propose"}, NEW a \in Amounts \cup {0},
               ReadPlan(k, o, a)
        PROVE  TypeOK'
    <2>1. a \in Nat
      BY PaymentAssumption
    <2> QED BY <1>3, <2>1 DEF ReadPlan, TypeOK, Steps, InTx
  <1>4. ASSUME NEW k \in Calls, UpdateStatus(k) PROVE TypeOK'
    <2>1. op[k] \in Ops \ {"propose"}
      BY <1>4 DEF UpdateStatus, CallInv, TypeOK, InTx
    <2>2. Target(op[k]) \in Statuses
      BY <2>1 DEF Target, Ops, Statuses, Terminal
    <2> QED BY <1>4, <2>2 DEF UpdateStatus, TypeOK, Steps, InTx
  <1>5. ASSUME NEW k \in Calls, SumPayments(k) PROVE TypeOK'
    BY <1>5 DEF SumPayments, TypeOK, Steps, InTx
  <1>6. ASSUME NEW k \in Calls, CompletePlan(k) PROVE TypeOK'
    BY <1>6 DEF CompletePlan, TypeOK, Steps, InTx, Statuses, Terminal
  <1>7. ASSUME NEW k \in Calls, Commit(k) PROVE TypeOK'
    <2>0. op[k] # "pay" => wrote[k] \in {"proposed", "accepted"} \cup Terminal
      BY <1>7 DEF Commit, CallInv, TypeOK, Terminal, InTx, Target, Ops
    <2>1. RowsOf(k) \subseteq Types
      BY <2>0 DEF RowsOf, Types, Terminal
    <2>2. events' \subseteq [call : Calls, type : Types]
      BY <1>7, <2>1 DEF Commit, TypeOK
    <2>3. paid' \in Nat /\ status' \in Statuses
      BY <1>7 DEF Commit, TypeOK
    <2>4. lock' \in Calls \cup {NoCall} /\ pc' \in [Calls -> Steps]
      BY <1>7 DEF Commit, Unlock, TypeOK, Steps
    <2> QED BY <1>7, <2>2, <2>3, <2>4 DEF Commit, TypeOK
  <1>8. ASSUME NEW k \in Calls, Rollback(k) PROVE TypeOK'
    BY <1>8 DEF Rollback, Unlock, Return, TypeOK, Steps, Statuses
  <1>9. ASSUME NEW k \in Calls, Publish(k) PROVE TypeOK'
    <2>1. NoticesOf(k) \subseteq Types
      BY <1>9 DEF Publish, NoticesOf, RowsOf, CallInv, Types, Terminal
    <2>2. published' \subseteq [call : Calls, type : Types]
      BY <1>9, <2>1 DEF Publish, TypeOK
    <2> QED BY <1>9, <2>2 DEF Publish, Return, TypeOK, Steps, Statuses
  <1> QED BY <1>1, <1>2, <1>3, <1>4, <1>5, <1>6, <1>7, <1>8, <1>9, StepCases

\* What a call has written agrees with the statement it has reached.
LEMMA CallStep ==
    ASSUME TypeOK, CallInv, [Next]_vars
    PROVE  CallInv'
  <1> USE DEF dbVars, callVars, InTx, Terminal
  <1>1. CASE UNCHANGED vars
    BY <1>1 DEF vars, CallInv
  <1>2. ASSUME NEW k \in Calls, ProposePlan(k) PROVE CallInv'
    BY <1>2 DEF ProposePlan, TypeOK, CallInv
  <1>3. ASSUME NEW k \in Calls, NEW o \in Ops \ {"propose"}, NEW a \in Amounts \cup {0},
               ReadPlan(k, o, a)
        PROVE  CallInv'
    BY <1>3 DEF ReadPlan, TypeOK, CallInv
  <1>4. ASSUME NEW k \in Calls, UpdateStatus(k) PROVE CallInv'
    BY <1>4 DEF UpdateStatus, TypeOK, CallInv, Target
  <1>5. ASSUME NEW k \in Calls, SumPayments(k) PROVE CallInv'
    BY <1>5 DEF SumPayments, TypeOK, CallInv
  <1>6. ASSUME NEW k \in Calls, CompletePlan(k) PROVE CallInv'
    BY <1>6 DEF CompletePlan, TypeOK, CallInv
  <1>7. ASSUME NEW k \in Calls, Commit(k) PROVE CallInv'
    <2>1. op[k] # "pay" => wrote[k] \in {"proposed", "accepted", "completed", "defaulted"}
      BY <1>7 DEF Commit, CallInv, TypeOK, Target, Ops
    <2> QED BY <1>7, <2>1 DEF Commit, TypeOK, CallInv
  <1>8. ASSUME NEW k \in Calls, Rollback(k) PROVE CallInv'
    BY <1>8 DEF Rollback, Return, TypeOK, CallInv
  <1>9. ASSUME NEW k \in Calls, Publish(k) PROVE CallInv'
    BY <1>9 DEF Publish, Return, TypeOK, CallInv
  <1> QED BY <1>1, <1>2, <1>3, <1>4, <1>5, <1>6, <1>7, <1>8, <1>9, StepCases

---------------------------------------------------------------------------
(* One invariant after the other.                                          *)

\* The lock is taken with the first write and given back at the end.
LEMMA LockStep ==
    ASSUME TypeOK, CallInv, LockInv, [Next]_vars
    PROVE  LockInv'
  <1> USE PaymentAssumption DEF dbVars, callVars, InTx
  <1>1. CASE UNCHANGED vars
    BY <1>1 DEF vars, LockInv
  <1>2. ASSUME NEW k \in Calls, ProposePlan(k) PROVE LockInv'
    BY <1>2 DEF ProposePlan, TypeOK, LockInv
  <1>3. ASSUME NEW k \in Calls, NEW o \in Ops \ {"propose"}, NEW a \in Amounts \cup {0},
               ReadPlan(k, o, a)
        PROVE  LockInv'
    BY <1>3 DEF ReadPlan, TypeOK, CallInv, LockInv
  <1>4. ASSUME NEW k \in Calls, UpdateStatus(k) PROVE LockInv'
    <2>1. Target(op[k]) # "absent"
      BY <1>4 DEF UpdateStatus, CallInv, TypeOK, Target, Ops
    <2> QED BY <1>4, <2>1 DEF UpdateStatus, TypeOK, LockInv
  <1>5. ASSUME NEW k \in Calls, SumPayments(k) PROVE LockInv'
    BY <1>5 DEF SumPayments, TypeOK, LockInv
  <1>6. ASSUME NEW k \in Calls, CompletePlan(k) PROVE LockInv'
    BY <1>6 DEF CompletePlan, TypeOK, LockInv
  <1>7. ASSUME NEW k \in Calls, Commit(k) PROVE LockInv'
    BY <1>7 DEF Commit, Unlock, TypeOK, LockInv
  <1>8. ASSUME NEW k \in Calls, Rollback(k) PROVE LockInv'
    BY <1>8 DEF Rollback, Unlock, Return, TypeOK, LockInv
  <1>9. ASSUME NEW k \in Calls, Publish(k) PROVE LockInv'
    BY <1>9 DEF Publish, Return, TypeOK, LockInv
  <1> QED BY <1>1, <1>2, <1>3, <1>4, <1>5, <1>6, <1>7, <1>8, <1>9, StepCases

\* Rows appear when their transaction commits, all together.
LEMMA RowStep ==
    ASSUME TypeOK, CallInv, RowInv, [Next]_vars
    PROVE  RowInv'
  <1> USE DEF dbVars, callVars, InTx
  <1>1. CASE UNCHANGED vars
    BY <1>1 DEF vars, RowInv, RowsOf
  <1>2. ASSUME NEW k \in Calls, ProposePlan(k) PROVE RowInv'
    <2>1. op[k] = "propose"
      BY <1>2 DEF ProposePlan, CallInv
    <2> QED BY <1>2, <2>1 DEF ProposePlan, TypeOK, RowInv, RowsOf
  <1>3. ASSUME NEW k \in Calls, NEW o \in Ops \ {"propose"}, NEW a \in Amounts \cup {0},
               ReadPlan(k, o, a)
        PROVE  RowInv'
    BY <1>3 DEF ReadPlan, TypeOK, RowInv, RowsOf
  <1>4. ASSUME NEW k \in Calls, UpdateStatus(k) PROVE RowInv'
    BY <1>4 DEF UpdateStatus, TypeOK, RowInv, RowsOf
  <1>5. ASSUME NEW k \in Calls, SumPayments(k) PROVE RowInv'
    BY <1>5 DEF SumPayments, TypeOK, RowInv, RowsOf
  <1>6. ASSUME NEW k \in Calls, CompletePlan(k) PROVE RowInv'
    BY <1>6 DEF CompletePlan, TypeOK, RowInv, RowsOf
  <1>7. ASSUME NEW k \in Calls, Commit(k) PROVE RowInv'
    <2>1. \A e \in events' : e \in events \/ e.call = k
      BY <1>7 DEF Commit
    <2>2. \A e \in events' : e.call \in Calls
      BY <1>7, <2>1 DEF TypeOK
    <2>3. \A j \in Calls : RowsOf(j)' = RowsOf(j)
      BY <1>7 DEF Commit, RowsOf
    <2>4. \A j \in Calls : pc'[j] = IF j = k THEN "publish" ELSE pc[j]
      BY <1>7 DEF Commit, TypeOK
    <2>5. \A e \in events' : pc'[e.call] \in {"publish", "done"}
      BY <2>1, <2>2, <2>4 DEF RowInv
    <2>6. ASSUME NEW j \in Calls, pc'[j] = "publish", NEW t \in RowsOf(j)'
          PROVE  [call |-> j, type |-> t] \in events'
      <3>1. CASE j = k
        BY <1>7, <2>3, <2>6, <3>1 DEF Commit
      <3>2. CASE j # k
        BY <1>7, <2>3, <2>4, <2>6, <3>2 DEF Commit, RowInv
      <3> QED BY <3>1, <3>2
    <2> QED BY <2>5, <2>6 DEF RowInv
  <1>8. ASSUME NEW k \in Calls, Rollback(k) PROVE RowInv'
    BY <1>8 DEF Rollback, Return, TypeOK, RowInv, RowsOf
  <1>9. ASSUME NEW k \in Calls, Publish(k) PROVE RowInv'
    BY <1>9 DEF Publish, Return, TypeOK, RowInv, RowsOf
  <1> QED BY <1>1, <1>2, <1>3, <1>4, <1>5, <1>6, <1>7, <1>8, <1>9, StepCases

\* The rows a Commit adds are its transaction's.
LEMMA CommitRows ==
    ASSUME NEW k \in Calls, Commit(k)
    PROVE  /\ \A t : Recorded(t) => Recorded(t)'
           /\ \A t \in RowsOf(k) : Recorded(t)'
           /\ \A t : Recorded(t)' => Recorded(t) \/ t \in RowsOf(k)
  BY DEF Commit, Recorded

\* Every status is backed by a row of its transaction.
LEMMA BackedStep ==
    ASSUME TypeOK, CallInv, StatusIsBacked, [Next]_vars
    PROVE  StatusIsBacked'
  <1> USE DEF InTx, Terminal
  <1>1. CASE UNCHANGED dbVars
    BY <1>1 DEF dbVars, StatusIsBacked, Recorded
  <1>2. ASSUME NEW k \in Calls, ProposePlan(k) PROVE StatusIsBacked'
    BY <1>2 DEF ProposePlan, StatusIsBacked, Recorded
  <1>3. ASSUME NEW k \in Calls, Commit(k) PROVE StatusIsBacked'
    <2>1. CASE wrote[k] = "absent"
      <3>1. status' = status
        BY <1>3, <2>1 DEF Commit
      <3> QED BY <1>3, <3>1, CommitRows DEF StatusIsBacked
    <2>2. CASE wrote[k] # "absent"
      <3>1. status' = wrote[k]
        BY <1>3, <2>2 DEF Commit
      <3>2. CASE op[k] = "pay"
        <4>1. wrote[k] \in {"active", "completed"}
          BY <1>3, <2>2, <3>2 DEF Commit, CallInv
        <4>2. "payment_received" \in RowsOf(k)
              /\ (wrote[k] = "completed" => "completed" \in RowsOf(k))
          BY <3>2 DEF RowsOf
        <4> QED BY <1>3, <3>1, <4>1, <4>2, CommitRows DEF StatusIsBacked
      <3>3. CASE op[k] # "pay"
        <4>1. wrote[k] \in {"accepted", "completed", "defaulted"}
          BY <1>3, <3>3 DEF Commit, CallInv, TypeOK, Target, Ops
        <4>2. wrote[k] \in RowsOf(k)
          BY <3>3 DEF RowsOf
        <4> QED BY <1>3, <3>1, <4>1, <4>2, CommitRows DEF StatusIsBacked
      <3> QED BY <3>2, <3>3
    <2> QED BY <2>1, <2>2
  <1>4. ASSUME NEW k \in Calls, NEW o \in Ops \ {"propose"}, NEW a \in Amounts \cup {0},
               ReadPlan(k, o, a)
        PROVE  StatusIsBacked'
    BY <1>1, <1>4 DEF ReadPlan
  <1>5. CASE UNCHANGED vars
    BY <1>1, <1>5 DEF vars
  <1>6. ASSUME NEW k \in Calls,
               \/ UpdateStatus(k) \/ SumPayments(k) \/ CompletePlan(k)
               \/ Rollback(k) \/ Publish(k)
        PROVE  StatusIsBacked'
    BY <1>1, <1>6 DEF UpdateStatus, SumPayments, CompletePlan, Rollback, Publish
  <1> QED BY <1>2, <1>3, <1>4, <1>5, <1>6, StepCases

\* A payment is begun only on a plan somebody has accepted, and acceptances
\* stay on the timeline.
LEMMA AcceptedStep ==
    ASSUME TypeOK, CallInv, StatusIsBacked, AcceptedInv, [Next]_vars
    PROVE  AcceptedInv'
  <1> USE DEF InTx, Terminal, dbVars, callVars
  <1>1. CASE UNCHANGED vars
    BY <1>1 DEF vars, AcceptedInv, PaymentsAfterAcceptance, Recorded
  <1>2. ASSUME NEW k \in Calls, ProposePlan(k) PROVE AcceptedInv'
    BY <1>2 DEF ProposePlan, TypeOK, AcceptedInv, PaymentsAfterAcceptance, Recorded
  <1>3. ASSUME NEW k \in Calls, NEW o \in Ops \ {"propose"}, NEW a \in Amounts \cup {0},
               ReadPlan(k, o, a)
        PROVE  AcceptedInv'
    <2>1. o = "pay" => Recorded("accepted")
      BY <1>3 DEF ReadPlan, Admits, StatusIsBacked, AcceptedInv, PaymentsAfterAcceptance
    <2>2. \A t : Recorded(t)' <=> Recorded(t)
      BY <1>3 DEF ReadPlan, Recorded
    <2>3. PaymentsAfterAcceptance'
      BY <1>3, <2>2 DEF ReadPlan, AcceptedInv, PaymentsAfterAcceptance
    <2> QED BY <1>3, <2>1, <2>2, <2>3 DEF ReadPlan, TypeOK, AcceptedInv
  <1>4. ASSUME NEW k \in Calls, UpdateStatus(k) PROVE AcceptedInv'
    BY <1>4 DEF UpdateStatus, TypeOK, AcceptedInv, PaymentsAfterAcceptance, Recorded
  <1>5. ASSUME NEW k \in Calls, SumPayments(k) PROVE AcceptedInv'
    BY <1>5 DEF SumPayments, TypeOK, AcceptedInv, PaymentsAfterAcceptance, Recorded
  <1>6. ASSUME NEW k \in Calls, CompletePlan(k) PROVE AcceptedInv'
    BY <1>6 DEF CompletePlan, TypeOK, AcceptedInv, PaymentsAfterAcceptance, Recorded
  <1>7. ASSUME NEW k \in Calls, Commit(k) PROVE AcceptedInv'
    <2>1. Recorded("accepted") => Recorded("accepted")'
      BY <1>7, CommitRows
    <2>2. op[k] = "pay" => Recorded("accepted")
      BY <1>7 DEF Commit, AcceptedInv
    <2>3. op[k] # "pay" =>
             /\ wrote[k] \in {"accepted", "completed", "defaulted"}
             /\ "payment_received" \notin RowsOf(k)
      BY <1>7 DEF Commit, CallInv, TypeOK, Target, Ops, RowsOf
    <2>4. op[k] # "pay" =>
             /\ status' # "active"
             /\ Recorded("payment_received")' => Recorded("payment_received")
      BY <1>7, <2>3, CommitRows DEF Commit
    <2>5. PaymentsAfterAcceptance'
      BY <2>1, <2>2, <2>4 DEF AcceptedInv, PaymentsAfterAcceptance
    <2> QED BY <1>7, <2>1, <2>5 DEF Commit, TypeOK, AcceptedInv
  <1>8. ASSUME NEW k \in Calls, Rollback(k) PROVE AcceptedInv'
    BY <1>8 DEF Rollback, Return, TypeOK, AcceptedInv, PaymentsAfterAcceptance, Recorded
  <1>9. ASSUME NEW k \in Calls, Publish(k) PROVE AcceptedInv'
    BY <1>9 DEF Publish, Return, TypeOK, AcceptedInv, PaymentsAfterAcceptance, Recorded
  <1> QED BY <1>1, <1>2, <1>3, <1>4, <1>5, <1>6, <1>7, <1>8, <1>9, StepCases

\* Between a call's SUM and its commit the sum can only grow.
LEMMA PaidStep ==
    ASSUME TypeOK, CallInv, RowInv, PaidInv, [Next]_vars
    PROVE  PaidInv'
  <1> USE PaymentAssumption DEF InTx, Terminal, dbVars, callVars
  <1>1. CASE UNCHANGED vars
    BY <1>1 DEF vars, PaidInv, CompletionIsPaid
  <1>2. ASSUME NEW k \in Calls, ProposePlan(k) PROVE PaidInv'
    BY <1>2 DEF ProposePlan, TypeOK, PaidInv, CompletionIsPaid
  <1>3. ASSUME NEW k \in Calls, NEW o \in Ops \ {"propose"}, NEW a \in Amounts \cup {0},
               ReadPlan(k, o, a)
        PROVE  PaidInv'
    <2>1. \A e \in events : e.call # k
      BY <1>3 DEF ReadPlan, RowInv
    <2>2. CompletionIsPaid'
      BY <1>3, <2>1 DEF ReadPlan, TypeOK, PaidInv, CompletionIsPaid
    <2>3. wrote[k] = "absent"
      BY <1>3 DEF ReadPlan, CallInv
    <2> QED BY <1>3, <2>2, <2>3 DEF ReadPlan, TypeOK, PaidInv
  <1>4. ASSUME NEW k \in Calls, UpdateStatus(k) PROVE PaidInv'
    <2>1. CompletionIsPaid'
      BY <1>4 DEF UpdateStatus, PaidInv, CompletionIsPaid
    <2>2. op[k] = "pay" => Target(op[k]) = "active"
      BY DEF Target
    <2> QED BY <1>4, <2>1, <2>2 DEF UpdateStatus, TypeOK, PaidInv
  <1>5. ASSUME NEW k \in Calls, SumPayments(k) PROVE PaidInv'
    <2>1. CompletionIsPaid'
      BY <1>5 DEF SumPayments, PaidInv, CompletionIsPaid
    <2> QED BY <1>5, <2>1 DEF SumPayments, TypeOK, PaidInv
  <1>6. ASSUME NEW k \in Calls, CompletePlan(k) PROVE PaidInv'
    <2>1. CompletionIsPaid'
      BY <1>6 DEF CompletePlan, PaidInv, CompletionIsPaid
    <2> QED BY <1>6, <2>1 DEF CompletePlan, TypeOK, PaidInv
  <1>7. ASSUME NEW k \in Calls, Commit(k) PROVE PaidInv'
    <2>1. paid \in Nat /\ paid' \in Nat /\ paid' >= paid
      BY <1>7 DEF Commit, TypeOK
    <2>2. ASSUME NEW e \in events', e.type = "completed", op'[e.call] = "pay"
          PROVE  paid' >= Total
      <3>1. CASE e \in events
        BY <1>7, <2>1, <2>2, <3>1 DEF Commit, PaidInv, CompletionIsPaid
      <3>2. CASE e \notin events
        <4>1. e.call = k /\ "completed" \in RowsOf(k)
          BY <1>7, <2>2, <3>2 DEF Commit
        <4>2. op[k] = "pay" /\ wrote[k] = "completed"
          BY <1>7, <2>2, <4>1 DEF Commit, RowsOf
        <4> QED BY <1>7, <4>2 DEF Commit, PaidInv
      <3> QED BY <3>1, <3>2
    <2>3. \A j \in Calls : amount[j] \in Nat
      BY DEF TypeOK
    <2>4. ASSUME NEW j \in Calls
          PROVE  /\ pc'[j] = "complete" => paid' + amount'[j] >= Total
                 /\ pc'[j] \in InTx /\ op'[j] = "pay" /\ wrote'[j] = "completed"
                       => paid' + amount'[j] >= Total
      <3>1. pc'[j] = (IF j = k THEN "publish" ELSE pc[j]) /\ amount' = amount
            /\ op' = op /\ wrote' = wrote
        BY <1>7 DEF Commit, TypeOK
      <3>2. paid + amount[j] >= Total => paid' + amount'[j] >= Total
        BY <2>1, <2>3, <3>1
      <3> QED BY <3>1, <3>2 DEF PaidInv
    <2> QED BY <2>2, <2>4 DEF PaidInv, CompletionIsPaid
  <1>8. ASSUME NEW k \in Calls, Rollback(k) PROVE PaidInv'
    <2>1. CompletionIsPaid'
      BY <1>8 DEF Rollback, Return, PaidInv, CompletionIsPaid
    <2> QED BY <1>8, <2>1 DEF Rollback, Return, TypeOK, PaidInv
  <1>9. ASSUME NEW k \in Calls, Publish(k) PROVE PaidInv'
    <2>1. CompletionIsPaid'
      BY <1>9 DEF Publish, Return, PaidInv, CompletionIsPaid
    <2> QED BY <1>9, <2>1 DEF Publish, Return, TypeOK, PaidInv
  <1> QED BY <1>1, <1>2, <1>3, <1>4, <1>5, <1>6, <1>7, <1>8, <1>9, StepCases

\* A call publishes after its commit, from what it committed.
LEMMA NoticeStep ==
    ASSUME TypeOK, CallInv, RowInv, NoticesAreCommitted, [Next]_vars
    PROVE  NoticesAreCommitted'
  <1> USE DEF dbVars
  <1>1. CASE UNCHANGED <<events, published>>
    BY <1>1 DEF NoticesAreCommitted
  <1>2. ASSUME NEW k \in Calls, ProposePlan(k) PROVE NoticesAreCommitted'
    BY <1>2 DEF ProposePlan, NoticesAreCommitted
  <1>3. ASSUME NEW k \in Calls, Commit(k) PROVE NoticesAreCommitted'
    BY <1>3 DEF Commit, NoticesAreCommitted
  <1>4. ASSUME NEW k \in Calls, Publish(k) PROVE NoticesAreCommitted'
    <2>1. \A e \in published' :
             e \in published \/ (e.call = k /\ e = [call |-> k, type |-> e.type]
                                 /\ e.type \in NoticesOf(k))
      BY <1>4 DEF Publish
    <2>2. \A t \in RowsOf(k) : [call |-> k, type |-> t] \in events
      BY <1>4 DEF Publish, RowInv
    <2>3. "active" \notin RowsOf(k)
      BY <1>4 DEF Publish, RowsOf, CallInv, Terminal
    <2>4. \A t \in NoticesOf(k) :
             IF t = "active" THEN [call |-> k, type |-> "payment_received"] \in events
             ELSE [call |-> k, type |-> t] \in events
      BY <2>2, <2>3 DEF NoticesOf, RowsOf
    <2> QED BY <1>4, <2>1, <2>4 DEF Publish, NoticesAreCommitted
  <1>5. ASSUME NEW k \in Calls, NEW o \in Ops \ {"propose"}, NEW a \in Amounts \cup {0},
               ReadPlan(k, o, a)
        PROVE  NoticesAreCommitted'
    BY <1>1, <1>5 DEF ReadPlan
  <1>6. ASSUME NEW k \in Calls,
               \/ UpdateStatus(k) \/ SumPayments(k) \/ CompletePlan(k) \/ Rollback(k)
        PROVE  NoticesAreCommitted'
    BY <1>1, <1>6 DEF UpdateStatus, SumPayments, CompletePlan, Rollback
  <1>7. CASE UNCHANGED vars
    BY <1>1, <1>7 DEF vars
  <1> QED BY <1>2, <1>3, <1>4, <1>5, <1>6, <1>7, StepCases

---------------------------------------------------------------------------
(* The theorems.                                                           *)

\* The conjunction is inductive: each part leans on the ones before it.
LEMMA Invariance == Spec => []IInv
  <1>1. Init => IInv
    <2> SUFFICES ASSUME Init PROVE IInv OBVIOUS
    <2>1. CallInv /\ RowInv /\ LockInv
      BY PaymentAssumption DEF Init, CallInv, RowInv, LockInv, InTx
    <2>2. StatusIsBacked /\ AcceptedInv
      BY DEF Init, StatusIsBacked, AcceptedInv, PaymentsAfterAcceptance, Recorded,
             Terminal, InTx
    <2>3. PaidInv /\ NoticesAreCommitted
      BY DEF Init, PaidInv, CompletionIsPaid, NoticesAreCommitted, InTx
    <2> QED BY <2>1, <2>2, <2>3, TypeInit DEF IInv
  <1>2. IInv /\ [Next]_vars => IInv'
    BY TypeStep, CallStep, LockStep, RowStep, BackedStep, AcceptedStep, PaidStep, NoticeStep
       DEF IInv
  <1> QED BY <1>1, <1>2, PTL DEF Spec

\* Every reachable state is of its type: in particular no call ever writes a
\* status outside the plan_status enum or inserts a row of an unknown type.
THEOREM TypeCorrect == Spec => []TypeOK
  <1>1. IInv => TypeOK
    BY DEF IInv
  <1> QED BY <1>1, Invariance, PTL

\* Whatever the calls, their interleaving and their failures, the plan's
\* status has a row of its timeline behind it.
THEOREM StatusBacked == Spec => []StatusIsBacked
  <1>1. IInv => StatusIsBacked
    BY DEF IInv
  <1> QED BY <1>1, Invariance, PTL

\* No payment is ever recorded for a plan that was not accepted.
THEOREM PaymentsAccepted == Spec => []PaymentsAfterAcceptance
  <1>1. IInv => PaymentsAfterAcceptance
    BY DEF IInv, AcceptedInv
  <1> QED BY <1>1, Invariance, PTL

\* The plan's row and its timeline never part, whatever the calls.
THEOREM TimelineSound == Spec => []TimelineIsSound
  BY StatusBacked, PaymentsAccepted, PTL DEF TimelineIsSound

\* A plan that RecordPayment completed is paid in full, although the SUM
\* waits for no lock.
THEOREM CompletionPaid == Spec => []CompletionIsPaid
  <1>1. IInv => CompletionIsPaid
    BY DEF IInv, PaidInv
  <1> QED BY <1>1, Invariance, PTL

\* What was rolled back is never announced on payment-updated.
THEOREM NoticesCommitted == Spec => []NoticesAreCommitted
  <1>1. IInv => NoticesAreCommitted
    BY DEF IInv
  <1> QED BY <1>1, Invariance, PTL

\* Once a plan is completed or defaulted and no transaction is open, it stays
\* so: whatever calls come later, the status they read turns them away.
THEOREM SettledStays == Spec => SettledStaysSettled
  <1> SUFFICES ASSUME NEW s \in Terminal
               PROVE  Spec => [](status = s /\ (\A k \in Calls : pc[k] \notin InTx)
                                 => [](status = s))
    BY DEF SettledStaysSettled
  <1> DEFINE Settled == status = s /\ \A k \in Calls : pc[k] \notin InTx
  <1>1. IInv /\ Settled /\ [Next]_vars => Settled'
    <2> SUFFICES ASSUME TypeOK, Settled, [Next]_vars PROVE Settled'
      BY DEF IInv
    <2> USE DEF dbVars, callVars
    <2>1. s # "absent"
      BY DEF Terminal
    <2>2. ASSUME NEW k \in Calls, NEW o \in Ops \ {"propose"}, ReadPlan(k, o, 0)
                 \/ \E a \in Amounts : ReadPlan(k, o, a)
          PROVE  FALSE
      BY <2>2 DEF ReadPlan, Admits, Ops, Terminal
    <2>3. ASSUME NEW k \in Calls, Publish(k) PROVE Settled'
      BY <2>3 DEF Publish, Return, TypeOK, InTx
    <2>4. ASSUME NEW k \in Calls,
                 \/ UpdateStatus(k) \/ SumPayments(k) \/ CompletePlan(k)
                 \/ Commit(k) \/ Rollback(k)
          PROVE  FALSE
      BY <2>4 DEF UpdateStatus, SumPayments, CompletePlan, Commit, Rollback, InTx
    <2>5. CASE UNCHANGED vars
      BY <2>5 DEF vars
    <2>6. ASSUME NEW k \in Calls, ProposePlan(k) PROVE FALSE
      BY <2>1, <2>6 DEF ProposePlan
    <2> QED BY <2>2, <2>3, <2>4, <2>5, <2>6, StepCases
  <1>2. Settled => status = s
    OBVIOUS
  <1> QED BY <1>1, <1>2, Invariance, PTL DEF Spec


---------------------------------------------------------------------------
(* How far a plan can go back.                                             *)

\* Whatever overlaps, the books only grow and a plan never returns to the
\* negotiation: a stale write may turn one accepted status into another, but no
\* call makes a plan absent or proposed again, takes a row off its timeline or
\* an amount off what was paid (payment.go:184, 254, 343, 402).
THEOREM BooksOnlyGrow ==
    Spec => [][/\ paid <= paid' /\ events \subseteq events'
               /\ published \subseteq published'
               /\ status # "absent" => status' # "absent"
               /\ status \notin {"absent", "proposed"}
                     => status' \notin {"absent", "proposed"}]_vars
  <1> DEFINE Grow == /\ paid <= paid' /\ events \subseteq events'
                     /\ published \subseteq published'
                     /\ status # "absent" => status' # "absent"
                     /\ status \notin {"absent", "proposed"}
                           => status' \notin {"absent", "proposed"}
  <1>1. ASSUME IInv, [Next]_vars PROVE Grow
    <2> USE DEF dbVars, callVars
    <2>0. TypeOK /\ CallInv /\ paid \in Nat
      BY <1>1 DEF IInv, TypeOK
    <2>1. CASE UNCHANGED <<dbVars, published>>
      BY <2>0, <2>1
    <2>2. ASSUME NEW k \in Calls, ProposePlan(k) PROVE Grow
      BY <2>0, <2>2 DEF ProposePlan
    <2>3. ASSUME NEW k \in Calls, Commit(k) PROVE Grow
      <3>1. wrote[k] \notin {"absent", "proposed"} \/ status' = status
        BY <2>0, <2>3 DEF Commit, CallInv, InTx, TypeOK, Target, Ops
      <3>2. status' = status \/ status' = wrote[k]
        BY <2>3 DEF Commit
      <3>3. paid <= paid'
        BY <2>0, <2>3 DEF Commit, TypeOK
      <3> QED BY <2>3, <3>1, <3>2, <3>3 DEF Commit
    <2>4. ASSUME NEW k \in Calls, Publish(k) PROVE Grow
      BY <2>0, <2>4 DEF Publish
    <2>5. ASSUME NEW k \in Calls,
                 \/ \E o \in Ops \ {"propose"}, a \in Amounts \cup {0} : ReadPlan(k, o, a)
                 \/ UpdateStatus(k) \/ SumPayments(k) \/ CompletePlan(k) \/ Rollback(k)
          PROVE  UNCHANGED <<dbVars, published>>
      BY <2>5 DEF ReadPlan, UpdateStatus, SumPayments, CompletePlan, Rollback
    <2>6. UNCHANGED vars => UNCHANGED <<dbVars, published>>
      BY DEF vars
    <2> QED BY <1>1, <2>1, <2>2, <2>3, <2>4, <2>5, <2>6, StepCases
  <1>2. IInv /\ [Next]_vars => [Grow]_vars
    BY <1>1
  <1> QED BY <1>2, Invariance, PTL DEF Spec

---------------------------------------------------------------------------
(* The argument behind CallsFinish, without its last, temporal step.       *)

\* Two transactions never have both written the plan's row.
THEOREM WritersExclude ==
    Spec => [](\A j, k \in Calls :
                  /\ pc[j] \in InTx /\ wrote[j] # "absent"
                  /\ pc[k] \in InTx /\ wrote[k] # "absent"
                  => j = k)
  <1>1. IInv => \A j, k \in Calls :
                  /\ pc[j] \in InTx /\ wrote[j] # "absent"
                  /\ pc[k] \in InTx /\ wrote[k] # "absent"
                  => j = k
    BY DEF IInv, LockInv
  <1> QED BY <1>1, Invariance, PTL

\* The next statement of a call has what it waits for.
Unblocked(k) ==
    \/ pc[k] = "update" /\ lock = NoCall
    \/ pc[k] = "complete" /\ lock \in {NoCall, k}
    \/ pc[k] \in {"sum", "commit"}

\* No deadlock: a call that has to wait waits for one that does not, whose open
\* transaction holds the lock and needs no other (payment.go:180, 250, 339, 398).
THEOREM NoDeadlock ==
    Spec => [](\A k \in Calls : pc[k] \in InTx /\ ~ Unblocked(k) =>
                  lock \in Calls /\ pc[lock] \in InTx /\ Unblocked(lock))
  <1>1. IInv => \A k \in Calls : pc[k] \in InTx /\ ~ Unblocked(k) =>
                  lock \in Calls /\ pc[lock] \in InTx /\ Unblocked(lock)
    BY DEF IInv, TypeOK, CallInv, LockInv, Unblocked, InTx
  <1> QED BY <1>1, Invariance, PTL

\* How many steps a call has left at most.
StepsLeft(k) ==
    [idle |-> 6, update |-> 5, sum |-> 4, complete |-> 3, commit |-> 2,
     publish |-> 1, done |-> 0][pc[k]]

\* Every step of a call brings it nearer to its end and leaves the other calls
\* where they are: nothing is retried and nothing is redone.
THEOREM CallsAreBounded ==
    Spec => [][\E k \in Calls :
                 /\ StepsLeft(k)' < StepsLeft(k)
                 /\ \A j \in Calls \ {k} : StepsLeft(j)' = StepsLeft(j)]_vars
  <1> DEFINE Nearer == \E k \in Calls :
                 /\ StepsLeft(k)' < StepsLeft(k)
                 /\ \A j \in Calls \ {k} : StepsLeft(j)' = StepsLeft(j)
  <1>1. ASSUME TypeOK, [Next]_vars PROVE [Nearer]_vars
    <2>1. ASSUME NEW k \in Calls, NEW to \in Steps, pc' = [pc EXCEPT ![k] = to],
                 \/ pc[k] = "idle" /\ to \in {"publish", "sum", "update"}
                 \/ pc[k] = "update" /\ to \in {"sum", "commit"}
                 \/ pc[k] = "sum" /\ to \in {"complete", "commit"}
                 \/ pc[k] = "complete" /\ to = "commit"
                 \/ pc[k] = "commit" /\ to = "publish"
                 \/ pc[k] \in InTx \cup {"publish"} /\ to = "done"
          PROVE  Nearer
      <3>1. StepsLeft(k)' < StepsLeft(k)
        <4>1. pc'[k] = to
          BY <1>1, <2>1 DEF TypeOK
        <4> QED BY <2>1, <4>1 DEF StepsLeft, InTx
      <3>2. \A j \in Calls \ {k} : StepsLeft(j)' = StepsLeft(j)
        BY <1>1, <2>1 DEF StepsLeft, TypeOK
      <3> QED BY <3>1, <3>2
    <2> HIDE DEF Nearer
    <2>2. ASSUME NEW k \in Calls, ProposePlan(k) PROVE Nearer
      BY <2>1, <2>2 DEF ProposePlan, Steps
    <2>3. ASSUME NEW k \in Calls, NEW o \in Ops \ {"propose"}, NEW a \in Amounts \cup {0},
                 ReadPlan(k, o, a)
          PROVE  Nearer
      BY <2>1, <2>3 DEF ReadPlan, Steps, InTx
    <2>4. ASSUME NEW k \in Calls, UpdateStatus(k) PROVE Nearer
      BY <2>1, <2>4 DEF UpdateStatus, Steps, InTx
    <2>5. ASSUME NEW k \in Calls, SumPayments(k) PROVE Nearer
      BY <2>1, <2>5 DEF SumPayments, Steps, InTx
    <2>6. ASSUME NEW k \in Calls, CompletePlan(k) \/ Commit(k) PROVE Nearer
      BY <2>1, <2>6 DEF CompletePlan, Commit, Steps, InTx
    <2>7. ASSUME NEW k \in Calls, Rollback(k) \/ Publish(k) PROVE Nearer
      BY <2>1, <2>7 DEF Rollback, Publish, Return, Steps
    <2> QED BY <1>1, <2>2, <2>3, <2>4, <2>5, <2>6, <2>7, StepCases
  <1>2. TypeOK /\ [Next]_vars => [Nearer]_vars
    BY <1>1
  <1> QED BY <1>2, Invariance, PTL DEF Spec, IInv

---------------------------------------------------------------------------
(* The refinement: transactions, locks and failures come down to calls     *)
(* that act on what they read and write at one stroke.                     *)

\* What a payment has written follows from the status it read, until the SUM
\* completes the plan.
SeenInv ==
    \A k \in Calls : pc[k] \in InTx /\ op[k] = "pay" =>
        /\ seen[k] \in {"accepted", "active"}
        /\ pc[k] = "update" => seen[k] = "accepted"
        /\ pc[k] = "sum" => wrote[k] = IF seen[k] = "accepted" THEN "active" ELSE "absent"
        /\ pc[k] = "commit" /\ wrote[k] # "completed" =>
              wrote[k] = IF seen[k] = "accepted" THEN "active" ELSE "absent"

LEMMA SeenStep ==
    ASSUME TypeOK, CallInv, SeenInv, [Next]_vars
    PROVE  SeenInv'
  <1> USE DEF dbVars, callVars, InTx
  <1>1. CASE UNCHANGED vars
    BY <1>1 DEF vars, SeenInv
  <1>2. ASSUME NEW k \in Calls, ProposePlan(k) PROVE SeenInv'
    BY <1>2 DEF ProposePlan, TypeOK, SeenInv
  <1>3. ASSUME NEW k \in Calls, NEW o \in Ops \ {"propose"}, NEW a \in Amounts \cup {0},
               ReadPlan(k, o, a)
        PROVE  SeenInv'
    <2>1. o = "pay" => status \in {"accepted", "active"}
      BY <1>3 DEF ReadPlan, Admits
    <2>2. wrote[k] = "absent"
      BY <1>3 DEF ReadPlan, CallInv
    <2> QED BY <1>3, <2>1, <2>2 DEF ReadPlan, TypeOK, SeenInv
  <1>4. ASSUME NEW k \in Calls, UpdateStatus(k) PROVE SeenInv'
    BY <1>4 DEF UpdateStatus, TypeOK, SeenInv, Target
  <1>5. ASSUME NEW k \in Calls, SumPayments(k) PROVE SeenInv'
    BY <1>5 DEF SumPayments, TypeOK, SeenInv
  <1>6. ASSUME NEW k \in Calls, CompletePlan(k) PROVE SeenInv'
    BY <1>6 DEF CompletePlan, TypeOK, SeenInv
  <1>7. ASSUME NEW k \in Calls, Commit(k) PROVE SeenInv'
    BY <1>7 DEF Commit, TypeOK, SeenInv
  <1>8. ASSUME NEW k \in Calls, Rollback(k) PROVE SeenInv'
    BY <1>8 DEF Rollback, Return, TypeOK, SeenInv
  <1>9. ASSUME NEW k \in Calls, Publish(k) PROVE SeenInv'
    BY <1>9 DEF Publish, Return, TypeOK, SeenInv
  <1> QED BY <1>1, <1>2, <1>3, <1>4, <1>5, <1>6, <1>7, <1>8, <1>9, StepCases

LEMMA SeenInvariance == Spec => [](IInv /\ SeenInv)
  <1>1. Init => SeenInv
    BY DEF Init, SeenInv, InTx
  <1>2. IInv /\ SeenInv /\ [Next]_vars => SeenInv'
    BY SeenStep DEF IInv
  <1> QED BY <1>1, <1>2, Invariance, PTL DEF Spec

OpenCalls == [k \in Calls |-> OpenCall(k)]

\* A step of one call leaves what the others know as it was.
LEMMA OpenUpdate ==
    ASSUME NEW k \in Calls, NEW x, OpenCall(k)' = x,
           \A j \in Calls : j # k => OpenCall(j)' = OpenCall(j)
    PROVE  OpenCalls' = [OpenCalls EXCEPT ![k] = x]
  BY DEF OpenCalls

\* A statement of call k changes the variables of call k only.
LEMMA OpenFrame ==
    ASSUME TypeOK, NEW k \in Calls,
           \/ ProposePlan(k)
           \/ \E o, a : ReadPlan(k, o, a)
           \/ UpdateStatus(k) \/ SumPayments(k) \/ CompletePlan(k)
           \/ Commit(k) \/ Rollback(k) \/ Publish(k)
    PROVE  \A j \in Calls : j # k => OpenCall(j)' = OpenCall(j)
  <1> SUFFICES ASSUME NEW j \in Calls, j # k PROVE OpenCall(j)' = OpenCall(j)
    OBVIOUS
  <1>1. /\ pc'[j] = pc[j] /\ op'[j] = op[j] /\ amount'[j] = amount[j]
        /\ seen'[j] = seen[j] /\ wrote'[j] = wrote[j]
    BY DEF ProposePlan, ReadPlan, UpdateStatus, SumPayments, CompletePlan, Commit,
           Rollback, Publish, Return, TypeOK, callVars
  <1> QED BY <1>1 DEF OpenCall

\* Every statement is a step of PaymentCalls, or none.
LEMMA CallsRefine ==
    ASSUME IInv, SeenInv, [Next]_vars
    PROVE  [Service!Next]_(Service!vars)
  <1> USE DEF dbVars, callVars
  <1>0. TypeOK /\ CallInv
    BY DEF IInv
  <1> DEFINE Stutter == UNCHANGED <<status, paid>> /\ OpenCalls' = OpenCalls
  <1>1. ASSUME Stutter PROVE [Service!Next]_(Service!vars)
    BY <1>1 DEF Service!vars, OpenCalls
  <1>2. ASSUME UNCHANGED vars PROVE Stutter
    BY <1>2 DEF vars, OpenCalls, OpenCall
  <1>3. ASSUME NEW k \in Calls, OpenCall(k)' = OpenCall(k),
               \A j \in Calls : j # k => OpenCall(j)' = OpenCall(j)
        PROVE  OpenCalls' = OpenCalls
    BY <1>3 DEF OpenCalls
  <1>4. ASSUME NEW k \in Calls, ProposePlan(k) PROVE Service!Next
    <2>1. OpenCall(k)' = OpenCall(k)
      BY <1>0, <1>4 DEF ProposePlan, OpenCall, TypeOK, InTx
    <2>2. OpenCalls' = OpenCalls
      BY <1>0, <1>3, <1>4, <2>1, OpenFrame
    <2>3. Service!Propose
      BY <1>4, <2>2 DEF ProposePlan, Service!Propose, OpenCalls
    <2> QED BY <2>3 DEF Service!Next
  <1>5. ASSUME NEW k \in Calls, NEW o \in Ops \ {"propose"}, NEW a,
               ReadPlan(k, o, a), a \in (IF o = "pay" THEN Amounts ELSE {0})
        PROVE  Service!Next
    <2> DEFINE c == [op |-> o, amount |-> a, seen |-> status, sum |-> "due"]
    <2>1. OpenCall(k)' = c
      BY <1>0, <1>5 DEF ReadPlan, OpenCall, TypeOK, InTx
    <2>2. OpenCalls' = [OpenCalls EXCEPT ![k] = c]
      <3> HIDE DEF c
      <3> QED BY <1>0, <1>5, <2>1, OpenFrame, OpenUpdate
    <2>3. OpenCall(k).op = "none"
      BY <1>5 DEF ReadPlan, OpenCall, InTx
    <2>4. Service!Admits(o, status)
      BY <1>0, <1>5 DEF ReadPlan, Admits, Service!Admits, Service!Marks, Service!Statuses,
         Service!Terminal, Terminal, TypeOK, Statuses
    <2>5. Service!Begin(k, o, a)
      BY <1>5, <2>2, <2>3, <2>4 DEF ReadPlan, Service!Begin, Service!IsOpen, OpenCalls
    <2>6. \/ o = "pay" /\ a \in Amounts
          \/ o \in {"accept"} \cup Service!Marks /\ a = 0
      BY <1>5 DEF Ops, Service!Marks
    <2> QED BY <2>5, <2>6 DEF Service!Next
  <1>6. ASSUME NEW k \in Calls, UpdateStatus(k) \/ CompletePlan(k) PROVE Stutter
    <2>1. OpenCall(k)' = OpenCall(k)
      <3>1. CASE UpdateStatus(k)
        BY <1>0, <3>1 DEF UpdateStatus, OpenCall, TypeOK, InTx
      <3>2. CASE CompletePlan(k)
        BY <1>0, <3>2 DEF CompletePlan, OpenCall, TypeOK, InTx
      <3> QED BY <1>6, <3>1, <3>2
    <2>2. OpenCalls' = OpenCalls
      BY <1>0, <1>3, <1>6, <2>1, OpenFrame
    <2> QED BY <1>6, <2>2 DEF UpdateStatus, CompletePlan
  <1>7. ASSUME NEW k \in Calls, SumPayments(k) PROVE Service!Next
    <2> DEFINE c == [op |-> "pay", amount |-> amount[k], seen |-> seen[k], sum |-> "due"]
               s == IF paid + amount[k] >= Total THEN "full" ELSE "short"
    <2>1. OpenCall(k) = c
      BY <1>0, <1>7 DEF SumPayments, OpenCall, CallInv, InTx
    <2>2. OpenCall(k)' = [c EXCEPT !.sum = s]
      BY <1>0, <1>7 DEF SumPayments, OpenCall, CallInv, SeenInv, TypeOK, InTx
    <2>3. OpenCalls' = [OpenCalls EXCEPT ![k] = [c EXCEPT !.sum = s]]
      <3> HIDE DEF c, s
      <3> QED BY <1>0, <1>7, <2>2, OpenFrame, OpenUpdate
    <2>4. OpenCalls' = [OpenCalls EXCEPT ![k].sum = s]
      <3> HIDE DEF c, s
      <3> QED BY <2>1, <2>3 DEF OpenCalls
    <2>5. /\ OpenCalls[k].op = "pay" /\ OpenCalls[k].sum = "due"
          /\ OpenCalls[k].amount = amount[k]
      BY <2>1 DEF OpenCalls
    <2>6. Service!Sum(k)
      <3> HIDE DEF c
      <3> QED BY <1>7, <2>4, <2>5 DEF SumPayments, Service!Sum, OpenCalls
    <2> QED BY <2>6 DEF Service!Next
  <1>8. ASSUME NEW k \in Calls, OpenCall(k)' = Service!NotOpen,
               \A j \in Calls : j # k => OpenCall(j)' = OpenCall(j)
        PROVE  OpenCalls' = [OpenCalls EXCEPT ![k] = Service!NotOpen]
    BY <1>8, OpenUpdate
  <1>9. ASSUME NEW k \in Calls, Commit(k) PROVE Service!Next
    <2>0. op[k] # "none"
      BY <1>0 DEF TypeOK, Ops
    <2>1. OpenCall(k)' = Service!NotOpen
      BY <1>0, <1>9 DEF Commit, OpenCall, TypeOK, InTx, Service!NotOpen
    <2>2. OpenCalls' = [OpenCalls EXCEPT ![k] = Service!NotOpen]
      BY <1>0, <1>8, <1>9, <2>1, OpenFrame
    <2>3. /\ OpenCall(k).op = op[k] /\ OpenCall(k).amount = amount[k]
          /\ OpenCall(k).seen = seen[k]
          /\ op[k] = "pay" => OpenCall(k).sum = IF wrote[k] = "completed" THEN "full"
                                                ELSE "short"
      BY <1>9 DEF Commit, OpenCall, InTx
    <2>4. status' = Service!Outcome(OpenCall(k))
      <3>1. CASE op[k] = "pay"
        BY <1>0, <1>9, <2>3, <3>1 DEF Commit, Service!Outcome, CallInv, SeenInv, InTx
      <3>2. CASE op[k] # "pay"
        <4>1. op[k] \in {"accept", "default", "complete"}
          BY <1>0, <1>9, <3>2 DEF Commit, CallInv, TypeOK, Ops, InTx
        <4>2. wrote[k] = Target(op[k])
          BY <1>0, <1>9, <3>2 DEF Commit, CallInv
        <4> QED BY <1>9, <2>3, <4>1, <4>2 DEF Commit, Service!Outcome, Target
      <3> QED BY <3>1, <3>2
    <2>5. Service!Commit(k)
      BY <1>9, <2>0, <2>2, <2>3, <2>4 DEF Commit, Service!Commit, Service!IsOpen, OpenCalls
    <2> QED BY <2>5 DEF Service!Next
  <1>10. ASSUME NEW k \in Calls, Rollback(k) PROVE Service!Next
    <2>0. OpenCall(k).op # "none"
      BY <1>0, <1>10 DEF Rollback, OpenCall, TypeOK, Ops
    <2>1. OpenCall(k)' = Service!NotOpen
      BY <1>0, <1>10 DEF Rollback, Return, OpenCall, TypeOK, InTx, Service!NotOpen
    <2>2. OpenCalls' = [OpenCalls EXCEPT ![k] = Service!NotOpen]
      BY <1>0, <1>8, <1>10, <2>1, OpenFrame
    <2>3. Service!Rollback(k)
      BY <1>10, <2>0, <2>2 DEF Rollback, Service!Rollback, Service!IsOpen, OpenCalls
    <2> QED BY <2>3 DEF Service!Next
  <1>11. ASSUME NEW k \in Calls, Publish(k) PROVE Stutter
    <2>1. OpenCall(k)' = OpenCall(k)
      BY <1>0, <1>11 DEF Publish, Return, OpenCall, TypeOK, InTx
    <2>2. OpenCalls' = OpenCalls
      BY <1>0, <1>3, <1>11, <2>1, OpenFrame
    <2> QED BY <1>11, <2>2 DEF Publish
  <1>12. Stutter \/ Service!Next
    <2> HIDE DEF Stutter
    <2>1. ASSUME NEW k \in Calls, Advance(k) PROVE Stutter \/ Service!Next
      BY <1>6, <1>7, <1>9, <1>11, <2>1 DEF Advance
    <2>2. ASSUME NEW k \in Calls,
                 \/ \E a \in Amounts : ReadPlan(k, "pay", a)
                 \/ \E o \in Ops \ {"propose", "pay"} : ReadPlan(k, o, 0)
          PROVE  Service!Next
      <3>1. ASSUME NEW a \in Amounts, ReadPlan(k, "pay", a) PROVE Service!Next
        <4>1. "pay" \in Ops \ {"propose"} /\ a \in (IF "pay" = "pay" THEN Amounts ELSE {0})
          BY <3>1 DEF Ops
        <4> QED BY <1>5, <3>1, <4>1
      <3>2. ASSUME NEW o \in Ops \ {"propose", "pay"}, ReadPlan(k, o, 0)
            PROVE  Service!Next
        BY <1>5, <3>2
      <3> QED BY <2>2, <3>1, <3>2
    <2> QED BY <1>2, <1>4, <1>10, <2>1, <2>2 DEF Next
  <1> QED BY <1>1, <1>12

\* The service, transaction by transaction, is what PaymentCalls says of calls
\* that overlap in any number and in any way: this is what the plan's workflow
\* is put on top of in PaymentPlan.
THEOREM CallsImplemented == Spec => ImplementsCalls
  <1>1. Init => Service!Init
    BY DEF Init, Service!Init, Service!NotOpen, OpenCall, InTx
  <1>2. IInv /\ SeenInv /\ [Next]_vars => [Service!Next]_(Service!vars)
    BY CallsRefine
  <1> QED BY <1>1, <1>2, SeenInvariance, PTL DEF Spec, ImplementsCalls, Service!Spec

---------------------------------------------------------------------------
(* Calls that do not overlap: at most one is in flight.                    *)

\* What the one call under way has read is still so, and what it has written
\* follows from it.
SerialCall(k) ==
    /\ pc[k] \in InTx =>
          /\ status \notin Terminal \cup {"absent"}
          /\ op[k] \in Ops \ {"propose"} /\ Admits(op[k], status)
          /\ amount[k] \in (IF op[k] = "pay" THEN Amounts ELSE {0})
    /\ pc[k] = "update" /\ op[k] = "pay" => status = "accepted"
    /\ pc[k] = "sum" => wrote[k] = IF status = "active" THEN "absent" ELSE "active"
    /\ pc[k] = "complete" => paid + amount[k] >= Total
    /\ pc[k] = "commit" /\ op[k] = "pay" =>
          IF paid + amount[k] >= Total THEN wrote[k] = "completed"
          ELSE wrote[k] = IF status = "active" THEN "absent" ELSE "active"

SerialInv ==
    /\ \E S \in SUBSET Calls : InFlight = S /\ IsFiniteSet(S)
    /\ \A j, k \in InFlight : j = k
    /\ status = "absent" => InFlight = {}
    /\ \A k \in Calls : SerialCall(k)
    /\ status = "active" => paid < Total

\* A step of a call alone leaves only that call in flight.
LEMMA AloneStep ==
    ASSUME NEW k \in Calls, \A j \in InFlight : j = k,
           \A j \in Calls : j # k => pc'[j] = pc[j]
    PROVE  /\ \E S \in SUBSET Calls : InFlight' = S /\ IsFiniteSet(S)
           /\ \A j \in Calls : j # k => pc'[j] \in {"idle", "done"}
           /\ \A i, j \in InFlight' : i = j
  <1>1. InFlight' \subseteq {k} /\ IsFiniteSet({k})
    BY FS_Singleton DEF InFlight
  <1>2. IsFiniteSet(InFlight')
    BY <1>1, FS_Subset
  <1> QED BY <1>1, <1>2 DEF InFlight

\* Reading the plan needs an empty flight, when one call is all there may be.
LEMMA ReadAlone ==
    ASSUME SerialInv, MaxInFlight = 1, NEW k \in Calls, NEW o, NEW a, ReadPlan(k, o, a)
    PROVE  InFlight = {}
  <1>1. IsFiniteSet(InFlight) /\ Cardinality(InFlight) < 1
    BY DEF SerialInv, ReadPlan
  <1>2. Cardinality(InFlight) \in Nat
    BY <1>1, FS_CardinalityType
  <1>3. Cardinality(InFlight) = 0
    BY <1>1, <1>2
  <1> QED BY <1>1, <1>3, FS_EmptySet

\* A call's step, alone, keeps what is known of it; the others are at rest.
LEMMA SerialStep ==
    ASSUME MaxInFlight = 1, IInv, SerialInv, [Next]_vars
    PROVE  SerialInv'
  <1> USE DEF dbVars, callVars
  <1>0. TypeOK /\ CallInv
    BY DEF IInv
  <1>1. CASE UNCHANGED vars
    BY <1>1 DEF vars, SerialInv, SerialCall, InFlight
  <1>2. ASSUME NEW k \in Calls, k \in InFlight \/ InFlight = {},
               \A j \in Calls : j # k => pc'[j] = pc[j],
               SerialCall(k)', status' # "absent", status' = "active" => paid' < Total
        PROVE  SerialInv'
    <2>1. \A j \in InFlight : j = k
      BY <1>2 DEF SerialInv
    <2>2. \A j \in Calls : j # k => SerialCall(j)'
      BY <1>2, <2>1, AloneStep DEF SerialCall, InTx
    <2> QED BY <1>2, <2>1, <2>2, AloneStep DEF SerialInv
  <1>3. ASSUME NEW k \in Calls, ProposePlan(k) PROVE SerialInv'
    <2>1. InFlight = {}
      BY <1>3 DEF ProposePlan, SerialInv
    <2> QED BY <1>0, <1>2, <1>3, <2>1 DEF ProposePlan, SerialCall, TypeOK, InTx
  <1>4. ASSUME NEW k \in Calls, NEW o \in Ops \ {"propose"}, NEW a,
               ReadPlan(k, o, a), a \in (IF o = "pay" THEN Amounts ELSE {0})
        PROVE  SerialInv'
    <2>1. InFlight = {}
      BY <1>4, ReadAlone
    <2>2. status \notin Terminal
      BY <1>4 DEF ReadPlan, Admits, Ops, Terminal
    <2>3. wrote[k] = "absent"
      BY <1>0, <1>4 DEF ReadPlan, CallInv
    <2>4. o = "pay" => status \in {"accepted", "active"}
      BY <1>4 DEF ReadPlan, Admits
    <2>5. SerialCall(k)'
      BY <1>0, <1>4, <2>2, <2>3, <2>4 DEF ReadPlan, SerialCall, TypeOK, InTx
    <2> QED BY <1>0, <1>2, <1>4, <2>1, <2>5 DEF ReadPlan, TypeOK, SerialInv
  <1>5. ASSUME NEW k \in Calls, pc[k] \in InTx \cup {"publish"} PROVE k \in InFlight
    BY <1>5 DEF InFlight, InTx
  <1>6. ASSUME NEW k \in Calls, k \in InFlight PROVE status # "absent"
    BY <1>6 DEF SerialInv
  <1>7. ASSUME NEW k \in Calls, UpdateStatus(k) PROVE SerialInv'
    <2>1. SerialCall(k) /\ pc[k] = "update" /\ k \in InFlight
      BY <1>5, <1>7 DEF SerialInv, UpdateStatus, InTx
    <2>2. SerialCall(k)'
      BY <1>0, <1>7, <2>1 DEF UpdateStatus, SerialCall, TypeOK, InTx, Target
    <2> QED BY <1>0, <1>2, <1>6, <1>7, <2>1, <2>2 DEF UpdateStatus, TypeOK, SerialInv
  <1>8. ASSUME NEW k \in Calls, SumPayments(k) PROVE SerialInv'
    <2>1. SerialCall(k) /\ pc[k] = "sum" /\ k \in InFlight /\ op[k] = "pay"
      BY <1>0, <1>5, <1>8 DEF SerialInv, SumPayments, InTx, CallInv
    <2>2. SerialCall(k)'
      BY <1>0, <1>8, <2>1 DEF SumPayments, SerialCall, TypeOK, InTx
    <2> QED BY <1>0, <1>2, <1>6, <1>8, <2>1, <2>2 DEF SumPayments, TypeOK, SerialInv
  <1>9. ASSUME NEW k \in Calls, CompletePlan(k) PROVE SerialInv'
    <2>1. SerialCall(k) /\ pc[k] = "complete" /\ k \in InFlight /\ op[k] = "pay"
      BY <1>0, <1>5, <1>9 DEF SerialInv, CompletePlan, InTx, CallInv
    <2>2. SerialCall(k)'
      BY <1>0, <1>9, <2>1 DEF CompletePlan, SerialCall, TypeOK, InTx
    <2> QED BY <1>0, <1>2, <1>6, <1>9, <2>1, <2>2 DEF CompletePlan, TypeOK, SerialInv
  <1>10. ASSUME NEW k \in Calls, Commit(k) PROVE SerialInv'
    <2>1. SerialCall(k) /\ pc[k] = "commit" /\ k \in InFlight
      BY <1>5, <1>10 DEF SerialInv, Commit, InTx
    <2>2. SerialCall(k)'
      BY <1>0, <1>10, <2>1 DEF Commit, SerialCall, TypeOK, InTx
    <2>3. status' # "absent"
      BY <1>6, <1>10, <2>1 DEF Commit
    <2>4. status' = "active" => paid' < Total
      <3>0. paid \in Nat /\ amount[k] \in Nat /\ Total \in Nat
        BY <1>0, PaymentAssumption DEF TypeOK
      <3>1. CASE op[k] = "pay"
        BY <1>10, <2>1, <3>0, <3>1 DEF Commit, SerialCall
      <3>2. CASE op[k] # "pay"
        BY <1>0, <1>10, <2>1, <3>2 DEF Commit, CallInv, TypeOK, Target, Ops, InTx
      <3> QED BY <3>1, <3>2
    <2> QED BY <1>0, <1>2, <1>10, <2>1, <2>2, <2>3, <2>4 DEF Commit, TypeOK
  <1>11. ASSUME NEW k \in Calls, Rollback(k) \/ Publish(k) PROVE SerialInv'
    <2>1. k \in InFlight
      BY <1>5, <1>11 DEF Rollback, Publish
    <2>2. SerialCall(k)'
      BY <1>0, <1>11 DEF Rollback, Publish, Return, SerialCall, TypeOK, InTx
    <2> QED BY <1>0, <1>2, <1>6, <1>11, <2>1, <2>2
            DEF Rollback, Publish, Return, TypeOK, SerialInv
  <1> QED BY <1>1, <1>3, <1>4, <1>7, <1>8, <1>9, <1>10, <1>11 DEF Next, Advance, Ops

\* With one call at a time, the call under way is as its statements say.
LEMMA SerialInvariance == ASSUME MaxInFlight = 1 PROVE Spec => [](IInv /\ SerialInv)
  <1>1. Init => SerialInv
    <2> SUFFICES ASSUME Init PROVE SerialInv
      OBVIOUS
    <2>1. InFlight = {} /\ IsFiniteSet({})
      BY FS_EmptySet DEF Init, InFlight
    <2> QED BY <2>1 DEF Init, SerialInv, SerialCall, InTx
  <1>2. IInv /\ SerialInv /\ [Next]_vars => SerialInv'
    BY SerialStep
  <1> QED BY <1>1, <1>2, Invariance, PTL DEF Spec

\* The one step of the service that payment/DESIGN.md:30-46 does not have:
\* MarkCompleted admits a plan that nobody has accepted (payment.go:390).
CompletesProposed ==
    /\ status = "proposed"
    /\ status' = "completed"
    /\ UNCHANGED paid

\* A step of a serial history is one of the state machine's, or that one, or
\* none.
LEMMA SerialRefines ==
    ASSUME MaxInFlight = 1, IInv, SerialInv, [Next]_vars
    PROVE  Lifecycle!Next \/ CompletesProposed \/ UNCHANGED Lifecycle!vars
  <1> USE DEF dbVars, callVars
  <1>1. CASE UNCHANGED <<status, paid>>
    BY <1>1 DEF Lifecycle!vars
  <1>2. ASSUME NEW k \in Calls, ProposePlan(k) PROVE Lifecycle!Next
    BY <1>2 DEF ProposePlan, Lifecycle!Next, Lifecycle!Propose
  <1>3. ASSUME NEW k \in Calls, Commit(k) PROVE Lifecycle!Next \/ CompletesProposed
    <2>0. /\ TypeOK /\ CallInv /\ SerialCall(k)
          /\ pc[k] = "commit" /\ pc[k] \in InTx
      BY <1>3 DEF IInv, SerialInv, Commit, InTx
    <2>1. /\ status \notin Terminal \cup {"absent"} /\ op[k] \in Ops \ {"propose"}
          /\ Admits(op[k], status)
      BY <2>0 DEF SerialCall
    <2>2. CASE op[k] = "pay"
      <3>1. amount[k] \in Amounts /\ status \in {"accepted", "active"}
        BY <2>0, <2>1, <2>2 DEF SerialCall, Admits
      <3>2. paid' = paid + amount[k]
        BY <1>3, <2>2 DEF Commit
      <3>3. status' = IF paid' >= Total THEN "completed" ELSE "active"
        BY <1>3, <2>0, <2>2, <3>1, <3>2 DEF Commit, SerialCall
      <3>4. Lifecycle!Pay(amount[k])
        BY <3>1, <3>2, <3>3 DEF Lifecycle!Pay
      <3> QED BY <3>1, <3>4 DEF Lifecycle!Next
    <2>3. CASE op[k] # "pay"
      <3>1. wrote[k] = Target(op[k]) /\ wrote[k] # "absent"
        BY <2>0, <2>1, <2>3 DEF CallInv, Target, Ops
      <3>2. status' = Target(op[k]) /\ UNCHANGED paid
        BY <1>3, <2>3, <3>1 DEF Commit
      <3>3. CASE op[k] = "accept"
        BY <2>1, <3>2, <3>3 DEF Admits, Target, Lifecycle!Next, Lifecycle!Accept
      <3>4. status \in {"proposed", "accepted", "active"}
        BY <2>0, <2>1 DEF TypeOK, Statuses
      <3>5. CASE op[k] = "default"
        BY <3>2, <3>4, <3>5 DEF Target, Lifecycle!Next, Lifecycle!Default
      <3>6. CASE op[k] = "complete"
        BY <3>2, <3>4, <3>6 DEF Target, Lifecycle!Next, Lifecycle!Complete, CompletesProposed
      <3> QED BY <2>1, <2>3, <3>3, <3>5, <3>6 DEF Ops
    <2> QED BY <2>2, <2>3
  <1>4. CASE UNCHANGED vars
    BY <1>1, <1>4 DEF vars
  <1>5. ASSUME NEW k \in Calls, NEW o, NEW a, ReadPlan(k, o, a)
        PROVE  UNCHANGED <<status, paid>>
    BY <1>5 DEF ReadPlan
  <1>6. ASSUME NEW k \in Calls,
               \/ UpdateStatus(k) \/ SumPayments(k) \/ CompletePlan(k)
               \/ Rollback(k) \/ Publish(k)
        PROVE  UNCHANGED <<status, paid>>
    BY <1>6 DEF UpdateStatus, SumPayments, CompletePlan, Rollback, Publish
  <1> QED BY <1>1, <1>2, <1>3, <1>4, <1>5, <1>6, StepCases

\* Without overlap the handlers, statement by statement, follow the documented
\* state machine, transactions, failures and lost notices included, but for one
\* transition: a plan can be completed that nobody has accepted.
THEOREM SerialFollows ==
    ASSUME MaxInFlight = 1
    PROVE  Spec => /\ Lifecycle!Init
                   /\ [][Lifecycle!Next \/ CompletesProposed]_(Lifecycle!vars)
  <1>1. Init => Lifecycle!Init
    BY DEF Init, Lifecycle!Init
  <1>2. IInv /\ SerialInv /\ [Next]_vars
           => [Lifecycle!Next \/ CompletesProposed]_(Lifecycle!vars)
    BY SerialRefines
  <1> QED BY <1>1, <1>2, SerialInvariance, PTL DEF Spec

\* Without overlap a terminal status is never left.
THEOREM SerialTerminal == ASSUME MaxInFlight = 1 PROVE Spec => TerminalIsFinal
  <1>1. ASSUME Lifecycle!Next \/ CompletesProposed \/ UNCHANGED Lifecycle!vars,
               NEW s \in Terminal, status = s
        PROVE  status' = s
    BY <1>1 DEF Lifecycle!Next, Lifecycle!vars, Lifecycle!Propose, Lifecycle!Accept,
       Lifecycle!Pay, Lifecycle!Default, Lifecycle!Complete, CompletesProposed, Terminal
  <1>2. IInv /\ SerialInv /\ [Next]_vars
           => [\A s \in Terminal : status = s => status' = s]_vars
    BY <1>1, SerialRefines
  <1> QED BY <1>2, SerialInvariance, PTL DEF Spec, TerminalIsFinal

\* Without overlap an active plan is never fully paid: the payment that
\* reaches the total completes it.
THEOREM SerialCompletes == ASSUME MaxInFlight = 1 PROVE Spec => []FullyPaidIsCompleted
  <1>1. SerialInv => FullyPaidIsCompleted
    BY DEF SerialInv, FullyPaidIsCompleted
  <1> QED BY <1>1, SerialInvariance, PTL

=============================================================================
