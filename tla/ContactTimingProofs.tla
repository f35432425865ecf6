------------------------ MODULE ContactTimingProofs ------------------------
(***************************************************************************)
(* Proofs about ContactTiming, for every number of attempts, every hours,  *)
(* every window and every bound on a request and a workflow.               *)
(*                                                                         *)
(* The cap is proved by exhibiting, for every stretch of the protected     *)
(* length, one attempt that counted all the attempts that delivered in it: *)
(* the last of them to read the table.  That there is a last one is        *)
(* ChainInv: of two calls, what one has read the other has read too, or it *)
(* is too old to matter.                                                   *)
(***************************************************************************)
EXTENDS ContactTiming, FiniteSetTheorems, TLAPS

\* What the check of an attempt counted, or would count.
CountedAt(a) ==
    {b \in seen[a] : Stamp(b) \in checkedAt[a] - Window .. checkedAt[a]}

Sent == {s.attempt : s \in sends}

---------------------------------------------------------------------------
(* The inductive invariant.                                                *)

\* No deadline has passed.
TimeInv ==
    \A a \in Attempts :
        /\ attemptedAt[a] <= clock /\ checkedAt[a] <= clock
        /\ step[a] \in Handling => clock <= attemptedAt[a] + HandlerTime
        /\ step[a] \in Running =>
              /\ attemptedAt[a] <= startedAt[a]
              /\ startedAt[a] <= attemptedAt[a] + HandlerTime
              /\ startedAt[a] <= clock
              /\ clock <= startedAt[a] + WorkflowTimeout
        /\ step[a] = "deliver" => startedAt[a] <= checkedAt[a]

\* A call reads rows of the table, its own with them.
SeenInv ==
    \A a \in Attempts :
        /\ seen[a] \subseteq Inserted
        /\ step[a] \in {"idle", "inserted"} => seen[a] = {}
        /\ step[a] \in {"counted"} \cup Running => a \in seen[a]

\* All that a has read m has read too, or it has left the window.
AtMost(a, m) == \A b \in seen[a] : b \in seen[m] \/ attemptedAt[b] < clock - Window

ChainInv == \A a, m \in Attempts : AtMost(a, m) \/ AtMost(m, a)

\* An attempt that may deliver, or has, passed both rules when it was checked.
CheckInv ==
    \A a \in Attempts :
        step[a] = "deliver" \/ a \in Sent =>
            /\ Cardinality(CountedAt(a)) < MaxAttempts
            /\ HoursOpen(Profile[a].timezone, checkedAt[a])
            /\ a \in seen[a]
            /\ \A b \in seen[a] : attemptedAt[b] <= checkedAt[a]

\* A delivery comes within the life of its attempt.
SendInv ==
    \A s \in sends :
        /\ step[s.attempt] \in {"deliver", "done"}
        /\ s.at <= clock
        /\ s.at <= attemptedAt[s.attempt] + Life

\* Of the attempts that deliver in a protected stretch, one counted them all.
CoverInv ==
    \A t \in Times :
        \/ Reached(t, t + Protected) = {}
        \/ \E m \in Reached(t, t + Protected) :
              Reached(t, t + Protected) \subseteq CountedAt(m)

IInv == /\ TypeOK /\ TimeInv /\ SeenInv /\ ChainInv /\ CheckInv /\ SendInv
        /\ CoverInv /\ DeliveredInHours /\ CapBlocksOnlyAtLimit

\* A step is a stutter, a tick, or one step of one attempt.
LEMMA StepCases ==
    ASSUME [Next]_vars
    PROVE  \/ UNCHANGED vars
           \/ Tick
           \/ \E a \in Attempts : InsertPendingAttempt(a)
           \/ \E a \in Attempts : FetchRecentContactTimestamps(a)
           \/ \E a \in Attempts : StartWorkflow(a)
           \/ \E a \in Attempts : CheckCompliance(a)
           \/ \E a \in Attempts : SimulateDelivery(a)
           \/ \E a \in Attempts : Abandon(a)
  BY DEF Next

\* Cutting a time to the second moves it back by less than a second.
LEMMA StampBounds ==
    ASSUME TypeOK, NEW b \in Attempts
    PROVE  /\ Stamp(b) \in Int
           /\ Stamp(b) <= attemptedAt[b]
           /\ attemptedAt[b] <= Stamp(b) + TicksPerSecond - 1
  <1>1. attemptedAt[b] \in Nat /\ TicksPerSecond \in Nat \ {0}
    BY RulesAssumption, TimingAssumption DEF TypeOK, Times
  <1>2. attemptedAt[b] % TicksPerSecond \in 0 .. TicksPerSecond - 1
    BY <1>1
  <1> QED BY <1>1, <1>2 DEF Stamp

\* What passed the check: fewer than MaxAttempts counted, and open hours.
LEMMA AllowedMeans ==
    ASSUME NEW a \in Attempts, Allowed(RunAllRules(CheckRequest(a)))
    PROVE  /\ ~ FrequencyCapRule(CheckRequest(a))
           /\ ~ TimeWindowRule(CheckRequest(a))
  <1>1. ~ Violates("frequency_cap", CheckRequest(a)) /\ ~ Violates("time_window", CheckRequest(a))
    BY DEF Allowed, RunAllRules, DefaultRules
  <1> QED BY <1>1 DEF Violates

\* The rule counts the rows read whose stamps are in the window.
LEMMA CountedNow ==
    ASSUME NEW a \in Attempts
    PROVE  Counted(CheckRequest(a)) = {b \in seen[a] : Stamp(b) \in clock - Window .. clock}
  BY DEF Counted, CheckRequest

LEMMA FiniteSubsets ==
    ASSUME NEW S \in SUBSET Attempts
    PROVE  IsFiniteSet(S) /\ Cardinality(S) \in Nat
  BY TimingAssumption, FS_Subset, FS_CardinalityType

---------------------------------------------------------------------------
(* Steps.                                                                  *)

LEMMA TypeStep ==
    ASSUME TypeOK, [Next]_vars
    PROVE  TypeOK'
  <1> USE TimingAssumption DEF TypeOK, Times, Steps, Handling, Running
  <1>1. CASE UNCHANGED vars
    BY <1>1 DEF vars
  <1>2. CASE Tick
    BY <1>2 DEF Tick
  <1>3. ASSUME NEW a \in Attempts, InsertPendingAttempt(a) PROVE TypeOK'
    BY <1>3 DEF InsertPendingAttempt
  <1>4. ASSUME NEW a \in Attempts, FetchRecentContactTimestamps(a) PROVE TypeOK'
    BY <1>4 DEF FetchRecentContactTimestamps, Inserted
  <1>5. ASSUME NEW a \in Attempts, StartWorkflow(a) PROVE TypeOK'
    BY <1>5 DEF StartWorkflow
  <1>6. ASSUME NEW a \in Attempts, CheckCompliance(a) PROVE TypeOK'
    <2>1. RunAllRules(CheckRequest(a)) \in SUBSET DefaultRules
      BY DEF RunAllRules
    <2> QED BY <1>6, <2>1 DEF CheckCompliance
  <1>7. ASSUME NEW a \in Attempts, SimulateDelivery(a) PROVE TypeOK'
    BY <1>7 DEF SimulateDelivery
  <1>8. ASSUME NEW a \in Attempts, Abandon(a) PROVE TypeOK'
    BY <1>8 DEF Abandon
  <1> QED BY <1>1, <1>2, <1>3, <1>4, <1>5, <1>6, <1>7, <1>8, StepCases

LEMMA TimeStep ==
    ASSUME TypeOK, TimeInv, [Next]_vars
    PROVE  TimeInv'
  <1> USE TimingAssumption DEF TypeOK, TimeInv, Times, Steps, Handling, Running
  <1>1. CASE UNCHANGED vars
    BY <1>1 DEF vars
  <1>2. CASE Tick
    BY <1>2 DEF Tick, Deadlines
  <1>3. ASSUME NEW a \in Attempts, InsertPendingAttempt(a) PROVE TimeInv'
    BY <1>3 DEF InsertPendingAttempt
  <1>4. ASSUME NEW a \in Attempts, FetchRecentContactTimestamps(a) PROVE TimeInv'
    BY <1>4 DEF FetchRecentContactTimestamps
  <1>5. ASSUME NEW a \in Attempts, StartWorkflow(a) PROVE TimeInv'
    BY <1>5 DEF StartWorkflow
  <1>6. ASSUME NEW a \in Attempts, CheckCompliance(a) PROVE TimeInv'
    <2>1. /\ step[a] = "check" /\ UNCHANGED <<clock, attemptedAt, startedAt>>
          /\ checkedAt' = [checkedAt EXCEPT ![a] = clock]
          /\ \E next \in {"deliver", "done"} : step' = [step EXCEPT ![a] = next]
      BY <1>6 DEF CheckCompliance
    <2> QED BY <2>1
  <1>7. ASSUME NEW a \in Attempts, SimulateDelivery(a) PROVE TimeInv'
    BY <1>7 DEF SimulateDelivery
  <1>8. ASSUME NEW a \in Attempts, Abandon(a) PROVE TimeInv'
    BY <1>8 DEF Abandon
  <1> QED BY <1>1, <1>2, <1>3, <1>4, <1>5, <1>6, <1>7, <1>8, StepCases

LEMMA SeenStep ==
    ASSUME TypeOK, TimeInv, SeenInv, [Next]_vars
    PROVE  SeenInv'
  <1> USE DEF TypeOK, SeenInv, Steps, Handling, Running, Inserted
  <1>1. CASE UNCHANGED vars
    BY <1>1 DEF vars
  <1>2. CASE Tick
    BY <1>2 DEF Tick
  <1>3. ASSUME NEW a \in Attempts, InsertPendingAttempt(a) PROVE SeenInv'
    BY <1>3 DEF InsertPendingAttempt
  <1>4. ASSUME NEW a \in Attempts, FetchRecentContactTimestamps(a) PROVE SeenInv'
    <2>1. attemptedAt[a] >= clock - Window
      BY <1>4, TimingAssumption, RulesAssumption
         DEF FetchRecentContactTimestamps, TimeInv, Times
    <2> QED BY <1>4, <2>1 DEF FetchRecentContactTimestamps
  <1>5. ASSUME NEW a \in Attempts, StartWorkflow(a) PROVE SeenInv'
    BY <1>5 DEF StartWorkflow
  <1>6. ASSUME NEW a \in Attempts, CheckCompliance(a) PROVE SeenInv'
    <2>1. /\ step[a] = "check" /\ UNCHANGED seen
          /\ \E next \in {"deliver", "done"} : step' = [step EXCEPT ![a] = next]
      BY <1>6 DEF CheckCompliance
    <2> QED BY <2>1
  <1>7. ASSUME NEW a \in Attempts, SimulateDelivery(a) PROVE SeenInv'
    BY <1>7 DEF SimulateDelivery
  <1>8. ASSUME NEW a \in Attempts, Abandon(a) PROVE SeenInv'
    BY <1>8 DEF Abandon
  <1> QED BY <1>1, <1>2, <1>3, <1>4, <1>5, <1>6, <1>7, <1>8, StepCases

\* Steps that neither read nor stamp a row.
LEMMA ChainFrame ==
    ASSUME TypeOK, ChainInv, UNCHANGED <<seen, attemptedAt>>, clock' >= clock, clock' \in Times
    PROVE  ChainInv'
  <1> SUFFICES ASSUME NEW a \in Attempts, NEW m \in Attempts, AtMost(a, m)
               PROVE  AtMost(a, m)'
    BY DEF ChainInv
  <1> QED BY RulesAssumption DEF AtMost, TypeOK, Times

LEMMA ChainStep ==
    ASSUME TypeOK, TimeInv, SeenInv, ChainInv, [Next]_vars
    PROVE  ChainInv'
  <1>0. clock \in Times /\ clock \in Int
    BY DEF TypeOK, Times
  <1>1. CASE UNCHANGED vars
    BY <1>0, <1>1, ChainFrame DEF vars, Times
  <1>2. CASE Tick
    <2>1. UNCHANGED <<seen, attemptedAt>> /\ clock' >= clock /\ clock' \in Times
      BY <1>0, <1>2, TimingAssumption DEF Tick, Times
    <2> QED BY <2>1, ChainFrame
  <1>3. ASSUME NEW a \in Attempts, InsertPendingAttempt(a) PROVE ChainInv'
    <2>1. \A m \in Attempts : a \notin seen[m]
      BY <1>3 DEF InsertPendingAttempt, SeenInv, Inserted
    <2>2. \A b \in Attempts : b # a => attemptedAt'[b] = attemptedAt[b]
      BY <1>3 DEF InsertPendingAttempt, TypeOK
    <2>3. UNCHANGED <<seen, clock>>
      BY <1>3 DEF InsertPendingAttempt
    <2>4. \A m \in Attempts : seen[m] \subseteq Attempts
      BY DEF TypeOK
    <2> QED BY <2>1, <2>2, <2>3, <2>4 DEF ChainInv, AtMost
  <1>4. ASSUME NEW a \in Attempts, FetchRecentContactTimestamps(a) PROVE ChainInv'
    <2>1. /\ seen' = [seen EXCEPT ![a] = {b \in Inserted : attemptedAt[b] >= clock - Window}]
          /\ UNCHANGED <<clock, attemptedAt>>
      BY <1>4 DEF FetchRecentContactTimestamps
    <2>2. \A m \in Attempts : AtMost(m, a)'
      <3> SUFFICES ASSUME NEW m \in Attempts, NEW b \in seen'[m]
                   PROVE  b \in seen'[a] \/ attemptedAt'[b] < clock' - Window'
        BY DEF AtMost
      <3>1. b \in Inserted
        BY <2>1 DEF TypeOK, SeenInv
      <3>2. attemptedAt[b] \in Int /\ clock \in Int /\ Window \in Int
        BY <3>1, RulesAssumption DEF TypeOK, Times, Inserted
      <3> QED BY <2>1, <3>1, <3>2 DEF TypeOK
    <2>3. ASSUME NEW k \in Attempts, NEW m \in Attempts, k # a, m # a
          PROVE  AtMost(k, m)' <=> AtMost(k, m)
      BY <2>1, <2>3 DEF AtMost, TypeOK
    <2> QED BY <2>2, <2>3 DEF ChainInv
  <1>5. ASSUME NEW a \in Attempts, StartWorkflow(a) PROVE ChainInv'
    BY <1>0, <1>5, ChainFrame DEF StartWorkflow, Times
  <1>6. ASSUME NEW a \in Attempts, CheckCompliance(a) PROVE ChainInv'
    BY <1>0, <1>6, ChainFrame DEF CheckCompliance, Times
  <1>7. ASSUME NEW a \in Attempts, SimulateDelivery(a) PROVE ChainInv'
    BY <1>0, <1>7, ChainFrame DEF SimulateDelivery, Times
  <1>8. ASSUME NEW a \in Attempts, Abandon(a) PROVE ChainInv'
    BY <1>0, <1>8, ChainFrame DEF Abandon, Times
  <1> QED BY <1>1, <1>2, <1>3, <1>4, <1>5, <1>6, <1>7, <1>8, StepCases

\* What a counted and when it was checked stay as they are.
LEMMA CountedFrame ==
    ASSUME TypeOK, SeenInv, NEW a \in Attempts, UNCHANGED <<seen[a], checkedAt[a]>>,
           \A b \in Inserted : attemptedAt'[b] = attemptedAt[b]
    PROVE  CountedAt(a)' = CountedAt(a)
  BY DEF CountedAt, Stamp, SeenInv

LEMMA CheckStep ==
    ASSUME TypeOK, TimeInv, SeenInv, SendInv, CheckInv, [Next]_vars
    PROVE  CheckInv'
  <1>0. ASSUME UNCHANGED <<seen, checkedAt, sends>>,
               \A b \in Inserted : attemptedAt'[b] = attemptedAt[b],
               \A b \in Attempts : step'[b] = "deliver" => step[b] = "deliver"
        PROVE  CheckInv'
    BY <1>0, CountedFrame DEF CheckInv, Sent, HoursOpen, SeenInv
  <1>1. CASE UNCHANGED vars
    BY <1>0, <1>1 DEF vars
  <1>2. CASE Tick
    BY <1>0, <1>2 DEF Tick
  <1>3. ASSUME NEW a \in Attempts, InsertPendingAttempt(a) PROVE CheckInv'
    BY <1>0, <1>3 DEF InsertPendingAttempt, TypeOK, Inserted
  <1>4. ASSUME NEW a \in Attempts, FetchRecentContactTimestamps(a) PROVE CheckInv'
    <2>1. step[a] = "inserted" /\ UNCHANGED <<checkedAt, sends, attemptedAt>>
          /\ step' = [step EXCEPT ![a] = "counted"]
          /\ \A b \in Attempts : b # a => seen'[b] = seen[b]
      BY <1>4 DEF FetchRecentContactTimestamps, TypeOK
    <2>2. a \notin Sent
      BY <2>1 DEF SendInv, Sent
    <2> QED BY <2>1, <2>2, CountedFrame DEF CheckInv, Sent, HoursOpen, TypeOK, SeenInv
  <1>5. ASSUME NEW a \in Attempts, StartWorkflow(a) PROVE CheckInv'
    BY <1>0, <1>5 DEF StartWorkflow, TypeOK
  <1>6. ASSUME NEW a \in Attempts, CheckCompliance(a) PROVE CheckInv'
    <2>1. /\ step[a] = "check" /\ UNCHANGED <<seen, attemptedAt, sends, clock>>
          /\ checkedAt' = [checkedAt EXCEPT ![a] = clock]
          /\ step' = [step EXCEPT ![a] =
                  IF Allowed(RunAllRules(CheckRequest(a))) THEN "deliver" ELSE "done"]
      BY <1>6 DEF CheckCompliance
    <2>2. a \notin Sent /\ a \in seen[a]
      BY <2>1 DEF SendInv, Sent, SeenInv, Running
    <2>3. ASSUME step'[a] = "deliver"
          PROVE  /\ Cardinality(CountedAt(a)') < MaxAttempts
                 /\ HoursOpen(Profile[a].timezone, clock)
      <3>1. Allowed(RunAllRules(CheckRequest(a)))
        BY <2>1, <2>3 DEF TypeOK
      <3>2. CountedAt(a)' = Counted(CheckRequest(a))
        BY <2>1, CountedNow DEF CountedAt, Stamp, TypeOK
      <3>3. Cardinality(Counted(CheckRequest(a))) \in Nat
        <4>1. Counted(CheckRequest(a)) \in SUBSET Attempts
          BY CountedNow DEF TypeOK
        <4> QED BY <4>1, FiniteSubsets
      <3>4. Cardinality(CountedAt(a)') < MaxAttempts
        BY <3>1, <3>2, <3>3, AllowedMeans, RulesAssumption DEF FrequencyCapRule
      <3>5. HoursOpen(Profile[a].timezone, clock)
        BY <3>1, AllowedMeans DEF TimeWindowRule, CheckRequest, HoursOpen
      <3> QED BY <3>4, <3>5
    <2>4. ASSUME NEW b \in Attempts, b # a, step'[b] = "deliver" \/ b \in Sent'
          PROVE  /\ Cardinality(CountedAt(b)') < MaxAttempts
                 /\ HoursOpen(Profile[b].timezone, checkedAt'[b])
                 /\ b \in seen'[b]
                 /\ \A d \in seen'[b] : attemptedAt'[d] <= checkedAt'[b]
      <3>1. /\ step[b] = "deliver" \/ b \in Sent
            /\ UNCHANGED <<seen[b], checkedAt[b]>>
            /\ \A d \in Inserted : attemptedAt'[d] = attemptedAt[d]
        BY <2>1, <2>4 DEF TypeOK, Sent
      <3>2. CountedAt(b)' = CountedAt(b)
        BY <3>1, CountedFrame
      <3> QED BY <2>1, <3>1, <3>2 DEF CheckInv
    <2>5. checkedAt'[a] = clock /\ UNCHANGED seen /\ a \notin Sent'
      BY <2>1, <2>2 DEF TypeOK, Sent
    <2>6. \A b \in seen'[a] : attemptedAt'[b] <= checkedAt'[a]
      BY <2>1, <2>5 DEF TimeInv, TypeOK
    <2> QED BY <2>2, <2>3, <2>4, <2>5, <2>6 DEF CheckInv, HoursOpen
  <1>7. ASSUME NEW a \in Attempts, SimulateDelivery(a) PROVE CheckInv'
    <2>1. /\ step[a] = "deliver" /\ UNCHANGED <<seen, checkedAt, attemptedAt>>
          /\ sends' = sends \cup {[attempt |-> a, at |-> clock]}
          /\ \A b \in Attempts : b # a => step'[b] = step[b]
      BY <1>7 DEF SimulateDelivery, TypeOK
    <2>2. Sent' \subseteq Sent \cup {a}
      BY <2>1 DEF Sent
    <2>3. \A b \in Attempts : CountedAt(b)' = CountedAt(b)
      BY <2>1, CountedFrame
    <2> QED BY <2>1, <2>2, <2>3 DEF CheckInv, HoursOpen
  <1>8. ASSUME NEW a \in Attempts, Abandon(a) PROVE CheckInv'
    BY <1>0, <1>8 DEF Abandon, TypeOK
  <1> QED BY <1>1, <1>2, <1>3, <1>4, <1>5, <1>6, <1>7, <1>8, StepCases

LEMMA SendStep ==
    ASSUME TypeOK, TimeInv, SendInv, [Next]_vars
    PROVE  SendInv'
  <1> USE DEF TypeOK, SendInv, Times, Life
  <1>0. \A s \in sends : s.attempt \in Attempts /\ s.at \in Times
    OBVIOUS
  <1>1. CASE UNCHANGED vars
    BY <1>1 DEF vars
  <1>2. CASE Tick
    BY <1>0, <1>2, TimingAssumption DEF Tick
  <1>3. ASSUME NEW a \in Attempts, InsertPendingAttempt(a) PROVE SendInv'
    BY <1>0, <1>3 DEF InsertPendingAttempt
  <1>4. ASSUME NEW a \in Attempts, FetchRecentContactTimestamps(a) PROVE SendInv'
    BY <1>0, <1>4 DEF FetchRecentContactTimestamps
  <1>5. ASSUME NEW a \in Attempts, StartWorkflow(a) PROVE SendInv'
    BY <1>0, <1>5 DEF StartWorkflow
  <1>6. ASSUME NEW a \in Attempts, CheckCompliance(a) PROVE SendInv'
    BY <1>0, <1>6 DEF CheckCompliance
  <1>7. ASSUME NEW a \in Attempts, SimulateDelivery(a) PROVE SendInv'
    <2>1. clock <= attemptedAt[a] + HandlerTime + WorkflowTimeout
      BY <1>7, TimingAssumption DEF SimulateDelivery, TimeInv, Running
    <2> QED BY <1>0, <1>7, <2>1, TimingAssumption DEF SimulateDelivery
  <1>8. ASSUME NEW a \in Attempts, Abandon(a) PROVE SendInv'
    BY <1>0, <1>8 DEF Abandon
  <1> QED BY <1>1, <1>2, <1>3, <1>4, <1>5, <1>6, <1>7, <1>8, StepCases

\* A row of a protected stretch is young enough for every check in it.
LEMMA YoungEnough ==
    ASSUME TypeOK, NEW b \in Attempts, NEW at \in Times, NEW t \in Times,
           at <= attemptedAt[b] + Life, at >= t, clock <= t + Protected
    PROVE  /\ attemptedAt[b] >= clock - Window
           /\ Stamp(b) >= clock - Window
  <1>1. at \in Nat /\ t \in Nat /\ clock \in Nat /\ attemptedAt[b] \in Nat
    BY DEF TypeOK, Times
  <1>2. at <= attemptedAt[b] + HandlerTime + WorkflowTimeout
    BY <1>1, TimingAssumption DEF Life
  <1> QED BY <1>1, <1>2, StampBounds, TimingAssumption, RulesAssumption
          DEF Protected, Life

\* A row m has read and that is young enough, m has counted.
LEMMA Counts ==
    ASSUME TypeOK, TimeInv, CheckInv, NEW b \in Attempts, NEW m \in Attempts,
           step[m] = "deliver" \/ m \in Sent,
           b \in seen[m], Stamp(b) >= clock - Window
    PROVE  b \in CountedAt(m)
  <1>1. checkedAt[m] \in Int /\ clock \in Int /\ checkedAt[m] <= clock
        /\ Stamp(b) \in Int /\ attemptedAt[b] \in Int
    BY StampBounds DEF TypeOK, Times, TimeInv
  <1>2. attemptedAt[b] <= checkedAt[m]
    BY DEF CheckInv
  <1> QED BY <1>1, <1>2, StampBounds, RulesAssumption DEF CountedAt

LEMMA CoverStep ==
    ASSUME TypeOK, TimeInv, SeenInv, ChainInv, CheckInv, SendInv, CoverInv, [Next]_vars
    PROVE  CoverInv'
  <1>0. ASSUME UNCHANGED sends,
               \A m \in Sent : UNCHANGED <<seen[m], checkedAt[m]>>,
               \A b \in Inserted : attemptedAt'[b] = attemptedAt[b]
        PROVE  CoverInv'
    <2>1. \A t \in Times : Reached(t, t + Protected)' = Reached(t, t + Protected)
      BY <1>0 DEF Reached, Protected, Life
    <2>2. \A t \in Times : Reached(t, t + Protected) \subseteq Sent
      BY DEF Reached, Sent
    <2>3. Sent \subseteq Attempts
      BY DEF Sent, TypeOK
    <2>4. \A m \in Sent : CountedAt(m)' = CountedAt(m)
      BY <1>0, <2>3, CountedFrame
    <2> QED BY <2>1, <2>2, <2>4 DEF CoverInv, Times
  <1>1. CASE UNCHANGED vars
    BY <1>0, <1>1 DEF vars
  <1>2. CASE Tick
    BY <1>0, <1>2 DEF Tick
  <1>3. ASSUME NEW a \in Attempts, InsertPendingAttempt(a) PROVE CoverInv'
    BY <1>0, <1>3 DEF InsertPendingAttempt, TypeOK, Inserted
  <1>4. ASSUME NEW a \in Attempts, FetchRecentContactTimestamps(a) PROVE CoverInv'
    <2>1. a \notin Sent
      BY <1>4 DEF FetchRecentContactTimestamps, SendInv, Sent
    <2>2. \A m \in Attempts : m # a => seen'[m] = seen[m]
      BY <1>4 DEF FetchRecentContactTimestamps, TypeOK
    <2>3. Sent \subseteq Attempts
      BY DEF Sent, TypeOK
    <2> QED BY <1>0, <1>4, <2>1, <2>2, <2>3 DEF FetchRecentContactTimestamps
  <1>5. ASSUME NEW a \in Attempts, StartWorkflow(a) PROVE CoverInv'
    BY <1>0, <1>5 DEF StartWorkflow
  <1>6. ASSUME NEW a \in Attempts, CheckCompliance(a) PROVE CoverInv'
    <2>1. a \notin Sent
      BY <1>6 DEF CheckCompliance, SendInv, Sent
    <2>2. \A m \in Attempts : m # a => checkedAt'[m] = checkedAt[m]
      BY <1>6 DEF CheckCompliance, TypeOK
    <2>3. Sent \subseteq Attempts
      BY DEF Sent, TypeOK
    <2> QED BY <1>0, <1>6, <2>1, <2>2, <2>3 DEF CheckCompliance
  <1>7. ASSUME NEW a \in Attempts, SimulateDelivery(a) PROVE CoverInv'
    <2>1. /\ step[a] = "deliver" /\ UNCHANGED <<seen, checkedAt, attemptedAt, clock>>
          /\ sends' = sends \cup {[attempt |-> a, at |-> clock]}
      BY <1>7 DEF SimulateDelivery
    <2>2. \A m \in Attempts : CountedAt(m)' = CountedAt(m)
      BY <2>1, CountedFrame
    <2>3. SUFFICES ASSUME NEW t \in Times
                   PROVE  \/ Reached(t, t + Protected)' = {}
                          \/ \E m \in Reached(t, t + Protected)' :
                                Reached(t, t + Protected)' \subseteq CountedAt(m)'
      BY DEF CoverInv, Times
    <2> DEFINE R == Reached(t, t + Protected)
    <2>4. R \subseteq Sent /\ Sent \subseteq Attempts
      BY DEF Reached, Sent, TypeOK
    <2>5. CASE clock \notin t .. t + Protected
      <3>1. R' = R
        BY <2>1, <2>5 DEF Reached, Protected, Life
      <3> QED BY <2>2, <2>4, <3>1 DEF CoverInv
    <2>6. CASE clock \in t .. t + Protected
      <3>1. R' = R \cup {a}
        <4>1. R' = {s.attempt : s \in {x \in sends' : x.at \in t .. t + Protected}}
          BY DEF Reached, Protected, Life
        <4> DEFINE S == {x \in sends : x.at \in t .. t + Protected}
                   e == [attempt |-> a, at |-> clock]
        <4>2. {x \in sends' : x.at \in t .. t + Protected} = S \cup {e}
          BY <2>1, <2>6
        <4>3. R = {s.attempt : s \in S} /\ e.attempt = a
          BY DEF Reached
        <4> HIDE DEF S, e
        <4>4. {s.attempt : s \in S \cup {e}} = {s.attempt : s \in S} \cup {e.attempt}
          OBVIOUS
        <4> HIDE DEF R
        <4> QED BY <4>1, <4>2, <4>3, <4>4
      <3>2. clock \in Times /\ clock >= t /\ clock <= t + Protected
        BY <2>6 DEF TypeOK, Times
      <3>3. \A d \in R \cup {a} : attemptedAt[d] >= clock - Window /\ Stamp(d) >= clock - Window
        <4>1. clock <= attemptedAt[a] + Life
          BY <2>1, TimingAssumption DEF TimeInv, Running, Life, TypeOK, Times
        <4>2. attemptedAt[a] >= clock - Window /\ Stamp(a) >= clock - Window
          BY <3>2, <4>1, YoungEnough
        <4>3. ASSUME NEW d \in R
              PROVE  attemptedAt[d] >= clock - Window /\ Stamp(d) >= clock - Window
          <5>1. PICK s \in sends : s.attempt = d /\ s.at \in t .. t + Protected
            BY DEF Reached
          <5>2. s.at \in Times /\ d \in Attempts /\ s.at <= attemptedAt[d] + Life /\ s.at >= t
            BY <5>1 DEF TypeOK, Times, SendInv
          <5> QED BY <3>2, <5>2, YoungEnough
        <4> QED BY <4>2, <4>3
      <3>4. \A d \in R \cup {a} : ~ (attemptedAt[d] < clock - Window)
        <4>1. \A d \in R \cup {a} : attemptedAt[d] \in Int
          BY <2>4 DEF TypeOK, Times
        <4> QED BY <3>2, <3>3, <4>1, RulesAssumption DEF Times
      <3>5. a \in seen[a] /\ a \in CountedAt(a)
        BY <2>1, <3>3, Counts DEF CheckInv
      <3>6. CASE R = {}
        BY <2>2, <3>1, <3>5, <3>6
      <3>7. ASSUME NEW m \in R, R \subseteq CountedAt(m)
            PROVE  \E n \in R' : R' \subseteq CountedAt(n)'
        <4>1. m \in Attempts /\ m \in Sent
          BY <2>4
        <4>2. CASE AtMost(m, a)
          <5>1. \A d \in R : d \in seen[a]
            BY <3>7, <3>4, <4>2 DEF AtMost, CountedAt
          <5>2. \A d \in R : d \in CountedAt(a)
            BY <2>1, <2>4, <3>3, <5>1, Counts
          <5> QED BY <2>2, <3>1, <3>5, <5>2
        <4>3. CASE AtMost(a, m)
          <5>1. a \in seen[m]
            BY <3>5, <3>4, <4>3 DEF AtMost
          <5>2. a \in CountedAt(m)
            BY <3>3, <4>1, <5>1, Counts
          <5> QED BY <2>2, <3>1, <3>7, <4>1, <5>2
        <4> QED BY <4>1, <4>2, <4>3 DEF ChainInv
      <3>8. R = {} \/ \E m \in R : R \subseteq CountedAt(m)
        BY DEF CoverInv
      <3> QED BY <3>6, <3>7, <3>8
    <2> QED BY <2>5, <2>6
  <1>8. ASSUME NEW a \in Attempts, Abandon(a) PROVE CoverInv'
    BY <1>0, <1>8 DEF Abandon
  <1> QED BY <1>1, <1>2, <1>3, <1>4, <1>5, <1>6, <1>7, <1>8, StepCases

LEMMA HoursStep ==
    ASSUME TypeOK, TimeInv, SendInv, CheckInv, DeliveredInHours, [Next]_vars
    PROVE  DeliveredInHours'
  <1>1. ASSUME UNCHANGED sends PROVE DeliveredInHours'
    BY <1>1 DEF DeliveredInHours, HoursOpen
  <1>2. ASSUME NEW a \in Attempts, SimulateDelivery(a) PROVE DeliveredInHours'
    <2>1. /\ step[a] = "deliver"
          /\ sends' = sends \cup {[attempt |-> a, at |-> clock]}
      BY <1>2 DEF SimulateDelivery
    <2>2. HoursOpen(Profile[a].timezone, checkedAt[a])
      BY <2>1 DEF CheckInv
    <2>3. checkedAt[a] \in clock - WorkflowTimeout .. clock /\ checkedAt[a] >= 0
      BY <2>1, TimingAssumption DEF TimeInv, Running, TypeOK, Times
    <2> QED BY <2>1, <2>2, <2>3 DEF DeliveredInHours, HoursOpen
  <1>3. (\E a \in Attempts : SimulateDelivery(a)) \/ UNCHANGED sends
    BY StepCases DEF vars, Tick, InsertPendingAttempt, FetchRecentContactTimestamps,
                     StartWorkflow, CheckCompliance, Abandon
  <1> QED BY <1>1, <1>2, <1>3

\* The rows in the window of a's check.
RowsInWindow(a) ==
    {b \in Inserted : attemptedAt[b] \in checkedAt[a] - Window .. checkedAt[a]}

LEMMA LimitStep ==
    ASSUME TypeOK, TimeInv, SeenInv, CapBlocksOnlyAtLimit, [Next]_vars
    PROVE  CapBlocksOnlyAtLimit'
  <1>0. ASSUME NEW a \in Attempts, UNCHANGED <<violations[a], checkedAt[a]>>,
               Inserted \subseteq Inserted',
               \A b \in Inserted : attemptedAt'[b] = attemptedAt[b]
        PROVE  "frequency_cap" \in violations'[a]
                  => Cardinality(RowsInWindow(a)') >= MaxAttempts
    <2>1. RowsInWindow(a) \subseteq RowsInWindow(a)'
      BY <1>0 DEF RowsInWindow
    <2>2. RowsInWindow(a)' \in SUBSET Attempts
      BY DEF RowsInWindow, Inserted
    <2>3. Cardinality(RowsInWindow(a)) <= Cardinality(RowsInWindow(a)')
          /\ Cardinality(RowsInWindow(a)) \in Nat /\ Cardinality(RowsInWindow(a)') \in Nat
      BY <2>1, <2>2, FiniteSubsets, FS_Subset
    <2> QED BY <1>0, <2>3, RulesAssumption DEF CapBlocksOnlyAtLimit, RowsInWindow
  <1>1. ASSUME UNCHANGED <<violations, checkedAt>>, Inserted \subseteq Inserted',
               \A b \in Inserted : attemptedAt'[b] = attemptedAt[b]
        PROVE  CapBlocksOnlyAtLimit'
    BY <1>0, <1>1 DEF CapBlocksOnlyAtLimit, RowsInWindow
  <1>2. CASE UNCHANGED vars
    BY <1>1, <1>2 DEF vars, Inserted
  <1>3. CASE Tick
    BY <1>1, <1>3 DEF Tick, Inserted
  <1>4. ASSUME NEW a \in Attempts, InsertPendingAttempt(a) PROVE CapBlocksOnlyAtLimit'
    BY <1>1, <1>4 DEF InsertPendingAttempt, TypeOK, Inserted
  <1>5. ASSUME NEW a \in Attempts, FetchRecentContactTimestamps(a) PROVE CapBlocksOnlyAtLimit'
    BY <1>1, <1>5 DEF FetchRecentContactTimestamps, TypeOK, Inserted
  <1>6. ASSUME NEW a \in Attempts, StartWorkflow(a) PROVE CapBlocksOnlyAtLimit'
    BY <1>1, <1>6 DEF StartWorkflow, TypeOK, Inserted
  <1>7. ASSUME NEW a \in Attempts, CheckCompliance(a) PROVE CapBlocksOnlyAtLimit'
    <2>1. /\ UNCHANGED <<seen, attemptedAt>> /\ UNCHANGED Inserted
          /\ checkedAt' = [checkedAt EXCEPT ![a] = clock]
          /\ violations' = [violations EXCEPT ![a] = RunAllRules(CheckRequest(a))]
      BY <1>7 DEF CheckCompliance, TypeOK, Inserted
    <2>2. ASSUME "frequency_cap" \in violations'[a]
          PROVE  Cardinality(RowsInWindow(a)') >= MaxAttempts
      <3>1. FrequencyCapRule(CheckRequest(a))
        BY <2>1, <2>2 DEF RunAllRules, Violates, TypeOK
      <3>2. Counted(CheckRequest(a)) \subseteq RowsInWindow(a)'
        <4>1. SUFFICES ASSUME NEW b \in seen[a], Stamp(b) \in clock - Window .. clock
                       PROVE  b \in RowsInWindow(a)'
          BY CountedNow
        <4>2. b \in Inserted /\ b \in Attempts
          BY DEF SeenInv, Inserted
        <4>3. attemptedAt[b] \in Int /\ clock \in Int /\ attemptedAt[b] <= clock
          BY <4>2 DEF TypeOK, Times, TimeInv
        <4>4. attemptedAt[b] \in clock - Window .. clock
          BY <4>1, <4>2, <4>3, StampBounds, RulesAssumption
        <4> QED BY <2>1, <4>2, <4>4 DEF RowsInWindow, TypeOK
      <3>3. RowsInWindow(a)' \in SUBSET Attempts
        BY DEF RowsInWindow, Inserted
      <3>4. Cardinality(Counted(CheckRequest(a))) <= Cardinality(RowsInWindow(a)')
            /\ Cardinality(Counted(CheckRequest(a))) \in Nat
            /\ Cardinality(RowsInWindow(a)') \in Nat
        BY <3>2, <3>3, FiniteSubsets, FS_Subset
      <3> QED BY <3>1, <3>4, RulesAssumption DEF FrequencyCapRule
    <2>3. \A b \in Attempts : b # a => UNCHANGED <<violations[b], checkedAt[b]>>
      BY <2>1 DEF TypeOK
    <2>4. Inserted \subseteq Inserted' /\ \A b \in Inserted : attemptedAt'[b] = attemptedAt[b]
      BY <2>1
    <2> QED BY <1>0, <2>2, <2>3, <2>4 DEF CapBlocksOnlyAtLimit, RowsInWindow
  <1>8. ASSUME NEW a \in Attempts, SimulateDelivery(a) PROVE CapBlocksOnlyAtLimit'
    BY <1>1, <1>8 DEF SimulateDelivery, TypeOK, Inserted
  <1>9. ASSUME NEW a \in Attempts, Abandon(a) PROVE CapBlocksOnlyAtLimit'
    BY <1>1, <1>9 DEF Abandon, TypeOK, Inserted
  <1> QED BY <1>2, <1>3, <1>4, <1>5, <1>6, <1>7, <1>8, <1>9, StepCases

\* The invariant holds in every reachable state.
LEMMA Invariance == Spec => []IInv
  <1>1. Init => IInv
    <2> SUFFICES ASSUME Init PROVE IInv
      OBVIOUS
    <2>1. TypeOK
      BY TimingAssumption DEF Init, TypeOK, Times, Steps
    <2>2. TimeInv /\ SeenInv /\ ChainInv
      BY DEF Init, TimeInv, SeenInv, ChainInv, AtMost, Handling, Running, Inserted
    <2>3. sends = {} /\ Sent = {} /\ \A t \in Times : Reached(t, t + Protected) = {}
      BY DEF Init, Sent, Reached
    <2>4. CheckInv /\ SendInv /\ CoverInv /\ DeliveredInHours /\ CapBlocksOnlyAtLimit
      BY <2>3 DEF Init, CheckInv, SendInv, CoverInv, DeliveredInHours, CapBlocksOnlyAtLimit
    <2> QED BY <2>1, <2>2, <2>4 DEF IInv
  <1>2. IInv /\ [Next]_vars => IInv'
    BY TypeStep, TimeStep, SeenStep, ChainStep, CheckStep, SendStep, CoverStep,
       HoursStep, LimitStep DEF IInv
  <1> QED BY <1>1, <1>2, PTL DEF Spec

---------------------------------------------------------------------------
(* The theorems.                                                           *)

\* Every reachable state of the timed attempts is of its type.
THEOREM TypeCorrect == Spec => []TypeOK
  <1>1. IInv => TypeOK
    BY DEF IInv
  <1> QED BY <1>1, Invariance, PTL

\* The cap protects every stretch of the window less the life of an attempt,
\* whatever attempts overlap and wherever the stretch begins.
THEOREM CapProtects == Spec => []CapPerWindow
  <1>1. IInv => CapPerWindow
    <2> SUFFICES ASSUME IInv, NEW t \in Times
                 PROVE  Cardinality(Reached(t, t + Protected)) < MaxAttempts
      BY DEF CapPerWindow
    <2> DEFINE R == Reached(t, t + Protected)
    <2>1. CASE R = {}
      BY <2>1, FS_EmptySet, RulesAssumption
    <2>2. ASSUME NEW m \in R, R \subseteq CountedAt(m) PROVE Cardinality(R) < MaxAttempts
      <3>1. m \in Attempts /\ m \in Sent
        BY DEF Reached, Sent, IInv, TypeOK
      <3>2. CountedAt(m) \in SUBSET Attempts
        BY <3>1 DEF CountedAt, IInv, TypeOK
      <3>3. /\ Cardinality(R) <= Cardinality(CountedAt(m))
            /\ Cardinality(R) \in Nat /\ Cardinality(CountedAt(m)) \in Nat
        BY <2>2, <3>2, FiniteSubsets, FS_Subset
      <3>4. Cardinality(CountedAt(m)) < MaxAttempts
        BY <3>1 DEF IInv, CheckInv
      <3> QED BY <3>3, <3>4, RulesAssumption
    <2> QED BY <2>1, <2>2 DEF IInv, CoverInv
  <1> QED BY <1>1, Invariance, PTL

\* Every delivery comes within the workflow's timeout of open hours.
THEOREM HoursKept == Spec => []DeliveredInHours
  <1>1. IInv => DeliveredInHours
    BY DEF IInv
  <1> QED BY <1>1, Invariance, PTL

\* The cap refuses an attempt only with MaxAttempts rows in the window.
THEOREM CapIsExact == Spec => []CapBlocksOnlyAtLimit
  <1>1. IInv => CapBlocksOnlyAtLimit
    BY DEF IInv
  <1> QED BY <1>1, Invariance, PTL

=============================================================================
