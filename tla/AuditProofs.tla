---------------------------- MODULE AuditProofs ----------------------------
(***************************************************************************)
(* Invariance proofs for Audit, for any set of messages and any number of  *)
(* deliveries side by side.                                                *)
(***************************************************************************)
EXTENDS Audit, FiniteSetTheorems, FunctionTheorems, TLAPS

---------------------------------------------------------------------------
(* What equal keys say of two messages.                                    *)

\* The topic and the entity are part of every key.
LEMMA KeyNamesEntity ==
    ASSUME NEW m \in Messages, NEW n \in SameKey(m)
    PROVE  n.topic = m.topic /\ n.entity = m.entity
  <1>1. n \in Messages /\ DedupKey(n) = DedupKey(m)
    BY DEF SameKey
  <1>2. m.topic \in Topics /\ n.topic \in Topics
    BY <1>1, AuditAssumption
  <1>3. DedupKey(m)[1] = m.topic /\ DedupKey(m)[2] = m.entity
    BY <1>2 DEF DedupKey, Topics
  <1>4. DedupKey(n)[1] = n.topic /\ DedupKey(n)[2] = n.entity
    BY <1>2 DEF DedupKey, Topics
  <1> QED BY <1>1, <1>3, <1>4

\* So is the kind, but for the two topics that have one kind of event.
LEMMA KeyNamesKind ==
    ASSUME NEW m \in Messages, NEW n \in SameKey(m),
           m.topic \notin {"contact-attempted", "interaction-created"}
    PROVE  n.kind = m.kind
  <1>1. n \in Messages /\ DedupKey(n) = DedupKey(m) /\ n.topic = m.topic
    BY KeyNamesEntity DEF SameKey
  <1>2. m.topic \in Topics
    BY AuditAssumption
  <1>3. DedupKey(m)[3] = m.kind
    BY <1>2 DEF DedupKey, Topics
  <1>4. DedupKey(n)[3] = n.kind
    BY <1>1, <1>2 DEF DedupKey, Topics
  <1> QED BY <1>1, <1>3, <1>4

\* And so is the time of a consent change and of a payment.
LEMMA KeyNamesTime ==
    ASSUME NEW m \in Messages, NEW n \in SameKey(m),
           m.topic = "consent-changed"
             \/ (m.topic = "payment-updated" /\ m.kind = "payment_received")
    PROVE  n.at = m.at
  <1>1. n \in Messages /\ DedupKey(n) = DedupKey(m) /\ n.topic = m.topic
        /\ n.kind = m.kind
    BY KeyNamesEntity, KeyNamesKind DEF SameKey
  <1>2. DedupKey(m)[4] = m.at
    BY DEF DedupKey
  <1>3. DedupKey(n)[4] = n.at
    BY <1>1 DEF DedupKey
  <1> QED BY <1>1, <1>2, <1>3

---------------------------------------------------------------------------
(* The inductive invariant.                                                *)

\* An acknowledged message has a row of its key.
KeyOnRecord == \A m \in acked : IsDuplicate(m)

\* The rows of a message are numbered up to how many there are.
CopyInv ==
    /\ \A m \in Messages : IsFiniteSet(RowsOf(m))
    /\ \A r \in log : r.copy <= Cardinality(RowsOf(r.message))

\* The deliveries about to insert a row of a key.
InsertingKey(m) == {i \in inserting : i.message \in SameKey(m)}

\* Rows and rows to come: PassCheck adds one to come only while the key has no
\* row, when it has no more than the deliveries there are.
BoundInv ==
    /\ \A i, j \in inserting : i.by = j.by => i = j
    /\ \A m \in Messages :
          /\ IsFiniteSet(RowsOfKey(m))
          /\ Cardinality(RowsOfKey(m)) + Cardinality(InsertingKey(m))
                <= Cardinality(Deliveries) + checkErrors

IInv == TypeOK /\ KeyOnRecord /\ CopyInv /\ BoundInv

\* A step is a stutter, an event published, or one statement of a delivery.
LEMMA StepCases ==
    ASSUME [Next]_vars
    PROVE  \/ UNCHANGED vars
           \/ \E m \in Messages : Publish(m)
           \/ \E d \in Deliveries, m \in Messages :
                 SkipDuplicate(d, m) \/ PassCheck(d, m) \/ CheckFails(d, m)
           \/ \E i \in inserting : Insert(i) \/ InsertUnacked(i) \/ InsertFails(i)
  BY DEF Next

\* Type correctness.
LEMMA TypeStep ==
    ASSUME TypeOK, CopyInv, [Next]_vars
    PROVE  TypeOK'
  <1> USE AuditAssumption
  <1>1. CASE UNCHANGED vars
    BY <1>1 DEF vars, TypeOK
  <1>2. ASSUME NEW m \in Messages, Publish(m) PROVE TypeOK'
    BY <1>2 DEF Publish, TypeOK
  <1>3. ASSUME NEW d \in Deliveries, NEW m \in Messages, SkipDuplicate(d, m) PROVE TypeOK'
    BY <1>3 DEF SkipDuplicate, TypeOK
  <1>4. ASSUME NEW d \in Deliveries, NEW m \in Messages, PassCheck(d, m) PROVE TypeOK'
    BY <1>4 DEF PassCheck, TypeOK
  <1>5. ASSUME NEW d \in Deliveries, NEW m \in Messages, CheckFails(d, m) PROVE TypeOK'
    BY <1>5 DEF CheckFails, TypeOK
  <1>6. ASSUME NEW i \in inserting, Insert(i) \/ InsertUnacked(i) PROVE TypeOK'
    <2>1. i.message \in Messages /\ i.message \in published
      BY DEF TypeOK
    <2>2. Cardinality(RowsOf(i.message)) + 1 \in Nat \ {0}
      <3>1. Cardinality(RowsOf(i.message)) \in Nat
        BY <2>1, FS_CardinalityType DEF CopyInv
      <3> QED BY <3>1
    <2>3. log' \subseteq [message : published, copy : Nat \ {0}]
      BY <1>6, <2>1, <2>2 DEF Insert, InsertUnacked, Record, TypeOK
    <2> QED BY <1>6, <2>1, <2>3 DEF Insert, InsertUnacked, TypeOK
  <1>7. ASSUME NEW i \in inserting, InsertFails(i) PROVE TypeOK'
    BY <1>7 DEF InsertFails, TypeOK
  <1> QED BY <1>1, <1>2, <1>3, <1>4, <1>5, <1>6, <1>7, StepCases

\* Rows are never taken away, so a key once on record stays there.
LEMMA RecordGrows ==
    ASSUME TypeOK, [Next]_vars, NEW m \in Messages, IsDuplicate(m)
    PROVE  IsDuplicate(m)'
  <1>1. log \subseteq log'
    <2>1. ASSUME NEW i \in inserting, Insert(i) \/ InsertUnacked(i) PROVE log \subseteq log'
      BY <2>1 DEF Insert, InsertUnacked, Record
    <2>2. ASSUME ~ (\E i \in inserting : Insert(i) \/ InsertUnacked(i)) PROVE UNCHANGED log
      BY <2>2, StepCases
         DEF vars, Publish, SkipDuplicate, PassCheck, CheckFails, InsertFails
    <2> QED BY <2>1, <2>2
  <1> QED BY <1>1 DEF IsDuplicate, RowsOfKey, SameKey

\* A delivery acknowledges a message when its key is on record, or puts it
\* there.
LEMMA RecordStep ==
    ASSUME TypeOK, KeyOnRecord, [Next]_vars
    PROVE  KeyOnRecord'
  <1> SUFFICES ASSUME NEW m \in acked' PROVE IsDuplicate(m)'
    BY DEF KeyOnRecord
  <1>1. CASE m \in acked
    BY <1>1, RecordGrows DEF KeyOnRecord, TypeOK
  <1>2. CASE m \notin acked
    <2>1. \/ \E d \in Deliveries : SkipDuplicate(d, m)
          \/ \E i \in inserting : Insert(i) /\ i.message = m
      BY <1>2, StepCases
         DEF vars, Publish, SkipDuplicate, PassCheck, CheckFails, Insert,
             InsertUnacked, InsertFails
    <2>2. ASSUME NEW d \in Deliveries, SkipDuplicate(d, m) PROVE IsDuplicate(m)'
      BY <2>2, RecordGrows DEF SkipDuplicate, TypeOK
    <2>3. ASSUME NEW i \in inserting, Insert(i), i.message = m PROVE IsDuplicate(m)'
      <3> DEFINE r == [message |-> m, copy |-> Cardinality(RowsOf(m)) + 1]
      <3>1. m \in Messages /\ r \in log' /\ r.message = m
        BY <2>3 DEF Insert, Record, TypeOK
      <3> HIDE DEF r
      <3> QED BY <3>1 DEF IsDuplicate, RowsOfKey, SameKey
    <2> QED BY <2>1, <2>2, <2>3
  <1> QED BY <1>1, <1>2

\* A new row is numbered above the message's others.
LEMMA RecordFresh ==
    ASSUME TypeOK, CopyInv, NEW m \in Messages, Record(m)
    PROVE  /\ \E r : /\ r \notin log /\ log' = log \cup {r} /\ r.message = m
                     /\ r.copy = Cardinality(RowsOf(m)) + 1
           /\ CopyInv'
  <1> DEFINE r == [message |-> m, copy |-> Cardinality(RowsOf(m)) + 1]
  <1>1. log' = log \cup {r} /\ r.message = m /\ r.copy = Cardinality(RowsOf(m)) + 1
    BY DEF Record
  <1> HIDE DEF r
  <1>2. Cardinality(RowsOf(m)) \in Nat
    BY FS_CardinalityType DEF CopyInv
  <1>3. r \notin log
    BY <1>1, <1>2 DEF CopyInv
  <1>4. /\ RowsOf(m)' = RowsOf(m) \cup {r} /\ r \notin RowsOf(m)
        /\ \A n \in Messages : n # m => RowsOf(n)' = RowsOf(n)
    BY <1>1, <1>3 DEF RowsOf
  <1>5. /\ IsFiniteSet(RowsOf(m)')
        /\ Cardinality(RowsOf(m)') = Cardinality(RowsOf(m)) + 1
    BY <1>4, FS_AddElement DEF CopyInv
  <1>6. \A x \in log' : x.copy <= Cardinality(RowsOf(x.message)')
    <2> SUFFICES ASSUME NEW x \in log' PROVE x.copy <= Cardinality(RowsOf(x.message)')
      OBVIOUS
    <2>1. CASE x = r
      <3>1. x.message = m /\ x.copy = Cardinality(RowsOf(m)')
        BY <1>1, <1>5, <2>1
      <3> QED BY <1>2, <1>5, <3>1
    <2>2. CASE x \in log
      <3>1. x.message \in Messages /\ x.copy \in Nat
            /\ x.copy <= Cardinality(RowsOf(x.message))
        BY <2>2 DEF TypeOK, CopyInv
      <3>2. CASE x.message = m
        <4>1. x.copy <= Cardinality(RowsOf(m))
          BY <3>1, <3>2
        <4> QED BY <1>2, <1>5, <3>1, <3>2, <4>1
      <3>3. CASE x.message # m
        <4>1. RowsOf(x.message)' = RowsOf(x.message)
          BY <1>4, <3>1, <3>3
        <4> QED BY <3>1, <4>1
      <3> QED BY <3>2, <3>3
    <2> QED BY <1>1, <2>1, <2>2
  <1>7. CopyInv'
    BY <1>4, <1>5, <1>6 DEF CopyInv, RowsOf
  <1> QED BY <1>1, <1>3, <1>7

\* The numbering survives every step: only Record adds rows.
LEMMA CopyStep ==
    ASSUME TypeOK, CopyInv, [Next]_vars
    PROVE  CopyInv'
  <1>1. CASE UNCHANGED log
    BY <1>1 DEF CopyInv, RowsOf
  <1>2. ASSUME NEW i \in inserting, Insert(i) \/ InsertUnacked(i) PROVE CopyInv'
    BY <1>2, RecordFresh DEF Insert, InsertUnacked, TypeOK
  <1>3. ASSUME ~ (\E i \in inserting : Insert(i) \/ InsertUnacked(i)) PROVE UNCHANGED log
    BY <1>3, StepCases
       DEF vars, Publish, SkipDuplicate, PassCheck, CheckFails, InsertFails
  <1> QED BY <1>1, <1>2, <1>3

\* No more deliveries are about to insert than there are.
LEMMA InsertingBound ==
    ASSUME NEW S \in SUBSET [by : Deliveries, message : Messages],
           \A i, j \in S : i.by = j.by => i = j
    PROVE  IsFiniteSet(S) /\ Cardinality(S) <= Cardinality(Deliveries)
  <1> DEFINE f == [i \in S |-> i.by]
  <1>1. f \in [S -> Deliveries]
    OBVIOUS
  <1>2. \A i, j \in S : f[i] = f[j] => i = j
    OBVIOUS
  <1>3. f \in Injection(S, Deliveries)
    BY <1>1, <1>2, Fun_IsInj
  <1> HIDE DEF f
  <1> QED BY <1>3, FS_Injection, AuditAssumption

\* The rows of a key and the deliveries about to add one stay bounded.
LEMMA BoundStep ==
    ASSUME TypeOK, CopyInv, BoundInv, [Next]_vars
    PROVE  BoundInv'
  <1> USE AuditAssumption
  <1>0. /\ Cardinality(Deliveries) \in Nat /\ checkErrors \in Nat
        /\ IsFiniteSet(inserting)
        /\ \A m \in Messages :
              /\ Cardinality(RowsOfKey(m)) \in Nat
              /\ IsFiniteSet(InsertingKey(m)) /\ Cardinality(InsertingKey(m)) \in Nat
    <2>1. IsFiniteSet(inserting)
      BY InsertingBound DEF TypeOK, BoundInv
    <2>2. \A m \in Messages : IsFiniteSet(InsertingKey(m))
      BY <2>1, FS_Subset DEF InsertingKey
    <2> QED BY <2>1, <2>2, FS_CardinalityType DEF TypeOK, BoundInv
  <1>1. CASE UNCHANGED <<inserting, log, checkErrors>>
    BY <1>1 DEF BoundInv, RowsOfKey, InsertingKey
  <1>2. ASSUME NEW i \in inserting, inserting' = inserting \ {i}, checkErrors' = checkErrors,
               NEW m \in Messages, i.message \in SameKey(m)
        PROVE  Cardinality(InsertingKey(m)') = Cardinality(InsertingKey(m)) - 1
    <2>1. InsertingKey(m)' = InsertingKey(m) \ {i} /\ i \in InsertingKey(m)
      BY <1>2 DEF InsertingKey, SameKey
    <2> QED BY <1>0, <2>1, FS_RemoveElement
  <1>3. ASSUME NEW i \in inserting, inserting' = inserting \ {i},
               NEW m \in Messages, i.message \notin SameKey(m)
        PROVE  InsertingKey(m)' = InsertingKey(m)
    BY <1>3 DEF InsertingKey, SameKey
  <1>4. ASSUME NEW i \in inserting, Insert(i) \/ InsertUnacked(i) PROVE BoundInv'
    <2>1. i.message \in Messages /\ Record(i.message) /\ inserting' = inserting \ {i}
          /\ checkErrors' = checkErrors
      BY <1>4 DEF Insert, InsertUnacked, TypeOK
    <2>2. PICK r : r \notin log /\ log' = log \cup {r} /\ r.message = i.message
      BY <2>1, RecordFresh
    <2>3. ASSUME NEW m \in Messages
          PROVE  /\ IsFiniteSet(RowsOfKey(m)')
                 /\ Cardinality(RowsOfKey(m)') + Cardinality(InsertingKey(m)')
                       <= Cardinality(Deliveries) + checkErrors
      <3>1. CASE i.message \in SameKey(m)
        <4>1. RowsOfKey(m)' = RowsOfKey(m) \cup {r} /\ r \notin RowsOfKey(m)
          BY <2>2, <3>1 DEF RowsOfKey, SameKey
        <4>2. /\ IsFiniteSet(RowsOfKey(m)')
              /\ Cardinality(RowsOfKey(m)') = Cardinality(RowsOfKey(m)) + 1
          BY <4>1, FS_AddElement DEF BoundInv
        <4>3. Cardinality(InsertingKey(m)') = Cardinality(InsertingKey(m)) - 1
          BY <1>2, <2>1, <3>1
        <4>4. Cardinality(RowsOfKey(m)) + Cardinality(InsertingKey(m))
                 <= Cardinality(Deliveries) + checkErrors
          BY DEF BoundInv
        <4> QED BY <1>0, <4>2, <4>3, <4>4
      <3>2. CASE i.message \notin SameKey(m)
        <4>1. RowsOfKey(m)' = RowsOfKey(m)
          BY <2>2, <3>2 DEF RowsOfKey, SameKey
        <4> QED BY <1>3, <2>1, <3>2, <4>1 DEF BoundInv
      <3> QED BY <3>1, <3>2
    <2> QED BY <2>1, <2>3 DEF BoundInv
  <1>5. ASSUME NEW i \in inserting, InsertFails(i) PROVE BoundInv'
    <2>1. inserting' = inserting \ {i} /\ UNCHANGED <<log, checkErrors>>
      BY <1>5 DEF InsertFails
    <2>2. ASSUME NEW m \in Messages
          PROVE  /\ RowsOfKey(m)' = RowsOfKey(m)
                 /\ Cardinality(InsertingKey(m)') <= Cardinality(InsertingKey(m))
      <3>1. RowsOfKey(m)' = RowsOfKey(m) /\ InsertingKey(m)' \subseteq InsertingKey(m)
        BY <2>1 DEF RowsOfKey, InsertingKey, SameKey
      <3> QED BY <1>0, <3>1, FS_Subset
    <2>3. ASSUME NEW m \in Messages
          PROVE  Cardinality(InsertingKey(m)') \in Nat
      <3>1. InsertingKey(m)' \subseteq InsertingKey(m)
        BY <2>1 DEF InsertingKey, SameKey
      <3> QED BY <1>0, <3>1, FS_Subset, FS_CardinalityType
    <2>4. ASSUME NEW m \in Messages
          PROVE  Cardinality(RowsOfKey(m)') + Cardinality(InsertingKey(m)')
                       <= Cardinality(Deliveries) + checkErrors
      <3>1. Cardinality(RowsOfKey(m)) + Cardinality(InsertingKey(m))
                 <= Cardinality(Deliveries) + checkErrors
        BY DEF BoundInv
      <3> QED BY <1>0, <2>2, <2>3, <3>1
    <2> QED BY <2>1, <2>2, <2>4 DEF BoundInv
  <1>6. ASSUME NEW d \in Deliveries, NEW n \in Messages, Idle(d), log' = log,
               inserting' = inserting \cup {[by |-> d, message |-> n]}
        PROVE  /\ \A i, j \in inserting' : i.by = j.by => i = j
               /\ inserting' \subseteq [by : Deliveries, message : Messages]
    BY <1>6 DEF Idle, BoundInv, TypeOK
  <1>7. ASSUME NEW d \in Deliveries, NEW n \in Messages, PassCheck(d, n) PROVE BoundInv'
    <2>1. Idle(d) /\ ~ IsDuplicate(n) /\ UNCHANGED <<log, checkErrors>>
          /\ inserting' = inserting \cup {[by |-> d, message |-> n]}
      BY <1>7 DEF PassCheck
    <2>2. /\ \A i, j \in inserting' : i.by = j.by => i = j
          /\ inserting' \subseteq [by : Deliveries, message : Messages]
      BY <1>6, <2>1
    <2>3. ASSUME NEW m \in Messages
          PROVE  /\ IsFiniteSet(RowsOfKey(m)')
                 /\ Cardinality(RowsOfKey(m)') + Cardinality(InsertingKey(m)')
                       <= Cardinality(Deliveries) + checkErrors
      <3>0. RowsOfKey(m)' = RowsOfKey(m)
        BY <2>1 DEF RowsOfKey, SameKey
      <3>1. CASE n \in SameKey(m)
        <4>1. SameKey(n) = SameKey(m)
          BY <3>1 DEF SameKey
        <4>2. RowsOfKey(m) = {}
          BY <2>1, <4>1 DEF IsDuplicate, RowsOfKey
        <4>3. InsertingKey(m)' \subseteq inserting'
          BY DEF InsertingKey, SameKey
        <4>4. /\ IsFiniteSet(InsertingKey(m)')
              /\ Cardinality(InsertingKey(m)') <= Cardinality(Deliveries)
          BY <2>2, <4>3, InsertingBound
        <4>5. Cardinality(InsertingKey(m)') \in Nat
          BY <4>4, FS_CardinalityType
        <4>6. Cardinality(RowsOfKey(m)') = 0 /\ IsFiniteSet(RowsOfKey(m)')
          BY <3>0, <4>2, FS_EmptySet
        <4> QED BY <1>0, <4>4, <4>5, <4>6
      <3>2. CASE n \notin SameKey(m)
        <4>1. InsertingKey(m)' = InsertingKey(m)
          BY <2>1, <3>2 DEF InsertingKey, SameKey
        <4> QED BY <3>0, <4>1 DEF BoundInv
      <3> QED BY <3>1, <3>2
    <2> QED BY <2>1, <2>2, <2>3 DEF BoundInv
  <1>8. ASSUME NEW d \in Deliveries, NEW n \in Messages, CheckFails(d, n) PROVE BoundInv'
    <2>1. Idle(d) /\ UNCHANGED log /\ checkErrors' = checkErrors + 1
          /\ inserting' = inserting \cup {[by |-> d, message |-> n]}
      BY <1>8 DEF CheckFails
    <2>2. \A i, j \in inserting' : i.by = j.by => i = j
      BY <1>6, <2>1
    <2>3. ASSUME NEW m \in Messages
          PROVE  /\ IsFiniteSet(RowsOfKey(m)')
                 /\ Cardinality(RowsOfKey(m)') + Cardinality(InsertingKey(m)')
                       <= Cardinality(Deliveries) + checkErrors'
      <3>0. RowsOfKey(m)' = RowsOfKey(m)
        BY <2>1 DEF RowsOfKey, SameKey
      <3>1. InsertingKey(m)' \subseteq InsertingKey(m) \cup {[by |-> d, message |-> n]}
        BY <2>1 DEF InsertingKey, SameKey
      <3>2. /\ IsFiniteSet(InsertingKey(m) \cup {[by |-> d, message |-> n]})
            /\ Cardinality(InsertingKey(m) \cup {[by |-> d, message |-> n]})
                  <= Cardinality(InsertingKey(m)) + 1
        <4>1. IsFiniteSet(InsertingKey(m)) /\ Cardinality(InsertingKey(m)) \in Nat
          BY <1>0
        <4> DEFINE S == InsertingKey(m)
                   x == [by |-> d, message |-> n]
        <4> HIDE DEF S, x
        <4>2. /\ IsFiniteSet(S \cup {x})
              /\ \/ Cardinality(S \cup {x}) = Cardinality(S)
                 \/ Cardinality(S \cup {x}) = Cardinality(S) + 1
          BY <4>1, FS_AddElement DEF S
        <4> QED BY <4>1, <4>2 DEF S, x
      <3>3. Cardinality(InsertingKey(m) \cup {[by |-> d, message |-> n]}) \in Nat
        BY <3>2, FS_CardinalityType
      <3>4. /\ Cardinality(InsertingKey(m)') <= Cardinality(InsertingKey(m)) + 1
            /\ Cardinality(InsertingKey(m)') \in Nat
        <4>1. /\ IsFiniteSet(InsertingKey(m)')
              /\ Cardinality(InsertingKey(m)')
                    <= Cardinality(InsertingKey(m) \cup {[by |-> d, message |-> n]})
          BY <3>1, <3>2, FS_Subset
        <4>2. Cardinality(InsertingKey(m)') \in Nat
          BY <4>1, FS_CardinalityType
        <4> QED BY <1>0, <3>2, <3>3, <4>1, <4>2
      <3>5. Cardinality(RowsOfKey(m)) + Cardinality(InsertingKey(m))
                 <= Cardinality(Deliveries) + checkErrors
        BY DEF BoundInv
      <3> QED BY <1>0, <2>1, <3>0, <3>4, <3>5 DEF BoundInv
    <2> QED BY <2>2, <2>3 DEF BoundInv
  <1>9. CASE UNCHANGED vars
    BY <1>1, <1>9 DEF vars
  <1>10. ASSUME NEW m \in Messages, Publish(m) PROVE BoundInv'
    BY <1>1, <1>10 DEF Publish
  <1>11. ASSUME NEW d \in Deliveries, NEW m \in Messages, SkipDuplicate(d, m) PROVE BoundInv'
    BY <1>1, <1>11 DEF SkipDuplicate
  <1> QED BY <1>4, <1>5, <1>7, <1>8, <1>9, <1>10, <1>11, StepCases

\* The invariant holds in every reachable state.
LEMMA Invariance == Spec => []IInv
  <1>1. Init => IInv
    <2> SUFFICES ASSUME Init PROVE IInv
      OBVIOUS
    <2>1. \A m \in Messages : RowsOf(m) = {} /\ RowsOfKey(m) = {} /\ InsertingKey(m) = {}
      BY DEF Init, RowsOf, RowsOfKey, InsertingKey
    <2>2. Cardinality(Deliveries) \in Nat
      BY AuditAssumption, FS_CardinalityType
    <2>3. IsFiniteSet({}) /\ Cardinality({}) = 0
      BY FS_EmptySet
    <2>4. CopyInv
      BY <2>1, <2>3 DEF Init, CopyInv
    <2>5. /\ \A m \in Messages : IsFiniteSet(RowsOfKey(m)) /\ Cardinality(RowsOfKey(m)) = 0
          /\ \A m \in Messages : Cardinality(InsertingKey(m)) = 0
      BY <2>1, <2>3
    <2>6. inserting = {} /\ checkErrors = 0
      BY DEF Init
    <2>7. BoundInv
      BY <2>2, <2>5, <2>6 DEF BoundInv
    <2> QED BY <2>4, <2>7, AuditAssumption DEF Init, IInv, TypeOK, KeyOnRecord
  <1>2. IInv /\ [Next]_vars => IInv'
    BY TypeStep, RecordStep, CopyStep, BoundStep DEF IInv
  <1> QED BY <1>1, <1>2, PTL DEF Spec

---------------------------------------------------------------------------
(* The theorems.                                                           *)

\* Every reachable state of the audit subscriptions is of its type.
THEOREM TypeCorrect == Spec => []TypeOK
  <1>1. IInv => TypeOK
    BY DEF IInv
  <1> QED BY <1>1, Invariance, PTL

\* No acknowledged event is without a row of its topic, entity and kind,
\* whatever deliveries overlap, fail or come again.
THEOREM EventsOnRecord == Spec => []EventIsOnRecord
  <1>1. IInv => EventIsOnRecord
    <2> SUFFICES ASSUME IInv, NEW m \in acked
                 PROVE  \E n \in Messages :
                           /\ RowsOf(n) # {}
                           /\ n.topic = m.topic /\ n.entity = m.entity
                           /\ m.topic \notin {"contact-attempted", "interaction-created"}
                                 => n.kind = m.kind
      BY DEF EventIsOnRecord
    <2>1. m \in Messages
      BY DEF IInv, TypeOK
    <2>2. PICK r \in RowsOfKey(m) : TRUE
      BY DEF IInv, KeyOnRecord, IsDuplicate
    <2>3. r.message \in SameKey(m) /\ r.message \in Messages /\ RowsOf(r.message) # {}
      BY <2>2 DEF RowsOfKey, RowsOf, SameKey
    <2> QED BY <2>1, <2>3, KeyNamesEntity, KeyNamesKind
  <1> QED BY <1>1, Invariance, PTL

\* No consent change and no payment that has its second to itself is left
\* without a row of its own.
THEOREM TimedEventsOnRecord == Spec => []TimedEventIsOnRecord
  <1>1. IInv => TimedEventIsOnRecord
    <2> SUFFICES ASSUME IInv, NEW m \in acked, Timed(m),
                        \A n \in Messages \ {m} :
                           n.topic = m.topic /\ n.entity = m.entity /\ n.kind = m.kind
                              => n.at # m.at
                 PROVE  RowsOf(m) # {}
      BY DEF TimedEventIsOnRecord
    <2>1. m \in Messages
      BY DEF IInv, TypeOK
    <2>2. PICK r \in RowsOfKey(m) : TRUE
      BY DEF IInv, KeyOnRecord, IsDuplicate
    <2>3. PICK n \in SameKey(m) : r.message = n
      BY <2>2 DEF RowsOfKey
    <2>4. n \in Messages /\ n.topic = m.topic /\ n.entity = m.entity
      BY <2>1, <2>3, KeyNamesEntity DEF SameKey
    <2>5. n.kind = m.kind /\ n.at = m.at
      BY <2>1, <2>3, KeyNamesKind, KeyNamesTime DEF Timed
    <2>6. n = m
      BY <2>4, <2>5
    <2> QED BY <2>2, <2>3, <2>6 DEF RowsOf, RowsOfKey
  <1> QED BY <1>1, Invariance, PTL

\* Redelivery alone never adds a row: however many deliveries overlap, the
\* rows of a key are bounded by the deliveries that can overlap and the
\* checks that failed.
THEOREM DuplicatesBounded == Spec => []DuplicatesAreBounded
  <1>1. IInv => DuplicatesAreBounded
    <2> SUFFICES ASSUME IInv, NEW m \in Messages
                 PROVE  Cardinality(RowsOfKey(m)) <= Cardinality(Deliveries) + checkErrors
      BY DEF DuplicatesAreBounded
    <2>1. IsFiniteSet(InsertingKey(m))
      <3>1. IsFiniteSet(inserting)
        BY InsertingBound DEF IInv, TypeOK, BoundInv
      <3> QED BY <3>1, FS_Subset DEF InsertingKey
    <2>2. Cardinality(InsertingKey(m)) \in Nat /\ Cardinality(RowsOfKey(m)) \in Nat
          /\ Cardinality(Deliveries) \in Nat /\ checkErrors \in Nat
      BY <2>1, FS_CardinalityType, AuditAssumption DEF IInv, BoundInv, TypeOK
    <2>3. Cardinality(RowsOfKey(m)) + Cardinality(InsertingKey(m))
             <= Cardinality(Deliveries) + checkErrors
      BY DEF IInv, BoundInv
    <2> QED BY <2>2, <2>3
  <1> QED BY <1>1, Invariance, PTL

\* One subscriber at a time and a database that answers its checks: an
\* acknowledged event has exactly one row of its key, however often the broker
\* delivers it and wherever inserts and acknowledgements are lost
\* (subscribers.go:84-108, 217-231).
THEOREM ExactlyOnce ==
    ASSUME Cardinality(Deliveries) = 1, MaxCheckErrors = 0
    PROVE  Spec => [](\A m \in acked : Cardinality(RowsOfKey(m)) = 1)
  <1>1. ASSUME IInv, DuplicatesAreBounded, NEW m \in acked
        PROVE  Cardinality(RowsOfKey(m)) = 1
    <2>1. m \in Messages /\ checkErrors = 0
      BY <1>1 DEF IInv, TypeOK
    <2>2. IsFiniteSet(RowsOfKey(m)) /\ RowsOfKey(m) # {}
      BY <1>1, <2>1 DEF IInv, BoundInv, KeyOnRecord, IsDuplicate
    <2>3. Cardinality(RowsOfKey(m)) \in Nat /\ Cardinality(RowsOfKey(m)) # 0
      BY <2>2, FS_CardinalityType, FS_EmptySet
    <2>4. Cardinality(RowsOfKey(m)) <= 1
      BY <1>1, <2>1 DEF DuplicatesAreBounded
    <2> QED BY <2>3, <2>4
  <1>2. IInv /\ DuplicatesAreBounded => \A m \in acked : Cardinality(RowsOfKey(m)) = 1
    BY <1>1
  <1> QED BY <1>2, Invariance, DuplicatesBounded, PTL

\* No delivery that is past its check is about to write a row of the key.
Quiet(m) == IsDuplicate(m) /\ InsertingKey(m) = {}

\* From then on redelivery is harmless: only a check that fails adds a row to a
\* key that has one, whatever is published, delivered or redelivered besides
\* (subscribers.go:84-90, 217-231).
THEOREM RedeliveryAddsNothing ==
    Spec => [][\A m \in Messages : Quiet(m) /\ checkErrors' = checkErrors =>
                  Quiet(m)' /\ RowsOfKey(m)' = RowsOfKey(m)]_vars
  <1>1. ASSUME TypeOK, [Next]_vars, NEW m \in Messages, Quiet(m), checkErrors' = checkErrors
        PROVE  Quiet(m)' /\ RowsOfKey(m)' = RowsOfKey(m)
    <2> USE <1>1
    <2>1. ASSUME UNCHANGED log, InsertingKey(m)' \subseteq InsertingKey(m)
          PROVE  Quiet(m)' /\ RowsOfKey(m)' = RowsOfKey(m)
      BY <2>1 DEF Quiet, IsDuplicate, RowsOfKey
    <2>2. CASE UNCHANGED <<log, inserting>>
      BY <2>1, <2>2 DEF InsertingKey
    <2>3. ASSUME NEW d \in Deliveries, NEW n \in Messages, PassCheck(d, n)
          PROVE  Quiet(m)' /\ RowsOfKey(m)' = RowsOfKey(m)
      <3>1. n \notin SameKey(m)
        <4> SUFFICES ASSUME DedupKey(n) = DedupKey(m) PROVE FALSE
          BY DEF SameKey
        <4>1. SameKey(n) = SameKey(m)
          BY DEF SameKey
        <4> QED BY <2>3, <4>1 DEF PassCheck, IsDuplicate, RowsOfKey, Quiet
      <3>2. InsertingKey(m)' = InsertingKey(m)
        BY <2>3, <3>1 DEF PassCheck, InsertingKey
      <3> QED BY <2>1, <2>3, <3>2 DEF PassCheck
    <2>4. ASSUME NEW d \in Deliveries, NEW n \in Messages, CheckFails(d, n) PROVE FALSE
      BY <2>4 DEF CheckFails, TypeOK
    <2>5. ASSUME NEW i \in inserting, Insert(i) \/ InsertUnacked(i)
          PROVE  Quiet(m)' /\ RowsOfKey(m)' = RowsOfKey(m)
      <3>1. Record(i.message) /\ inserting' = inserting \ {i}
        BY <2>5 DEF Insert, InsertUnacked
      <3>2. i.message \notin SameKey(m)
        BY DEF Quiet, InsertingKey
      <3>3. RowsOfKey(m)' = RowsOfKey(m)
        BY <3>1, <3>2 DEF Record, RowsOfKey
      <3>4. InsertingKey(m)' = {}
        BY <3>1 DEF InsertingKey, Quiet
      <3> QED BY <3>3, <3>4 DEF Quiet, IsDuplicate
    <2>6. ASSUME NEW i \in inserting, InsertFails(i)
          PROVE  Quiet(m)' /\ RowsOfKey(m)' = RowsOfKey(m)
      BY <2>1, <2>6 DEF InsertFails, InsertingKey
    <2>7. ASSUME NEW n \in Messages, Publish(n) PROVE UNCHANGED <<log, inserting>>
      BY <2>7 DEF Publish
    <2>8. ASSUME NEW d \in Deliveries, NEW n \in Messages, SkipDuplicate(d, n)
          PROVE  UNCHANGED <<log, inserting>>
      BY <2>8 DEF SkipDuplicate
    <2>9. UNCHANGED vars => UNCHANGED <<log, inserting>>
      BY DEF vars
    <2> QED BY <2>2, <2>3, <2>4, <2>5, <2>6, <2>7, <2>8, <2>9, StepCases
  <1>2. TypeOK /\ [Next]_vars =>
          [\A m \in Messages : Quiet(m) /\ checkErrors' = checkErrors =>
                  Quiet(m)' /\ RowsOfKey(m)' = RowsOfKey(m)]_vars
    BY <1>1
  <1> QED BY <1>2, TypeCorrect, PTL DEF Spec

=============================================================================
