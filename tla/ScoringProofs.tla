--------------------------- MODULE ScoringProofs ---------------------------
(***************************************************************************)
(* Scoring implements Contact: its steps are Contact's, or leave Contact's *)
(* variables alone.  So all that is proved of Contact holds here, and the  *)
(* properties of the scorecard are proved on top of it, for any texts and  *)
(* any rubrics; SanitizerProofs says what is stored of a text.             *)
(***************************************************************************)
EXTENDS Scoring, ContactProofs, SanitizerProofs

\* A step is one of Contact's, and the scorecard variables move as follows.
Scores(a) ==
    \/ UNCHANGED <<score, toScore>>
    \/ /\ score' = [score EXCEPT ![a] = ServiceScore(a)]
       /\ a \in toScore /\ toScore' \subseteq toScore
       /\ UNCHANGED vars
    \/ WriteActivity(a) /\ Carry(a, wf[a])
    \/ \E op \in WriteActivities :
          /\ [attempt |-> a, op |-> op] \in late
          /\ Serve(a, op) /\ Carry(a, op)

\* What one step of the composition does to Contact and to the scorecards.
LEMMA ScoringStep ==
    ASSUME [ScoringNext]_allVars, TypeOK
    PROVE  /\ [Next]_vars /\ UNCHANGED message
           /\ UNCHANGED <<score, toScore>> \/ \E a \in Attempts : Scores(a)
  <1>1. CASE UNCHANGED allVars
    BY <1>1 DEF allVars, scoringVars
  <1>2. ASSUME NEW c \in Consumers, ConsumerNext(c) \/ SubscriberNext(c),
               UNCHANGED scoringVars
        PROVE  Next /\ UNCHANGED <<message, score, toScore>>
    BY <1>2 DEF Next, scoringVars
  <1>3. ASSUME NEW a \in Attempts, ServesNothing(a), UNCHANGED scoringVars
        PROVE  Next /\ UNCHANGED <<message, score, toScore>>
    BY <1>3 DEF ServesNothing, Next, WorkflowNext, scoringVars
  <1>4. ASSUME NEW a \in Attempts, WriteActivity(a), Carry(a, wf[a]), UNCHANGED message
        PROVE  Next /\ UNCHANGED message /\ Scores(a)
    BY <1>4 DEF Next, WorkflowNext, Scores
  <1>5. ASSUME NEW a \in Attempts,
               HandleInteractionCreated(a) \/ HandleInteractionCreatedUnacked(a)
        PROVE  UNCHANGED <<vars, message>> /\ Scores(a)
    BY <1>5 DEF HandleInteractionCreated, HandleInteractionCreatedUnacked,
       UpdateScorecardResult, Scores
  <1>6. ASSUME NEW r \in late, LateRequestServed(r), Carry(r.attempt, r.op),
               UNCHANGED message
        PROVE  Next /\ UNCHANGED message /\ \E a \in Attempts : Scores(a)
    <2>1. /\ r.attempt \in Attempts /\ r.op \in WriteActivities
          /\ r = [attempt |-> r.attempt, op |-> r.op]
      BY DEF TypeOK, Requests
    <2>2. Scores(r.attempt)
      BY <1>6, <2>1 DEF LateRequestServed, Scores
    <2> QED BY <1>6, <2>1, <2>2 DEF Next
  <1> QED BY <1>1, <1>2, <1>3, <1>4, <1>5, <1>6 DEF ScoringNext

\* The composition implements the contact workflow's specification: the
\* scoring service cannot make an attempt do what it would not do alone.
THEOREM ScoringImplementsContact == ScoringSpec => Spec
  <1>1. ScoringInit => Init
    BY DEF ScoringInit
  <1>2. TypeOK /\ [ScoringNext]_allVars => [Next]_vars
    BY ScoringStep
  <1>3. TypeOK /\ [Next]_vars => TypeOK'
    BY TypeStep
  <1>4. Init => TypeOK
    BY TypeInit
  <1> QED BY <1>1, <1>2, <1>3, <1>4, PTL DEF ScoringSpec, Spec

---------------------------------------------------------------------------
(* The inductive invariant of the composition.                             *)

\* The interaction is the workflow's last event.
StageInv ==
    \A a \in Attempts :
        a \in interactions \/ [attempt |-> a, op |-> "publishInteraction"] \in late
            => wf[a] \in {"publishInteraction", "completed", "failed"}

ScoreInv ==
    /\ ScoringTypeOK
    /\ toScore \subseteq interactions
    /\ \A a \in Attempts :
          score[a] # NoScore => row[a].status \in {"delivered", "failed"}

CInv == LifeInv /\ StageInv /\ ScoreInv

\* No activity runs once the interaction is out.
LEMMA StageStep == LifeInv /\ StageInv /\ [Next]_vars => StageInv'
  <1> SUFFICES ASSUME LifeInv, StageInv, [Next]_vars PROVE StageInv'
    OBVIOUS
  <1>0. TypeOK /\ HandlerInv
    BY DEF LifeInv, FlowInv
  <1>1. CASE Quiet
    BY <1>1 DEF Quiet, StageInv
  <1>2. ASSUME NEW a \in Attempts, WorkflowNext(a) PROVE StageInv'
    <2>1. /\ \A b \in Attempts : b # a => wf'[b] = wf[b]
          /\ late' = late \/ /\ wf[a] \in WriteActivities
                             /\ late' = late \cup {[attempt |-> a, op |-> wf[a]]}
          /\ WriteActivity(a) \/ UNCHANGED interactions
      BY <1>0, <1>2, WorkflowFrame
    <2>2. wf[a] \in {"publishInteraction", "completed", "failed"}
             => wf'[a] \in {"publishInteraction", "completed", "failed"}
      BY <1>0, <1>2 DEF WorkflowNext, CheckComplianceAllows, CheckComplianceBlocks,
         PureActivity, WriteActivity, ActivityTryFails, ActivityFails, After,
         WorkflowTimesOut, GoTo, TypeOK, Running, WriteActivities
    <2>3. \A b \in interactions' :
             b \in interactions \/ (b = a /\ wf[a] = "publishInteraction")
      <3>1. ASSUME WriteActivity(a)
            PROVE  interactions' = IF wf[a] = "publishInteraction"
                                   THEN interactions \cup {a} ELSE interactions
        <4>1. wf[a] \in WriteActivities /\ Serve(a, wf[a])
          BY <3>1 DEF WriteActivity
        <4> QED BY <1>0, <4>1, ServeEffect
      <3> QED BY <2>1, <3>1
    <2>4. \A b \in Attempts : [attempt |-> b, op |-> "publishInteraction"] \in late' =>
             \/ [attempt |-> b, op |-> "publishInteraction"] \in late
             \/ b = a /\ wf[a] = "publishInteraction"
      BY <2>1
    <2> QED BY <2>1, <2>2, <2>3, <2>4 DEF StageInv
  <1>3. ASSUME NEW r \in late, LateRequestServed(r) PROVE StageInv'
    <2>1. /\ Serve(r.attempt, r.op) /\ wf' = wf /\ late' \subseteq late
      BY <1>3 DEF LateRequestServed, wfVars
    <2>2. \A b \in interactions' :
             b \in interactions \/ (b = r.attempt /\ r.op = "publishInteraction")
      <3>1. interactions' = IF r.op = "publishInteraction"
                            THEN interactions \cup {r.attempt} ELSE interactions
        BY <1>0, <2>1, LateRequest, ServeEffect
      <3> QED BY <3>1
    <2> QED BY <2>1, <2>2, LateRequest DEF StageInv
  <1> QED BY <1>0, <1>1, <1>2, <1>3, StepKinds

\* Every step keeps the scorecards backed by delivery outcomes.
LEMMA ScoreStep == CInv /\ [ScoringNext]_allVars => ScoreInv'
  <1> SUFFICES ASSUME CInv, [ScoringNext]_allVars PROVE ScoreInv'
    OBVIOUS
  <1>0. /\ FlowInv /\ TypeOK /\ [Next]_vars /\ UNCHANGED message
        /\ DOMAIN score = Attempts
    BY ScoringStep DEF CInv, LifeInv, FlowInv, ScoreInv, ScoringTypeOK
  <1>1. interactions \subseteq interactions'
    <2>1. ASSUME NEW a \in Attempts, WorkflowNext(a) PROVE interactions \subseteq interactions'
      BY <1>0, <2>1, WorkflowFrame, ServeEffect DEF WriteActivity
    <2>2. ASSUME NEW r \in late, LateRequestServed(r)
          PROVE  interactions \subseteq interactions'
      BY <1>0, <2>2, LateRequest, ServeEffect DEF LateRequestServed, CInv
    <2> QED BY <1>0, <2>1, <2>2, StepKinds DEF Quiet, FlowInv
  <1>2. \A a \in Attempts : row[a].status \in {"delivered", "failed"} => row'[a] = row[a]
    BY <1>0, OutcomeKept
  <1>3. \A a \in Attempts : /\ ServiceScore(a)' = ServiceScore(a)
                            /\ WorkflowScore(a)' = WorkflowScore(a)
    BY <1>0 DEF ServiceScore, WorkflowScore
  <1>4. CASE UNCHANGED <<score, toScore>>
    BY <1>0, <1>1, <1>2, <1>3, <1>4 DEF CInv, ScoreInv, ScoringTypeOK
  <1>5. ASSUME NEW a \in Attempts, Scores(a) PROVE ScoreInv'
    <2>1. CASE /\ score' = [score EXCEPT ![a] = ServiceScore(a)]
               /\ a \in toScore /\ toScore' \subseteq toScore
      <3>1. row[a].status \in {"delivered", "failed"}
        BY <1>0, <2>1, FlowBacked DEF CInv, ScoreInv, InteractionBacked
      <3> QED BY <1>0, <1>1, <1>2, <1>3, <2>1, <3>1 DEF CInv, ScoreInv, ScoringTypeOK
    <2>2. ASSUME NEW op \in WriteActivities, Serve(a, op), Carry(a, op)
          PROVE  ScoreInv'
      <3>1. CASE op = "record"
        <4>1. /\ score' = [score EXCEPT ![a] =
                             IF Outcome(a) = "blocked" THEN NoScore ELSE WorkflowScore(a)]
              /\ toScore' = toScore
          BY <2>2, <3>1 DEF Carry
        <4>2. row'[a].status = Outcome(a)
          BY <1>0, <2>2, <3>1, ServeEffect
        <4> QED BY <1>0, <1>1, <1>2, <1>3, <4>1, <4>2, OutcomeValue
                DEF CInv, ScoreInv, ScoringTypeOK
      <3>2. CASE op = "publishAttempted"
        BY <1>4, <2>2, <3>2 DEF Carry
      <3>3. CASE op = "publishInteraction"
        <4>1. score' = score /\ toScore' = toScore \cup {a} /\ a \in interactions'
          BY <1>0, <2>2, <3>3, ServeEffect DEF Carry
        <4> QED BY <1>0, <1>1, <1>2, <1>3, <4>1 DEF CInv, ScoreInv, ScoringTypeOK
      <3> QED BY <3>1, <3>2, <3>3 DEF WriteActivities
    <2> QED BY <1>4, <1>5, <2>1, <2>2 DEF Scores, WriteActivity
  <1> QED BY <1>0, <1>4, <1>5, ScoringStep

\* The invariant of the composition holds for ever.
LEMMA CInvariant == ScoringSpec => []CInv
  <1>1. ScoringInit => CInv
    BY LifeInit DEF ScoringInit, CInv, Init, StageInv, ScoreInv, ScoringTypeOK
  <1>2. CInv /\ [ScoringNext]_allVars => CInv'
    <2> SUFFICES ASSUME CInv, [ScoringNext]_allVars PROVE CInv'
      OBVIOUS
    <2>1. [Next]_vars
      BY ScoringStep DEF CInv, LifeInv, FlowInv
    <2> QED BY <2>1, FlowStep, ReasonStep, StageStep, ScoreStep DEF CInv, LifeInv
  <1> QED BY <1>1, <1>2, PTL DEF ScoringSpec

---------------------------------------------------------------------------
(* The sum behind a scorecard's points.                                    *)

\* The item that a sum takes first.
First(items) == CHOOSE item \in items : TRUE

\* One step of the fold behind Weight.
SumStep(f, s) == IF s = {} THEN 0 ELSE First(s).weight + f[s \ {First(s)}]

\* f sums the subsets of items that have no more than n members.
SumsUpTo(items, f, n) ==
    f = [s \in {t \in SUBSET items : Cardinality(t) <= n} |-> SumStep(f, s)]

\* Taking its first item makes a set smaller.
LEMMA FirstLeaves ==
    ASSUME NEW s, IsFiniteSet(s), s # {}
    PROVE  /\ First(s) \in s
           /\ IsFiniteSet(s \ {First(s)})
           /\ Cardinality(s) \in Nat
           /\ Cardinality(s \ {First(s)}) = Cardinality(s) - 1
           /\ Cardinality(s \ {First(s)}) \in Nat
  <1>1. First(s) \in s
    BY DEF First
  <1> QED BY <1>1, FS_RemoveElement, FS_CardinalityType

\* A sum of the smaller subsets extends to those with one member more.
LEMMA SumExtends ==
    ASSUME NEW items, IsFiniteSet(items), NEW n \in Nat, NEW f, SumsUpTo(items, f, n)
    PROVE  \E g : SumsUpTo(items, g, n + 1)
  <1> DEFINE D == {t \in SUBSET items : Cardinality(t) <= n}
             E == {t \in SUBSET items : Cardinality(t) <= n + 1}
             g == [s \in E |-> SumStep(f, s)]
  <1>0. \A s \in E : IsFiniteSet(s) /\ Cardinality(s) \in Nat
    BY FS_Subset, FS_CardinalityType
  <1>1. \A s \in D : g[s] = f[s]
    <2> SUFFICES ASSUME NEW s \in D PROVE g[s] = f[s]
      OBVIOUS
    <2>1. s \in E
      <3>1. Cardinality(s) \in Nat
        BY FS_Subset, FS_CardinalityType
      <3> QED BY <3>1
    <2> QED BY <2>1 DEF SumsUpTo
  <1>2. ASSUME NEW s \in E PROVE SumStep(g, s) = SumStep(f, s)
    <2>1. CASE s = {}
      BY <2>1 DEF SumStep
    <2>2. CASE s # {}
      <3>1. s \ {First(s)} \in D
        BY <1>0, <2>2, FirstLeaves
      <3>2. g[s \ {First(s)}] = f[s \ {First(s)}]
        BY <1>1, <3>1
      <3> HIDE DEF g
      <3> QED BY <2>2, <3>2 DEF SumStep
    <2> QED BY <2>1, <2>2
  <1>3. g = [s \in E |-> SumStep(g, s)]
    <2>1. g = [s \in E |-> SumStep(f, s)]
      OBVIOUS
    <2> HIDE DEF g
    <2> QED BY <1>2, <2>1
  <1> QED BY <1>3 DEF SumsUpTo

\* Hence there is a sum, however many members.
LEMMA SumExists ==
    ASSUME NEW items, IsFiniteSet(items), NEW n \in Nat
    PROVE  \E f : SumsUpTo(items, f, n)
  <1> DEFINE T == {m \in Nat : ~ \E f : SumsUpTo(items, f, m)}
  <1>1. \E f : SumsUpTo(items, f, 0)
    <2> DEFINE f == [s \in {t \in SUBSET items : Cardinality(t) <= 0} |-> 0]
    <2>1. ASSUME NEW s \in SUBSET items, Cardinality(s) <= 0 PROVE SumStep(f, s) = 0
      <3>1. s = {}
        BY <2>1, FS_Subset, FS_CardinalityType, FS_EmptySet
      <3> QED BY <3>1 DEF SumStep
    <2>2. f = [s \in {t \in SUBSET items : Cardinality(t) <= 0} |-> 0]
      OBVIOUS
    <2>3. f = [s \in {t \in SUBSET items : Cardinality(t) <= 0} |-> SumStep(f, s)]
      <3> HIDE DEF f
      <3> QED BY <2>1, <2>2
    <2> QED BY <2>3 DEF SumsUpTo
  <1>2. ASSUME T # {} PROVE FALSE
    <2>1. PICK m \in T : \A k \in T : m <= k
      <3>1. T \subseteq Nat
        OBVIOUS
      <3> HIDE DEF T
      <3> QED BY <1>2, <3>1, LeastNatural
    <2>2. m \in Nat \ {0}
      BY <1>1
    <2>3. m - 1 \in Nat \ T
      BY <2>1, <2>2
    <2>4. \E f : SumsUpTo(items, f, (m - 1) + 1)
      BY <2>3, SumExtends
    <2>5. (m - 1) + 1 = m
      BY <2>2
    <2> QED BY <2>1, <2>4, <2>5
  <1>3. n \notin T
    BY <1>2
  <1> QED BY <1>3

\* f sums all subsets of items.
Sums(items, f) == f = [s \in SUBSET items |-> SumStep(f, s)]

\* Weight is such a sum.
LEMMA WeightSums ==
    ASSUME NEW items, IsFiniteSet(items)
    PROVE  \E f : Sums(items, f) /\ Weight(items) = f[items]
  <1> DEFINE F == CHOOSE f : f = [s \in SUBSET items |-> SumStep(f, s)]
  <1>1. Weight(items) = F[items]
    BY DEF Weight, MapThenSumSet, MapThenFoldSet, SumStep, First
  <1>2. \E f : f = [s \in SUBSET items |-> SumStep(f, s)]
    <2>1. PICK f : SumsUpTo(items, f, Cardinality(items))
      BY SumExists, FS_CardinalityType
    <2>2. {t \in SUBSET items : Cardinality(t) <= Cardinality(items)} = SUBSET items
      BY FS_Subset
    <2> QED BY <2>1, <2>2 DEF SumsUpTo
  <1>3. F = [s \in SUBSET items |-> SumStep(F, s)]
    <2> DEFINE P(f) == f = [s \in SUBSET items |-> SumStep(f, s)]
    <2>1. (\E f : P(f)) => P(CHOOSE f : P(f))
      <3> HIDE DEF P
      <3> QED OBVIOUS
    <2> QED BY <1>2, <2>1
  <1> QED BY <1>1, <1>3 DEF Sums

\* What a sum says of a subset does not depend on the set it was made for.
LEMMA SumsAgree ==
    ASSUME NEW items, IsFiniteSet(items), NEW part, part \subseteq items,
           NEW f, Sums(items, f), NEW g, Sums(part, g), NEW s \in SUBSET part
    PROVE  f[s] = g[s]
  <1> DEFINE Wrong(t) == f[t] # g[t]
             T == {Cardinality(t) : t \in {u \in SUBSET part : Wrong(u)}}
  <1>0. \A t \in SUBSET part : IsFiniteSet(t) /\ Cardinality(t) \in Nat /\ t \in SUBSET items
    BY FS_Subset, FS_CardinalityType
  <1>1. ASSUME T # {} PROVE FALSE
    <2>1. PICK m \in T : \A k \in T : m <= k
      <3>1. T \subseteq Nat
        BY <1>0
      <3> HIDE DEF T
      <3> QED BY <1>1, <3>1, LeastNatural
    <2>2. PICK t \in SUBSET part : Wrong(t) /\ Cardinality(t) = m
      BY <2>1
    <2>3. f[t] = SumStep(f, t) /\ g[t] = SumStep(g, t)
      BY <1>0 DEF Sums
    <2>4. t # {}
      BY <2>2, <2>3 DEF SumStep
    <2> DEFINE u == t \ {First(t)}
    <2>5. u \in SUBSET part /\ Cardinality(u) \in Nat /\ Cardinality(u) = m - 1 /\ m \in Nat
      BY <1>0, <2>2, <2>4, FirstLeaves
    <2>6. ~ Wrong(u)
      <3>1. Cardinality(u) \notin T
        BY <2>1, <2>5
      <3> HIDE DEF u, Wrong
      <3> QED BY <2>5, <3>1
    <2> QED BY <2>2, <2>3, <2>4, <2>6 DEF SumStep
  <1>2. Wrong(s) => Cardinality(s) \in T
    OBVIOUS
  <1> HIDE DEF T
  <1> QED BY <1>1, <1>2

\* What Weight does with one set, without the function behind it.
LEMMA WeightUnfolds ==
    ASSUME NEW s, IsFiniteSet(s)
    PROVE  Weight(s) = IF s = {} THEN 0 ELSE First(s).weight + Weight(s \ {First(s)})
  <1>1. PICK f : Sums(s, f) /\ Weight(s) = f[s]
    BY WeightSums
  <1>2. f[s] = SumStep(f, s)
    BY <1>1 DEF Sums
  <1>3. CASE s # {}
    <2> DEFINE u == s \ {First(s)}
    <2>1. IsFiniteSet(u) /\ u \subseteq s
      BY <1>3, FirstLeaves
    <2>2. PICK g : Sums(u, g) /\ Weight(u) = g[u]
      BY <2>1, WeightSums
    <2>3. f[u] = g[u]
      BY <1>1, <2>1, <2>2, SumsAgree
    <2> QED BY <1>1, <1>2, <1>3, <2>2, <2>3 DEF SumStep
  <1>4. CASE s = {}
    BY <1>1, <1>2, <1>4 DEF SumStep
  <1> QED BY <1>3, <1>4

\* A set of items whose weights are natural numbers.
Weighted(s) == IsFiniteSet(s) /\ \A item \in s : item.weight \in Nat

\* Which item the fold takes first makes no difference.
LEMMA WeightAdds ==
    ASSUME NEW s, Weighted(s)
    PROVE  /\ Weight(s) \in Nat
           /\ \A item \in s : Weight(s) = item.weight + Weight(s \ {item})
  <1> DEFINE Right(t) == /\ Weight(t) \in Nat
                         /\ \A item \in t : Weight(t) = item.weight + Weight(t \ {item})
             T == {Cardinality(t) : t \in {u \in SUBSET s : ~ Right(u)}}
  <1>0. \A t \in SUBSET s : IsFiniteSet(t) /\ Cardinality(t) \in Nat
    BY FS_Subset, FS_CardinalityType DEF Weighted
  <1>1. ASSUME T # {} PROVE FALSE
    <2>1. PICK m \in T : \A k \in T : m <= k
      <3>1. T \subseteq Nat
        BY <1>0
      <3> HIDE DEF T
      <3> QED BY <1>1, <3>1, LeastNatural
    <2>2. PICK t \in SUBSET s : ~ Right(t) /\ Cardinality(t) = m
      BY <2>1
    <2>3. ASSUME NEW u \in SUBSET s, Cardinality(u) < m PROVE Right(u)
      <3>1. Cardinality(u) \notin T
        BY <1>0, <2>1, <2>2, <2>3
      <3> HIDE DEF Right
      <3> QED BY <3>1
    <2>4. ASSUME NEW item \in t
          PROVE  /\ t \ {item} \in SUBSET s /\ Cardinality(t \ {item}) = m - 1
                 /\ m \in Nat /\ Right(t \ {item}) /\ item.weight \in Nat
      <3>1. t \ {item} \in SUBSET s /\ Cardinality(t \ {item}) = m - 1 /\ m \in Nat
        BY <1>0, <2>2, FS_RemoveElement
      <3>2. Right(t \ {item})
        <4> HIDE DEF Right
        <4> QED BY <2>3, <3>1
      <3> QED BY <3>1, <3>2 DEF Weighted
    <2>5. CASE t = {}
      <3>1. Weight(t) = 0
        BY <1>0, <2>5, WeightUnfolds
      <3> QED BY <2>2, <2>5, <3>1
    <2>6. CASE t # {}
      <3> DEFINE x == First(t)
                 tx == t \ {x}
      <3>1. x \in t /\ Weight(t) = x.weight + Weight(tx)
        BY <1>0, <2>6, FirstLeaves, WeightUnfolds
      <3>2. Weight(tx) \in Nat /\ x.weight \in Nat
        BY <2>4, <3>1
      <3>3. ASSUME NEW item \in t PROVE Weight(t) = item.weight + Weight(t \ {item})
        <4>1. CASE item = x
          BY <3>1, <4>1
        <4>2. CASE item # x
          <5> DEFINE ti == t \ {item}
                     both == t \ {x, item}
          <5>1. Weight(tx) = item.weight + Weight(both)
            <6>1. tx \ {item} = both /\ item \in tx
              BY <4>2
            <6> QED BY <2>4, <3>1, <6>1
          <5>2. Weight(ti) = x.weight + Weight(both)
            <6>1. ti \ {x} = both /\ x \in ti
              BY <3>1, <4>2
            <6> QED BY <2>4, <6>1
          <5>3. both \in SUBSET s /\ Weight(both) \in Nat
            <6>1. both \in SUBSET s /\ both = tx \ {item} /\ item \in tx
              BY <4>2
            <6>2. Cardinality(both) < m
              <7>1. IsFiniteSet(tx) /\ Cardinality(tx) = m - 1 /\ m \in Nat
                BY <1>0, <2>4, <3>1
              <7>2. Cardinality(both) = Cardinality(tx) - 1
                <8> HIDE DEF tx, both
                <8> QED BY <6>1, <7>1, FS_RemoveElement
              <7> HIDE DEF tx, both
              <7> QED BY <7>1, <7>2
            <6>3. Right(both)
              <7> HIDE DEF Right, both
              <7> QED BY <2>3, <6>1, <6>2
            <6> QED BY <6>1, <6>3
          <5>4. item.weight \in Nat
            BY <2>4
          <5> HIDE DEF tx, ti, both, x
          <5> QED BY <3>1, <3>2, <5>1, <5>2, <5>3, <5>4 DEF ti
        <4> QED BY <4>1, <4>2
      <3>4. Weight(t) \in Nat
        <4> HIDE DEF tx, x
        <4> QED BY <3>1, <3>2
      <3>5. Right(t)
        BY <3>3, <3>4
      <3> HIDE DEF Right
      <3> QED BY <2>2, <3>5
    <2> QED BY <2>5, <2>6
  <1>2. Right(s)
    <2>1. ~ Right(s) => Cardinality(s) \in T
      <3> HIDE DEF Right
      <3> QED OBVIOUS
    <2> HIDE DEF T, Right
    <2> QED BY <1>1, <2>1
  <1> QED BY <1>2

\* Part of a rubric weighs no more than all of it.
LEMMA WeightMonotone ==
    ASSUME NEW s, Weighted(s), NEW part, part \subseteq s
    PROVE  Weight(part) \in 0 .. Weight(s)
  <1> DEFINE Wrong(t) == ~ (Weight(part) <= Weight(t))
             T == {Cardinality(t) : t \in {u \in SUBSET s : part \subseteq u /\ Wrong(u)}}
  <1>0. \A t \in SUBSET s : /\ IsFiniteSet(t) /\ Cardinality(t) \in Nat
                            /\ Weight(t) \in Nat
                            /\ \A item \in t : /\ item.weight \in Nat
                                               /\ Weight(t) = item.weight + Weight(t \ {item})
    BY FS_Subset, FS_CardinalityType, WeightAdds DEF Weighted
  <1>1. ASSUME T # {} PROVE FALSE
    <2>1. PICK m \in T : \A k \in T : m <= k
      <3>1. T \subseteq Nat
        BY <1>0
      <3> HIDE DEF T
      <3> QED BY <1>1, <3>1, LeastNatural
    <2>2. PICK t \in SUBSET s : part \subseteq t /\ Wrong(t) /\ Cardinality(t) = m
      BY <2>1
    <2>3. PICK item \in t : item \notin part
      <3>1. Weight(t) \in Nat
        BY <1>0
      <3>2. part # t
        BY <2>2, <3>1
      <3> QED BY <2>2, <3>2
    <2> DEFINE u == t \ {item}
    <2>4. u \in SUBSET s /\ part \subseteq u /\ Cardinality(u) = m - 1 /\ m \in Nat
      BY <1>0, <2>2, <2>3, FS_RemoveElement
    <2>5. Weight(t) = item.weight + Weight(u) /\ item.weight \in Nat /\ Weight(u) \in Nat
      BY <1>0, <2>4
    <2>6. ~ Wrong(u)
      <3>1. Cardinality(u) \notin T
        BY <1>0, <2>1, <2>4
      <3> HIDE DEF Wrong, u
      <3> QED BY <2>4, <3>1
    <2>7. Weight(part) \in Nat
      BY <1>0
    <2> HIDE DEF u
    <2> QED BY <2>2, <2>5, <2>6, <2>7
  <1>2. Wrong(s) => Cardinality(s) \in T
    OBVIOUS
  <1>3. ~ Wrong(s)
    <2> HIDE DEF T, Wrong
    <2> QED BY <1>1, <1>2
  <1> QED BY <1>0, <1>3

---------------------------------------------------------------------------
(* What EvaluateScorecard returns.                                         *)

\* No text scores below zero or above the rubric's maximum, whatever the rubric
\* (scorecard.go:10-40).
THEOREM ScoreWithin ==
    ASSUME NEW text, NEW rubric, Weighted(rubric)
    PROVE  EvaluateScorecard(text, rubric).total_score
              \in 0 .. EvaluateScorecard(text, rubric).max_score
  <1> DEFINE passed == {item \in rubric : Passes(item, text)}
  <1>1. Weight(passed) \in 0 .. Weight(rubric)
    BY WeightMonotone
  <1> QED BY <1>1 DEF EvaluateScorecard

\* Three items weigh what the three weigh, and so do two of them.
LEMMA ThreeWeigh ==
    ASSUME NEW x, NEW y, NEW z, x # y, x # z, y # z,
           x.weight \in Nat, y.weight \in Nat, z.weight \in Nat
    PROVE  /\ Weighted({x, y, z})
           /\ Weight({x, y, z}) = x.weight + y.weight + z.weight
           /\ Weight({x, y}) = x.weight + y.weight
  <1>1. IsFiniteSet({x, y, z}) /\ IsFiniteSet({x, y}) /\ IsFiniteSet({x}) /\ IsFiniteSet({})
    <2>1. IsFiniteSet({}) /\ IsFiniteSet({x})
      BY FS_EmptySet, FS_Singleton
    <2>2. {x} \cup {y} = {x, y} /\ {x, y} \cup {z} = {x, y, z}
      OBVIOUS
    <2>3. IsFiniteSet({x} \cup {y})
      BY <2>1, FS_AddElement
    <2>4. IsFiniteSet({x, y} \cup {z})
      BY <2>2, <2>3, FS_AddElement
    <2> QED BY <2>1, <2>2, <2>3, <2>4
  <1>2. Weight({}) = 0
    BY <1>1, WeightUnfolds
  <1>3. Weight({x}) = x.weight
    <2>1. {x} \ {x} = {} /\ Weighted({x})
      BY <1>1 DEF Weighted
    <2> QED BY <1>2, <2>1, WeightAdds
  <1>4. Weight({x, y}) = y.weight + Weight({x})
    <2>1. {x, y} \ {y} = {x} /\ Weighted({x, y})
      BY <1>1 DEF Weighted
    <2> QED BY <2>1, WeightAdds
  <1>5. Weight({x, y, z}) = z.weight + Weight({x, y}) /\ Weighted({x, y, z})
    <2>1. {x, y, z} \ {z} = {x, y} /\ Weighted({x, y, z})
      BY <1>1 DEF Weighted
    <2> QED BY <2>1, WeightAdds
  <1> QED BY <1>3, <1>4, <1>5

\* The two rubrics give ten points, seven of them for the items they require: a
\* scorecard whose required items passed has seven points at least, and one with
\* all ten has passed them (contact_workflow.go:111-141, subscribers.go:30-57).
THEOREM RequiredPoints ==
    ASSUME NEW text, NEW rubric \in {WorkflowRubric, ServiceRubric}
    PROVE  /\ EvaluateScorecard(text, rubric).max_score = 10
           /\ EvaluateScorecard(text, rubric).total_score \in 0 .. 10
           /\ EvaluateScorecard(text, rubric).required_passed
                 => EvaluateScorecard(text, rubric).total_score >= 7
           /\ EvaluateScorecard(text, rubric).total_score = 10
                 => EvaluateScorecard(text, rubric).required_passed
  <1>1. \E x, y, z :
           /\ rubric = {x, y, z} /\ x # y /\ x # z /\ y # z
           /\ x.weight = 3 /\ y.weight = 4 /\ z.weight = 3
           /\ x.required = TRUE /\ y.required = TRUE /\ z.required = FALSE
    <2>1. ASSUME NEW I, NEW M, NEW P,
                 rubric = {Item("agent-id", TRUE, I, 3), Item("mini-miranda", TRUE, M, 4),
                           Item("payment-option", FALSE, P, 3)}
          PROVE  \E x, y, z :
           /\ rubric = {x, y, z} /\ x # y /\ x # z /\ y # z
           /\ x.weight = 3 /\ y.weight = 4 /\ z.weight = 3
           /\ x.required = TRUE /\ y.required = TRUE /\ z.required = FALSE
      <3> DEFINE x == Item("agent-id", TRUE, I, 3)
                 y == Item("mini-miranda", TRUE, M, 4)
                 z == Item("payment-option", FALSE, P, 3)
      <3>1. /\ x.weight = 3 /\ y.weight = 4 /\ z.weight = 3
            /\ x.required = TRUE /\ y.required = TRUE /\ z.required = FALSE
            /\ x.id = "agent-id" /\ y.id = "mini-miranda" /\ z.id = "payment-option"
        BY DEF Item
      <3>2. x # y /\ x # z /\ y # z
        <4> HIDE DEF x, y, z
        <4> QED BY <3>1
      <3> HIDE DEF x, y, z
      <3> QED BY <2>1, <3>1, <3>2 DEF x, y, z
    <2> QED BY <2>1 DEF WorkflowRubric, ServiceRubric
  <1>2. PICK x, y, z :
           /\ rubric = {x, y, z} /\ x # y /\ x # z /\ y # z
           /\ x.weight = 3 /\ y.weight = 4 /\ z.weight = 3
           /\ x.required = TRUE /\ y.required = TRUE /\ z.required = FALSE
    BY <1>1
  <1>3. Weighted(rubric) /\ Weight(rubric) = 10 /\ Weight({x, y}) = 7
    BY <1>2, ThreeWeigh
  <1> DEFINE passed == {item \in rubric : Passes(item, text)}
             card == EvaluateScorecard(text, rubric)
  <1>4. /\ card.total_score = Weight(passed) /\ card.max_score = 10
        /\ card.required_passed <=> \A item \in rubric \ passed : ~ item.required
    BY <1>3 DEF EvaluateScorecard
  <1>5. passed \subseteq rubric /\ Weighted(passed) /\ Weight(passed) \in 0 .. 10
    BY <1>3, WeightMonotone, FS_Subset DEF Weighted
  <1>6. card.required_passed => {x, y} \subseteq passed
    <2> HIDE DEF card, passed
    <2> QED BY <1>2, <1>4
  <1>7. {x, y} \subseteq passed => Weight(passed) >= 7
    <2>1. {x, y} \subseteq passed => Weight({x, y}) \in 0 .. Weight(passed)
      <3> HIDE DEF passed
      <3> QED BY <1>5, WeightMonotone
    <2> QED BY <1>3, <1>5, <2>1
  <1>8. ASSUME NEW w \in rubric \ passed PROVE Weight(passed) # 10 \/ ~ w.required
    <2>1. Weight(rubric) = w.weight + Weight(rubric \ {w}) /\ Weighted(rubric \ {w})
      BY <1>3, WeightAdds, FS_RemoveElement DEF Weighted
    <2>2. Weight(passed) \in 0 .. Weight(rubric \ {w})
      <3>1. passed \subseteq rubric \ {w}
        OBVIOUS
      <3> HIDE DEF passed
      <3> QED BY <2>1, <3>1, WeightMonotone
    <2>3. w.weight \in {3, 4} /\ Weight(rubric \ {w}) \in Nat
      BY <1>2, <2>1, WeightAdds
    <2> HIDE DEF passed
    <2> QED BY <1>3, <2>1, <2>2, <2>3
  <1>9. card.total_score = 10 => card.required_passed
    <2> HIDE DEF card, passed
    <2> QED BY <1>4, <1>8
  <1> HIDE DEF passed
  <1> QED BY <1>4, <1>5, <1>6, <1>7, <1>9

---------------------------------------------------------------------------
(* What follows.                                                           *)

\* The scorecard column holds nothing but a scorecard of the attempt's text.
THEOREM ScoringTypeCorrect == ScoringSpec => []ScoringTypeOK
  <1>1. CInv => ScoringTypeOK
    BY DEF CInv, ScoreInv
  <1> QED BY <1>1, CInvariant, PTL

\* A scorecard is always that of the stored text, of an attempt that went out.
THEOREM ScoresBacked == ScoringSpec => []ScoredIsBacked
  <1>1. CInv => ScoredIsBacked
    <2> SUFFICES ASSUME CInv, NEW a \in Attempts, score[a] # NoScore
                 PROVE  /\ row[a].status \in {"delivered", "failed"}
                        /\ score[a] \in {EvaluateScorecard(StoredText(a), WorkflowRubric),
                                         EvaluateScorecard(StoredText(a), ServiceRubric)}
      BY DEF ScoredIsBacked
    <2>1. row[a].status \in {"delivered", "failed"}
      BY DEF CInv, ScoreInv
    <2>2. StoredText(a) = Sanitized[message[a]]
      BY <2>1 DEF CInv, LifeInv, FlowInv, OutcomeInv, StoredText
    <2> QED BY <2>1, <2>2 DEF CInv, ScoreInv, ScoringTypeOK, WorkflowScore, ServiceScore
  <1> QED BY <1>1, CInvariant, PTL

\* No step, retry or rescoring leaves a scorecard in a row that the rubrics could
\* not give: ten points at most, seven for a scorecard that says the required
\* items passed, and no ten without them.
THEOREM ScoresAreInRange ==
    ScoringSpec => [](\A a \in Attempts : score[a] # NoScore =>
                         /\ score[a].max_score = 10
                         /\ score[a].total_score \in 0 .. 10
                         /\ score[a].required_passed => score[a].total_score >= 7
                         /\ score[a].total_score = 10 => score[a].required_passed)
  <1>1. ASSUME CInv, NEW a \in Attempts, score[a] # NoScore
        PROVE  /\ score[a].max_score = 10
               /\ score[a].total_score \in 0 .. 10
               /\ score[a].required_passed => score[a].total_score >= 7
               /\ score[a].total_score = 10 => score[a].required_passed
    <2>1. PICK rubric \in {WorkflowRubric, ServiceRubric} :
             score[a] = EvaluateScorecard(Sanitized[message[a]], rubric)
      BY <1>1 DEF CInv, ScoreInv, ScoringTypeOK, WorkflowScore, ServiceScore
    <2> QED BY <2>1, RequiredPoints
  <1>2. CInv => \A a \in Attempts : score[a] # NoScore =>
                         /\ score[a].max_score = 10
                         /\ score[a].total_score \in 0 .. 10
                         /\ score[a].required_passed => score[a].total_score >= 7
                         /\ score[a].total_score = 10 => score[a].required_passed
    BY <1>1
  <1> QED BY <1>2, CInvariant, PTL

\* The text kept with an attempt that went out, and the text of its event, show
\* no number that SanitizePII looks for.
THEOREM StoredIsClean == ScoringSpec => []StoredContentIsClean
  <1>1. CInv => StoredContentIsClean
    <2> SUFFICES ASSUME CInv, NEW a \in Attempts,
                        row[a].status \in {"delivered", "failed"} \/ a \in toScore
                 PROVE  ~ ShowsPII(StoredText(a))
      BY DEF StoredContentIsClean
    <2>1. row[a].status \in {"delivered", "failed"}
      BY FlowBacked DEF CInv, LifeInv, ScoreInv, InteractionBacked
    <2>2. StoredText(a) = SanitizePII(message[a])
      BY <2>1 DEF CInv, LifeInv, FlowInv, OutcomeInv, StoredText, ScoreInv, ScoringTypeOK,
         Sanitized
    <2>3. message[a] \in Seq({message[a][i] : i \in DOMAIN message[a]})
      BY ScoringAssumption DEF CInv, ScoreInv, ScoringTypeOK
    <2> QED BY <2>2, <2>3, SanitizedIsClean
  <1> QED BY <1>1, CInvariant, PTL

\* Once the service has scored an interaction and no record request is under
\* way, its scorecard stays for ever.
THEOREM ScoresSettle == ScoringSpec => ServiceScoreSettles
  <1>1. ASSUME CInv, [ScoringNext]_allVars, NEW a \in Attempts, a \in interactions,
               score[a] = ServiceScore(a), [attempt |-> a, op |-> "record"] \notin late
        PROVE  /\ score'[a] = ServiceScore(a)
               /\ [attempt |-> a, op |-> "record"] \notin late'
    <2>0. TypeOK /\ HandlerInv /\ [Next]_vars /\ DOMAIN score = Attempts
      BY <1>1, ScoringStep DEF CInv, LifeInv, FlowInv, ScoreInv, ScoringTypeOK
    <2>1. wf[a] \in {"publishInteraction", "completed", "failed"}
      BY <1>1 DEF CInv, StageInv
    <2>2. [attempt |-> a, op |-> "record"] \notin late'
      <3>1. ASSUME NEW b \in Attempts, WorkflowNext(b)
            PROVE  [attempt |-> a, op |-> "record"] \notin late'
        BY <1>1, <2>0, <2>1, <3>1, WorkflowFrame
      <3>2. ASSUME NEW r \in late, LateRequestServed(r)
            PROVE  [attempt |-> a, op |-> "record"] \notin late'
        BY <1>1, <3>2 DEF LateRequestServed
      <3> QED BY <1>1, <2>0, <3>1, <3>2, StepKinds DEF Quiet
    <2>3. ASSUME NEW b \in Attempts, Scores(b) PROVE score'[a] = ServiceScore(a)
      <3>1. CASE b = a
        BY <1>1, <2>0, <2>1, <2>3, <3>1 DEF Scores, Carry
      <3>2. CASE b # a
        BY <1>1, <2>0, <2>3, <3>2 DEF Scores, Carry
      <3> QED BY <3>1, <3>2
    <2> QED BY <1>1, <2>0, <2>2, <2>3, ScoringStep
  <1>2. CInv /\ [ScoringNext]_allVars =>
          [\A a \in Attempts :
              a \in interactions /\ score[a] = ServiceScore(a)
                 /\ [attempt |-> a, op |-> "record"] \notin late
              => /\ score'[a] = ServiceScore(a)
                 /\ [attempt |-> a, op |-> "record"] \notin late']_allVars
    BY <1>1
  <1> QED BY <1>2, CInvariant, PTL DEF ScoringSpec, ServiceScoreSettles

\* No message about an interaction is lost: it stays on the topic until the row
\* holds the service's scorecard, so a failed update or a lost acknowledgement
\* only makes it come again (subscribers.go:60-113).  This is the argument behind
\* InteractionsAreScored.
THEOREM InteractionIsKept ==
    ScoringSpec => [][\A a \in toScore :
                        a \in toScore' \/ score'[a] = ServiceScore(a)]_allVars
  <1>1. ASSUME CInv, [ScoringNext]_allVars, NEW a \in toScore
        PROVE  a \in toScore' \/ score'[a] = ServiceScore(a)
    <2>1. DOMAIN score = Attempts /\ toScore \subseteq Attempts
      BY <1>1 DEF CInv, ScoreInv, ScoringTypeOK
    <2>2. ASSUME NEW b \in Attempts, HandleInteractionCreated(b)
          PROVE  a \in toScore' \/ score'[a] = ServiceScore(a)
      BY <2>1, <2>2 DEF HandleInteractionCreated, UpdateScorecardResult
    <2>3. ASSUME NEW b, NEW op, Carry(b, op) PROVE a \in toScore'
      BY <2>3 DEF Carry
    <2>4. UNCHANGED scoringVars => a \in toScore'
      BY DEF scoringVars
    <2>5. UNCHANGED allVars => UNCHANGED scoringVars
      BY DEF allVars
    <2>6. ASSUME NEW b \in Attempts, HandleInteractionCreatedUnacked(b) PROVE a \in toScore'
      BY <2>6 DEF HandleInteractionCreatedUnacked
    <2> QED BY <1>1, <2>2, <2>3, <2>4, <2>5, <2>6 DEF ScoringNext
  <1>2. CInv /\ [ScoringNext]_allVars =>
          [\A a \in toScore : a \in toScore' \/ score'[a] = ServiceScore(a)]_allVars
    BY <1>1
  <1> QED BY <1>2, CInvariant, PTL DEF ScoringSpec

=============================================================================
