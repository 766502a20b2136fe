----------------------- MODULE PlanningAndScopeProofs -----------------------
(***************************************************************************)
(* What the lookups of an information need ask for: their plans            *)
(* (RetrievalPlanning) and their dates (QuestionScope).                    *)
(*                                                                         *)
(* Plans: PlansExecutable, UntriedFirst, StopMeansExhausted and ScopeKept  *)
(* for every deployment, budget and answer of the classifier.  The four    *)
(* need each other and three facts that none of them states: how the       *)
(* numbers of plans and of grades go together at each node (or Plan and    *)
(* Grade could raise), that the number of results never shrinks from plan  *)
(* to plan, and that every plan but the first has the final query (or a    *)
(* repeated lookup could be an early one that differs from the last).      *)
(* PInv carries them.                                                      *)
(*                                                                         *)
(* Dates: AnswersKeepToTheDates and NothingNamedIsLost for every calendar, *)
(* question, clock and set of documents.  They rest on Resolves: a range   *)
(* holds exactly the instants that the words name.                         *)
(***************************************************************************)
EXTENDS RetrievalPlanning, QuestionScope, DataTheorems


Wanted == setup.own \cup setup.parent

\* The plans a need may have: in scope, executable, larger ones later.
PlansOK ==
    /\ plans \in Seq([strategy: Usable, query: {"own", "expanded"},
                      topK: Nat \ {0}, scope: {Wanted}])
    /\ \A i, j \in DOMAIN plans : i <= j => plans[i].topK <= plans[j].topK
    /\ \A i \in DOMAIN plans : i > 1 => plans[i].query = RetryQuery

PInv ==
    /\ setup \in Setups /\ Usable # {}
    /\ pc \in {"classify", "plan", "execute", "grade", "decide"} \cup (Ends \ {"raised"})
    /\ class \in [type: QueryTypes \cup {"none"}, confidence: Confidences,
                  filters: BOOLEAN, scope: {{}, setup.own}]
    /\ class.type = "none" => pc = "classify"
    /\ class.type # "none" => class.scope = setup.own
    /\ PlansOK
    /\ UntriedFirst
    /\ graded \in Nat
    /\ Len(plans) = IF pc \in {"execute", "grade"} THEN graded + 1 ELSE graded
    /\ pc \in {"classify", "plan"} => graded < MaxAttempts
    /\ StopMeansExhausted

-----------------------------------------------------------------------------
(* The tables.                                                             *)

\* The first member of a short list that is in a set is in that set.
LEMMA FirstOf ==
    ASSUME NEW n \in 1..6, NEW order \in [1..n -> Strategies], NEW S,
           \E i \in 1..n : order[i] \in S
    PROVE  FirstAmong(order, S) \in S
  <1> DEFINE First(i) == order[i] \in S /\ \A j \in 1..(i - 1) : order[j] \notin S
  <1>1. DOMAIN order = 1..n
      OBVIOUS
  <1>2. \E i \in 1..n : First(i)
    <2>1. CASE order[1] \in S
        BY <2>1
    <2>2. CASE order[1] \notin S /\ n >= 2 /\ order[2] \in S
        BY <2>2
    <2>3. CASE order[1] \notin S /\ order[2] \notin S /\ n >= 3 /\ order[3] \in S
        BY <2>3
    <2>4. CASE /\ order[1] \notin S /\ order[2] \notin S /\ order[3] \notin S
               /\ n >= 4 /\ order[4] \in S
        BY <2>4
    <2>5. CASE /\ order[1] \notin S /\ order[2] \notin S /\ order[3] \notin S
               /\ order[4] \notin S /\ n >= 5 /\ order[5] \in S
        BY <2>5
    <2>6. CASE /\ order[1] \notin S /\ order[2] \notin S /\ order[3] \notin S
               /\ order[4] \notin S /\ order[5] \notin S /\ n = 6 /\ order[6] \in S
        BY <2>6
    <2> QED BY <2>1, <2>2, <2>3, <2>4, <2>5, <2>6
  <1>3. First(CHOOSE i \in DOMAIN order : First(i))
      BY <1>1, <1>2
  <1> QED BY <1>3 DEF FirstAmong

\* Each row of the fallback table lists all the other strategies.
LEMMA RowsComplete ==
    ASSUME NEW s \in Strategies
    PROVE  /\ FallbackOrder[s] \in [1..5 -> Strategies]
           /\ Len(FallbackOrder[s]) = 5
           /\ \A t \in Strategies \ {s} : \E i \in 1..5 : FallbackOrder[s][i] = t
  <1>1. CASE s = "baseline"
      BY <1>1 DEF FallbackOrder, Strategies
  <1>2. CASE s = "hybrid"
      BY <1>2 DEF FallbackOrder, Strategies
  <1>3. CASE s = "contextual"
      BY <1>3 DEF FallbackOrder, Strategies
  <1>4. CASE s = "hierarchical"
      BY <1>4 DEF FallbackOrder, Strategies
  <1>5. CASE s = "multi_query"
      BY <1>5 DEF FallbackOrder, Strategies
  <1>6. CASE s = "rerank"
      BY <1>6 DEF FallbackOrder, Strategies
  <1> QED BY <1>1, <1>2, <1>3, <1>4, <1>5, <1>6 DEF Strategies

\* A need starts with a usable strategy.
LEMMA InitialUsable ==
    ASSUME setup \in Setups, Usable # {} PROVE InitialStrategy \in Usable
  <1> DEFINE order == <<"baseline", "hybrid", "contextual", "hierarchical",
                        "multi_query", "rerank">>
  <1>1. order \in [1..6 -> Strategies] /\ \A s \in Strategies : \E i \in 1..6 : order[i] = s
      BY DEF Strategies
  <1>2. Usable \subseteq Strategies
      BY PlanningAssumption DEF Usable, Setups
  <1>3. \E i \in 1..6 : order[i] \in Usable
      BY <1>1, <1>2
  <1>4. FirstAmong(order, Usable) \in Usable
      BY <1>1, <1>3, FirstOf
  <1> QED BY <1>4 DEF InitialStrategy

\* A retry takes an untried strategy as long as there is one.
LEMMA UntriedUsable ==
    ASSUME setup \in Setups, NEW s \in Attempted, Attempted \subseteq Usable
    PROVE  /\ NextUntried(s) \in Usable
           /\ Usable \ Attempted # {} => NextUntried(s) \in Usable \ Attempted
           /\ Usable \subseteq Attempted => NextUntried(s) = s
  <1> DEFINE untried == Usable \ Attempted
  <1>1. Usable \subseteq Strategies
      BY PlanningAssumption DEF Usable, Setups
  <1>2. s \in Strategies /\ s \notin untried
      BY <1>1
  <1>3. /\ FallbackOrder[s] \in [1..5 -> Strategies]
        /\ Len(FallbackOrder[s]) = 5
        /\ \A t \in Strategies \ {s} : \E i \in 1..5 : FallbackOrder[s][i] = t
      BY <1>2, RowsComplete
  <1>4. CASE untried # {}
    <2>1. PICK t \in untried : TRUE
        BY <1>4
    <2>2. \E i \in 1..5 : FallbackOrder[s][i] = t
        BY <1>1, <1>2, <1>3, <2>1
    <2>3. FirstAmong(FallbackOrder[s], untried) \in untried
        BY <1>3, <2>2, FirstOf
    <2>4. \E u \in untried : Contains(FallbackOrder[s], u)
        BY <1>3, <2>2 DEF Contains
    <2> QED BY <2>3, <2>4, <1>4 DEF NextUntried
  <1>5. CASE untried = {}
      BY <1>5 DEF NextUntried
  <1> QED BY <1>4, <1>5

\* A retry never asks for fewer results.
LEMMA TopKGrows ==
    ASSUME setup \in Setups, NEW k \in Nat \ {0}
    PROVE  RetryTopK(k) \in Nat \ {0} /\ RetryTopK(k) >= k
  <1>1. MaxTopK \in Nat \ {0}
      BY PlanningAssumption
  <1>2. setup.multiplier \in Multipliers
      BY DEF Setups
  <1>3. setup.multiplier[1] \in Nat /\ setup.multiplier[2] \in Nat \ {0}
      BY <1>2, PlanningAssumption
  <1> DEFINE c == Ceiling(k, setup.multiplier)
  <1>4. c \in Int
    <2> DEFINE a == setup.multiplier[1]
               b == setup.multiplier[2]
    <2>1. a \in Nat /\ b \in Nat \ {0}
        BY <1>3
    <2>2. k * a \in Nat
        BY <2>1
    <2>3. c = (k * a + b - 1) \div b
        BY DEF Ceiling
    <2> QED BY <2>1, <2>2, <2>3
  <1> HIDE DEF c
  <1>5. RetryTopK(k) = k \/ (k < MaxTopK /\ RetryTopK(k) = Lower(MaxTopK, Higher(k + 1, c)))
      BY <1>1 DEF RetryTopK, c
  <1> QED BY <1>1, <1>4, <1>5 DEF Lower, Higher
-----------------------------------------------------------------------------
(* The plans.                                                              *)

\* The plans one by one.
LEMMA PlanShape ==
    ASSUME PlansOK
    PROVE  /\ Len(plans) \in Nat /\ DOMAIN plans = 1..Len(plans)
           /\ plans # <<>> => Len(plans) \in DOMAIN plans
           /\ \A i \in DOMAIN plans :
                 /\ plans[i].strategy \in Usable
                 /\ plans[i].query \in {"own", "expanded"}
                 /\ plans[i].topK \in Nat \ {0}
                 /\ plans[i].scope = Wanted
  <1> DEFINE P == [strategy: Usable, query: {"own", "expanded"},
                   topK: Nat \ {0}, scope: {Wanted}]
  <1>1. \A p \in P : /\ p.strategy \in Usable
                     /\ p.query \in {"own", "expanded"}
                     /\ p.topK \in Nat \ {0}
                     /\ p.scope = Wanted
      OBVIOUS
  <1>2. plans \in Seq(P)
      BY DEF PlansOK
  <1> HIDE DEF P
  <1>3. \A i \in DOMAIN plans : plans[i] \in P
      BY <1>2
  <1>4. Len(plans) \in Nat /\ DOMAIN plans = 1..Len(plans)
        /\ (plans # <<>> => Len(plans) \in DOMAIN plans)
      BY <1>2
  <1> QED BY <1>1, <1>3, <1>4

\* What the plans of PlansOK used is usable.
LEMMA AttemptedUsable == ASSUME PlansOK PROVE Attempted \subseteq Usable
  BY PlanShape DEF Attempted

\* The next plan of a classified need fits behind the earlier ones; it brings
\* a new strategy unless none is left.
LEMMA CandidateFits ==
    ASSUME PInv, pc = "plan"
    PROVE  /\ Candidate \in [strategy: Usable, query: {"own", "expanded"},
                             topK: Nat \ {0}, scope: {Wanted}]
           /\ \A i \in DOMAIN plans : plans[i].topK <= Candidate.topK
           /\ plans # <<>> =>
                 /\ Candidate.query = RetryQuery
                 /\ Candidate.topK = RetryTopK(Last(plans).topK)
           /\ Usable \subseteq Attempted \/ Candidate.strategy \notin Attempted
  <1>1. Scope = Wanted
      BY DEF PInv, Scope, Wanted
  <1>2. RetryQuery \in {"own", "expanded"}
      BY DEF RetryQuery
  <1>3. CASE plans = <<>>
    <2>1. Candidate = [strategy |-> InitialStrategy, query |-> "own",
                       topK |-> setup.topK, scope |-> Scope]
        BY <1>3 DEF Candidate
    <2>2. InitialStrategy \in Usable
        BY InitialUsable DEF PInv
    <2>3. setup.topK \in Nat \ {0}
        BY PlanningAssumption DEF PInv, Setups
    <2>4. DOMAIN plans = {} /\ Attempted = {}
        BY <1>3 DEF Attempted
    <2> QED BY <1>1, <1>3, <2>1, <2>2, <2>3, <2>4
  <1>4. CASE plans # <<>>
    <2> DEFINE P == [strategy: Usable, query: {"own", "expanded"},
                     topK: Nat \ {0}, scope: {Wanted}]
               last == Last(plans)
    <2>1. PlansOK
        BY DEF PInv
    <2>2. Len(plans) \in DOMAIN plans /\ last = plans[Len(plans)]
        BY <1>4, <2>1, PlanShape DEF Last
    <2>3. \A i \in DOMAIN plans : plans[i].topK <= last.topK /\ plans[i].topK \in Nat
      <3> SUFFICES ASSUME NEW i \in DOMAIN plans
                   PROVE  plans[i].topK <= last.topK /\ plans[i].topK \in Nat
          OBVIOUS
      <3>1. i <= Len(plans)
          BY <2>1, PlanShape
      <3>2. plans[i].topK <= plans[Len(plans)].topK
          BY <2>1, <2>2, <3>1 DEF PlansOK
      <3> QED BY <2>1, <2>2, <3>2, PlanShape
    <2>4. last.strategy \in Attempted /\ last.topK \in Nat \ {0}
        BY <2>1, <2>2, PlanShape DEF Attempted
    <2>5. Candidate = [strategy |-> NextUntried(last.strategy), query |-> RetryQuery,
                       topK |-> RetryTopK(last.topK), scope |-> Scope]
        BY <1>4 DEF Candidate
    <2>6. RetryTopK(last.topK) \in Nat \ {0} /\ RetryTopK(last.topK) >= last.topK
        BY <2>4, TopKGrows DEF PInv
    <2>7. /\ NextUntried(last.strategy) \in Usable
          /\ Usable \subseteq Attempted \/ NextUntried(last.strategy) \notin Attempted
        BY <2>4, AttemptedUsable, UntriedUsable DEF PInv
    <2>8. Candidate \in P
        BY <1>1, <1>2, <2>5, <2>6, <2>7
    <2>9. \A i \in DOMAIN plans : plans[i].topK <= Candidate.topK
        BY <2>3, <2>4, <2>5, <2>6
    <2> HIDE DEF P, last
    <2> QED BY <2>5, <2>7, <2>8, <2>9 DEF P, last
  <1> QED BY <1>3, <1>4

\* A need is given up only when neither strategy nor query nor number of
\* results would change.
LEMMA StopStep ==
    ASSUME PInv, pc = "plan", IsRepeated(Candidate)
    PROVE  /\ Usable = Attempted
           /\ Last(plans).query = RetryQuery
           /\ RetryTopK(Last(plans).topK) = Last(plans).topK
  <1> DEFINE last == Last(plans)
             n == Len(plans)
  <1>1. PICK i \in DOMAIN plans : SameLookup(plans[i], Candidate)
      BY DEF IsRepeated
  <1>2. PlansOK
      BY DEF PInv
  <1>3. plans # <<>> /\ n \in DOMAIN plans /\ last = plans[n] /\ n \in Nat /\ i \in 1..n
    <2>1. n \in Nat /\ DOMAIN plans = 1..n
        BY <1>2, PlanShape
    <2>2. n \in DOMAIN plans /\ plans # <<>>
        BY <2>1
    <2> QED BY <2>1, <2>2 DEF Last
  <1>4. Candidate.strategy \in Attempted
      BY <1>1 DEF SameLookup, Attempted
  <1>5. Usable = Attempted
      BY <1>4, CandidateFits, AttemptedUsable DEF PInv
  <1>6. /\ plans[i].query = RetryQuery
        /\ plans[i].topK = RetryTopK(last.topK)
      BY <1>1, <1>3, CandidateFits DEF SameLookup
  <1>7. last.query = RetryQuery
    <2>1. CASE i = n
        BY <2>1, <1>3, <1>6
    <2>2. CASE i # n
      <3>1. n > 1
          BY <1>3, <2>2
      <3> QED BY <3>1, <1>3 DEF PInv, PlansOK
    <2> QED BY <2>1, <2>2
  <1>8. plans[i].topK <= last.topK
    <2>1. i <= n
        BY <1>3
    <2> QED BY <1>2, <1>3, <2>1 DEF PlansOK
  <1>9. last.topK \in Nat \ {0} /\ plans[i].topK \in Nat
      BY <1>2, <1>3, PlanShape
  <1>10. RetryTopK(last.topK) >= last.topK /\ RetryTopK(last.topK) \in Nat
      BY <1>9, TopKGrows DEF PInv
  <1>11. RetryTopK(last.topK) = last.topK
      BY <1>6, <1>8, <1>9, <1>10
  <1> QED BY <1>5, <1>7, <1>11

\* A new plan leaves the plans as they should be.
LEMMA PlansStep ==
    ASSUME PInv, pc = "plan", plans' = Append(plans, Candidate), setup' = setup
    PROVE  PlansOK' /\ UntriedFirst' /\ Len(plans') = Len(plans) + 1
  <1> DEFINE P == [strategy: Usable, query: {"own", "expanded"},
                   topK: Nat \ {0}, scope: {Wanted}]
             n == Len(plans)
  <1>1. plans \in Seq(P) /\ n \in Nat /\ DOMAIN plans = 1..n
      BY DEF PInv, PlansOK
  <1>2. Candidate \in P
      BY CandidateFits
  <1>3. /\ plans' \in Seq(P) /\ Len(plans') = n + 1 /\ DOMAIN plans' = 1..(n + 1)
        /\ \A i \in 1..n : plans'[i] = plans[i]
        /\ plans'[n + 1] = Candidate
      BY <1>1, <1>2
  <1>4. Usable' = Usable /\ Wanted' = Wanted /\ RetryQuery' = RetryQuery
      BY DEF Usable, Enabled, Wanted, RetryQuery
  <1>5. plans' \in Seq([strategy: Usable', query: {"own", "expanded"},
                        topK: Nat \ {0}, scope: {Wanted'}])
      BY <1>3, <1>4
  <1> HIDE DEF P
  <1>6. \A i \in 1..(n + 1) : i \in 1..n \/ i = n + 1
      BY <1>1
  <1>7. ASSUME NEW i \in DOMAIN plans', NEW j \in DOMAIN plans', i <= j
        PROVE  plans'[i].topK <= plans'[j].topK
    <2>1. CASE j \in 1..n
      <3>1. i \in 1..n
          BY <1>1, <1>3, <1>7, <2>1
      <3> QED BY <3>1, <2>1, <1>1, <1>3, <1>7 DEF PInv, PlansOK
    <2>2. CASE j = n + 1 /\ i \in 1..n
        BY <2>2, <1>1, <1>3, CandidateFits
    <2>3. CASE j = n + 1 /\ i = n + 1
      <3>1. Candidate.topK \in Nat
          BY <1>2 DEF P
      <3> QED BY <2>3, <3>1, <1>3
    <2> QED BY <1>3, <1>6, <2>1, <2>2, <2>3
  <1>8. ASSUME NEW i \in DOMAIN plans', i > 1
        PROVE  plans'[i].query = RetryQuery'
    <2>1. CASE i \in 1..n
        BY <2>1, <1>1, <1>3, <1>4, <1>8 DEF PInv, PlansOK
    <2>2. CASE i = n + 1
      <3>1. plans # <<>>
          BY <1>1, <1>8, <2>2
      <3> QED BY <3>1, <2>2, <1>3, <1>4, CandidateFits
    <2> QED BY <1>3, <1>6, <2>1, <2>2
  <1>9. UntriedFirst'
    <2>1. \A i \in 1..n : plans[i].strategy \in Attempted
        BY <1>1 DEF Attempted
    <2>2. Attempted \subseteq Attempted'
        BY <1>1, <1>3 DEF Attempted
    <2>3. CASE Usable \subseteq Attempted
        BY <2>3, <2>2, <1>4 DEF UntriedFirst
    <2>4. CASE ~(Usable \subseteq Attempted)
      <3>1. Candidate.strategy \notin Attempted
          BY <2>4, CandidateFits
      <3>2. \A i, j \in 1..n : i # j => plans[i].strategy # plans[j].strategy
          BY <2>4, <1>1 DEF PInv, UntriedFirst
      <3>3. ASSUME NEW i \in DOMAIN plans', NEW j \in DOMAIN plans', i # j
            PROVE  plans'[i].strategy # plans'[j].strategy
        <4>1. CASE i \in 1..n /\ j \in 1..n
            BY <4>1, <3>2, <3>3, <1>3
        <4>2. CASE i = n + 1 /\ j \in 1..n
            BY <4>2, <3>1, <2>1, <1>3
        <4>3. CASE i \in 1..n /\ j = n + 1
            BY <4>3, <3>1, <2>1, <1>3
        <4> QED BY <3>3, <4>1, <4>2, <4>3, <1>3, <1>6
      <3> QED BY <3>3 DEF UntriedFirst
    <2> QED BY <2>3, <2>4
  <1> QED BY <1>3, <1>5, <1>7, <1>8, <1>9 DEF PlansOK
-----------------------------------------------------------------------------
(* The invariant.                                                          *)

\* Nothing has been tried at first.
LEMMA PlanningInit == Init => PInv
  <1> SUFFICES ASSUME Init PROVE PInv
      OBVIOUS
  <1>1. plans = <<>> /\ DOMAIN plans = {} /\ Len(plans) = 0
      BY DEF Init
  <1>2. PlansOK
      BY <1>1 DEF PlansOK
  <1>3. UntriedFirst
      BY <1>1 DEF UntriedFirst
  <1>4. class \in [type: QueryTypes \cup {"none"}, confidence: Confidences,
                   filters: BOOLEAN, scope: {{}, setup.own}]
      BY DEF Init, Confidences
  <1>5. MaxAttempts > 0
      BY PlanningAssumption
  <1> QED BY <1>1, <1>2, <1>3, <1>4, <1>5 DEF Init, PInv, StopMeansExhausted

\* What a step that plans nothing leaves as it was.
LEMMA SamePlans ==
    ASSUME PInv, setup' = setup, plans' = plans
    PROVE  /\ PlansOK' /\ UntriedFirst' /\ Len(plans') = Len(plans)
           /\ setup' \in Setups /\ Usable' # {}
           /\ (pc' = "no_effective_fallback" => pc = "no_effective_fallback")
                 => StopMeansExhausted'
  <1>1. Usable' = Usable /\ Wanted' = Wanted /\ RetryQuery' = RetryQuery
        /\ Attempted' = Attempted
      BY DEF Usable, Enabled, Wanted, RetryQuery, Attempted
  <1>2. PlansOK'
    <2>1. PlansOK
        BY DEF PInv
    <2>2. plans' \in Seq([strategy: Usable', query: {"own", "expanded"},
                          topK: Nat \ {0}, scope: {Wanted'}])
        BY <2>1, <1>1 DEF PlansOK
    <2>3. \A i, j \in DOMAIN plans' : i <= j => plans'[i].topK <= plans'[j].topK
        BY <2>1 DEF PlansOK
    <2>4. \A i \in DOMAIN plans' : i > 1 => plans'[i].query = RetryQuery'
        BY <2>1, <1>1 DEF PlansOK
    <2> QED BY <2>2, <2>3, <2>4 DEF PlansOK
  <1>3. UntriedFirst'
      BY <1>1 DEF PInv, UntriedFirst
  <1>4. ASSUME pc' = "no_effective_fallback" => pc = "no_effective_fallback"
        PROVE  StopMeansExhausted'
    <2>1. \A k : RetryTopK(k)' = RetryTopK(k)
        BY DEF RetryTopK, Ceiling, Lower, Higher
    <2>2. Last(plans)' = Last(plans)
        BY DEF Last
    <2> QED BY <1>1, <1>4, <2>1, <2>2 DEF PInv, StopMeansExhausted
  <1> QED BY <1>1, <1>2, <1>3, <1>4 DEF PInv

\* Every step keeps PInv: one case per action.
LEMMA PlanningStep == PInv /\ [Next]_vars => PInv'
  <1> SUFFICES ASSUME PInv, [Next]_vars PROVE PInv'
      OBVIOUS
  <1>0. MaxAttempts \in Nat \ {0} /\ graded \in Nat /\ Len(plans) \in Nat
      BY PlanningAssumption, PlanShape DEF PInv
  <1>1. CASE Classify
    <2>1. /\ setup' = setup /\ plans' = plans /\ graded' = graded
          /\ pc = "classify" /\ pc' = "plan"
          /\ class' \in ModelAnswers \cup FallbackAnswers
        BY <1>1 DEF Classify
    <2>2. /\ class' \in [type: QueryTypes \cup {"none"}, confidence: Confidences,
                         filters: BOOLEAN, scope: {{}, setup.own}]
          /\ class'.type # "none" /\ class'.scope = setup.own
        BY <2>1 DEF ModelAnswers, FallbackAnswers, Confidences, QueryTypes
    <2> QED BY <1>0, <2>1, <2>2, SamePlans DEF PInv
  <1>2. CASE Plan
    <2>1. /\ setup' = setup /\ class' = class /\ graded' = graded /\ pc = "plan"
          /\ plans' = Append(plans, Candidate) /\ pc' = "execute"
        BY <1>0, <1>2 DEF Plan, PInv
    <2>2. PlansOK' /\ UntriedFirst' /\ Len(plans') = Len(plans) + 1
        BY <2>1, PlansStep
    <2>3. Usable' = Usable
        BY <2>1 DEF Usable, Enabled
    <2> QED BY <1>0, <2>1, <2>2, <2>3 DEF PInv, StopMeansExhausted
  <1>3. CASE StopNoFallback
    <2>1. /\ setup' = setup /\ class' = class /\ graded' = graded /\ plans' = plans
          /\ pc = "plan" /\ pc' = "no_effective_fallback" /\ IsRepeated(Candidate)
        BY <1>3 DEF StopNoFallback
    <2>2. /\ Usable = Attempted
          /\ Last(plans).query = RetryQuery
          /\ RetryTopK(Last(plans).topK) = Last(plans).topK
        BY <2>1, StopStep
    <2>3. StopMeansExhausted'
      <3>1. Usable' = Usable /\ Attempted' = Attempted /\ RetryQuery' = RetryQuery
            /\ Last(plans)' = Last(plans)
          BY <2>1 DEF Usable, Enabled, Attempted, RetryQuery, Last
      <3>2. \A k : RetryTopK(k)' = RetryTopK(k)
          BY <2>1 DEF RetryTopK, Ceiling, Lower, Higher
      <3> QED BY <2>2, <3>1, <3>2 DEF StopMeansExhausted
    <2> QED BY <1>0, <2>1, <2>3, SamePlans DEF PInv, Ends
  <1>4. CASE StopGlobalBudget
    <2>1. /\ setup' = setup /\ class' = class /\ graded' = graded /\ plans' = plans
          /\ pc = "plan" /\ pc' = "exhausted"
        BY <1>4 DEF StopGlobalBudget
    <2> QED BY <1>0, <2>1, SamePlans DEF PInv, Ends
  <1>5. CASE Execute
    <2>1. /\ setup' = setup /\ class' = class /\ graded' = graded /\ plans' = plans
          /\ pc = "execute"
          /\ pc' = IF Last(plans).strategy \in setup.offered THEN "grade" ELSE "raised"
        BY <1>5 DEF Execute
    <2>2. Len(plans) = graded + 1
        BY <2>1 DEF PInv
    <2>3. Len(plans) \in DOMAIN plans
        BY <1>0, <2>2, PlanShape DEF PInv
    <2>4. Last(plans).strategy \in Usable
        BY <2>3, PlanShape DEF PInv, Last
    <2>5. pc' = "grade"
        BY <2>1, <2>4 DEF Usable
    <2> QED BY <1>0, <2>1, <2>2, <2>5, SamePlans DEF PInv
  <1>6. CASE Grade
    <2>1. /\ setup' = setup /\ class' = class /\ plans' = plans /\ pc = "grade"
          /\ graded' = graded + 1
          /\ pc' = IF Len(plans) = graded + 1 THEN "decide" ELSE "raised"
        BY <1>6 DEF Grade
    <2>2. Len(plans) = graded + 1
        BY <2>1 DEF PInv
    <2> QED BY <1>0, <2>1, <2>2, SamePlans DEF PInv
  <1>7. CASE Decide
    <2>1. /\ setup' = setup /\ class' = class /\ plans' = plans /\ graded' = graded
          /\ pc = "decide" /\ pc' \in {"supported", "exhausted", "classify", "plan"}
          /\ pc' \in {"classify", "plan"} => ~(graded >= MaxAttempts)
        BY <1>7 DEF Decide
    <2>2. class.type # "none"
        BY <2>1 DEF PInv
    <2> QED BY <1>0, <2>1, <2>2, SamePlans DEF PInv, Ends
  <1>8. CASE UNCHANGED vars
    <2>1. setup' = setup /\ pc' = pc /\ class' = class /\ plans' = plans /\ graded' = graded
        BY <1>8 DEF vars
    <2> QED BY <1>0, <2>1, SamePlans DEF PInv
  <1> QED BY <1>1, <1>2, <1>3, <1>4, <1>5, <1>6, <1>7, <1>8 DEF Next

\* PInv holds in every reachable state.
THEOREM PlanningInvariance == Spec => []PInv
  <1>1. PInv /\ [Next]_vars => PInv'
      BY PlanningStep
  <1> QED BY PlanningInit, <1>1, PTL DEF Spec

\* No node of a need's loop ever raises, and every plan names a strategy that
\* is offered and configured.
THEOREM EveryPlanExecutable == Spec => []PlansExecutable
  <1>1. PInv => PlansExecutable
      BY AttemptedUsable DEF PInv, PlansExecutable, Ends
  <1> QED BY <1>1, PlanningInvariance, PTL

\* A strategy comes up again only after all usable ones did.
THEOREM NothingLeftUntried == Spec => []UntriedFirst
  <1>1. PInv => UntriedFirst
      BY DEF PInv
  <1> QED BY <1>1, PlanningInvariance, PTL

\* The planner gives up a need only when another lookup could not differ.
THEOREM GivesUpLast == Spec => []StopMeansExhausted
  <1>1. PInv => StopMeansExhausted
      BY DEF PInv
  <1> QED BY <1>1, PlanningInvariance, PTL

\* No reclassification widens or changes the scope of a lookup.
THEOREM ScopeStays == Spec => []ScopeKept
  <1>1. PInv => ScopeKept
      BY PlanShape DEF PInv, ScopeKept, Wanted
  <1> QED BY <1>1, PlanningInvariance, PTL

-----------------------------------------------------------------------------
(* The calendar.                                                           *)

\* The first month of the calendar and the first one after it.
FirstOfAll == 12 * FirstYear
Horizon == 12 * (LastYear + 1)

\* The calendar is not empty.
LEMMA CalendarFacts ==
    /\ FirstYear \in Nat /\ LastYear \in Nat /\ FirstYear <= LastYear
    /\ FirstOfAll \in Nat /\ Horizon \in Nat /\ FirstOfAll < Horizon
    /\ FirstOfAll = 12 * FirstYear /\ Horizon = 12 * LastYear + 12
    /\ Calendar = FirstOfAll..Horizon
    /\ Months = FirstOfAll..(Horizon - 1)
    /\ FirstOfAll \in Calendar /\ Horizon \in Calendar
  <1>1. FirstYear \in Nat /\ LastYear \in Nat /\ FirstYear <= LastYear
      BY ScopeAssumption
  <1> QED
      BY <1>1 DEF FirstOfAll, Horizon, Calendar, Months

\* A month has 28 to 31 days; months of the same name differ in length only if
\* they are Februaries.
LEMMA MonthLengths ==
    ASSUME NEW m \in Nat
    PROVE  /\ MonthLength(m) \in 28..31
           /\ m % 12 # 1 => \A n \in Nat : n % 12 = m % 12 => MonthLength(n) = MonthLength(m)
           /\ m % 12 = 1 => MonthLength(m) \in {28, 29}
  <1>1. m % 12 \in 0..11
      OBVIOUS
  <1>2. m % 12 # 1 => MonthLength(m) = IF m % 12 \in {3, 5, 8, 10} THEN 30 ELSE 31
      BY DEF MonthLength
  <1>3. \A n \in Nat : n % 12 # 1 => MonthLength(n) = IF n % 12 \in {3, 5, 8, 10} THEN 30 ELSE 31
      BY DEF MonthLength
  <1>4. m % 12 = 1 => MonthLength(m) = IF Leap(m \div 12) THEN 29 ELSE 28
      BY DEF MonthLength
  <1> QED
      BY <1>1, <1>2, <1>3, <1>4

\* Every month starts when the one before it ends.
LEMMA MonthStarts ==
    /\ MonthStart \in [Calendar -> Nat]
    /\ MonthStart[FirstOfAll] = 0
    /\ \A m \in Months : MonthStart[m + 1] = MonthStart[m] + MonthLength(m)
  <1> DEFINE D == Calendar
             B == Horizon - FirstOfAll
             m == [d \in D |-> d - FirstOfAll]
             last == {FirstOfAll}
             next == [d \in D |-> IF d = FirstOfAll THEN d ELSE d - 1]
             base == [d \in D |-> 0]
             step == [d \in D |-> [v \in Nat |-> v + MonthLength(IF d = FirstOfAll THEN d ELSE d - 1)]]
             Body(f) == [d \in D |-> IF d = 12 * FirstYear THEN 0
                                     ELSE f[d - 1] + MonthLength(d - 1)]
  <1>1. \A d \in D : d \in Nat /\ (d # FirstOfAll => d - 1 \in D /\ d - 1 \in Nat)
      BY CalendarFacts
  <1>2. /\ B \in Nat /\ m \in [D -> 0..B] /\ next \in [D -> D] /\ base \in [D -> Nat]
        /\ \A d \in D : d \in last \/ m[next[d]] < m[d]
      BY CalendarFacts, <1>1
  <1>3. step \in [D -> [Nat -> Nat]]
    <2>1. \A d \in D : MonthLength(IF d = FirstOfAll THEN d ELSE d - 1) \in Nat
        BY <1>1, MonthLengths
    <2> QED
        BY <2>1
  <1>4. PICK f : Unfolds(f, D, Nat, last, next, base, step)
    <2> HIDE DEF D, B, m, last, next, base, step
    <2> QED
        BY <1>2, <1>3, MeasuredRecursion
  <1>5. f \in [D -> Nat]
      BY <1>4 DEF Unfolds
  <1>6. f = Body(f)
    <2>1. ASSUME NEW d \in D
          PROVE  f[d] = IF d = 12 * FirstYear THEN 0 ELSE f[d - 1] + MonthLength(d - 1)
      <3>1. f[d] = IF d \in last THEN base[d] ELSE step[d][f[next[d]]]
          BY <1>4 DEF Unfolds
      <3>2. CASE d = FirstOfAll
          BY <3>1, <3>2, CalendarFacts
      <3>3. CASE d # FirstOfAll
        <4>1. next[d] = d - 1 /\ d - 1 \in D /\ f[d - 1] \in Nat
            BY <3>3, <1>1, <1>5
        <4>2. step[d][f[d - 1]] = f[d - 1] + MonthLength(d - 1)
            BY <3>3, <4>1
        <4> QED
            BY <3>1, <3>3, <4>1, <4>2, CalendarFacts
      <3> QED
          BY <3>2, <3>3
    <2> QED
        BY <1>5, <2>1
  <1>7. MonthStart = Body(MonthStart)
      BY <1>6 DEF MonthStart
  <1>8. \A d \in D : MonthStart[d] = IF d = 12 * FirstYear THEN 0
                                     ELSE MonthStart[d - 1] + MonthLength(d - 1)
      BY <1>7
  <1>9. \A d \in D : MonthStart[d] \in Nat
    <2> DEFINE P == {d \in D : MonthStart[d] \in Nat}
    <2>1. ASSUME NEW d \in D, \A e \in D : m[e] < m[d] => e \in P PROVE d \in P
      <3>1. CASE d = FirstOfAll
          BY <3>1, <1>8, CalendarFacts
      <3>2. CASE d # FirstOfAll
        <4>1. d - 1 \in D /\ d - 1 \in Nat /\ m[d - 1] < m[d]
            BY <3>2, <1>1, CalendarFacts
        <4>2. MonthStart[d - 1] \in Nat /\ MonthLength(d - 1) \in Nat
            BY <2>1, <4>1, MonthLengths
        <4> QED
            BY <1>8, <3>2, <4>2, CalendarFacts
      <3> QED
          BY <3>1, <3>2
    <2>2. Inductive(D, m, P)
        BY <2>1 DEF Inductive
    <2>3. P \in SUBSET D
        OBVIOUS
    <2>4. P = D
      <3> HIDE DEF P, D, B, m
      <3> QED
          BY <1>2, <2>2, <2>3, MeasureInduction
    <2> QED
        BY <2>4
  <1>10. \A k \in Months : /\ k + 1 \in D /\ k + 1 # 12 * FirstYear /\ (k + 1) - 1 = k
                           /\ MonthStart[k + 1] = MonthStart[(k + 1) - 1] + MonthLength((k + 1) - 1)
    <2>1. \A k \in Months : k + 1 \in D /\ k + 1 # 12 * FirstYear /\ (k + 1) - 1 = k
        BY CalendarFacts
    <2> HIDE DEF D
    <2> QED
        BY <1>8, <2>1
  <1>11. \A k \in Months : MonthStart[k + 1] = MonthStart[k] + MonthLength(k)
      BY <1>10
  <1>12. MonthStart \in [Calendar -> Nat]
    <2>1. MonthStart = [d \in Calendar |-> MonthStart[d]]
        BY <1>7
    <2> QED
        BY <1>9, <2>1
  <1> QED
      BY <1>8, <1>11, <1>12, CalendarFacts

\* The data of a month.
LEMMA MonthSizes ==
    ASSUME NEW m \in Calendar
    PROVE  m \in Nat /\ MonthStart[m] \in Nat /\ MonthLength(m) \in 28..31 /\ MonthLength(m) \in Nat
  <1>1. m \in Nat
      BY CalendarFacts
  <1>2. MonthLength(m) \in 28..31
      BY <1>1, MonthLengths
  <1> QED
      BY <1>1, <1>2, MonthStarts

\* Later months start after earlier ones have ended.
LEMMA StartsGrow ==
    ASSUME NEW m \in Calendar, NEW n \in Calendar, m < n
    PROVE  MonthStart[m] + MonthLength(m) <= MonthStart[n]
  <1> DEFINE C == {k \in Nat : m + 1 + k \in Calendar =>
                                  MonthStart[m] + MonthLength(m) <= MonthStart[m + 1 + k]}
  <1>0. m \in Nat /\ n \in Nat
      BY CalendarFacts
  <1>1. 0 \in C
    <2>1. m + 1 \in Calendar => m \in Months /\ m + 1 + 0 = m + 1
        BY CalendarFacts
    <2>2. MonthLength(m) \in Nat /\ MonthStart[m] \in Nat
        BY <1>0, MonthLengths, MonthStarts
    <2> QED
        BY <2>1, <2>2, MonthStarts, <1>0
  <1>2. ASSUME NEW k \in C PROVE k + 1 \in C
    <2>1. k \in Nat /\ m + 1 + (k + 1) = (m + 1 + k) + 1
        BY <1>0
    <2> SUFFICES ASSUME m + 1 + (k + 1) \in Calendar
                 PROVE  MonthStart[m] + MonthLength(m) <= MonthStart[m + 1 + (k + 1)]
        BY <2>1
    <2>2. m + 1 + k \in Calendar /\ m + 1 + k \in Months /\ m + 1 + k \in Nat
        BY <1>0, <2>1, CalendarFacts
    <2>3. MonthStart[m + 1 + (k + 1)] = MonthStart[m + 1 + k] + MonthLength(m + 1 + k)
        BY <2>1, <2>2, MonthStarts
    <2>4. /\ MonthLength(m + 1 + k) \in Nat /\ MonthLength(m) \in Nat
          /\ MonthStart[m] \in Nat /\ MonthStart[m + 1 + k] \in Nat
        BY <1>0, <2>2, MonthLengths, MonthStarts
    <2>5. MonthStart[m] + MonthLength(m) <= MonthStart[m + 1 + k]
        BY <2>2
    <2> HIDE DEF C
    <2> QED
        BY <2>3, <2>4, <2>5
  <1>3. C = Nat
    <2>1. C \in SUBSET Nat
        OBVIOUS
    <2> HIDE DEF C
    <2> QED
        BY <1>1, <1>2, <2>1, NatSetInduction
  <1>4. n - m - 1 \in Nat /\ m + 1 + (n - m - 1) = n
      BY <1>0
  <1> QED
      BY <1>3, <1>4

\* The days of the calendar.
Days == 0..(MonthStart[Horizon] - 1)

\* Every day is in one month.
LEMMA DaysHaveMonths ==
    ASSUME NEW day \in 0..MonthStart[Horizon]
    PROVE  /\ MonthOfDay[day] \in Calendar
           /\ MonthStart[MonthOfDay[day]] <= day
           /\ day < MonthStart[MonthOfDay[day]] + MonthLength(MonthOfDay[day])
  <1> DEFINE In(m) == MonthStart[m] <= day /\ day < MonthStart[m] + MonthLength(m)
             C == {k \in Nat : FirstOfAll + k \in Calendar /\ day < MonthStart[FirstOfAll + k]
                                  => \E m \in Calendar : In(m)}
  <1>1. day \in Nat /\ MonthStart[Horizon] \in Nat
      BY MonthStarts, CalendarFacts
  <1>2. 0 \in C
    <2>1. FirstOfAll + 0 = FirstOfAll
        BY CalendarFacts
    <2> QED
        BY <1>1, <2>1, MonthStarts
  <1>3. ASSUME NEW k \in C PROVE k + 1 \in C
    <2>1. k \in Nat /\ FirstOfAll + (k + 1) = (FirstOfAll + k) + 1
        BY CalendarFacts
    <2> SUFFICES ASSUME FirstOfAll + (k + 1) \in Calendar,
                        day < MonthStart[FirstOfAll + (k + 1)]
                 PROVE  \E m \in Calendar : In(m)
        BY <2>1
    <2>2. FirstOfAll + k \in Calendar /\ FirstOfAll + k \in Months
        BY <2>1, CalendarFacts
    <2>3. MonthStart[FirstOfAll + (k + 1)] = MonthStart[FirstOfAll + k] + MonthLength(FirstOfAll + k)
        BY <2>1, <2>2, MonthStarts
    <2>4. MonthStart[FirstOfAll + k] \in Nat
        BY <2>2, MonthStarts
    <2>5. CASE day < MonthStart[FirstOfAll + k]
        BY <2>2, <2>5
    <2>6. CASE ~(day < MonthStart[FirstOfAll + k])
      <3>1. In(FirstOfAll + k)
          BY <1>1, <2>3, <2>4, <2>6
      <3> QED
          BY <2>2, <3>1
    <2> QED
        BY <2>5, <2>6
  <1>4. C = Nat
    <2>1. C \in SUBSET Nat
        OBVIOUS
    <2> HIDE DEF C
    <2> QED
        BY <1>2, <1>3, <2>1, NatSetInduction
  <1>5. \E m \in Calendar : In(m)
    <2>1. CASE day = MonthStart[Horizon]
      <3>1. MonthLength(Horizon) \in 28..31
          BY CalendarFacts, MonthLengths
      <3>2. In(Horizon)
          BY <1>1, <2>1, <3>1
      <3> QED
          BY <3>2, CalendarFacts
    <2>2. CASE day < MonthStart[Horizon]
      <3>1. Horizon - FirstOfAll \in Nat /\ FirstOfAll + (Horizon - FirstOfAll) = Horizon
          BY CalendarFacts
      <3> QED
          BY <1>4, <2>2, <3>1, CalendarFacts
    <2> QED
        BY <1>1, <2>1, <2>2
  <1>6. MonthOfDay[day] = CHOOSE m \in Calendar : In(m)
    <2>1. 12 * (LastYear + 1) = Horizon
        BY DEF Horizon
    <2> QED
        BY <2>1 DEF MonthOfDay
  <1> HIDE DEF C
  <1> QED
      BY <1>5, <1>6

\* The month of a day is the last one that has begun.
LEMMA MonthsOfDays ==
    ASSUME NEW day \in 0..MonthStart[Horizon]
    PROVE  /\ MonthOfDay[day] \in Calendar
           /\ day \in Days => MonthOfDay[day] \in Months
           /\ \A m \in Calendar : MonthStart[m] <= day <=> m <= MonthOfDay[day]
           /\ \A m \in Calendar : MonthStart[m] <= day /\ day < MonthStart[m] + MonthLength(m)
                                     => MonthOfDay[day] = m
  <1> DEFINE M == MonthOfDay[day]
  <1>1. /\ M \in Calendar /\ M \in Nat
        /\ MonthStart[M] <= day /\ day < MonthStart[M] + MonthLength(M)
      BY DaysHaveMonths, CalendarFacts
  <1>2. day \in Nat /\ MonthStart[Horizon] \in Nat /\ MonthStart[M] \in Nat /\ MonthLength(M) \in Nat
      BY <1>1, MonthSizes, CalendarFacts
  <1> HIDE DEF M
  <1>3. ASSUME NEW m \in Calendar PROVE MonthStart[m] <= day <=> m <= M
    <2>1. m \in Nat /\ MonthStart[m] \in Nat /\ MonthLength(m) \in Nat
        BY MonthSizes
    <2>2. m < M => MonthStart[m] + MonthLength(m) <= MonthStart[M]
        BY <1>1, StartsGrow
    <2>3. M < m => MonthStart[M] + MonthLength(M) <= MonthStart[m]
        BY <1>1, StartsGrow
    <2> QED
        BY <1>1, <1>2, <2>1, <2>2, <2>3
  <1>4. ASSUME NEW m \in Calendar, MonthStart[m] <= day, day < MonthStart[m] + MonthLength(m)
        PROVE  M = m
    <2>1. m \in Nat /\ MonthStart[m] \in Nat /\ MonthLength(m) \in Nat
        BY MonthSizes
    <2>2. m < M => MonthStart[m] + MonthLength(m) <= MonthStart[M]
        BY <1>1, StartsGrow
    <2>3. M < m => MonthStart[M] + MonthLength(M) <= MonthStart[m]
        BY <1>1, StartsGrow
    <2> QED
        BY <1>1, <1>2, <1>4, <2>1, <2>2, <2>3
  <1>5. day \in Days => M \in Months
    <2>1. M = Horizon => MonthStart[Horizon] <= day
        BY <1>1
    <2> QED
        BY <1>1, <1>2, <2>1, CalendarFacts DEF Days
  <1> QED
      BY <1>1, <1>3, <1>4, <1>5 DEF M

\* The days of a month are days of the calendar.
LEMMA DaysOfMonths ==
    ASSUME NEW m \in Months
    PROVE  /\ MonthStart[m] \in Nat /\ MonthLength(m) \in 28..31 /\ m \in Nat
           /\ \A d \in 0..(MonthLength(m) - 1) :
                 MonthStart[m] + d \in Days /\ MonthOfDay[MonthStart[m] + d] = m
  <1>1. m \in Calendar /\ m \in Nat /\ m < Horizon /\ Horizon \in Calendar
      BY CalendarFacts
  <1>2. MonthStart[m] \in Nat /\ MonthLength(m) \in 28..31 /\ MonthStart[Horizon] \in Nat
      BY <1>1, MonthStarts, MonthLengths
  <1>3. MonthStart[m] + MonthLength(m) <= MonthStart[Horizon]
      BY <1>1, StartsGrow
  <1>4. ASSUME NEW d \in 0..(MonthLength(m) - 1)
        PROVE  MonthStart[m] + d \in Days /\ MonthOfDay[MonthStart[m] + d] = m
    <2>1. /\ MonthStart[m] + d \in Days /\ MonthStart[m] + d \in 0..MonthStart[Horizon]
          /\ MonthStart[m] <= MonthStart[m] + d
          /\ MonthStart[m] + d < MonthStart[m] + MonthLength(m)
        BY <1>2, <1>3 DEF Days
    <2> QED
        BY <1>1, <2>1, MonthsOfDays
  <1> QED
      BY <1>1, <1>2, <1>4

\* Halves of a number.
LEMMA Halves ==
    ASSUME NEW t \in Nat
    PROVE  /\ t \div 2 \in Nat /\ t % 2 \in {0, 1} /\ t = 2 * (t \div 2) + (t % 2)
           /\ \A n \in Nat : 2 * n <= t <=> n <= t \div 2
           /\ \A n \in Nat : t < 2 * n <=> t \div 2 < n
           /\ \A n \in Nat : t = 2 * n => t \div 2 = n /\ t % 2 = 0
           /\ \A n \in Nat : t = 2 * n + 1 => t \div 2 = n /\ t % 2 = 1
  OBVIOUS

\* An instant, its day, month and year.
LEMMA InstantFacts ==
    ASSUME NEW t \in Instants
    PROVE  /\ t \in Nat /\ DayOf(t) \in Days /\ DayOf(t) \in Nat /\ HalfOf(t) \in {0, 1}
           /\ DayOf(t) \in 0..MonthStart[Horizon]
           /\ t = 2 * DayOf(t) + HalfOf(t)
           /\ MonthOf(t) \in Months /\ MonthOf(t) \in Nat /\ MonthOf(t) \in Calendar
           /\ MonthOf(t) = MonthOfDay[DayOf(t)]
           /\ YearOf(t) \in FirstYear..LastYear /\ YearOf(t) \in Nat
           /\ 12 * YearOf(t) <= MonthOf(t) /\ MonthOf(t) < 12 * YearOf(t) + 12
           /\ DayOfMonth(t) \in 1..MonthLength(MonthOf(t))
           /\ DayOf(t) = MonthStart[MonthOf(t)] + DayOfMonth(t) - 1
           /\ MonthStart[MonthOf(t)] \in Nat
  <1>1. MonthStart[Horizon] \in Nat /\ 12 * (LastYear + 1) = Horizon
      BY MonthStarts, CalendarFacts DEF Horizon
  <1>2. t \in 0..(2 * MonthStart[Horizon] - 1)
      BY <1>1 DEF Instants
  <1>3. t \in Nat /\ t < 2 * MonthStart[Horizon]
      BY <1>1, <1>2
  <1>4. /\ DayOf(t) \in Nat /\ HalfOf(t) \in {0, 1} /\ t = 2 * DayOf(t) + HalfOf(t)
        /\ DayOf(t) < MonthStart[Horizon]
      BY <1>1, <1>3, Halves DEF DayOf, HalfOf
  <1>5. DayOf(t) \in Days /\ DayOf(t) \in 0..MonthStart[Horizon]
      BY <1>1, <1>4 DEF Days
  <1>6. MonthOf(t) = MonthOfDay[DayOf(t)]
      BY DEF MonthOf
  <1>7. MonthOf(t) \in Months /\ MonthOf(t) \in Calendar /\ MonthOf(t) \in Nat
      BY <1>5, <1>6, MonthsOfDays, CalendarFacts
  <1>8. /\ MonthStart[MonthOf(t)] <= DayOf(t)
        /\ DayOf(t) < MonthStart[MonthOf(t)] + MonthLength(MonthOf(t))
      BY <1>5, <1>6, DaysHaveMonths
  <1>9. MonthStart[MonthOf(t)] \in Nat /\ MonthLength(MonthOf(t)) \in Nat
      BY <1>7, MonthStarts, MonthLengths
  <1>10. /\ DayOfMonth(t) \in 1..MonthLength(MonthOf(t))
         /\ DayOf(t) = MonthStart[MonthOf(t)] + DayOfMonth(t) - 1
      BY <1>4, <1>8, <1>9 DEF DayOfMonth
  <1>11. /\ YearOf(t) \in Nat
         /\ 12 * YearOf(t) <= MonthOf(t) /\ MonthOf(t) < 12 * YearOf(t) + 12
      BY <1>7 DEF YearOf
  <1>12. YearOf(t) \in FirstYear..LastYear
      BY <1>7, <1>11, CalendarFacts
  <1> QED
      BY <1>3, <1>4, <1>5, <1>6, <1>7, <1>9, <1>10, <1>11, <1>12

\* Where an instant lies, told by months.
LEMMA BeforeAndAfter ==
    ASSUME NEW x \in Instants, NEW m \in Calendar
    PROVE  /\ Midnight(m, 1) = 2 * MonthStart[m] /\ Midnight(m, 1) \in Nat
           /\ Midnight(m, 1) <= x <=> m <= MonthOf(x)
           /\ x < Midnight(m, 1) <=> MonthOf(x) < m
  <1>1. MonthStart[m] \in Nat /\ m \in Nat
      BY MonthStarts, CalendarFacts
  <1>2. Midnight(m, 1) = 2 * MonthStart[m]
      BY <1>1 DEF Midnight
  <1>3. 2 * MonthStart[m] <= x <=> MonthStart[m] <= DayOf(x)
    <2>1. DayOf(x) \in Nat /\ HalfOf(x) \in {0, 1} /\ x = 2 * DayOf(x) + HalfOf(x)
        BY InstantFacts
    <2> QED
        BY <1>1, <2>1
  <1>4. MonthStart[m] <= DayOf(x) <=> m <= MonthOf(x)
      BY InstantFacts, MonthsOfDays
  <1>5. x \in Nat /\ MonthOf(x) \in Nat
      BY InstantFacts
  <1> QED
      BY <1>1, <1>2, <1>3, <1>4, <1>5

\* ... and by years.
LEMMA YearsBeforeAndAfter ==
    ASSUME NEW x \in Instants, NEW y \in FirstYear..(LastYear + 1)
    PROVE  /\ 12 * y \in Calendar
           /\ 12 * y <= MonthOf(x) <=> y <= YearOf(x)
           /\ MonthOf(x) < 12 * y <=> YearOf(x) < y
  <1>1. y \in Nat /\ 12 * y \in Calendar
      BY CalendarFacts
  <1>2. /\ YearOf(x) \in Nat /\ MonthOf(x) \in Nat
        /\ 12 * YearOf(x) <= MonthOf(x) /\ MonthOf(x) < 12 * YearOf(x) + 12
      BY InstantFacts
  <1> QED
      BY <1>1, <1>2

\* The first midnight of a month, and a month's step from it.
LEMMA FirstMidnights ==
    ASSUME NEW m \in Calendar
    PROVE  /\ MonthOf(Midnight(m, 1)) = m /\ DayOfMonth(Midnight(m, 1)) = 1
           /\ HalfOf(Midnight(m, 1)) = 0 /\ Midnight(m, 1) \in Nat
           /\ \A n \in Int : m + n \in Calendar => AddMonths(Midnight(m, 1), n) = Midnight(m + n, 1)
           /\ \A n \in Int : m + 12 * n \in Calendar =>
                                AddYears(Midnight(m, 1), n) = Midnight(m + 12 * n, 1)
  <1> DEFINE t == Midnight(m, 1)
  <1>1. MonthStart[m] \in Nat /\ m \in Nat /\ MonthStart[Horizon] \in Nat
      BY MonthStarts, CalendarFacts
  <1>2. t = 2 * MonthStart[m] /\ t \in Nat
      BY <1>1 DEF Midnight
  <1>3. DayOf(t) = MonthStart[m] /\ HalfOf(t) = 0
    <2> HIDE DEF t
    <2> QED
        BY <1>1, <1>2, Halves DEF DayOf, HalfOf
  <1>4. MonthStart[m] \in 0..MonthStart[Horizon]
    <2>1. m = Horizon \/ m < Horizon
        BY CalendarFacts
    <2>2. m < Horizon => MonthStart[m] + MonthLength(m) <= MonthStart[Horizon]
        BY StartsGrow, CalendarFacts
    <2>3. MonthLength(m) \in Nat
        BY <1>1, MonthLengths
    <2> QED
        BY <1>1, <2>1, <2>2, <2>3
  <1>5. MonthOfDay[MonthStart[m]] = m
    <2>1. MonthLength(m) \in 28..31
        BY <1>1, MonthLengths
    <2>2. MonthStart[m] <= MonthStart[m] /\ MonthStart[m] < MonthStart[m] + MonthLength(m)
        BY <1>1, <2>1
    <2> QED
        BY <1>4, <2>2, MonthsOfDays
  <1>6. MonthOf(t) = m
      BY <1>3, <1>5 DEF MonthOf
  <1>7. DayOfMonth(t) = 1
      BY <1>1, <1>3, <1>6 DEF DayOfMonth
  <1> HIDE DEF t
  <1>8. ASSUME NEW k \in Calendar
        PROVE  /\ Min({1, MonthLength(k)}) = 1 /\ 1 <= MonthLength(k)
               /\ Midnight(k, 1) + 0 = Midnight(k, 1)
    <2>1. MonthLength(k) \in 28..31 /\ MonthStart[k] \in Nat
        BY MonthSizes
    <2> QED
        BY <2>1, MinMaxOfTwo DEF Midnight
  <1>9. ASSUME NEW n \in Int, m + n \in Calendar PROVE AddMonths(t, n) = Midnight(m + n, 1)
      BY <1>3, <1>6, <1>7, <1>8, <1>9 DEF AddMonths
  <1>10. ASSUME NEW n \in Int, m + 12 * n \in Calendar PROVE AddYears(t, n) = Midnight(m + 12 * n, 1)
      BY <1>3, <1>6, <1>7, <1>8, <1>10 DEF AddYears
  <1> QED
      BY <1>2, <1>3, <1>6, <1>7, <1>9, <1>10 DEF t

-----------------------------------------------------------------------------
(* Dates and their ranges.                                                 *)

\* An instant is in a range of each kind.
LEMMA Ranges ==
    ASSUME NEW start \in Nat, NEW end \in Nat
    PROVE  /\ start < end => DateRange(start, end) = {[start |-> start, end |-> end]}
           /\ DateRange(Unbounded, end) = {[start |-> Unbounded, end |-> end]}
           /\ DateRange(start, Unbounded) = {[start |-> start, end |-> Unbounded]}
           /\ \A x \in Nat :
                 /\ InRange(x, [start |-> start, end |-> end]) <=> start <= x /\ x < end
                 /\ InRange(x, [start |-> Unbounded, end |-> end]) <=> x < end
                 /\ InRange(x, [start |-> start, end |-> Unbounded]) <=> start <= x
  BY DEF DateRange, Unbounded, InRange

\* The same day and hour of an earlier month, or that month's last day.
LEMMA EarlierMonths ==
    ASSUME NEW t \in Instants, NEW k \in Months
    PROVE  LET d == Min({DayOfMonth(t), MonthLength(k)})
               s == Midnight(k, d) + HalfOf(t)
           IN  /\ d \in Nat /\ s \in Nat
               /\ d = IF DayOfMonth(t) <= MonthLength(k) THEN DayOfMonth(t) ELSE MonthLength(k)
               /\ k < MonthOf(t) => s < t
               /\ \A x \in Instants :
                     s <= x <=> \/ MonthOf(x) > k
                                \/ /\ MonthOf(x) = k
                                   /\ 2 * DayOfMonth(x) + HalfOf(x) >= 2 * d + HalfOf(t)
  <1> DEFINE d == Min({DayOfMonth(t), MonthLength(k)})
             s == Midnight(k, d) + HalfOf(t)
  <1>1. /\ k \in Calendar /\ k \in Nat /\ MonthStart[k] \in Nat /\ MonthLength(k) \in 28..31
        /\ DayOfMonth(t) \in Nat \ {0} /\ HalfOf(t) \in {0, 1}
    <2>1. k \in Calendar
        BY CalendarFacts
    <2>2. DayOfMonth(t) \in 1..MonthLength(MonthOf(t)) /\ HalfOf(t) \in {0, 1}
          /\ MonthOf(t) \in Calendar
        BY InstantFacts
    <2>3. MonthLength(MonthOf(t)) \in Nat
        BY <2>2, MonthSizes
    <2> QED
        BY <2>1, <2>2, <2>3, MonthSizes
  <1>2. d = IF DayOfMonth(t) <= MonthLength(k) THEN DayOfMonth(t) ELSE MonthLength(k)
    <2>1. DayOfMonth(t) \in Int /\ MonthLength(k) \in Int
        BY <1>1
    <2> QED
        BY <2>1, MinMaxOfTwo
  <1> HIDE DEF d
  <1>3. d \in 1..MonthLength(k) /\ d \in Nat
      BY <1>1, <1>2
  <1>4. s = 2 * (MonthStart[k] + d - 1) + HalfOf(t) /\ s \in Nat
      BY <1>1, <1>3 DEF Midnight
  <1> HIDE DEF s
  <1>5. ASSUME NEW x \in Instants
        PROVE  s <= x <=> \/ MonthOf(x) > k
                          \/ /\ MonthOf(x) = k
                             /\ 2 * DayOfMonth(x) + HalfOf(x) >= 2 * d + HalfOf(t)
    <2> DEFINE m == MonthOf(x)
               e == DayOfMonth(x)
    <2>1. /\ x = 2 * (MonthStart[m] + e - 1) + HalfOf(x) /\ HalfOf(x) \in {0, 1}
          /\ m \in Calendar /\ m \in Nat /\ e \in 1..MonthLength(m) /\ MonthStart[m] \in Nat
        BY InstantFacts
    <2>2. MonthLength(m) \in Nat
        BY <2>1, MonthSizes
    <2>3. /\ k < m => MonthStart[k] + MonthLength(k) <= MonthStart[m]
          /\ m < k => MonthStart[m] + MonthLength(m) <= MonthStart[k]
        BY <1>1, <2>1, StartsGrow
    <2> HIDE DEF m, e
    <2>4. e \in Nat \ {0} /\ e <= MonthLength(m)
        BY <2>1, <2>2
    <2>5. CASE k < m
        BY <1>1, <1>3, <1>4, <2>1, <2>2, <2>3, <2>4, <2>5 DEF m, e
    <2>6. CASE m < k
        BY <1>1, <1>3, <1>4, <2>1, <2>2, <2>3, <2>4, <2>6 DEF m, e
    <2>7. CASE m = k
        BY <1>1, <1>3, <1>4, <2>1, <2>2, <2>4, <2>7 DEF m, e
    <2> QED
        BY <1>1, <2>1, <2>5, <2>6, <2>7
  <1>6. ASSUME k < MonthOf(t) PROVE s < t
    <2>1. /\ MonthOf(t) \in Calendar /\ MonthStart[MonthOf(t)] \in Nat
          /\ t \in Nat /\ Midnight(MonthOf(t), 1) <= t
          /\ Midnight(MonthOf(t), 1) = 2 * MonthStart[MonthOf(t)]
        BY InstantFacts, BeforeAndAfter
    <2>2. MonthStart[k] + MonthLength(k) <= MonthStart[MonthOf(t)]
        BY <1>1, <1>6, <2>1, StartsGrow
    <2> QED
        BY <1>1, <1>3, <1>4, <2>1, <2>2
  <1> QED
      BY <1>2, <1>3, <1>4, <1>5, <1>6 DEF d, s

\* In years, it is the same day, but for leap days.
LEMMA YearsAreMonths ==
    ASSUME NEW t \in Instants, NEW n \in Nat, MonthOf(t) - 12 * n \in Months
    PROVE  AddYears(t, -n) = AddMonths(t, -(12 * n))
  <1> DEFINE k == MonthOf(t) - 12 * n
             D == DayOfMonth(t)
  <1>1. k \in Nat /\ k \in Calendar /\ MonthOf(t) \in Nat /\ MonthOf(t) \in Calendar
      BY InstantFacts, CalendarFacts
  <1>2. D \in 1..MonthLength(MonthOf(t)) /\ MonthLength(MonthOf(t)) \in 28..31 /\ MonthLength(k) \in 28..31
      BY <1>1, InstantFacts, MonthSizes
  <1>3. MonthOf(t) + 12 * (-n) = k /\ MonthOf(t) + (-(12 * n)) = k
      BY <1>1
  <1>4. k % 12 = MonthOf(t) % 12
      BY <1>1
  <1>5. k % 12 # 1 => MonthLength(MonthOf(t)) = MonthLength(k)
      BY <1>1, <1>4, MonthLengths
  <1>6. k % 12 = 1 => MonthLength(k) \in {28, 29} /\ MonthLength(MonthOf(t)) \in {28, 29}
      BY <1>1, <1>4, MonthLengths
  <1> HIDE DEF k, D
  <1>7. Min({D, MonthLength(k)}) = IF D <= MonthLength(k) THEN D ELSE MonthLength(k)
    <2>1. D \in Int /\ MonthLength(k) \in Int
        BY <1>2
    <2> QED
        BY <2>1, MinMaxOfTwo
  <1>8. ~(D <= MonthLength(k)) => MonthLength(k) = 28
      BY <1>2, <1>5, <1>6
  <1>9. AddYears(t, -n) = IF D <= MonthLength(k) THEN Midnight(k, D) + HalfOf(t)
                          ELSE Midnight(k, 28) + HalfOf(t)
      BY <1>3 DEF AddYears, D
  <1>10. AddMonths(t, -(12 * n)) = Midnight(k, Min({D, MonthLength(k)})) + HalfOf(t)
      BY <1>3 DEF AddMonths, D
  <1> QED
      BY <1>7, <1>8, <1>9, <1>10

\* The instants that a reading names, as far as the resolver reads it.
Taken(r, t, x) ==
    IF r.relative # "none" THEN SinceRelative(r, t, x) /\ UntilRelative(r, t, x)
    ELSE LET at(i) == Granule(r.values[i].unit, x)
             is(i) == GranuleOf(r.values[i], t)
         IN  CASE r.connector = "between" /\ Len(r.values) >= 2 ->
                                           at(1) >= is(1) /\ at(2) <= is(2)
               [] r.connector = "before" -> at(1) < is(1)
               [] r.connector = "after"  -> at(1) > is(1)
               [] r.connector = "since"  -> at(1) >= is(1)
               [] r.connector = "until"  -> at(1) <= is(1)
               [] OTHER                  -> at(1) = is(1)

\* The expression is resolved to the instants that the resolver takes it to name.
SaysTheSame(S, r, t) ==
    \E range : /\ S = {range}
               /\ \A x \in Instants : InRange(x, range) <=> Taken(r, t, x)

Counted == {"days", "weeks", "months", "years"}

\* Relative expressions that name one day, month or year.
LEMMA OneUnit ==
    ASSUME NEW r, NEW t \in Instants, NEW x \in Instants
    PROVE  /\ r.relative = "today"      => (Taken(r, t, x) <=> DayOf(x) = DayOf(t))
           /\ r.relative = "yesterday"  => (Taken(r, t, x) <=> DayOf(x) + 1 = DayOf(t))
           /\ r.relative = "this_month" => (Taken(r, t, x) <=> MonthOf(x) = MonthOf(t))
           /\ r.relative = "last_month" => (Taken(r, t, x) <=> MonthOf(x) + 1 = MonthOf(t))
           /\ r.relative = "this_year"  => (Taken(r, t, x) <=> YearOf(x) = YearOf(t))
           /\ r.relative = "last_year"  => (Taken(r, t, x) <=> YearOf(x) + 1 = YearOf(t))
  <1> DEFINE u == RelativeUnit[r.relative]
  <1>1. /\ DayOf(x) \in Nat /\ DayOf(t) \in Nat /\ MonthOf(x) \in Nat /\ MonthOf(t) \in Nat
        /\ YearOf(x) \in Nat /\ YearOf(t) \in Nat
      BY InstantFacts
  <1>2. /\ r.relative \in {"today", "yesterday"}       => u = "day"
        /\ r.relative \in {"this_month", "last_month"} => u = "month"
        /\ r.relative \in {"this_year", "last_year"}   => u = "year"
      BY DEF RelativeUnit
  <1>3. /\ r.relative \in {"today", "this_month", "this_year"}     => Back(r) = 0
        /\ r.relative \in {"yesterday", "last_month", "last_year"} => Back(r) = 1
      BY DEF Back
  <1>4. \A y : /\ Granule("day", y) = DayOf(y) /\ Granule("month", y) = MonthOf(y)
               /\ Granule("year", y) = YearOf(y)
      BY DEF Granule
  <1>5. r.relative \in {"today", "yesterday", "this_month", "last_month", "this_year", "last_year"} =>
           (Taken(r, t, x) <=> /\ Granule(u, x) + Back(r) >= Granule(u, t)
                              /\ Granule(u, x) + Back(r) <= Granule(u, t))
      BY DEF Taken, SinceRelative, UntilRelative
  <1> HIDE DEF u
  <1> QED
      BY <1>1, <1>2, <1>3, <1>4, <1>5

\* Expressions relative to the clock: days,
LEMMA RelativeDays ==
    ASSUME NEW r, NEW t \in Instants, Reaches(r, t), r.relative \in {"today", "yesterday"}
    PROVE  SaysTheSame(ResolveRelative(r, t), r, t)
  <1>1. /\ t \in Nat /\ DayOf(t) \in Nat /\ HalfOf(t) \in {0, 1} /\ t = 2 * DayOf(t) + HalfOf(t)
      BY InstantFacts
  <1>2. CASE r.relative = "today"
    <2> DEFINE range == [start |-> 2 * DayOf(t), end |-> 2 * DayOf(t) + 2]
    <2>1. 2 * DayOf(t) \in Nat /\ 2 * DayOf(t) + 2 \in Nat /\ 2 * DayOf(t) < 2 * DayOf(t) + 2
        BY <1>1
    <2>2. ResolveRelative(r, t) = {range}
        BY <1>2, <2>1, Ranges DEF ResolveRelative
    <2>3. ASSUME NEW x \in Instants PROVE InRange(x, range) <=> Taken(r, t, x)
      <3>1. x \in Nat /\ DayOf(x) \in Nat /\ HalfOf(x) \in {0, 1} /\ x = 2 * DayOf(x) + HalfOf(x)
          BY InstantFacts
      <3>2. InRange(x, range) <=> 2 * DayOf(t) <= x /\ x < 2 * DayOf(t) + 2
          BY <2>1, <3>1, Ranges
      <3>3. Taken(r, t, x) <=> DayOf(x) = DayOf(t)
          BY <1>2, OneUnit
      <3> QED
          BY <1>1, <3>1, <3>2, <3>3
    <2> QED
        BY <2>2, <2>3 DEF SaysTheSame
  <1>3. CASE r.relative = "yesterday"
    <2> DEFINE range == [start |-> 2 * DayOf(t) - 2, end |-> 2 * DayOf(t)]
    <2>1. t >= 2
        BY <1>3 DEF Reaches
    <2>2. 2 * DayOf(t) - 2 \in Nat /\ 2 * DayOf(t) \in Nat /\ 2 * DayOf(t) - 2 < 2 * DayOf(t)
        BY <1>1, <2>1
    <2>3. ResolveRelative(r, t) = {range}
        BY <1>3, <2>2, Ranges DEF ResolveRelative
    <2>4. ASSUME NEW x \in Instants PROVE InRange(x, range) <=> Taken(r, t, x)
      <3>1. x \in Nat /\ DayOf(x) \in Nat /\ HalfOf(x) \in {0, 1} /\ x = 2 * DayOf(x) + HalfOf(x)
          BY InstantFacts
      <3>2. InRange(x, range) <=> 2 * DayOf(t) - 2 <= x /\ x < 2 * DayOf(t)
          BY <2>2, <3>1, Ranges
      <3>3. Taken(r, t, x) <=> DayOf(x) + 1 = DayOf(t)
          BY <1>3, OneUnit
      <3> QED
          BY <1>1, <2>1, <3>1, <3>2, <3>3
    <2> QED
        BY <2>3, <2>4 DEF SaysTheSame
  <1> QED
      BY <1>2, <1>3

\* A range of whole months.
LEMMA MonthRange ==
    ASSUME NEW m \in Calendar, NEW n \in Calendar, m < n
    PROVE  \E range : /\ DateRange(Midnight(m, 1), Midnight(n, 1)) = {range}
                      /\ \A x \in Instants : InRange(x, range) <=> m <= MonthOf(x) /\ MonthOf(x) < n
  <1> DEFINE a == Midnight(m, 1)
             b == Midnight(n, 1)
             range == [start |-> a, end |-> b]
  <1>1. a = 2 * MonthStart[m] /\ b = 2 * MonthStart[n]
        /\ a \in Nat /\ b \in Nat
    <2>1. MonthStart[m] \in Nat /\ MonthStart[n] \in Nat
        BY MonthSizes
    <2> QED
        BY <2>1 DEF Midnight
  <1>2. a < b
    <2>1. MonthStart[m] + MonthLength(m) <= MonthStart[n]
        BY StartsGrow
    <2>2. MonthStart[m] \in Nat /\ MonthStart[n] \in Nat /\ MonthLength(m) \in 28..31
        BY MonthSizes
    <2> QED
        BY <1>1, <2>1, <2>2
  <1>3. ASSUME NEW x \in Instants
        PROVE  InRange(x, range) <=> m <= MonthOf(x) /\ MonthOf(x) < n
    <2>1. x \in Nat /\ (a <= x <=> m <= MonthOf(x)) /\ (x < b <=> MonthOf(x) < n)
        BY InstantFacts, BeforeAndAfter
    <2> HIDE DEF a, b
    <2> QED
        BY <1>1, <2>1, Ranges
  <1>4. DateRange(a, b) = {range}
    <2> HIDE DEF a, b
    <2> QED
        BY <1>1, <1>2, Ranges
  <1> QED
      BY <1>3, <1>4

\* ... months and years,
LEMMA RelativeMonths ==
    ASSUME NEW r, NEW t \in Instants, Reaches(r, t),
           r.relative \in {"this_month", "last_month", "this_year", "last_year"}
    PROVE  SaysTheSame(ResolveRelative(r, t), r, t)
  <1> DEFINE M == MonthOf(t)
             Y == YearOf(t)
  <1>1. M \in Calendar /\ M \in Nat /\ Y \in Nat /\ Y \in FirstYear..LastYear
      BY InstantFacts
  <1>2. 12 * Y \in Calendar /\ 12 * Y \in Nat
    <2>1. Y \in FirstYear..(LastYear + 1)
        BY <1>1, CalendarFacts
    <2> QED
        BY <1>1, <2>1, YearsBeforeAndAfter
  <1>3. \A x \in Instants : MonthOf(x) \in Nat /\ YearOf(x) \in Nat
      BY InstantFacts
  <1>4. CASE r.relative = "this_month"
    <2>1. M + 1 \in Calendar /\ M < M + 1
        BY <1>1, <1>4, CalendarFacts DEF Reaches
    <2>2. ResolveRelative(r, t) = DateRange(Midnight(M, 1), Midnight(M + 1, 1))
        BY <1>1, <1>4, <2>1, FirstMidnights DEF ResolveRelative
    <2>3. \A x \in Instants : Taken(r, t, x) <=> MonthOf(x) = M
        BY <1>4, OneUnit
    <2> HIDE DEF M
    <2>4. PICK range : /\ DateRange(Midnight(M, 1), Midnight(M + 1, 1)) = {range}
                       /\ \A x \in Instants : InRange(x, range) <=> M <= MonthOf(x) /\ MonthOf(x) < M + 1
        BY <1>1, <2>1, MonthRange
    <2>5. \A x \in Instants : InRange(x, range) <=> Taken(r, t, x)
        BY <1>1, <1>3, <2>3, <2>4
    <2> QED
        BY <2>2, <2>4, <2>5 DEF SaysTheSame
  <1>5. CASE r.relative = "last_month"
    <2>1. M - 1 \in Calendar /\ M - 1 < M /\ M + (-1) = M - 1
        BY <1>1, <1>5, CalendarFacts DEF Reaches
    <2>2. ResolveRelative(r, t) = DateRange(Midnight(M - 1, 1), Midnight(M, 1))
        BY <1>1, <1>5, <2>1, FirstMidnights DEF ResolveRelative
    <2>3. \A x \in Instants : Taken(r, t, x) <=> MonthOf(x) + 1 = M
        BY <1>5, OneUnit
    <2> HIDE DEF M
    <2>4. PICK range : /\ DateRange(Midnight(M - 1, 1), Midnight(M, 1)) = {range}
                       /\ \A x \in Instants : InRange(x, range) <=> M - 1 <= MonthOf(x) /\ MonthOf(x) < M
        BY <1>1, <2>1, MonthRange
    <2>5. \A x \in Instants : InRange(x, range) <=> Taken(r, t, x)
        BY <1>1, <1>3, <2>3, <2>4
    <2> QED
        BY <2>2, <2>4, <2>5 DEF SaysTheSame
  <1>6. CASE r.relative = "this_year"
    <2>1. Y + 1 <= LastYear /\ Y + 1 \in FirstYear..(LastYear + 1)
        BY <1>1, <1>6, CalendarFacts DEF Reaches
    <2>2. 12 * Y + 12 * 1 = 12 * (Y + 1) /\ 12 * (Y + 1) \in Calendar /\ 12 * Y < 12 * (Y + 1)
        BY <1>1, <2>1, CalendarFacts
    <2>3. ResolveRelative(r, t) = DateRange(Midnight(12 * Y, 1), Midnight(12 * (Y + 1), 1))
        BY <1>2, <1>6, <2>2, FirstMidnights DEF ResolveRelative
    <2>4. \A x \in Instants : Taken(r, t, x) <=> YearOf(x) = Y
        BY <1>6, OneUnit
    <2> HIDE DEF Y
    <2>5. PICK range : /\ DateRange(Midnight(12 * Y, 1), Midnight(12 * (Y + 1), 1)) = {range}
                       /\ \A x \in Instants : InRange(x, range)
                             <=> 12 * Y <= MonthOf(x) /\ MonthOf(x) < 12 * (Y + 1)
        BY <1>2, <2>2, MonthRange
    <2>6. \A x \in Instants : /\ 12 * Y <= MonthOf(x) <=> Y <= YearOf(x)
                              /\ MonthOf(x) < 12 * (Y + 1) <=> YearOf(x) < Y + 1
        BY <1>1, <2>1, YearsBeforeAndAfter, CalendarFacts
    <2>7. \A x \in Instants : InRange(x, range) <=> Taken(r, t, x)
        BY <1>1, <1>3, <2>4, <2>5, <2>6
    <2> QED
        BY <2>3, <2>5, <2>7 DEF SaysTheSame
  <1>7. CASE r.relative = "last_year"
    <2>1. Y - 1 >= FirstYear /\ Y - 1 \in FirstYear..(LastYear + 1) /\ Y - 1 \in Nat
        BY <1>1, <1>7, CalendarFacts DEF Reaches
    <2>2. 12 * Y + 12 * (-1) = 12 * (Y - 1) /\ 12 * (Y - 1) \in Calendar /\ 12 * (Y - 1) < 12 * Y
        BY <1>1, <2>1, CalendarFacts
    <2>3. ResolveRelative(r, t) = DateRange(Midnight(12 * (Y - 1), 1), Midnight(12 * Y, 1))
        BY <1>2, <1>7, <2>2, FirstMidnights DEF ResolveRelative
    <2>4. \A x \in Instants : Taken(r, t, x) <=> YearOf(x) + 1 = Y
        BY <1>7, OneUnit
    <2> HIDE DEF Y
    <2>5. PICK range : /\ DateRange(Midnight(12 * (Y - 1), 1), Midnight(12 * Y, 1)) = {range}
                       /\ \A x \in Instants : InRange(x, range)
                             <=> 12 * (Y - 1) <= MonthOf(x) /\ MonthOf(x) < 12 * Y
        BY <1>2, <2>2, MonthRange
    <2>6. \A x \in Instants : /\ 12 * (Y - 1) <= MonthOf(x) <=> Y - 1 <= YearOf(x)
                              /\ MonthOf(x) < 12 * Y <=> YearOf(x) < Y
        BY <1>1, <2>1, YearsBeforeAndAfter, CalendarFacts
    <2>7. \A x \in Instants : InRange(x, range) <=> Taken(r, t, x)
        BY <1>1, <1>3, <2>1, <2>4, <2>5, <2>6
    <2> QED
        BY <2>3, <2>5, <2>7 DEF SaysTheSame
  <1> QED
      BY <1>4, <1>5, <1>6, <1>7

\* A number of months is counted back to the same day and hour.
LEMMA CountedMonths ==
    ASSUME NEW t \in Instants, NEW n \in Nat \ {0}, MonthOf(t) - n \in Months
    PROVE  \E range : /\ DateRange(AddMonths(t, -n), t) = {range}
                      /\ \A x \in Instants : InRange(x, range) <=> (x < t /\ SinceMonths(x, t, n))
  <1> DEFINE k == MonthOf(t) - n
             d == Min({DayOfMonth(t), MonthLength(k)})
             s == Midnight(k, d) + HalfOf(t)
             range == [start |-> s, end |-> t]
  <1>1. MonthOf(t) \in Nat /\ k \in Months /\ k < MonthOf(t) /\ MonthOf(t) + (-n) = k /\ t \in Nat
      BY InstantFacts
  <1>2. s \in Nat /\ s < t
      BY <1>1, EarlierMonths
  <1>3. AddMonths(t, -n) = s
      BY <1>1 DEF AddMonths
  <1>4. DateRange(s, t) = {range}
    <2> HIDE DEF s
    <2> QED
        BY <1>1, <1>2, Ranges
  <1>5. ASSUME NEW x \in Instants PROVE InRange(x, range) <=> (x < t /\ SinceMonths(x, t, n))
    <2>1. x \in Nat /\ MonthOf(x) \in Nat
        BY InstantFacts
    <2>2. InRange(x, range) <=> s <= x /\ x < t
      <3> HIDE DEF s
      <3> QED
          BY <1>1, <1>2, <2>1, Ranges
    <2>3. s <= x <=> \/ MonthOf(x) > k
                     \/ /\ MonthOf(x) = k
                        /\ 2 * DayOfMonth(x) + HalfOf(x) >= 2 * d + HalfOf(t)
        BY <1>1, EarlierMonths
    <2>4. /\ MonthOf(x) > k <=> MonthOf(x) + n > MonthOf(t)
          /\ MonthOf(x) = k <=> MonthOf(x) + n = MonthOf(t)
        BY <1>1, <2>1
    <2>5. (x < t /\ SinceMonths(x, t, n)) <=>
             /\ x < t
             /\ \/ MonthOf(x) + n > MonthOf(t)
                \/ /\ MonthOf(x) + n = MonthOf(t)
                   /\ 2 * DayOfMonth(x) + HalfOf(x) >=
                         2 * Min({DayOfMonth(t), MonthLength(MonthOf(x))}) + HalfOf(t)
        BY DEF SinceMonths
    <2>6. MonthOf(x) = k => Min({DayOfMonth(t), MonthLength(MonthOf(x))}) = d
        OBVIOUS
    <2> HIDE DEF s, d, k, range
    <2> QED
        BY <2>2, <2>3, <2>4, <2>5, <2>6
  <1> QED
      BY <1>3, <1>4, <1>5

\* ... and counted units.
LEMMA RelativeCounts ==
    ASSUME NEW r, NEW t \in Instants, Reaches(r, t), r.relative \in Counted,
           r.count \in Nat, r.count > 0
    PROVE  SaysTheSame(ResolveRelative(r, t), r, t)
  <1> DEFINE c == r.count
  <1>1. t \in Nat /\ c \in Nat /\ c > 0 /\ \A x \in Instants : x \in Nat
      BY InstantFacts
  <1>2. ASSUME NEW n \in Nat, n > 0, t >= n,
               ResolveRelative(r, t) = DateRange(t - n, t),
               \A x \in Instants : Taken(r, t, x) <=> x < t /\ t <= x + n
        PROVE  SaysTheSame(ResolveRelative(r, t), r, t)
    <2> DEFINE s == t - n
               range == [start |-> s, end |-> t]
    <2>1. s \in Nat /\ s < t /\ s = t - n
        BY <1>1, <1>2
    <2>2. DateRange(s, t) = {range}
      <3> HIDE DEF s
      <3> QED
          BY <1>1, <2>1, Ranges
    <2>3. ASSUME NEW x \in Instants PROVE InRange(x, range) <=> Taken(r, t, x)
      <3>1. InRange(x, range) <=> s <= x /\ x < t
        <4> HIDE DEF s
        <4> QED
            BY <1>1, <2>1, Ranges
      <3>2. s <= x <=> t <= x + n
          BY <1>1, <1>2, <2>1
      <3> HIDE DEF s, range
      <3> QED
          BY <1>2, <3>1, <3>2
    <2> QED
        BY <1>2, <2>2, <2>3 DEF SaysTheSame
  <1>3. CASE r.relative = "days"
    <2>1. /\ 2 * c \in Nat /\ 2 * c > 0 /\ t >= 2 * c
          /\ ResolveRelative(r, t) = DateRange(t - 2 * c, t)
          /\ \A x \in Instants : Taken(r, t, x) <=> x < t /\ t <= x + 2 * c
        BY <1>1, <1>3 DEF Reaches, ResolveRelative, Taken, SinceRelative, UntilRelative
    <2> QED
        BY <1>2, <2>1
  <1>4. CASE r.relative = "weeks"
    <2>1. /\ 14 * c \in Nat /\ 14 * c > 0 /\ t >= 14 * c
          /\ ResolveRelative(r, t) = DateRange(t - 14 * c, t)
          /\ \A x \in Instants : Taken(r, t, x) <=> x < t /\ t <= x + 14 * c
        BY <1>1, <1>4 DEF Reaches, ResolveRelative, Taken, SinceRelative, UntilRelative
    <2> QED
        BY <1>2, <2>1
  <1>5. CASE r.relative = "months"
    <2>1. c \in Nat \ {0} /\ MonthOf(t) - c \in Months
        BY <1>1, <1>5 DEF Reaches
    <2>2. ResolveRelative(r, t) = DateRange(AddMonths(t, -c), t)
        BY <1>5 DEF ResolveRelative
    <2>3. \A x \in Instants : Taken(r, t, x) <=> x < t /\ SinceMonths(x, t, c)
        BY <1>5 DEF Taken, SinceRelative, UntilRelative
    <2> HIDE DEF c
    <2> QED
        BY <2>1, <2>2, <2>3, CountedMonths DEF SaysTheSame
  <1>6. CASE r.relative = "years"
    <2>1. c \in Nat /\ 12 * c \in Nat \ {0} /\ MonthOf(t) - 12 * c \in Months
        BY <1>1, <1>6 DEF Reaches
    <2>2. ResolveRelative(r, t) = DateRange(AddYears(t, -c), t)
        BY <1>6 DEF ResolveRelative
    <2>3. \A x \in Instants : Taken(r, t, x) <=> x < t /\ SinceMonths(x, t, 12 * c)
        BY <1>6 DEF Taken, SinceRelative, UntilRelative
    <2>4. AddYears(t, -c) = AddMonths(t, -(12 * c))
        BY <2>1, YearsAreMonths
    <2> HIDE DEF c
    <2> QED
        BY <2>1, <2>2, <2>3, <2>4, CountedMonths DEF SaysTheSame
  <1> QED
      BY <1>3, <1>4, <1>5, <1>6 DEF Counted

\* Midnights and the days they begin.
LEMMA DayBounds ==
    ASSUME NEW x \in Instants, NEW n \in Nat
    PROVE  /\ 2 * n <= x <=> n <= DayOf(x)
           /\ x < 2 * n + 2 <=> DayOf(x) <= n
  <1>1. /\ x \in Nat /\ DayOf(x) \in Nat /\ HalfOf(x) \in {0, 1} /\ x = 2 * DayOf(x) + HalfOf(x)
      BY InstantFacts
  <1> QED
      BY <1>1

\* The last month to begin with a given name.
LEMMA NamedMonth ==
    ASSUME NEW v, ValueOK(v), v.unit = "named", NEW t \in Instants
    PROVE  FirstMonth(v, t) = GranuleOf(v, t)
  <1> DEFINE M == MonthOf(t)
             fm == FirstMonth(v, t)
             S == {m \in M - 11 .. M : m % 12 = v.month - 1}
  <1>1. /\ v.month \in 1..12 /\ M \in Nat /\ YearOf(t) \in Nat
        /\ 12 * YearOf(t) <= M /\ M < 12 * YearOf(t) + 12
      BY InstantFacts DEF ValueOK
  <1>2. fm = 12 * YearIn(v, t) + (v.month - 1)
      BY DEF FirstMonth
  <1>3. YearIn(v, t) = IF v.month <= (M % 12) + 1 THEN YearOf(t) ELSE YearOf(t) - 1
      BY DEF YearIn
  <1>4. M % 12 = M - 12 * YearOf(t)
      BY <1>1
  <1> HIDE DEF fm, M
  <1>5. fm \in M - 11 .. M /\ fm \in Int
      BY <1>1, <1>2, <1>3, <1>4
  <1>6. fm % 12 = v.month - 1
      BY <1>1, <1>2, <1>3, <1>5
  <1>7. \A m \in M - 11 .. M : m % 12 = v.month - 1 => m = fm
    <2> TAKE m \in M - 11 .. M
    <2> HAVE m % 12 = v.month - 1
    <2>1. m % 12 = fm % 12 /\ m \in Int
        BY <1>1, <1>6
    <2> QED
        BY <1>1, <1>5, <2>1
  <1>8. S = {fm, fm}
      BY <1>5, <1>6, <1>7
  <1>9. Max(S) = fm
      BY <1>5, <1>8, MinMaxOfTwo
  <1>10. GranuleOf(v, t) = Max(S)
      BY DEF GranuleOf, M
  <1> QED
      BY <1>9, <1>10 DEF fm

\* A value stands for the instants of one day, month or year.
LEMMA Values ==
    ASSUME NEW v, ValueOK(v), NEW t \in Instants, Exists(v, t)
    PROVE  LET value == AbsoluteValue(v, t)
           IN  /\ value.start \in Nat /\ value.end \in Nat /\ value.start < value.end
               /\ GranuleOf(v, t) \in Nat
               /\ \A x \in Instants :
                     /\ Granule(v.unit, x) \in Nat
                     /\ value.start <= x <=> Granule(v.unit, x) >= GranuleOf(v, t)
                     /\ x < value.end <=> Granule(v.unit, x) <= GranuleOf(v, t)
  <1> DEFINE fm == FirstMonth(v, t)
             value == AbsoluteValue(v, t)
             g == GranuleOf(v, t)
  <1>1. /\ v \in [unit: Units, year: Nat, month: Nat, day: Nat]
        /\ v.unit \in {"day", "month", "year", "named"}
        /\ v.unit \in {"month", "named"} => v.month \in 1..12
      BY DEF ValueOK, Units
  <1>2. fm \in Months /\ fm \in Calendar /\ fm \in Nat
      BY CalendarFacts DEF Exists
  <1>3. \A x \in Instants : MonthOf(x) \in Nat /\ DayOf(x) \in Nat /\ YearOf(x) \in Nat
      BY InstantFacts
  <1>4. Midnight(fm, 1) = 2 * MonthStart[fm] /\ Midnight(fm, 1) \in Nat /\ MonthStart[fm] \in Nat
    <2>1. MonthStart[fm] \in Nat
        BY <1>2, MonthSizes
    <2> HIDE DEF fm
    <2> QED
        BY <2>1 DEF Midnight
  <1>5. CASE v.unit = "day"
    <2> DEFINE n == MonthStart[fm] + v.day - 1
    <2>1. /\ v.month \in 1..12 /\ v.day \in 1..MonthLength(fm)
          /\ fm = 12 * v.year + v.month - 1
      <3>1. fm = 12 * v.year + (v.month - 1)
          BY <1>5 DEF FirstMonth, YearIn
      <3>2. v.month \in 1..12 /\ v.day \in 1..MonthLength(fm)
          BY <1>5 DEF Exists
      <3> HIDE DEF fm
      <3> QED
          BY <1>1, <3>1, <3>2
    <2>2. g = n
      <3>1. g = MonthStart[12 * v.year + v.month - 1] + v.day - 1
          BY <1>5 DEF GranuleOf
      <3> HIDE DEF g, fm
      <3> QED
          BY <2>1, <3>1
    <2>3. value.start = Midnight(fm, 1) + 2 * (v.day - 1) /\ value.end = Midnight(fm, 1) + 2 * v.day
        BY <1>5 DEF AbsoluteValue
    <2>4. \A x \in Instants : Granule(v.unit, x) = DayOf(x)
        BY <1>5 DEF Granule
    <2> HIDE DEF value, g, fm
    <2>5. MonthLength(fm) \in Nat
        BY <1>2, MonthSizes
    <2>6. n \in Nat /\ value.start = 2 * n /\ value.end = 2 * n + 2
        BY <1>4, <2>1, <2>3, <2>5
    <2> HIDE DEF n
    <2>7. \A x \in Instants : /\ 2 * n <= x <=> DayOf(x) >= n
                              /\ x < 2 * n + 2 <=> DayOf(x) <= n
        BY <1>3, <2>6, DayBounds
    <2>8. /\ value.start \in Nat /\ value.end \in Nat /\ value.start < value.end /\ g \in Nat
          /\ \A x \in Instants : /\ Granule(v.unit, x) \in Nat
                                 /\ value.start <= x <=> Granule(v.unit, x) >= g
                                 /\ x < value.end <=> Granule(v.unit, x) <= g
        BY <1>3, <2>2, <2>4, <2>6, <2>7
    <2> QED
        BY <2>8 DEF value, g
  <1>6. ASSUME NEW e \in Calendar, fm < e,
               value.start = Midnight(fm, 1), value.end = Midnight(e, 1), g \in Nat,
               \A x \in Instants : /\ Granule(v.unit, x) \in Nat
                                   /\ fm <= MonthOf(x) <=> Granule(v.unit, x) >= g
                                   /\ MonthOf(x) < e <=> Granule(v.unit, x) <= g
        PROVE  /\ value.start \in Nat /\ value.end \in Nat /\ value.start < value.end /\ g \in Nat
               /\ \A x \in Instants : /\ Granule(v.unit, x) \in Nat
                                      /\ value.start <= x <=> Granule(v.unit, x) >= g
                                      /\ x < value.end <=> Granule(v.unit, x) <= g
    <2> HIDE DEF value, g, fm
    <2>1. \A x \in Instants : /\ Midnight(fm, 1) <= x <=> fm <= MonthOf(x)
                              /\ x < Midnight(e, 1) <=> MonthOf(x) < e
        BY <1>2, <1>6, BeforeAndAfter
    <2>2. Midnight(fm, 1) < Midnight(e, 1) /\ Midnight(e, 1) \in Nat
      <3>1. MonthStart[fm] + MonthLength(fm) <= MonthStart[e]
          BY <1>2, <1>6, StartsGrow
      <3>2. MonthStart[e] \in Nat /\ MonthLength(fm) \in 28..31
          BY <1>2, MonthSizes
      <3>3. Midnight(e, 1) = 2 * MonthStart[e]
          BY <3>2 DEF Midnight
      <3> QED
          BY <1>4, <3>1, <3>2, <3>3
    <2> QED
        BY <1>4, <1>6, <2>1, <2>2
  <1>7. CASE v.unit = "year"
    <2>1. v.year + 1 <= LastYear /\ v.year \in Nat
        BY <1>1, <1>7 DEF Exists
    <2>2. fm = 12 * v.year
      <3>1. fm = 12 * v.year + 0
          BY <1>7 DEF FirstMonth, YearIn
      <3> HIDE DEF fm
      <3> QED
          BY <1>1, <3>1
    <2>3. g = v.year
        BY <1>7 DEF GranuleOf
    <2>4. value.start = Midnight(fm, 1) /\ value.end = Midnight(12 * v.year + 12, 1)
        BY <1>7 DEF AbsoluteValue
    <2>5. \A x \in Instants : Granule(v.unit, x) = YearOf(x)
        BY <1>7 DEF Granule
    <2>6. /\ v.year \in FirstYear..(LastYear + 1) /\ v.year + 1 \in FirstYear..(LastYear + 1)
          /\ 12 * v.year + 12 = 12 * (v.year + 1)
      <3>1. FirstOfAll <= fm /\ FirstOfAll = 12 * FirstYear /\ FirstYear \in Nat /\ LastYear \in Nat
          BY <1>2, CalendarFacts
      <3> HIDE DEF fm
      <3>2. 12 * FirstYear <= 12 * v.year
          BY <2>2, <3>1
      <3> QED
          BY <2>1, <3>1, <3>2
    <2>7. \A x \in Instants : /\ 12 * v.year <= MonthOf(x) <=> v.year <= YearOf(x)
                              /\ MonthOf(x) < 12 * (v.year + 1) <=> YearOf(x) < v.year + 1
        BY <2>6, YearsBeforeAndAfter
    <2>8. 12 * (v.year + 1) \in Calendar /\ fm < 12 * (v.year + 1)
      <3>1. 12 * (v.year + 1) \in Calendar
          BY <2>1, <2>6, CalendarFacts
      <3> HIDE DEF fm
      <3> QED
          BY <2>1, <2>2, <3>1
    <2>9. \A x \in Instants : /\ Granule(v.unit, x) \in Nat
                              /\ fm <= MonthOf(x) <=> Granule(v.unit, x) >= g
                              /\ MonthOf(x) < 12 * (v.year + 1) <=> Granule(v.unit, x) <= g
      <3> HIDE DEF fm, g
      <3> QED
          BY <1>3, <2>1, <2>2, <2>3, <2>5, <2>7
    <2> QED
      <3>1. value.end = Midnight(12 * (v.year + 1), 1) /\ g \in Nat
        <4> HIDE DEF value, g
        <4> QED
            BY <2>1, <2>3, <2>4, <2>6
      <3> QED
          BY <1>6, <2>4, <2>8, <2>9, <3>1
  <1>8. CASE v.unit \in {"month", "named"}
    <2>1. fm + 1 \in Months /\ fm + 1 \in Calendar /\ fm < fm + 1
      <3>1. fm + 1 \in Months
          BY <1>8 DEF Exists
      <3> HIDE DEF fm
      <3> QED
          BY <1>2, <3>1, CalendarFacts
    <2>2. value.start = Midnight(fm, 1) /\ value.end = AddMonths(Midnight(fm, 1), 1)
        BY <1>8 DEF AbsoluteValue
    <2>3. AddMonths(Midnight(fm, 1), 1) = Midnight(fm + 1, 1)
      <3> HIDE DEF fm
      <3> QED
          BY <1>2, <2>1, FirstMidnights
    <2>4. g = fm
      <3>1. CASE v.unit = "named"
          BY <3>1, NamedMonth
      <3>2. CASE v.unit = "month"
        <4>1. g = 12 * v.year + v.month - 1
            BY <3>2 DEF GranuleOf
        <4>2. fm = 12 * v.year + (v.month - 1)
            BY <3>2 DEF FirstMonth, YearIn
        <4>3. v.year \in Nat /\ v.month \in 1..12
            BY <1>1, <1>8
        <4> HIDE DEF g, fm
        <4> QED
            BY <4>1, <4>2, <4>3
      <3> QED
          BY <1>8, <3>1, <3>2
    <2>5. \A x \in Instants : Granule(v.unit, x) = MonthOf(x)
        BY <1>8 DEF Granule
    <2>6. \A x \in Instants : /\ Granule(v.unit, x) \in Nat
                              /\ fm <= MonthOf(x) <=> Granule(v.unit, x) >= g
                              /\ MonthOf(x) < fm + 1 <=> Granule(v.unit, x) <= g
      <3> HIDE DEF fm, g
      <3> QED
          BY <1>2, <1>3, <2>4, <2>5
    <2> QED
        BY <1>2, <1>6, <2>1, <2>2, <2>3, <2>4, <2>6
  <1> QED
    <2>1. /\ value.start \in Nat /\ value.end \in Nat /\ value.start < value.end /\ g \in Nat
          /\ \A x \in Instants : /\ Granule(v.unit, x) \in Nat
                                 /\ value.start <= x <=> Granule(v.unit, x) >= g
                                 /\ x < value.end <=> Granule(v.unit, x) <= g
        BY <1>1, <1>5, <1>7, <1>8
    <2> QED
        BY <2>1 DEF value, g

\* Any dates that exist and are in order are resolved to what they say.
LEMMA Resolves ==
    ASSUME NEW r, ReadingOK(r), NEW t \in Instants, InOrder(r, t),
           r.relative # "none" \/ r.values # <<>>
    PROVE  SaysTheSame(ResolveDateExpression(r, t), r, t)
  <1>1. CASE r.relative # "none"
    <2>1. Reaches(r, t) /\ ResolveDateExpression(r, t) = ResolveRelative(r, t)
        BY <1>1 DEF InOrder, ResolveDateExpression
    <2>2. r.relative \in {"today", "yesterday", "this_month", "last_month", "this_year",
                          "last_year"} \cup Counted
        BY <1>1 DEF ReadingOK, Counted
    <2>3. r.relative \in Counted => r.count \in Nat /\ r.count > 0
        BY DEF InOrder, ReadingOK, Counted
    <2> QED
        BY <2>1, <2>2, <2>3, RelativeDays, RelativeMonths, RelativeCounts
  <1>2. CASE r.relative = "none"
    <2> DEFINE value(i) == AbsoluteValue(r.values[i], t)
               at(i, x) == Granule(r.values[i].unit, x)
               is(i) == GranuleOf(r.values[i], t)
               Two == r.connector = "between" /\ Len(r.values) >= 2
    <2>1. /\ r.values # <<>> /\ r.values \in Seq([unit: Units, year: Nat, month: Nat, day: Nat])
          /\ \A i \in DOMAIN r.values : ValueOK(r.values[i]) /\ Exists(r.values[i], t)
        BY <1>2 DEF ReadingOK, InOrder
    <2>2. 1 \in DOMAIN r.values /\ (Two => 2 \in DOMAIN r.values)
        BY <2>1
    <2>3. ResolveDateExpression(r, t) = ResolveAbsolute(r, t)
        BY <1>2, <2>1 DEF ResolveDateExpression
    <2>4. ASSUME NEW i \in DOMAIN r.values
          PROVE  /\ value(i).start \in Nat /\ value(i).end \in Nat /\ value(i).start < value(i).end
                 /\ is(i) \in Nat
                 /\ \A x \in Instants : /\ at(i, x) \in Nat
                                        /\ value(i).start <= x <=> at(i, x) >= is(i)
                                        /\ x < value(i).end <=> at(i, x) <= is(i)
        BY <2>1, <2>4, Values
    <2>5. \A x \in Instants : x \in Nat
        BY InstantFacts
    <2>6. \A x \in Instants :
             Taken(r, t, x) <=>
                CASE Two                      -> at(1, x) >= is(1) /\ at(2, x) <= is(2)
                  [] r.connector = "before" -> at(1, x) < is(1)
                  [] r.connector = "after"  -> at(1, x) > is(1)
                  [] r.connector = "since"  -> at(1, x) >= is(1)
                  [] r.connector = "until"  -> at(1, x) <= is(1)
                  [] OTHER                  -> at(1, x) = is(1)
        BY <1>2 DEF Taken
    <2>7. ResolveAbsolute(r, t) =
             CASE Two                      -> DateRange(value(1).start, value(2).end)
               [] r.connector = "before" -> DateRange(Unbounded, value(1).start)
               [] r.connector = "after"  -> DateRange(value(1).end, Unbounded)
               [] r.connector = "since"  -> DateRange(value(1).start, Unbounded)
               [] r.connector = "until"  -> DateRange(Unbounded, value(1).end)
               [] OTHER                  -> DateRange(value(1).start, value(1).end)
        BY DEF ResolveAbsolute
    <2>8. Two => value(1).start < value(2).end
        BY DEF InOrder
    <2>9. r.connector \in {"none", "between", "before", "after", "since", "until"}
        BY DEF ReadingOK
    <2> DEFINE a == value(1).start
               b == value(1).end
               e == value(2).end
    <2>10. /\ a \in Nat /\ b \in Nat /\ a < b /\ (Two => e \in Nat /\ a < e)
        BY <2>2, <2>4, <2>8
    <2>11. \A x \in Instants :
              /\ at(1, x) \in Nat /\ is(1) \in Nat
              /\ a <= x <=> at(1, x) >= is(1)
              /\ b <= x <=> at(1, x) > is(1)
              /\ x < a <=> at(1, x) < is(1)
              /\ x < b <=> at(1, x) <= is(1)
              /\ Two => (x < e <=> at(2, x) <= is(2))
      <3> TAKE x \in Instants
      <3>1. /\ at(1, x) \in Nat /\ is(1) \in Nat
            /\ a <= x <=> at(1, x) >= is(1)
            /\ x < b <=> at(1, x) <= is(1)
          BY <2>2, <2>4
      <3>2. Two => (x < e <=> at(2, x) <= is(2))
          BY <2>2, <2>4
      <3>3. x \in Nat
          BY <2>5
      <3> HIDE DEF value, is, at, a, b, e
      <3> QED
          BY <2>10, <3>1, <3>2, <3>3
    <2> HIDE DEF value, is, at, a, b, e, Two
    <2> DEFINE whole == [start |-> a, end |-> b]
               first == [start |-> a, end |-> e]
    <2>12. CASE Two
      <3>1. ResolveAbsolute(r, t) = {first}
          BY <2>7, <2>10, <2>12, Ranges DEF a, e, Two
      <3>2. \A x \in Instants : InRange(x, first) <=> Taken(r, t, x)
        <4>1. \A x \in Instants : InRange(x, first) <=> a <= x /\ x < e
            BY <2>5, <2>10, <2>12, Ranges
        <4> QED
            BY <2>6, <2>11, <2>12, <4>1 DEF Two
      <3> QED
          BY <2>3, <3>1, <3>2 DEF SaysTheSame
    <2>13. CASE ~Two /\ r.connector = "before"
      <3> DEFINE range == [start |-> Unbounded, end |-> a]
      <3>1. ResolveAbsolute(r, t) = {range}
          BY <2>7, <2>10, <2>13, Ranges DEF a
      <3>2. \A x \in Instants : InRange(x, range) <=> x < a
          BY <2>5, <2>10, Ranges
      <3>3. \A x \in Instants : Taken(r, t, x) <=> at(1, x) < is(1)
          BY <2>6, <2>13
      <3> HIDE DEF range
      <3> QED
          BY <2>3, <2>11, <3>1, <3>2, <3>3 DEF SaysTheSame
    <2>14. CASE ~Two /\ r.connector = "after"
      <3> DEFINE range == [start |-> b, end |-> Unbounded]
      <3>1. ResolveAbsolute(r, t) = {range}
          BY <2>7, <2>10, <2>14, Ranges DEF b
      <3>2. \A x \in Instants : InRange(x, range) <=> b <= x
          BY <2>5, <2>10, Ranges
      <3>3. \A x \in Instants : Taken(r, t, x) <=> at(1, x) > is(1)
          BY <2>6, <2>14
      <3> HIDE DEF range
      <3> QED
          BY <2>3, <2>11, <3>1, <3>2, <3>3 DEF SaysTheSame
    <2>15. CASE ~Two /\ r.connector = "since"
      <3> DEFINE range == [start |-> a, end |-> Unbounded]
      <3>1. ResolveAbsolute(r, t) = {range}
          BY <2>7, <2>10, <2>15, Ranges DEF a
      <3>2. \A x \in Instants : InRange(x, range) <=> a <= x
          BY <2>5, <2>10, Ranges
      <3>3. \A x \in Instants : Taken(r, t, x) <=> at(1, x) >= is(1)
          BY <2>6, <2>15
      <3> HIDE DEF range
      <3> QED
          BY <2>3, <2>11, <3>1, <3>2, <3>3 DEF SaysTheSame
    <2>16. CASE ~Two /\ r.connector = "until"
      <3> DEFINE range == [start |-> Unbounded, end |-> b]
      <3>1. ResolveAbsolute(r, t) = {range}
          BY <2>7, <2>10, <2>16, Ranges DEF b
      <3>2. \A x \in Instants : InRange(x, range) <=> x < b
          BY <2>5, <2>10, Ranges
      <3>3. \A x \in Instants : Taken(r, t, x) <=> at(1, x) <= is(1)
          BY <2>6, <2>16
      <3> HIDE DEF range
      <3> QED
          BY <2>3, <2>11, <3>1, <3>2, <3>3 DEF SaysTheSame
    <2>17. CASE ~Two /\ r.connector \in {"none", "between"}
      <3>1. ResolveAbsolute(r, t) = {whole}
          BY <2>7, <2>10, <2>17, Ranges DEF a, b
      <3>2. \A x \in Instants : InRange(x, whole) <=> a <= x /\ x < b
          BY <2>5, <2>10, Ranges
      <3>3. \A x \in Instants : Taken(r, t, x) <=> at(1, x) = is(1)
          BY <2>6, <2>17
      <3>4. \A x \in Instants : a <= x /\ x < b <=> at(1, x) = is(1)
          BY <2>11
      <3> HIDE DEF whole
      <3> QED
          BY <2>3, <3>1, <3>2, <3>3, <3>4 DEF SaysTheSame
    <2> QED
        BY <2>9, <2>12, <2>13, <2>14, <2>15, <2>16, <2>17
  <1> QED
      BY <1>1, <1>2

\* ... which is what is named, unless the resolver leaves something out,
LEMMA TakenWhole ==
    ASSUME NEW r, ReadingOK(r), NEW t \in Instants, NEW x \in Instants, ReadWhole(r),
           r.relative # "none" \/ (r.values # <<>> /\ \A i \in DOMAIN r.values : Exists(r.values[i], t))
    PROVE  Names(r, t, x) <=> Taken(r, t, x)
  <1>1. r.connector \in {"none", "between", "before", "after", "since", "until"}
        /\ r.values \in Seq([unit: Units, year: Nat, month: Nat, day: Nat])
      BY DEF ReadingOK
  <1>2. CASE r.relative # "none"
    <2>1. r.connector = "none"
        BY <1>2 DEF ReadWhole
    <2>2. Names(r, t, x) <=> Since(r, 1, t, x) /\ Until(r, 1, t, x)
        BY <1>2, <2>1 DEF Names, Since, Until
    <2> QED
        BY <1>2, <2>2 DEF Taken, Since, Until
  <1>3. CASE r.relative = "none"
    <2> DEFINE at(i) == Granule(r.values[i].unit, x)
               is(i) == GranuleOf(r.values[i], t)
    <2>1. \A i \in DOMAIN r.values : at(i) \in Nat /\ is(i) \in Nat
        BY <1>3, Values DEF ReadingOK
    <2>2. /\ 1 \in DOMAIN r.values
          /\ ~(r.connector = "between" /\ Len(r.values) >= 2) => DOMAIN r.values = {1}
        BY <1>1, <1>3 DEF ReadWhole
    <2>3. \A i : /\ Since(r, i, t, x) <=> at(i) >= is(i)
                 /\ Until(r, i, t, x) <=> at(i) <= is(i)
        BY <1>3 DEF Since, Until
    <2>4. Taken(r, t, x) <=>
             CASE r.connector = "between" /\ Len(r.values) >= 2 -> at(1) >= is(1) /\ at(2) <= is(2)
               [] r.connector = "before" -> at(1) < is(1)
               [] r.connector = "after"  -> at(1) > is(1)
               [] r.connector = "since"  -> at(1) >= is(1)
               [] r.connector = "until"  -> at(1) <= is(1)
               [] OTHER                  -> at(1) = is(1)
        BY <1>3 DEF Taken
    <2> HIDE DEF at, is
    <2>5. at(1) \in Nat /\ is(1) \in Nat
        BY <2>1, <2>2
    <2>6. CASE r.connector = "between" /\ Len(r.values) >= 2
        BY <2>3, <2>4, <2>6 DEF Names
    <2>7. CASE r.connector \in {"before", "after", "since", "until"}
        BY <2>3, <2>4, <2>5, <2>7 DEF Names
    <2>8. CASE r.connector = "none" \/ (r.connector = "between" /\ ~(Len(r.values) >= 2))
      <3>1. Names(r, t, x) <=> \E i \in DOMAIN r.values : Since(r, i, t, x) /\ Until(r, i, t, x)
          BY <1>3, <2>8 DEF Names
      <3>2. DOMAIN r.values = {1}
          BY <2>2, <2>8
      <3>3. Taken(r, t, x) <=> at(1) = is(1)
          BY <2>4, <2>8
      <3> QED
          BY <2>3, <2>5, <3>1, <3>2, <3>3
    <2> QED
        BY <1>1, <2>6, <2>7, <2>8
  <1> QED
      BY <1>2, <1>3

\* ... and no more than what is named if it leaves out only what would add.
LEMMA TakenInPart ==
    ASSUME NEW r, ReadingOK(r), NEW t \in Instants, NEW x \in Instants, ReadInPart(r),
           r.relative # "none" \/ (r.values # <<>> /\ \A i \in DOMAIN r.values : Exists(r.values[i], t)),
           Taken(r, t, x)
    PROVE  Names(r, t, x)
  <1>1. CASE r.relative # "none"
    <2>1. r.connector \in {"none", "since", "until"}
        BY <1>1 DEF ReadInPart
    <2>2. Since(r, 1, t, x) /\ Until(r, 1, t, x)
        BY <1>1 DEF Taken, Since, Until
    <2> QED
        BY <1>1, <2>1, <2>2 DEF Names
  <1>2. CASE r.relative = "none"
    <2> DEFINE at(i) == Granule(r.values[i].unit, x)
               is(i) == GranuleOf(r.values[i], t)
    <2>1. r.connector = "none" /\ 1 \in DOMAIN r.values
        BY <1>2 DEF ReadInPart, ReadingOK
    <2>2. at(1) \in Nat /\ is(1) \in Nat /\ at(1) = is(1)
      <3>1. at(1) \in Nat /\ is(1) \in Nat
          BY <1>2, <2>1, Values DEF ReadingOK
      <3>2. at(1) = is(1)
          BY <1>2, <2>1 DEF Taken
      <3> QED
          BY <3>1, <3>2
    <2>3. at(1) >= is(1) /\ at(1) <= is(1)
      <3> HIDE DEF at, is
      <3> QED
          BY <2>2
    <2>4. Since(r, 1, t, x) /\ Until(r, 1, t, x)
        BY <1>2, <2>3 DEF Since, Until
    <2> QED
        BY <1>2, <2>1, <2>4 DEF Names
  <1> QED
      BY <1>1, <1>2

-----------------------------------------------------------------------------
(* The query.                                                              *)

Moments == asked..now

\* A document that was named all the time, by a question whose need does not
\* ask for other dates.
NamedThroughout(d) ==
    /\ ~(Dated(input.need) /\ input.need # input.question)
    /\ Dated(input.question) => /\ ReadWhole(input.question)
                                /\ \A t \in Moments : /\ InOrder(input.question, t)
                                                      /\ NamedDocument(input.question, t, d)

ClockInv ==
    /\ input \in Inputs /\ asked \in Starts /\ now \in asked..(asked + MaxTicks)
    /\ planned \in Moments
    /\ stage = "ask" => now = asked
    /\ retries \in Nat /\ (stage = "ask" => retries = 0)

\* The need has, or had, a plan.
HasPlan == stage \notin {"ask", "classify"} \/ (stage = "classify" /\ retries > 0)

ConstraintsInv ==
    /\ stage # "ask" => scope = Detect(input.question, asked)
    /\ HasPlan => plan = Planned(Detect(input.need, planned))

EvidenceInv ==
    /\ found \subseteq Documents /\ searched \subseteq Documents
    /\ stage \in {"ask", "classify"} /\ retries = 0 => found = {} /\ searched = {}
    /\ stage \in {"classify", "graded", "answered"} => \A d \in found : Matches(d, plan)
    /\ \A d \in searched : NamedThroughout(d) => d \in found
    /\ stage = "answered" => answer = Validated(found, scope)

ScopeInv == ClockInv /\ ConstraintsInv /\ EvidenceInv

\* A text without dates has no constraints.
LEMMA Undated ==
    ASSUME NEW r, NEW t, ~Dated(r)
    PROVE  Detect(r, t) = {}
  <1>1. Detect(r, t) = [field: Fields(r), range: ResolveDateExpression(r, t)]
      BY DEF Detect
  <1>2. CASE Fields(r) = {}
      BY <1>1, <1>2
  <1>3. CASE r.relative = "none" /\ r.values = <<>>
    <2>1. ResolveDateExpression(r, t) = {}
        BY <1>3 DEF ResolveDateExpression
    <2> QED
        BY <1>1, <2>1
  <1> QED
      BY <1>2, <1>3 DEF Dated

\* The constraints of a text are one range in each of its fields.
LEMMA Detections ==
    ASSUME NEW r, ReadingOK(r), NEW t \in Instants, NEW d \in Documents, Dated(r), InOrder(r, t)
    PROVE  /\ Detect(r, t) # {}
           /\ Matches(d, Detect(r, t))
                 <=> \A f \in Fields(r) : \E x \in Recorded(d, f) : Taken(r, t, x)
           /\ \A f \in Fields(r) : Recorded(d, f) \subseteq Instants
  <1>1. Fields(r) \subseteq {"uploaded", "published", "any"} /\ Fields(r) # {}
      BY DEF ReadingOK, Fields, Dated
  <1>2. \A f \in Fields(r) : Recorded(d, f) \subseteq Instants
    <2>1. /\ d.uploaded \in Instants /\ d.published \in Instants \cup {Unrecorded}
          /\ d["uploaded"] = d.uploaded /\ d["published"] = d.published
        BY ScopeAssumption
    <2> QED
        BY <1>1, <2>1 DEF Recorded
  <1>3. PICK range : /\ ResolveDateExpression(r, t) = {range}
                     /\ \A x \in Instants : InRange(x, range) <=> Taken(r, t, x)
      BY Resolves DEF SaysTheSame, Dated
  <1>4. Detect(r, t) = [field: Fields(r), range: {range}]
      BY <1>3 DEF Detect
  <1>5. ASSUME NEW f \in Fields(r) PROVE \E c \in Detect(r, t) : c.field = f /\ c.range = range
    <2> DEFINE c == [field |-> f, range |-> range]
    <2>1. c \in Detect(r, t) /\ c.field = f /\ c.range = range
        BY <1>4
    <2> QED
        BY <2>1
  <1>6. \A c \in Detect(r, t) : c.field \in Fields(r) /\ c.range = range
      BY <1>4
  <1>7. Matches(d, Detect(r, t))
           <=> \A f \in Fields(r) : \E x \in Recorded(d, f) : InRange(x, range)
      BY <1>5, <1>6 DEF Matches
  <1> QED
      BY <1>1, <1>2, <1>3, <1>5, <1>7

\* What is within them was named, and all that was named is within them.
LEMMA MatchesAreNamed ==
    ASSUME NEW r, ReadingOK(r), NEW t \in Instants, NEW d \in Documents, Dated(r), InOrder(r, t)
    PROVE  /\ (ReadWhole(r) \/ ReadInPart(r)) /\ Matches(d, Detect(r, t)) => NamedDocument(r, t, d)
           /\ ReadWhole(r) /\ NamedDocument(r, t, d) => Matches(d, Detect(r, t))
  <1>1. /\ Matches(d, Detect(r, t))
              <=> \A f \in Fields(r) : \E x \in Recorded(d, f) : Taken(r, t, x)
        /\ \A f \in Fields(r) : Recorded(d, f) \subseteq Instants
      BY Detections
  <1>2. r.relative # "none" \/ (r.values # <<>> /\ \A i \in DOMAIN r.values : Exists(r.values[i], t))
      BY DEF Dated, InOrder
  <1>3. \A x \in Instants : ReadWhole(r) => (Names(r, t, x) <=> Taken(r, t, x))
      BY <1>2, TakenWhole
  <1>4. \A x \in Instants : ReadInPart(r) /\ Taken(r, t, x) => Names(r, t, x)
      BY <1>2, TakenInPart
  <1>5. NamedDocument(r, t, d) <=> \A f \in Fields(r) : \E x \in Recorded(d, f) : Names(r, t, x)
      BY DEF NamedDocument
  <1> QED
      BY <1>1, <1>3, <1>4, <1>5

\* The instants of a query are in the calendar.
LEMMA MomentsFacts ==
    ASSUME ClockInv
    PROVE  /\ asked \in Nat /\ now \in Nat /\ asked \in Moments /\ now \in Moments
           /\ Moments \subseteq Instants
           /\ ReadingOK(input.question) /\ ReadingOK(input.need)
  <1>1. asked \in Nat /\ asked + MaxTicks \in Instants /\ MaxTicks \in Nat
      BY ScopeAssumption DEF ClockInv
  <1>2. asked + MaxTicks \in 0 .. 2 * MonthStart[Horizon] - 1
    <2>1. 12 * (LastYear + 1) = Horizon
        BY DEF Horizon
    <2> QED
        BY <1>1, <2>1 DEF Instants
  <1>3. MonthStart[Horizon] \in Nat
      BY MonthStarts, CalendarFacts
  <1>4. now \in Nat /\ asked <= now /\ now <= asked + MaxTicks
      BY <1>1 DEF ClockInv
  <1>5. \A t \in Moments : t \in 0 .. 2 * MonthStart[Horizon] - 1
      BY <1>1, <1>2, <1>3, <1>4 DEF Moments
  <1>6. Moments \subseteq Instants
    <2>1. 12 * (LastYear + 1) = Horizon
        BY DEF Horizon
    <2> QED
        BY <1>5, <2>1 DEF Instants
  <1> QED
      BY <1>1, <1>4, <1>6, ScopeAssumption DEF Moments, ClockInv

\* A document named throughout meets the constraints of all moments.
LEMMA NamedMatches ==
    ASSUME ClockInv, NEW d \in Documents, NamedThroughout(d), NEW t \in Moments
    PROVE  Matches(d, Detect(input.question, t))
  <1>1. t \in Instants /\ ReadingOK(input.question)
      BY MomentsFacts
  <1>2. CASE Dated(input.question)
    <2>1. /\ InOrder(input.question, t) /\ NamedDocument(input.question, t, d)
          /\ ReadWhole(input.question)
        BY <1>2 DEF NamedThroughout
    <2> QED
        BY <1>1, <1>2, <2>1, MatchesAreNamed
  <1>3. CASE ~Dated(input.question)
    <2>1. Detect(input.question, t) = {}
        BY <1>3, Undated
    <2> QED
        BY <2>1 DEF Matches
  <1> QED
      BY <1>2, <1>3

\* As long as it does not ask for other dates, a need's plan lets it pass.
LEMMA NamedFitsPlan ==
    ASSUME ClockInv, ConstraintsInv, HasPlan, stage # "ask", NEW d \in Documents, NamedThroughout(d)
    PROVE  Matches(d, plan)
  <1>1. scope = Detect(input.question, asked) /\ plan = Planned(Detect(input.need, planned))
      BY DEF ConstraintsInv
  <1>2. asked \in Moments /\ planned \in Moments /\ planned \in Instants
      BY MomentsFacts DEF ClockInv
  <1>3. CASE Detect(input.need, planned) = {}
      BY <1>1, <1>2, <1>3, NamedMatches DEF Planned
  <1>4. CASE Detect(input.need, planned) # {}
    <2>1. Dated(input.need)
        BY <1>2, <1>4, Undated
    <2>2. input.need = input.question
        BY <2>1 DEF NamedThroughout
    <2> QED
        BY <1>1, <1>2, <1>4, <2>2, NamedMatches DEF Planned
  <1> QED
      BY <1>3, <1>4

\* The invariant holds when a query begins ...
LEMMA InitScopeInv ==
    ASSUME ScopeInit
    PROVE  ScopeInv
  <1>1. asked \in Nat /\ MaxTicks \in Nat
      BY ScopeAssumption DEF ScopeInit
  <1>2. now \in asked..(asked + MaxTicks) /\ planned \in Moments
      BY <1>1 DEF ScopeInit, Moments
  <1> QED
      BY <1>2 DEF ScopeInit, ScopeInv, ClockInv, ConstraintsInv, EvidenceInv, HasPlan

\* ... and after every step.
LEMMA ScopeInvStep ==
    ASSUME ScopeInv, [ScopeNext]_scopeVars
    PROVE  ScopeInv'
  <1>0. ClockInv /\ ConstraintsInv /\ EvidenceInv
      BY DEF ScopeInv
  <1>1. CASE UNCHANGED scopeVars
      BY <1>0, <1>1 DEF scopeVars, ScopeInv, ClockInv, ConstraintsInv, EvidenceInv, HasPlan,
                        Planned, NamedThroughout, Moments
  <1>2. CASE Tick
    <2>1. /\ now' = now + 1 /\ now < asked + MaxTicks /\ stage # "ask"
          /\ UNCHANGED <<input, asked, scope, plan, planned, searched, found, answer, stage, retries>>
        BY <1>2 DEF Tick
    <2>2. asked \in Nat /\ now \in Nat /\ MaxTicks \in Nat
        BY <1>0, MomentsFacts, ScopeAssumption
    <2>3. Moments \subseteq Moments'
        BY <2>1, <2>2 DEF Moments
    <2>4. ClockInv'
        BY <1>0, <2>1, <2>2, <2>3 DEF ClockInv
    <2>5. ConstraintsInv'
        BY <1>0, <2>1 DEF ConstraintsInv, HasPlan, Planned
    <2>6. \A d : NamedThroughout(d)' => NamedThroughout(d)
        BY <2>1, <2>3 DEF NamedThroughout
    <2>7. EvidenceInv'
        BY <1>0, <2>1, <2>6 DEF EvidenceInv
    <2> QED
        BY <2>4, <2>5, <2>7 DEF ScopeInv
  <1>3. CASE ClassifyQuery
    <2>1. /\ stage = "ask" /\ stage' = "classify"
          /\ scope' = Detect(input.question, now) /\ asked' = now
          /\ UNCHANGED <<input, now, plan, planned, searched, found, answer, retries>>
        BY <1>3 DEF ClassifyQuery
    <2>2. asked' = asked /\ Moments' = Moments
        BY <1>0, <2>1 DEF ClockInv, Moments
    <2>3. ClockInv'
        BY <1>0, <2>1, <2>2 DEF ClockInv
    <2>5. retries = 0
        BY <1>0, <2>1 DEF ClockInv
    <2>6. ConstraintsInv'
        BY <1>0, <2>1, <2>2, <2>5 DEF ConstraintsInv, HasPlan
    <2>7. EvidenceInv'
        BY <1>0, <2>1, <2>5 DEF EvidenceInv
    <2> QED
        BY <2>3, <2>6, <2>7 DEF ScopeInv
  <1>4. CASE ReuseClassification \/ ClassifyNeed
    <2>1. /\ stage = "classify" /\ stage' = "lookup"
          /\ UNCHANGED <<input, now, asked, scope, searched, found, answer, retries>>
        BY <1>4 DEF ReuseClassification, ClassifyNeed
    <2>2. now \in Moments /\ asked \in Moments /\ Moments' = Moments
        BY <1>0, <2>1, MomentsFacts DEF Moments
    <2>3. planned' \in Moments /\ plan' = Planned(Detect(input.need, planned'))
      <3>1. CASE ReuseClassification
        <4>1. plan' = scope /\ planned' = asked /\ input.need = input.question
            BY <3>1 DEF ReuseClassification
        <4>2. scope = Detect(input.need, asked)
            BY <1>0, <2>1, <4>1 DEF ConstraintsInv
        <4> QED
            BY <2>2, <4>1, <4>2 DEF Planned
      <3>2. CASE ClassifyNeed
          BY <2>2, <3>2 DEF ClassifyNeed
      <3> QED
          BY <1>4, <3>1, <3>2
    <2>4. ClockInv'
        BY <1>0, <2>1, <2>2, <2>3 DEF ClockInv
    <2>5. ConstraintsInv'
        BY <1>0, <2>1, <2>3 DEF ConstraintsInv, HasPlan, Planned
    <2>6. \A d : NamedThroughout(d)' <=> NamedThroughout(d)
        BY <2>1 DEF NamedThroughout, Moments
    <2>7. EvidenceInv'
        BY <1>0, <2>1, <2>6 DEF EvidenceInv
    <2> QED
        BY <2>4, <2>5, <2>7 DEF ScopeInv
  <1>5. CASE LookUp
    <2>1. /\ stage = "lookup" /\ stage' = "validate"
          /\ UNCHANGED <<input, now, asked, scope, plan, planned, answer, retries>>
        BY <1>5 DEF LookUp
    <2>2. PICK S \in Searches : searched' = searched \cup S /\ found' = found \cup Validated(S, plan)
        BY <1>5 DEF LookUp
    <2>3. S \subseteq Documents
        BY ScopeAssumption
    <2>4. ClockInv' /\ ConstraintsInv'
        BY <1>0, <2>1 DEF ClockInv, ConstraintsInv, HasPlan, Planned, Moments
    <2>5. \A d : NamedThroughout(d)' <=> NamedThroughout(d)
        BY <2>1 DEF NamedThroughout, Moments
    <2>6. ASSUME NEW d \in searched', NamedThroughout(d) PROVE d \in found'
      <3>1. CASE d \in searched
          BY <1>0, <2>2, <2>6, <3>1 DEF EvidenceInv
      <3>2. CASE d \in S
        <4>1. Matches(d, plan)
            BY <1>0, <2>1, <2>3, <2>6, <3>2, NamedFitsPlan DEF HasPlan
        <4> QED
            BY <2>2, <3>2, <4>1 DEF Validated
      <3> QED
          BY <2>2, <2>6, <3>1, <3>2
    <2>7. found' \subseteq Documents /\ searched' \subseteq Documents
        BY <1>0, <2>2, <2>3 DEF EvidenceInv, Validated
    <2>8. EvidenceInv'
        BY <2>1, <2>5, <2>6, <2>7 DEF EvidenceInv
    <2> QED
        BY <2>4, <2>8 DEF ScopeInv
  <1>6. CASE Validate
    <2>1. /\ stage = "validate" /\ stage' = "graded"
          /\ found' = {d \in found : Matches(d, plan)}
          /\ UNCHANGED <<input, now, asked, scope, plan, planned, searched, answer, retries>>
        BY <1>6 DEF Validate, Validated
    <2>2. ClockInv' /\ ConstraintsInv'
        BY <1>0, <2>1 DEF ClockInv, ConstraintsInv, HasPlan, Planned, Moments
    <2>3. \A d : NamedThroughout(d)' <=> NamedThroughout(d)
        BY <2>1 DEF NamedThroughout, Moments
    <2>4. ASSUME NEW d \in searched, NamedThroughout(d) PROVE d \in found'
      <3>1. d \in found /\ d \in Documents
          BY <1>0, <2>4 DEF EvidenceInv
      <3>2. Matches(d, plan)
          BY <1>0, <2>1, <2>4, <3>1, NamedFitsPlan DEF HasPlan
      <3> QED
          BY <2>1, <3>1, <3>2
    <2>5. /\ found' \subseteq Documents /\ searched' \subseteq Documents
          /\ \A d \in found' : Matches(d, plan')
      <3>1. \A d \in found' : Matches(d, plan)
          BY <2>1
      <3>2. plan' = plan
          BY <2>1
      <3> QED
          BY <1>0, <2>1, <3>1, <3>2 DEF EvidenceInv
    <2>6. EvidenceInv'
        BY <2>1, <2>3, <2>4, <2>5 DEF EvidenceInv
    <2> QED
        BY <2>2, <2>6 DEF ScopeInv
  <1>7. CASE Retry
    <2>1. /\ stage = "graded" /\ stage' \in {"lookup", "classify"} /\ retries' = retries + 1
          /\ UNCHANGED <<input, now, asked, scope, plan, planned, searched, found, answer>>
        BY <1>7 DEF Retry
    <2>2. retries \in Nat /\ retries + 1 \in Nat /\ retries + 1 > 0
        BY <1>0 DEF ClockInv
    <2>3. ClockInv' /\ ConstraintsInv'
        BY <1>0, <2>1, <2>2 DEF ClockInv, ConstraintsInv, HasPlan, Planned, Moments
    <2>4. \A d : NamedThroughout(d)' <=> NamedThroughout(d)
        BY <2>1 DEF NamedThroughout, Moments
    <2>5. EvidenceInv'
        BY <1>0, <2>1, <2>2, <2>4 DEF EvidenceInv
    <2> QED
        BY <2>3, <2>5 DEF ScopeInv
  <1>8. CASE PrepareContext
    <2>1. /\ stage = "graded" \/ (stage = "classify" /\ retries > 0)
          /\ stage' = "answered" /\ answer' = Validated(found, scope)
          /\ UNCHANGED <<input, now, asked, scope, plan, planned, searched, found, retries>>
        BY <1>8 DEF PrepareContext
    <2>2. ClockInv' /\ ConstraintsInv'
        BY <1>0, <2>1 DEF ClockInv, ConstraintsInv, HasPlan, Planned, Moments
    <2>3. \A d : NamedThroughout(d)' <=> NamedThroughout(d)
        BY <2>1 DEF NamedThroughout, Moments
    <2>4. \A d \in found : Matches(d, plan)
        BY <1>0, <2>1 DEF EvidenceInv
    <2>5. answer' = Validated(found', scope')
        BY <2>1 DEF Validated
    <2>6. EvidenceInv'
        BY <1>0, <2>1, <2>3, <2>4, <2>5 DEF EvidenceInv
    <2> QED
        BY <2>2, <2>6 DEF ScopeInv
  <1> QED
      BY <1>1, <1>2, <1>3, <1>4, <1>5, <1>6, <1>7, <1>8 DEF ScopeNext

\* The invariant holds throughout a query.
THEOREM ScopeInvAlways == ScopeSpec => []ScopeInv
  BY InitScopeInv, ScopeInvStep, PTL DEF ScopeSpec

\* An answer uses only documents with the dates that the question and its need
\* named.
THEOREM AnswersKeep == ScopeSpec => []AnswersKeepToTheDates
  <1>1. ASSUME ScopeInv, stage = "answered"
        PROVE  KeepsTo(input.question, asked) /\ KeepsTo(input.need, planned)
    <2>1. /\ ClockInv /\ ConstraintsInv /\ EvidenceInv
          /\ answer = {d \in found : Matches(d, scope)} /\ found \subseteq Documents
          /\ \A d \in found : Matches(d, plan)
          /\ scope = Detect(input.question, asked)
          /\ plan = Planned(Detect(input.need, planned))
        BY <1>1 DEF ScopeInv, EvidenceInv, ConstraintsInv, HasPlan, Validated
    <2>2. /\ asked \in Instants /\ planned \in Instants
          /\ ReadingOK(input.question) /\ ReadingOK(input.need)
        BY <2>1, MomentsFacts DEF ClockInv
    <2>3. KeepsTo(input.question, asked)
      <3> SUFFICES ASSUME Dated(input.question), InOrder(input.question, asked),
                          ReadWhole(input.question) \/ ReadInPart(input.question), NEW d \in answer
                   PROVE  NamedDocument(input.question, asked, d)
          BY DEF KeepsTo
      <3> QED
          BY <2>1, <2>2, MatchesAreNamed
    <2>4. KeepsTo(input.need, planned)
      <3> SUFFICES ASSUME Dated(input.need), InOrder(input.need, planned),
                          ReadWhole(input.need) \/ ReadInPart(input.need), NEW d \in answer
                   PROVE  NamedDocument(input.need, planned, d)
          BY DEF KeepsTo
      <3>1. d \in Documents /\ Matches(d, plan)
          BY <2>1
      <3>2. plan = Detect(input.need, planned)
          BY <2>1, <2>2, <3>1, Detections DEF Planned
      <3> QED
          BY <2>2, <3>1, <3>2, MatchesAreNamed
    <2> QED
        BY <2>3, <2>4
  <1>2. ScopeInv => AnswersKeepToTheDates
      BY <1>1 DEF AnswersKeepToTheDates
  <1> QED
      BY <1>2, ScopeInvAlways, PTL

\* A document that was named all the time reaches the answer.
THEOREM NothingLost == ScopeSpec => []NothingNamedIsLost
  <1>1. ASSUME ScopeInv PROVE NothingNamedIsLost
    <2> SUFFICES ASSUME stage = "answered", NEW d \in searched, NamedThroughout(d) PROVE d \in answer
        BY DEF NothingNamedIsLost, NamedThroughout, Moments
    <2>1. /\ ClockInv /\ d \in found /\ d \in Documents
          /\ answer = {e \in found : Matches(e, scope)}
          /\ scope = Detect(input.question, asked)
        BY <1>1 DEF ScopeInv, ConstraintsInv, EvidenceInv, Validated
    <2>2. Matches(d, scope)
        BY <2>1, MomentsFacts, NamedMatches
    <2> QED
        BY <2>1, <2>2
  <1> QED
      BY <1>1, ScopeInvAlways, PTL
=============================================================================
