-------------------------- MODULE RetrievalPlanning --------------------------
(***************************************************************************)
(* How one information need is looked up: it is classified, planned,       *)
(* looked up, graded and, while budgets last, planned again.  This is the  *)
(* content of the plans whose control InformationNeedGraph models: which   *)
(* retrieval pipeline, which query, how many results, in which scope.      *)
(*                                                                         *)
(* Queries are either the need's own or the one expanded with its          *)
(* description; a scope is the set of dimensions (document, version, date) *)
(* a plan is constrained in.  Detectors of such constraints are functions  *)
(* of the query's text and hence chosen once; a model's answers are chosen *)
(* at each call.                                                           *)
(***************************************************************************)
EXTENDS Naturals, Sequences, SequencesExt

CONSTANTS
    Offers,         \* sets of strategies whose pipelines an executor may offer
    StartTopKs,     \* top_k values a request may ask for
    MaxTopK,        \* RETRIEVAL_RETRY_MAX_TOP_K
    Multipliers,    \* RETRIEVAL_RETRY_TOP_K_MULTIPLIER, as <<numerator, denominator>>
    Thresholds,     \* confidences below which the planner asks for reranking
    MaxAttempts,    \* RETRIEVAL_RETRY_MAX_RETRIES + 1
    MaxReclass,     \* RETRIEVAL_RETRY_MAX_RECLASSIFICATIONS
    MaxTotal,       \* RETRIEVAL_RETRY_MAX_TOTAL_ATTEMPTS
    Scopes          \* scopes a text may have: sets of metadata dimensions

Strategies == {"baseline", "hybrid", "contextual", "hierarchical",
               "multi_query", "rerank"}
QueryTypes == {"factual", "broad", "comparison", "version"}

\* Confidences in three bands; the retry policy's own threshold, which no
\* setting changes, is the border between the first two.
Confidences == 0..2
RetryConfidence == 1

ASSUME PlanningAssumption ==
    /\ Offers \subseteq SUBSET Strategies
    /\ StartTopKs \subseteq Nat \ {0}
    /\ MaxTopK \in Nat \ {0}
    /\ \A m \in Multipliers : m[1] \in Nat /\ m[2] \in Nat \ {0} /\ m[1] >= m[2]
    /\ Thresholds \subseteq 0..2
    /\ MaxAttempts \in Nat \ {0}
    /\ MaxReclass \in Nat
    /\ MaxTotal \in Nat /\ MaxTotal >= MaxAttempts
    /\ {} \in Scopes /\ Scopes \subseteq SUBSET {"document", "version", "date"}

VARIABLES
    setup,          \* what is fixed before the need is processed
    pc,             \* the node that runs next, or how the need ended
    class,          \* the need's current classification
    reclass,        \* reclassifications_used
    plans,          \* plan_history; the last one is current while it executes
    graded,         \* attempts_used
    grade           \* support status of the latest grade

vars == <<setup, pc, class, reclass, plans, graded, grade>>

-----------------------------------------------------------------------------
(* Configuration and inputs.                                               *)

Setups ==
    [offered: Offers,
     contextual: BOOLEAN,       \* CONTEXTUALIZATION_ENABLED
     hierarchical: BOOLEAN,     \* HIERARCHICAL_INDEXING_ENABLED
     topK: StartTopKs,
     multiplier: Multipliers,
     threshold: Thresholds,
     rewrites: BOOLEAN,         \* the expanded query differs from the need's
     asksRanking: BOOLEAN,      \* wording like "most relevant"
     own: Scopes,               \* scope found in the need's query
     parent: Scopes,            \* scope found in the question
     before: {0, MaxTotal - 1, MaxTotal}] \* lookups that earlier needs used up

Enabled(s) ==
    /\ s = "contextual" => setup.contextual
    /\ s = "hierarchical" => setup.hierarchical

Usable == {s \in setup.offered : Enabled(s)}

Init ==
    /\ setup \in Setups
    /\ Usable # {}
    /\ pc = "classify"
    /\ class = [type |-> "none", confidence |-> 2, filters |-> FALSE, scope |-> {}]
    /\ reclass = 0
    /\ plans = <<>>
    /\ graded = 0
    /\ grade = "none"

-----------------------------------------------------------------------------
(* Classification.                                                         *)

\* Mutant: the model's classification is used without the detectors' findings.
ModelAnswersUnmerged ==
    [type: QueryTypes, confidence: Confidences, filters: BOOLEAN, scope: {{}}]

\* What the model may answer, merged with what the detectors find.
ModelAnswers ==
    {c \in [type: QueryTypes, confidence: Confidences, filters: BOOLEAN,
            scope: {setup.own}] :
        /\ "version" \in setup.own => c.type \in {"version", "comparison"}
        /\ setup.own # {} \/ c.type = "version" => c.filters}

\* The rules that stand in for a model that fails; they are always confident.
FallbackAnswers ==
    {c \in [type: QueryTypes, confidence: {2}, filters: BOOLEAN,
            scope: {setup.own}] :
        setup.own # {} \/ c.type = "version" => c.filters}

Classify ==
    /\ pc = "classify"
    /\ class' \in ModelAnswers \cup FallbackAnswers
    /\ reclass' = IF class.type = "none" THEN 0 ELSE reclass + 1
    /\ pc' = "plan"
    /\ UNCHANGED <<setup, plans, graded, grade>>

-----------------------------------------------------------------------------
(* Planning.                                                               *)

\* Mutant: the fallback table of the retry policy, whose rows are incomplete.
FallbackOrderOfRetries ==
    [baseline     |-> <<"hybrid", "hierarchical", "multi_query", "rerank">>,
     hybrid       |-> <<"hierarchical", "multi_query", "rerank">>,
     contextual   |-> <<"hierarchical", "hybrid", "multi_query", "rerank">>,
     hierarchical |-> <<"contextual", "hybrid", "multi_query", "rerank">>,
     multi_query  |-> <<"rerank", "hierarchical", "hybrid">>,
     rerank       |-> <<"multi_query", "hierarchical", "hybrid">>]

FallbackOrder ==
    [baseline     |-> <<"hybrid", "hierarchical", "multi_query", "rerank", "contextual">>,
     hybrid       |-> <<"hierarchical", "multi_query", "rerank", "contextual", "baseline">>,
     contextual   |-> <<"hierarchical", "hybrid", "multi_query", "rerank", "baseline">>,
     hierarchical |-> <<"contextual", "hybrid", "multi_query", "rerank", "baseline">>,
     multi_query  |-> <<"rerank", "hierarchical", "hybrid", "contextual", "baseline">>,
     rerank       |-> <<"multi_query", "hierarchical", "hybrid", "contextual", "baseline">>]

FirstAmong(order, S) ==
    order[CHOOSE i \in DOMAIN order :
              order[i] \in S /\ \A j \in 1..(i - 1) : order[j] \notin S]

\* Dimensions the plan is constrained in: the need's own constraint, or else
\* the question's.
Scope == class.scope \cup setup.parent
Filtered == class.filters \/ Scope # {}

Unsure == class.confidence < setup.threshold

Preferred ==
    CASE class.type = "version" -> "hybrid"
      [] class.type = "comparison" -> "multi_query"
      [] class.type \notin {"version", "comparison"}
            /\ (setup.asksRanking \/ Unsure) -> "rerank"
      [] class.type = "broad" /\ ~Unsure /\ ~setup.asksRanking ->
            IF setup.hierarchical /\ "document" \notin Scope THEN "hierarchical"
            ELSE IF setup.contextual THEN "contextual" ELSE "multi_query"
      [] class.type = "factual" /\ ~Unsure /\ ~setup.asksRanking ->
            IF Filtered THEN "hybrid" ELSE "baseline"

\* Mutant: baseline retrieval is taken to be always available.
InitialStrategyOrBaseline == IF Preferred \in Usable THEN Preferred ELSE "baseline"

\* The preferred strategy, or a bounded starting fallback.
InitialStrategy ==
    IF Preferred \in Usable THEN Preferred
    ELSE FirstAmong(<<"baseline", "hybrid", "contextual", "hierarchical",
                      "multi_query", "rerank">>, Usable)

Attempted == {plans[i].strategy : i \in DOMAIN plans}

NextUntried(current) ==
    LET untried == Usable \ Attempted
    IN IF \E s \in untried : Contains(FallbackOrder[current], s)
       THEN FirstAmong(FallbackOrder[current], untried)
       ELSE current

Ceiling(n, ratio) == (n * ratio[1] + ratio[2] - 1) \div ratio[2]
Lower(a, b) == IF a < b THEN a ELSE b
Higher(a, b) == IF a > b THEN a ELSE b

RetryTopK(k) ==
    IF k >= MaxTopK \/ setup.multiplier[1] = setup.multiplier[2] THEN k
    ELSE Lower(MaxTopK, Higher(k + 1, Ceiling(k, setup.multiplier)))

RetryQuery == IF setup.rewrites THEN "expanded" ELSE "own"

Candidate ==
    IF plans = <<>>
    THEN [strategy |-> InitialStrategy, query |-> "own",
          topK |-> setup.topK, scope |-> Scope]
    ELSE [strategy |-> NextUntried(Last(plans).strategy), query |-> RetryQuery,
          topK |-> RetryTopK(Last(plans).topK), scope |-> Scope]

\* Mutant: plans are compared by strategy and query alone.
SameStrategyAndQuery(p, q) == p.strategy = q.strategy /\ p.query = q.query

\* The execution signature: what a lookup does, apart from its scope.
SameLookup(p, q) ==
    p.strategy = q.strategy /\ p.query = q.query /\ p.topK = q.topK

IsRepeated(plan) == \E i \in DOMAIN plans : SameLookup(plans[i], plan)

GlobalBudgetSpent == setup.before + Len(plans) >= MaxTotal

Plan ==
    /\ pc = "plan"
    /\ ~GlobalBudgetSpent
    /\ IF graded >= MaxAttempts
       THEN pc' = "raised" /\ UNCHANGED plans
       ELSE /\ ~IsRepeated(Candidate)
            /\ plans' = Append(plans, Candidate)
            /\ pc' = "execute"
    /\ UNCHANGED <<setup, class, reclass, graded, grade>>

StopNoFallback ==
    /\ pc = "plan"
    /\ ~GlobalBudgetSpent
    /\ graded < MaxAttempts
    /\ IsRepeated(Candidate)
    /\ pc' = "no_effective_fallback"
    /\ UNCHANGED <<setup, class, reclass, plans, graded, grade>>

StopGlobalBudget ==
    /\ pc = "plan"
    /\ GlobalBudgetSpent
    /\ pc' = "exhausted"
    /\ UNCHANGED <<setup, class, reclass, plans, graded, grade>>

-----------------------------------------------------------------------------
(* Lookup, grade and decision.                                             *)

\* The executor resolves the plan; what it returns is not modelled here.
Execute ==
    /\ pc = "execute"
    /\ pc' = IF Last(plans).strategy \in setup.offered THEN "grade" ELSE "raised"
    /\ UNCHANGED <<setup, class, reclass, plans, graded, grade>>

\* Attempts are numbered by the plan and counted by the grades.
Grade ==
    /\ pc = "grade"
    /\ grade' \in {"missing", "partial", "supported"}
    /\ graded' = graded + 1
    /\ pc' = IF Len(plans) = graded' THEN "decide" ELSE "raised"
    /\ UNCHANGED <<setup, class, reclass, plans>>

Decide ==
    /\ pc = "decide"
    /\ pc' = IF grade = "supported" THEN "supported"
             ELSE IF GlobalBudgetSpent \/ graded >= MaxAttempts THEN "exhausted"
             ELSE IF grade = "missing" /\ class.confidence < RetryConfidence
                     /\ reclass < MaxReclass
             THEN "classify"
             ELSE "plan"
    /\ UNCHANGED <<setup, class, reclass, plans, graded, grade>>

Ends == {"supported", "exhausted", "no_effective_fallback", "raised"}

Next ==
    \/ Classify \/ Plan \/ StopNoFallback \/ StopGlobalBudget
    \/ Execute \/ Grade \/ Decide

Spec == Init /\ [][Next]_vars

-----------------------------------------------------------------------------
(* Properties.                                                             *)

TypeOK ==
    /\ setup \in Setups
    /\ pc \in {"classify", "plan", "execute", "grade", "decide"} \cup Ends
    /\ class \in [type: QueryTypes \cup {"none"}, confidence: Confidences,
                  filters: BOOLEAN, scope: SUBSET UNION Scopes]
    /\ reclass \in 0..MaxReclass
    /\ Len(plans) <= MaxAttempts
    /\ \A i \in DOMAIN plans :
          plans[i] \in [strategy: Strategies, query: {"own", "expanded"},
                        topK: Nat \ {0}, scope: SUBSET UNION Scopes]
    /\ graded \in 0..MaxAttempts
    /\ grade \in {"none", "missing", "partial", "supported"}

\* Every plan can be carried out: its pipeline is one the executor offers and
\* the configuration has indexed for, whichever strategies are missing, and
\* no node finds an inconsistent state (executor.py, planning/models.py).
PlansExecutable ==
    /\ pc # "raised"
    /\ Attempted \subseteq Usable

\* No strategy is used twice while another one was never tried, wherever in
\* the fallback tables the need started.
UntriedFirst ==
    Usable \subseteq Attempted
    \/ \A i, j \in DOMAIN plans : i # j => plans[i].strategy # plans[j].strategy

\* The planner gives up a need only when it can change nothing any more:
\* every strategy was tried, and the last lookup had the final query and the
\* final number of results (planning/rules.py, "no_effective_fallback").
StopMeansExhausted ==
    pc = "no_effective_fallback" =>
        /\ Usable = Attempted
        /\ Last(plans).query = RetryQuery
        /\ RetryTopK(Last(plans).topK) = Last(plans).topK

\* Whatever a reclassification answers, every lookup of the need keeps to
\* what the need and the question are scoped to.
ScopeKept ==
    \A i \in DOMAIN plans : plans[i].scope = setup.own \cup setup.parent
=============================================================================
