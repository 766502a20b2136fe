------------------------ MODULE InformationNeedGraph ------------------------
(***************************************************************************)
(* The agentic query's bounded cyclic graph: information needs are taken   *)
(* from a queue one at a time; each is classified, planned, looked up,     *)
(* validated and graded until its evidence suffices or a budget runs out.  *)
(* Aggregation, the node of the query graph that follows, is included.     *)
(*                                                                         *)
(* One action per graph node.  The answers of the models, the retrievers   *)
(* and the graders are chosen freely within what the code accepts.         *)
(***************************************************************************)
EXTENDS Naturals, Sequences, FiniteSetsExt

CONSTANTS
    NumNeeds,       \* information needs the decomposer produced
    Chunks,         \* evidence keys the retrievers can return
    TopK,           \* results of one lookup
    MaxTotal,       \* RETRIEVAL_RETRY_MAX_TOTAL_ATTEMPTS
    MaxAttempts,    \* RETRIEVAL_RETRY_MAX_RETRIES + 1
    MaxReclass,     \* RETRIEVAL_RETRY_MAX_RECLASSIFICATIONS
    MaxEvidence,    \* RETRIEVAL_RETRY_MAX_ACCUMULATED_EVIDENCE
    DocumentOf,     \* the document of each chunk
    Scores,         \* scores of a document that PRIMARY_DOCUMENT_DETECTION_MIN_SCORE admits
    ReplacementMargin   \* PRIMARY_DOCUMENT_DETECTION_REPLACEMENT_MARGIN

ASSUME GraphAssumption ==
    /\ NumNeeds \in Nat \ {0}
    /\ TopK \in Nat \ {0}
    /\ MaxAttempts \in Nat \ {0}
    /\ MaxTotal \in Nat /\ MaxTotal >= MaxAttempts
    /\ MaxReclass \in Nat
    /\ MaxEvidence \in Nat \ {0}
    /\ Chunks \subseteq DOMAIN DocumentOf
    /\ Scores \subseteq Nat /\ ReplacementMargin \in Nat

VARIABLES
    node,       \* the graph node that runs next, or how the query ended
    steps,      \* nodes the runner has entered
    active,     \* needs taken from the queue; the last one is active
    need,       \* the InformationNeedExecution of each need
    rank,       \* the evidence index: aggregate rank of each chunk, 0 if absent
    nextRank,   \* next_evidence_rank
    snapshots,  \* <<aggregate rank, chunk>> pairs recorded by the attempts
    total,      \* total_information_need_retrieval_attempts
    preference, \* primary_document_preference: a document and its score
    report      \* status of the aggregated grading report

evidenceVars == <<rank, nextRank, snapshots>>
vars == <<node, steps, active, need, rank, nextRank, snapshots, total,
          preference, report>>

-----------------------------------------------------------------------------
Needs == 1..NumNeeds
MaxSteps == IF MaxTotal * 8 + 16 > 32 THEN MaxTotal * 8 + 16 ELSE 32

Nodes == {"select", "classify", "plan", "execute", "validate", "grade",
          "decide", "detect", "complete", "aggregate"}
\* "failed": a provider raised.  "exceeded": the runner's step limit did.
\* "raised": a node found the state it was handed inconsistent.
Ends == {"aggregated", "failed", "exceeded", "raised"}

Resolved == {"supported", "exhausted"}
Ungraded == [relevant |-> {}, supporting |-> {}, support |-> "missing"]

Grades == [relevant: SUBSET (Nat \ {0}), supporting: SUBSET (Nat \ {0}),
           support: {"missing", "partial", "supported"}]

Executions ==
    [status: {"pending", "active"} \cup Resolved,
     classified: BOOLEAN,       \* classification_history is not empty
     confident: BOOLEAN,        \* classification.confidence >= 0.55
     reclass: 0..MaxReclass,    \* reclassifications_used
     attempts: 0..MaxAttempts,  \* attempts_used
     keys: SUBSET Chunks,       \* evidence_keys
     grade: Grades,             \* last_grading and final_grade
     route: {"none", "retry", "reclassify"} \cup Resolved]

Preferences == [document: {DocumentOf[k] : k \in Chunks}, score: Scores]
NoPreference == [document |-> "none", score |-> 0]

TypeOK ==
    /\ node \in Nodes \cup Ends
    /\ steps \in 0..MaxSteps
    /\ active \in 0..NumNeeds
    /\ need \in [Needs -> Executions]
    /\ rank \in [Chunks -> Nat]
    /\ nextRank \in Nat \ {0}
    /\ snapshots \subseteq (Nat \ {0}) \X Chunks
    /\ total \in 0..MaxTotal
    /\ preference \in {NoPreference} \cup Preferences
    /\ report \in {"none", "missing", "weak", "sufficient"}

NewExecution ==
    [status |-> "pending", classified |-> FALSE, confident |-> FALSE,
     reclass |-> 0, attempts |-> 0, keys |-> {}, grade |-> Ungraded,
     route |-> "none"]

Init ==
    /\ node = "select"
    /\ steps = 0
    /\ active = 0
    /\ need = [n \in Needs |-> NewExecution]
    /\ rank = [k \in Chunks |-> 0]
    /\ nextRank = 1
    /\ snapshots = {}
    /\ total = 0
    /\ preference = NoPreference
    /\ report = "none"

-----------------------------------------------------------------------------
(* The evidence index.                                                     *)

InIndex(r) == {k \in Chunks : r[k] # 0}
RanksOf(keys) == {rank[k] : k \in keys}

\* The rank of the next chunk to enter the index r.
NewRank(r, next) == Max({next} \cup {r[k] + 1 : k \in Chunks})

\* The index after merging a lookup's results, in order: a chunk is indexed
\* once, and a new one is skipped while the index is full.
Merged(results) ==
    LET at[i \in 0..Len(results)] ==
          IF i = 0 THEN [rank |-> rank, next |-> nextRank]
          ELSE LET before == at[i - 1]
                   k == results[i]
                   new == NewRank(before.rank, before.next)
               IN IF \/ before.rank[k] # 0
                     \/ Cardinality(InIndex(before.rank)) >= MaxEvidence
                  THEN before
                  ELSE [rank |-> [before.rank EXCEPT ![k] = new],
                        next |-> new + 1]
    IN at[Len(results)]

\* Mutant: pruning a need's references leaves the index alone.
PruneReferencesOnly(n, kept) == rank' = rank

\* Mutant: pruning forgets the other needs' references.
PruneForgettingOthers(n, kept) ==
    rank' = [k \in Chunks |->
                IF k \in kept \/ k \notin need[n].keys THEN rank[k] ELSE 0]

\* Need n keeps the chunks in kept; a chunk no need refers to any more leaves
\* the index.
Prune(n, kept) ==
    rank' = [k \in Chunks |->
                IF k \in kept \/ \E m \in Needs \ {n} : k \in need[m].keys
                THEN rank[k] ELSE 0]

-----------------------------------------------------------------------------
(* The runner: one node per step, up to the step limit.                    *)

Enter(at) ==
    /\ node = at
    /\ steps < MaxSteps
    /\ steps' = steps + 1

ExceedStepLimit ==
    /\ node \in Nodes \ {"aggregate"}
    /\ steps = MaxSteps
    /\ node' = "exceeded"
    /\ UNCHANGED <<steps, active, need, evidenceVars, total, preference, report>>

\* A classifier, retriever or grader call fails: the run ends with its error.
FailProvider ==
    /\ \E at \in {"classify", "execute", "grade"} : Enter(at)
    /\ node' = "failed"
    /\ UNCHANGED <<active, need, evidenceVars, total, preference, report>>

-----------------------------------------------------------------------------
(* The nodes.                                                              *)

SelectNeed ==
    /\ Enter("select")
    /\ active < NumNeeds
    /\ active' = active + 1
    /\ need' = [need EXCEPT ![active + 1].status = "active",
                            ![active + 1].route = "none"]
    /\ node' = "classify"
    /\ UNCHANGED <<evidenceVars, total, preference, report>>

FinishQueue ==
    /\ Enter("select")
    /\ active = NumNeeds
    /\ node' = "aggregate"
    /\ UNCHANGED <<active, need, evidenceVars, total, preference, report>>

Classify ==
    /\ Enter("classify")
    /\ \E confident \in BOOLEAN :
          need' = [need EXCEPT
                    ![active].reclass = IF need[active].classified
                                        THEN @ + 1 ELSE @,
                    ![active].classified = TRUE,
                    ![active].confident = confident,
                    ![active].route = "none"]
    /\ node' = "plan"
    /\ UNCHANGED <<active, evidenceVars, total, preference, report>>

PlanAttempt ==
    /\ Enter("plan")
    /\ total < MaxTotal
    /\ need' = [need EXCEPT ![active].route = "none"]
    /\ node' = "execute"
    /\ UNCHANGED <<active, evidenceVars, total, preference, report>>

\* Mutant: a planning stop takes the route of a graded need.
StopPlanningThroughDetect ==
    /\ Enter("plan")
    /\ total >= MaxTotal \/ need[active].attempts > 0
    /\ need' = [need EXCEPT ![active].route = "exhausted"]
    /\ node' = "detect"
    /\ UNCHANGED <<active, evidenceVars, total, preference, report>>

\* Mutant: a planning stop goes on with the next need at once.
StopPlanningUnresolved ==
    /\ Enter("plan")
    /\ total >= MaxTotal \/ need[active].attempts > 0
    /\ need' = [need EXCEPT ![active].route = "exhausted"]
    /\ node' = "select"
    /\ UNCHANGED <<active, evidenceVars, total, preference, report>>

\* The global budget is spent, or the planner has only repetitions of earlier
\* attempts to offer: the need is completed without a detection step.
StopPlanning ==
    /\ Enter("plan")
    /\ total >= MaxTotal \/ need[active].attempts > 0
    /\ need' = [need EXCEPT ![active].route = "exhausted"]
    /\ node' = "complete"
    /\ UNCHANGED <<active, evidenceVars, total, preference, report>>

Lookups == UNION {{s \in [1..len -> Chunks] :
                     \A i, j \in 1..len : s[i] = s[j] => i = j} : len \in 0..TopK}

Execute ==
    /\ Enter("execute")
    /\ IF total >= MaxTotal
       THEN node' = "raised" /\ UNCHANGED <<need, evidenceVars, total>>
       ELSE \E results \in Lookups :
              LET merged == Merged(results)
                  keys == {k \in {results[i] : i \in 1..Len(results)} :
                             merged.rank[k] # 0}
              IN /\ rank' = merged.rank
                 /\ nextRank' = merged.next
                 /\ need' = [need EXCEPT ![active].keys = @ \cup keys]
                 /\ snapshots' = snapshots \cup {<<merged.rank[k], k>> : k \in keys}
                 /\ total' = total + 1
                 /\ node' = "validate"
    /\ UNCHANGED <<active, preference, report>>

\* Mutant: a lookup with nothing left to grade is decided at once.
ValidateSkippingGrade ==
    /\ Enter("validate")
    /\ \E kept \in SUBSET need[active].keys :
          /\ Prune(active, kept)
          /\ need' = [need EXCEPT ![active].keys = kept]
          /\ node' = IF kept = {} THEN "decide" ELSE "grade"
    /\ UNCHANGED <<active, nextRank, snapshots, total, preference, report>>

\* Evidence outside the plan's document, version or date scope is dropped.
Validate ==
    /\ Enter("validate")
    /\ \E kept \in SUBSET need[active].keys :
          /\ Prune(active, kept)
          /\ need' = [need EXCEPT ![active].keys = kept]
    /\ node' = "grade"
    /\ UNCHANGED <<active, nextRank, snapshots, total, preference, report>>

\* What a grader may answer about the given ranks.
GradesOver(ranks) ==
    {g \in [relevant: SUBSET ranks, supporting: SUBSET ranks,
            support: {"missing", "partial", "supported"}] :
        /\ g.supporting \subseteq g.relevant
        /\ g.support = "missing" <=> g.supporting = {}}

Grade ==
    /\ Enter("grade")
    /\ \E g \in GradesOver(RanksOf(need[active].keys)) :
          LET kept == {k \in need[active].keys : rank[k] \in g.relevant}
          IN /\ Prune(active, kept)
             /\ need' = [need EXCEPT ![active].keys = kept,
                                     ![active].grade = g,
                                     ![active].attempts = @ + 1]
    /\ node' = "decide"
    /\ UNCHANGED <<active, nextRank, snapshots, total, preference, report>>

\* RetrievalRetryPolicy.decide_information_need.
Decision(e) ==
    IF e.grade.support = "supported" THEN "supported"
    ELSE IF total >= MaxTotal \/ e.attempts >= MaxAttempts THEN "exhausted"
    ELSE IF /\ e.grade.relevant = {}
            /\ ~e.confident
            /\ e.reclass < MaxReclass
    THEN "reclassify"
    ELSE "retry"

Decide ==
    /\ Enter("decide")
    /\ LET decision == Decision(need[active])
       IN /\ need' = [need EXCEPT ![active].route = decision]
          /\ node' = CASE decision = "retry"      -> "plan"
                       [] decision = "reclassify" -> "classify"
                       [] decision \in Resolved   -> "detect"
    /\ UNCHANGED <<active, evidenceVars, total, preference, report>>

\* The documents the evidence of a need speaks for: those of the chunks its
\* last grading counts as direct support.
Candidates(e) == {DocumentOf[k] : k \in {c \in e.keys : rank[c] \in e.grade.supporting}}

\* A document that was proposed with a score reinforces the preference for
\* itself, or replaces another one that it leads by the margin.
PreferenceAfter(document, score) ==
    IF preference = NoPreference \/ score >= preference.score + ReplacementMargin
    THEN [document |-> document, score |-> score]
    ELSE IF document = preference.document /\ score > preference.score
    THEN [preference EXCEPT !.score = score]
    ELSE preference

\* Grades and the names in the question score the candidates; none is proposed
\* if the best one is too weak or too close to the next.
DetectPrimaryDocument ==
    /\ Enter("detect")
    /\ IF need[active].attempts = 0
       THEN node' = "raised" /\ UNCHANGED preference
       ELSE /\ node' = "complete"
            /\ \/ UNCHANGED preference
               \/ \E document \in Candidates(need[active]), score \in Scores :
                     preference' = PreferenceAfter(document, score)
    /\ UNCHANGED <<active, need, evidenceVars, total, report>>

Complete ==
    /\ Enter("complete")
    /\ IF need[active].route \in Resolved
       THEN /\ need' = [need EXCEPT ![active].status = need[active].route]
            /\ node' = "select"
       ELSE node' = "raised" /\ UNCHANGED need
    /\ UNCHANGED <<active, evidenceVars, total, preference, report>>

-----------------------------------------------------------------------------
(* Aggregation.                                                            *)

Pairs == snapshots \cup {<<rank[k], k>> : k \in InIndex(rank)}
OneChunkPerRank == \A p, q \in Pairs : p[1] = q[1] => p[2] = q[2]

Approved(n) == need[n].grade.supporting

\* Chunks some need's grader approved.
AggregatedEvidence ==
    {k \in InIndex(rank) : \E n \in Needs : rank[k] \in Approved(n)}

\* Mutant: one supported need suffices.
SomeSupported == \E n \in Needs : need[n].grade.support = "supported"

AllSupported == \A n \in Needs : need[n].grade.support = "supported"

Aggregate ==
    /\ node = "aggregate"
    /\ IF /\ OneChunkPerRank
          /\ \A n \in Needs : Approved(n) \subseteq RanksOf(InIndex(rank))
       THEN /\ node' = "aggregated"
            /\ report' = IF AggregatedEvidence = {} THEN "missing"
                         ELSE IF AllSupported THEN "sufficient" ELSE "weak"
       ELSE node' = "raised" /\ UNCHANGED report
    /\ UNCHANGED <<steps, active, need, evidenceVars, total, preference>>

Next ==
    \/ SelectNeed \/ FinishQueue \/ Classify
    \/ PlanAttempt \/ StopPlanning \/ Execute
    \/ Validate \/ Grade \/ Decide
    \/ DetectPrimaryDocument \/ Complete \/ Aggregate
    \/ FailProvider \/ ExceedStepLimit

Spec == Init /\ [][Next]_vars

\* One coroutine runs the graph, and each of its provider calls has a timeout.
FairSpec == Spec /\ WF_vars(Next)

-----------------------------------------------------------------------------
(* Properties.                                                             *)

Attempts == SumFunction([n \in Needs |-> need[n].attempts])
Reclassifications == SumFunction([n \in Needs |-> need[n].reclass])

\* The retrieval budgets hold and no lookup goes uncounted: the query's total
\* is the graded attempts of all its needs, plus the lookup that is still
\* being validated or graded (nodes/execute.py, nodes/grade.py).  No node ever
\* finds the state it was handed inconsistent: a lookup is within the budget,
\* completion has a terminal route, aggregation resolves every approved rank.
BudgetsRespected ==
    /\ node # "raised"
    /\ total <= MaxTotal
    /\ node \notin {"failed", "exceeded"} =>
         total = Attempts + (IF node \in {"validate", "grade"} THEN 1 ELSE 0)

\* The index holds exactly the chunks some need still refers to, and never
\* more than its limit, in whatever order needs share, gain and drop chunks
\* (evidence.py).
EvidenceAccounted ==
    /\ InIndex(rank) = UNION {need[n].keys : n \in Needs}
    /\ Cardinality(InIndex(rank)) <= MaxEvidence

\* The preferred document never outlives its evidence: a chunk of it that a
\* completed need was supported by is still in the index under the rank it was
\* graded with, although later needs prune what they share with that need
\* (detector.py, evidence.py).
PreferenceIsBacked ==
    preference # NoPreference =>
        \E n \in Needs, k \in Chunks :
            /\ n < active \/ node \in {"complete", "select", "aggregate"} \cup Ends
            /\ DocumentOf[k] = preference.document
            /\ k \in need[n].keys /\ rank[k] # 0
            /\ rank[k] \in need[n].grade.supporting

\* The nodes still to run before the active need is completed, if it is
\* completed at the first opportunity.
Remaining ==
    CASE node = "classify" -> IF need[active].classified THEN 2 ELSE 3
      [] node \in {"plan", "detect"} -> 2
      [] node \in {"execute", "complete"} -> 1
      [] node = "validate" -> 5
      [] node = "grade" -> 4
      [] node = "decide" -> 3
      [] OTHER -> 0

\* What a query costs the runner: four nodes per need, five per lookup, one
\* per reclassification and the last selection.  The step limit is computed
\* from the lookup budget alone (graph.py).
StepsAccounted ==
    node \notin {"failed", "exceeded"} =>
        steps + Remaining =
            4 * active + 5 * total + Reclassifications
            + (IF node \in {"aggregate", "aggregated"} THEN 1 ELSE 0)

\* The query reports complete evidence exactly when every need was completed
\* as supported, however its last grades and its stop reasons came about.
ReportIsSound ==
    node = "aggregated" =>
        (report = "sufficient" <=> \A n \in Needs : need[n].status = "supported")

\* Later needs never disturb a resolved one: its execution is final, and its
\* chunks stay in the index under the same ranks.
ResolvedIsFinal ==
    [][\A n \in Needs :
          need[n].status \in Resolved =>
              /\ need'[n] = need[n]
              /\ \A k \in need[n].keys : rank'[k] = rank[k]]_vars

\* The graph implements the bounded work queue it is documented to be, and
\* therefore ends.
Queue == INSTANCE BoundedWorkQueue WITH
    NumItems <- NumNeeds,
    status   <- [n \in Needs |-> need[n].status],
    attempts <- [n \in Needs |-> need[n].attempts],
    outcome  <- CASE node \in Nodes -> "running"
                  [] node = "aggregated" ->
                        IF report = "sufficient" THEN "complete" ELSE "partial"
                  [] OTHER -> "aborted"

ImplementsQueue == Queue!FairSpec

-----------------------------------------------------------------------------
(* Claims of the repository that the graph does not meet.                  *)

\* README.md:332: once the global budget is reached "pending items are
\* completed as unresolved without retrieval so aggregation and partial-answer
\* generation can still finish".
FinishesWithinStepLimit == node # "exceeded"

\* README.md:334: "Final aggregation takes the union of grader-approved
\* evidence for supported items".
EvidenceIsOfSupportedNeeds ==
    node = "aggregated" =>
        \A k \in AggregatedEvidence :
            \E n \in Needs : need[n].status = "supported" /\ rank[k] \in Approved(n)
=============================================================================
