------------------------------ MODULE Answering ------------------------------
(***************************************************************************)
(* From a question to an answer: the calls to the language model whose     *)
(* answers are parsed, repaired once or replaced by a deterministic        *)
(* fallback, and what becomes of the grades they give: per-need grading,   *)
(* aggregation, final arbitration, the question's own constraints and      *)
(* generation.  The loop that plans and retrieves for a need is the        *)
(* business of InformationNeedGraph and RetrievalPlanning; here each need  *)
(* shows its grader some evidence once.                                    *)
(***************************************************************************)
EXTENDS Naturals, FiniteSets

CONSTANTS
    MaxNeeds,       \* INFORMATION_NEED_DECOMPOSITION's bound on needs
    Ranks,          \* ranks of the chunks lookups may return
    Repairs,        \* per calling stage, max_repair_attempts
    FailOpen        \* the calling stages configured to fail open

Stages == {"classify", "decompose", "grade", "arbitrate"}
Needs == 1..MaxNeeds
Support == {"missing", "partial", "supported"}
Codes == {"invalid_json", "schema_mismatch", "semantic_validation_failed"}

ASSUME AnsweringAssumption ==
    /\ MaxNeeds \in Nat \ {0}
    /\ Ranks \subseteq Nat \ {0} /\ IsFiniteSet(Ranks)
    /\ Repairs \in [Stages -> {0, 1}]
    /\ FailOpen \subseteq Stages

VARIABLES
    pc,             \* the node that runs, or how the run ended
    call,           \* the structured call of this node: [at, code]
    needs,          \* how many needs the question was decomposed into
    active,         \* the need being graded
    seen,           \* the evidence its grader is shown
    gradings,       \* last_grading of each need; NoReport if never attempted
    evidence,       \* ranks in retrieved_evidence
    report,         \* evidence_grading of the question
    scoped,         \* the question names a document, a version or a date
    answer          \* what the run answers

vars == <<pc, call, needs, active, seen, gradings, evidence, report, scoped,
          answer>>
graph == <<needs, active, seen, gradings, evidence, report, scoped, answer>>

-----------------------------------------------------------------------------
(* Grading reports.                                                        *)

NoReport == [grades |-> <<>>, needs |-> <<>>, fallback |-> FALSE]
Idle == [at |-> "none", code |-> "none"]
NoAnswer == [outcome |-> "none", used |-> {}, cited |-> {}]

Approved(r) == {k \in DOMAIN r.grades : r.grades[k].relevant}
Backing(grades, n) == {k \in DOMAIN grades : n \in grades[k].supports}

\* Mutant: one supported need is enough.
SufficientForSome(r) ==
    /\ Approved(r) # {}
    /\ \E n \in DOMAIN r.needs : r.needs[n] = "supported"

Sufficient(r) ==
    /\ Approved(r) # {}
    /\ \A n \in DOMAIN r.needs : r.needs[n] = "supported"
Answerable(r) ==
    Sufficient(r) \/ \E n \in DOMAIN r.needs : r.needs[n] = "supported"

\* A need without supporting chunks is missing whatever the model says.
\* Mutant: the status the model gives is taken at its word.
RequestedStatus(ranks, full) == IF full THEN "supported" ELSE "partial"

NormalizeNeedStatus(ranks, full) ==
    IF ranks = {} THEN "missing" ELSE IF full THEN "supported" ELSE "partial"

\* Chunk grades the parser lets through: support needs a relevant score.
ParsedGrades(R, N) ==
    [R -> {g \in [relevant: BOOLEAN, supports: SUBSET N] :
              g.supports # {} => g.relevant}]

\* What a model may report on chunks R and needs N.  A need's supporting ranks
\* must be the chunks that list it, so only its status is left to choose:
\* "full" is a supported status with a coverage above the threshold.
ParsedReports(R, N) ==
    {[grades |-> g,
      needs |-> [n \in N |-> NormalizeNeedStatus(Backing(g, n), full[n])],
      fallback |-> FALSE] : g \in ParsedGrades(R, N), full \in [N -> BOOLEAN]}

\* The lexical grader: a chunk's overlap is low, relevant or sufficient.
HeuristicReports(R, n) ==
    {[grades |-> [k \in R |-> [relevant |-> s[k] > 0,
                               supports |-> IF s[k] > 0 THEN {n} ELSE {}]],
      needs |-> [i \in {n} |->
                    IF \A k \in R : s[k] = 0 THEN "missing"
                    ELSE IF \E k \in R : s[k] = 2 THEN "supported" ELSE "partial"],
      fallback |-> TRUE] : s \in [R -> 0..2]}

MissingReport(n) ==
    [grades |-> <<>>, needs |-> [i \in {n} |-> "missing"], fallback |-> FALSE]

-----------------------------------------------------------------------------
(* Aggregation and arbitration.                                            *)

Graded == {n \in 1..needs : gradings[n] # NoReport}

Aggregated ==
    LET approvals(k) == {n \in Graded : k \in Approved(gradings[n])}
        supports(k) == UNION {gradings[n].grades[k].supports : n \in approvals(k)}
    IN [grades |-> [k \in evidence |-> [relevant |-> supports(k) # {},
                                        supports |-> supports(k)]],
        needs |-> [n \in 1..needs |->
                      IF n \in Graded THEN gradings[n].needs[n] ELSE "missing"],
        fallback |-> \E n \in Graded : gradings[n].fallback]

Order == [missing |-> 0, partial |-> 1, supported |-> 2]
LowerStatus(s, t) == IF Order[s] <= Order[t] THEN s ELSE t

\* Mutant: the arbiter's status is only bounded by its own evidence.
UnboundedStatus(prior, proposed, backed) == IF backed THEN proposed ELSE "missing"

BoundedStatus(prior, proposed, backed) ==
    IF backed THEN LowerStatus(prior, proposed) ELSE "missing"

\* The arbiter may only take away from what the graders approved.
Constrain(prior, proposed) ==
    LET supports(k) == proposed.grades[k].supports \cap prior.grades[k].supports
        relevant(k) == /\ prior.grades[k].relevant
                       /\ proposed.grades[k].relevant
                       /\ supports(k) # {}
        grades == [k \in DOMAIN prior.grades |->
                      [relevant |-> relevant(k),
                       supports |-> IF relevant(k) THEN supports(k) ELSE {}]]
    IN [grades |-> grades,
        needs |-> [n \in DOMAIN prior.needs |->
                      BoundedStatus(prior.needs[n], proposed.needs[n],
                                    Backing(grades, n) # {})],
        fallback |-> prior.fallback]

-----------------------------------------------------------------------------
(* Results of the calling nodes; source is the model or the fallback.      *)

Classified ==
    /\ pc' = "decompose"
    /\ UNCHANGED graph

Decomposed ==
    /\ needs' \in Needs
    /\ pc' = "grade"
    /\ UNCHANGED <<active, seen, gradings, evidence, report, scoped, answer>>

NextNeed ==
    /\ active' = active + 1
    /\ seen' = {}
    /\ pc' = IF active = needs THEN "aggregate" ELSE "grade"

GradedAs(r) ==
    /\ gradings' = [gradings EXCEPT ![active] = r]
    /\ evidence' = evidence \cup Approved(r)
    /\ NextNeed
    /\ UNCHANGED <<needs, report, scoped, answer>>

Arbitrated(r) ==
    /\ report' = r
    /\ pc' = "prepare"
    /\ UNCHANGED <<needs, active, seen, gradings, evidence, scoped, answer>>

Parsed ==
    \/ pc = "classify" /\ Classified
    \/ pc = "decompose" /\ Decomposed
    \/ /\ pc = "grade"
       /\ \E r \in ParsedReports(seen, {active}) : GradedAs(r)
    \/ /\ pc = "arbitrate"
       /\ \E p \in ParsedReports(evidence, 1..needs) : Arbitrated(Constrain(report, p))

FallenBack ==
    \/ pc = "classify" /\ Classified
    \/ pc = "decompose" /\ Decomposed
    \/ /\ pc = "grade"
       /\ \E r \in HeuristicReports(seen, active) : GradedAs(r)
    \/ /\ pc = "arbitrate"
       /\ Arbitrated([report EXCEPT !.fallback = TRUE])

-----------------------------------------------------------------------------
(* The structured call.                                                    *)

Init ==
    /\ pc = "classify"
    /\ call = Idle
    /\ needs = 1
    /\ active = 1
    /\ seen = {}
    /\ gradings = [n \in Needs |-> NoReport]
    /\ evidence = {}
    /\ report = NoReport
    /\ scoped \in BOOLEAN
    /\ answer = NoAnswer

\* Ranks of chunks that an earlier need's grader rejected are not given out
\* again.
Rejected == UNION {DOMAIN gradings[n].grades : n \in Graded} \ evidence

Ask ==
    /\ call = Idle
    /\ \/ pc \in {"classify", "decompose"} /\ UNCHANGED seen
       \/ pc = "grade" /\ seen' \in SUBSET (Ranks \ Rejected) \ {{}}
       \/ /\ pc = "arbitrate" /\ evidence # {} /\ Answerable(report)
          /\ UNCHANGED seen
    /\ call' = [Idle EXCEPT !.at = "primary"]
    /\ UNCHANGED <<pc, needs, active, gradings, evidence, report, scoped, answer>>

Calling == call.at \in {"primary", "repair"}

AnswerValid == Calling /\ Parsed /\ call' = Idle

\* A declared validation failure: repaired once, where repairs are configured.
AnswerInvalid ==
    /\ Calling
    /\ \E code \in Codes :
          call' = IF call.at = "repair"
                  THEN [at |-> "fallback", code |-> "repair_invalid"]
                  ELSE [at |-> IF Repairs[pc] = 0 THEN "fallback" ELSE "repair",
                        code |-> code]
    /\ UNCHANGED <<pc, graph>>

ProviderFails ==
    /\ Calling
    /\ call' = [at |-> "fallback", code |-> "provider_failure"]
    /\ UNCHANGED <<pc, graph>>

\* An exception no validation rule declares: no repair and no diagnostics.
AnswerUnexpected ==
    /\ Calling
    /\ call' = [at |-> "fallback", code |-> "none"]
    /\ UNCHANGED <<pc, graph>>

Fallback ==
    /\ call.at = "fallback"
    /\ pc \in FailOpen
    /\ FallenBack
    /\ call' = Idle

Raise ==
    /\ call.at = "fallback"
    /\ pc \notin FailOpen
    /\ pc' = "failed"
    /\ call' = Idle
    /\ UNCHANGED graph

-----------------------------------------------------------------------------
(* The other nodes.                                                        *)

\* No chunk was retrieved for the need: no call is made.
GradeNothing ==
    /\ pc = "grade" /\ call = Idle
    /\ GradedAs(MissingReport(active))
    /\ UNCHANGED call

\* The query's lookup budget was used up before the need's first attempt.
Unattempted ==
    /\ pc = "grade" /\ call = Idle
    /\ active > 1
    /\ NextNeed
    /\ UNCHANGED <<call, needs, gradings, evidence, report, scoped, answer>>

Aggregate ==
    /\ pc = "aggregate"
    /\ report' = Aggregated
    /\ pc' = "arbitrate"
    /\ UNCHANGED <<call, needs, active, seen, gradings, evidence, scoped, answer>>

SkipArbitration ==
    /\ pc = "arbitrate" /\ call = Idle
    /\ evidence = {} \/ ~Answerable(report)
    /\ pc' = "prepare"
    /\ UNCHANGED <<call, graph>>

\* The question's constraints filter evidence that was retrieved under each
\* need's own; which chunks they let through is left open.
Prepare ==
    /\ pc = "prepare"
    /\ evidence' \in IF scoped THEN SUBSET evidence ELSE {evidence}
    /\ pc' = "generate"
    /\ UNCHANGED <<call, needs, active, seen, gradings, report, scoped, answer>>

SelectAnswerEvidence == evidence \cap Approved(report)

\* Labels in the answer that name no prompt evidence are dropped.
Cited(labels) == labels \cap SelectAnswerEvidence

Blocked(outcome, used) ==
    /\ answer' = [outcome |-> outcome, used |-> used, cited |-> {}]
    /\ pc' = "done"

Generate ==
    /\ pc = "generate"
    /\ \/ /\ scoped /\ evidence = {}
          /\ Blocked("blocked_constraint_no_match", {})
       \/ /\ ~(scoped /\ evidence = {})
          /\ ~Answerable(report)
          /\ Blocked("blocked_insufficient_evidence", SelectAnswerEvidence)
       \/ /\ ~(scoped /\ evidence = {})
          /\ Answerable(report)
          /\ SelectAnswerEvidence = {}
          /\ Blocked("blocked_no_evidence", {})
       \/ /\ Answerable(report)
          /\ SelectAnswerEvidence # {}
          /\ pc' = "done"
          /\ \E labels \in SUBSET Ranks :
                answer' = [outcome |-> IF Sufficient(report) THEN "complete" ELSE "partial",
                           used |-> SelectAnswerEvidence,
                           cited |-> Cited(labels)]
    /\ UNCHANGED <<call, needs, active, seen, gradings, evidence, report, scoped>>

GenerationFails ==
    /\ pc = "generate"
    /\ Answerable(report)
    /\ SelectAnswerEvidence # {}
    /\ pc' = "failed"
    /\ UNCHANGED <<call, graph>>

Next ==
    \/ Ask \/ AnswerValid \/ AnswerInvalid \/ ProviderFails \/ AnswerUnexpected
    \/ Fallback \/ Raise
    \/ GradeNothing \/ Unattempted \/ Aggregate \/ SkipArbitration
    \/ Prepare \/ Generate \/ GenerationFails

Spec == Init /\ [][Next]_vars

-----------------------------------------------------------------------------
(* Properties.                                                             *)

ReportsOver(R, N) ==
    [grades: [R -> [relevant: BOOLEAN, supports: SUBSET N]],
     needs: [N -> Support], fallback: BOOLEAN]

TypeOK ==
    /\ pc \in Stages \cup {"aggregate", "prepare", "generate", "done", "failed"}
    /\ call \in [at: {"none", "primary", "repair", "fallback"},
                 code: Codes \cup {"none", "provider_failure", "repair_invalid"}]
    /\ needs \in Needs /\ active \in 1..(MaxNeeds + 1)
    /\ seen \subseteq Ranks /\ evidence \subseteq Ranks
    /\ \A n \in Graded : gradings[n] \in ReportsOver(DOMAIN gradings[n].grades, {n})
    /\ report # NoReport => report \in ReportsOver(DOMAIN report.grades, 1..needs)
    /\ scoped \in BOOLEAN
    /\ answer.cited \subseteq Ranks /\ answer.used \subseteq Ranks
    /\ call.at = "repair" => Repairs[pc] = 1

\* In every report of the question, whichever model or fallback graded, a need
\* counts as supported or partly supported exactly when an approved chunk
\* supports it, and no chunk supports a need without being approved (graders/
\* models.py's validation, which raises otherwise).
StatusBacked ==
    \A n \in DOMAIN report.needs :
        (report.needs[n] # "missing") <=>
            \E k \in Approved(report) : n \in report.grades[k].supports

\* Arbitration never approves a chunk or a support that no per-need grader
\* approved and never improves a need (README "Final evidence arbitration"):
\* also when its answer was repaired or replaced.
ArbitrationNarrows ==
    [][pc = "arbitrate" =>
        /\ Approved(report') \subseteq Approved(report)
        /\ \A k \in Approved(report') :
              report'.grades[k].supports \subseteq report.grades[k].supports
        /\ \A n \in 1..needs : Order[report'.needs[n]] <= Order[report.needs[n]]]_vars

\* Needs for which their own grader found all that they ask for.
SupportedNeeds == {n \in Graded : gradings[n].needs[n] = "supported"}

\* Whatever was aggregated, arbitrated, repaired, replaced and filtered in
\* between: every chunk an answer is generated from still supports a need for
\* which that need's own grader accepted it, a question of which no grader
\* found a need supported gets no answer, and none is called complete while a
\* need was found partial or missing, or never graded (nodes/aggregate.py,
\* constrain_arbitration_report, generation/service.py).
AnswersRestOnGrades ==
    answer.outcome \in {"complete", "partial"} =>
        /\ \A k \in answer.used : \E n \in Graded :
              /\ k \in Approved(gradings[n]) /\ n \in gradings[n].grades[k].supports
              /\ n \in report.grades[k].supports
        /\ SupportedNeeds # {}
        /\ answer.outcome = "complete" => SupportedNeeds = 1..needs

\* An answer is presented as complete only if every need it counts as
\* supported has evidence in the prompt (README: "the LLM answers that
\* supported subset").  Refuted: the question's constraints are applied after
\* the grades were given.
CompleteAnswersAreBacked ==
    answer.outcome = "complete" =>
        \A n \in 1..needs : \E k \in answer.used : n \in report.grades[k].supports
=============================================================================
