--------------------------- MODULE AnsweringProofs ---------------------------
(***************************************************************************)
(* StatusBacked, ArbitrationNarrows and AnswersRestOnGrades for any number *)
(* of needs and chunks, repairs and fallbacks.                             *)
(*                                                                         *)
(* Backed is what graders/models.py demands of one report.  The question's *)
(* report is computed only when all needs have been graded, so the         *)
(* invariant has to carry the same demand for every grading given so far,  *)
(* and that a need's grading supports no other need: then aggregation      *)
(* keeps the demand, and arbitration does because both of its inputs       *)
(* satisfy it.  Traced says that the report claims nothing which the       *)
(* gradings do not: aggregation establishes it, and arbitration can only   *)
(* keep it, because it narrows the report.                                 *)
(***************************************************************************)
EXTENDS Answering, TLAPS

Backed(r, n) ==
    (r.needs[n] # "missing") <=> \E k \in Approved(r) : n \in r.grades[k].supports

\* What a grading of need n looks like.
GradingOK(r, n) ==
    /\ r.needs[n] \in Support
    /\ \A k \in DOMAIN r.grades : r.grades[k].supports \subseteq {n}
    /\ Backed(r, n)

BeforeReport == {"classify", "decompose", "grade", "aggregate"}

\* Need n's own grader says that chunk k supports it.
Supports(n, k) ==
    /\ n \in Graded /\ k \in Approved(gradings[n])
    /\ n \in gradings[n].grades[k].supports

Traced(r) ==
    /\ DOMAIN r.needs = 1..needs
    /\ \A n \in 1..needs : r.needs[n] = "supported" => n \in SupportedNeeds
    /\ \A k \in Approved(r) :
          /\ r.grades[k].supports # {}
          /\ \A n \in r.grades[k].supports : Supports(n, k)

AInv ==
    /\ needs \in Needs
    /\ \E S : gradings \in [Needs -> S]
    /\ \A n \in Needs : gradings[n] # NoReport => GradingOK(gradings[n], n)
    /\ pc \in BeforeReport =>
          /\ report = NoReport
          /\ \A n \in Needs : gradings[n] # NoReport => Approved(gradings[n]) \subseteq evidence
    /\ \A n \in DOMAIN report.needs : Backed(report, n)
    /\ pc = "arbitrate" =>
          /\ DOMAIN report.grades = evidence
          /\ DOMAIN report.needs = 1..needs
          /\ \A n \in 1..needs : report.needs[n] \in Support
    /\ pc \in {"arbitrate", "prepare", "generate"} => Traced(report)
    /\ pc \notin {"done", "failed"} => answer = NoAnswer
    /\ AnswersRestOnGrades

-----------------------------------------------------------------------------
\* An accepted answer of a grader backs every status it gives.
LEMMA ParsedBacked ==
    ASSUME NEW R, NEW N, NEW r \in ParsedReports(R, N)
    PROVE  /\ DOMAIN r.grades = R
           /\ \A k \in R : r.grades[k].supports \subseteq N
           /\ \A n \in N : r.needs[n] \in Support /\ Backed(r, n)
  <1>1. PICK g \in ParsedGrades(R, N), full \in [N -> BOOLEAN] :
            r = [grades |-> g,
                 needs |-> [n \in N |-> NormalizeNeedStatus(Backing(g, n), full[n])],
                 fallback |-> FALSE]
      BY DEF ParsedReports
  <1>2. /\ r.grades = g
        /\ \A n \in N : r.needs[n] = NormalizeNeedStatus(Backing(g, n), full[n])
      BY <1>1
  <1>3. /\ DOMAIN g = R
        /\ \A k \in R : g[k].supports \subseteq N /\ (g[k].supports # {} => g[k].relevant)
      BY DEF ParsedGrades
  <1>4. ASSUME NEW n \in N PROVE r.needs[n] \in Support /\ Backed(r, n)
    <2>1. r.needs[n] = NormalizeNeedStatus(Backing(g, n), full[n])
        BY <1>2
    <2>2. Backing(g, n) = {} <=> ~\E k \in Approved(r) : n \in g[k].supports
        BY <1>2, <1>3 DEF Backing, Approved
    <2> QED BY <2>1, <2>2, <1>2 DEF NormalizeNeedStatus, Support, Backed
  <1> QED BY <1>2, <1>3, <1>4

\* So does the lexical grader that replaces it.
LEMMA HeuristicBacked ==
    ASSUME NEW R, NEW n, NEW r \in HeuristicReports(R, n)
    PROVE  GradingOK(r, n)
  <1>1. PICK s \in [R -> 0..2] : 
            r = [grades |-> [k \in R |-> [relevant |-> s[k] > 0,
                                          supports |-> IF s[k] > 0 THEN {n} ELSE {}]],
                 needs |-> [i \in {n} |->
                               IF \A k \in R : s[k] = 0 THEN "missing"
                               ELSE IF \E k \in R : s[k] = 2 THEN "supported"
                               ELSE "partial"],
                 fallback |-> TRUE]
      BY DEF HeuristicReports
  <1>2. /\ DOMAIN r.grades = R
        /\ \A k \in R : /\ r.grades[k].relevant <=> s[k] > 0
                        /\ r.grades[k].supports = IF s[k] > 0 THEN {n} ELSE {}
        /\ r.needs[n] = IF \A k \in R : s[k] = 0 THEN "missing"
                        ELSE IF \E k \in R : s[k] = 2 THEN "supported"
                        ELSE "partial"
      BY <1>1
  <1>3. \A k \in R : s[k] # 0 <=> s[k] > 0
      OBVIOUS
  <1>4. (\E k \in R : s[k] # 0) <=> \E k \in Approved(r) : n \in r.grades[k].supports
      BY <1>2, <1>3 DEF Approved
  <1>5. (\E k \in R : s[k] # 0) <=> r.needs[n] # "missing"
      BY <1>2
  <1>6. r.needs[n] \in Support
      BY <1>2 DEF Support
  <1>7. \A k \in DOMAIN r.grades : r.grades[k].supports \subseteq {n}
      BY <1>2
  <1> QED BY <1>4, <1>5, <1>6, <1>7 DEF GradingOK, Backed

\* A need nothing was retrieved for is missing.
LEMMA MissingBacked == ASSUME NEW n PROVE GradingOK(MissingReport(n), n)
  <1>1. DOMAIN MissingReport(n).grades = {}
      BY DEF MissingReport
  <1>2. MissingReport(n).needs[n] = "missing"
      BY DEF MissingReport
  <1> QED BY <1>1, <1>2 DEF GradingOK, Backed, Approved, Support

\* Aggregation keeps every need's status and all that backs it.
LEMMA AggregateBacked ==
    ASSUME AInv, pc = "aggregate"
    PROVE  /\ DOMAIN Aggregated.grades = evidence
           /\ DOMAIN Aggregated.needs = 1..needs
           /\ \A n \in 1..needs : Aggregated.needs[n] \in Support /\ Backed(Aggregated, n)
           /\ Traced(Aggregated)
  <1> DEFINE approvals(k) == {n \in Graded : k \in Approved(gradings[n])}
             supports(k) == UNION {gradings[n].grades[k].supports : n \in approvals(k)}
  <1>1. /\ DOMAIN Aggregated.grades = evidence
        /\ \A k \in evidence : /\ Aggregated.grades[k].relevant <=> supports(k) # {}
                               /\ Aggregated.grades[k].supports = supports(k)
      BY DEF Aggregated
  <1>2. /\ DOMAIN Aggregated.needs = 1..needs
        /\ \A n \in 1..needs :
              Aggregated.needs[n] = IF n \in Graded THEN gradings[n].needs[n] ELSE "missing"
      BY DEF Aggregated
  <1>3. \A n \in Graded : /\ n \in Needs
                          /\ GradingOK(gradings[n], n)
                          /\ Approved(gradings[n]) \subseteq evidence
      BY AnsweringAssumption DEF AInv, Graded, Needs, BeforeReport
  <1>4. ASSUME NEW n, NEW k \in evidence
        PROVE  n \in supports(k) <=> Supports(n, k)
    <2>1. ASSUME n \in supports(k)
          PROVE  Supports(n, k)
      <3>1. PICK m \in approvals(k) : n \in gradings[m].grades[k].supports
          BY <2>1
      <3>2. m \in Graded /\ k \in Approved(gradings[m])
          OBVIOUS
      <3>3. n = m
          BY <1>3, <3>1, <3>2 DEF GradingOK, Approved
      <3> QED BY <3>1, <3>2, <3>3 DEF Supports
    <2> QED BY <2>1 DEF Supports
  <1> HIDE DEF supports
  <1>5. ASSUME NEW n \in 1..needs
        PROVE  Aggregated.needs[n] \in Support /\ Backed(Aggregated, n)
    <2>1. (\E k \in Approved(Aggregated) : n \in Aggregated.grades[k].supports) <=>
             \E k \in evidence : n \in supports(k)
        BY <1>1 DEF Approved
    <2>2. CASE n \in Graded
      <3>1. Backed(gradings[n], n) /\ Approved(gradings[n]) \subseteq evidence
            /\ gradings[n].needs[n] \in Support
          BY <2>2, <1>3 DEF GradingOK
      <3>2. (\E k \in evidence : n \in supports(k)) <=>
               \E k \in Approved(gradings[n]) : n \in gradings[n].grades[k].supports
          BY <2>2, <1>4, <3>1 DEF Supports
      <3> QED BY <1>2, <2>1, <2>2, <3>1, <3>2 DEF Backed
    <2>3. CASE n \notin Graded
      <3>1. ~\E k \in evidence : n \in supports(k)
          BY <2>3, <1>4 DEF Supports
      <3> QED BY <1>2, <2>1, <2>3, <3>1 DEF Backed, Support
    <2> QED BY <2>2, <2>3
  <1>6. \A n \in 1..needs : Aggregated.needs[n] = "supported" => n \in SupportedNeeds
      BY <1>2 DEF SupportedNeeds
  <1>7. ASSUME NEW k \in Approved(Aggregated)
        PROVE  /\ Aggregated.grades[k].supports # {}
               /\ \A n \in Aggregated.grades[k].supports : Supports(n, k)
    <2>1. k \in evidence /\ Aggregated.grades[k].supports = supports(k) /\ supports(k) # {}
        BY <1>1 DEF Approved
    <2> QED BY <2>1, <1>4
  <1>8. Traced(Aggregated)
      BY <1>2, <1>6, <1>7 DEF Traced
  <1> QED BY <1>1, <1>2, <1>5, <1>8

\* The lower of two statuses.
LEMMA LowerOf ==
    ASSUME NEW s \in Support, NEW t \in Support
    PROVE  /\ LowerStatus(s, t) \in {s, t}
           /\ Order[LowerStatus(s, t)] <= Order[s]
           /\ Order["missing"] = 0 /\ Order[s] \in Nat
           /\ Order["supported"] <= Order[s] => s = "supported"
  BY DEF LowerStatus, Order, Support

\* Whatever the arbiter proposes, constraining it leaves statuses that are
\* backed, approvals and supports the prior report has, and no status above
\* the prior one.
LEMMA ConstrainNarrows ==
    ASSUME NEW r, NEW N, DOMAIN r.needs = N,
           \A n \in N : r.needs[n] \in Support /\ Backed(r, n),
           NEW R, NEW p \in ParsedReports(R, N), DOMAIN r.grades \subseteq R
    PROVE  LET c == Constrain(r, p)
           IN  /\ DOMAIN c.needs = N
               /\ \A n \in N : Backed(c, n) /\ Order[c.needs[n]] <= Order[r.needs[n]]
               /\ Approved(c) \subseteq Approved(r)
               /\ \A k \in Approved(c) : /\ c.grades[k].supports # {}
                                       /\ c.grades[k].supports \subseteq r.grades[k].supports
  <1> DEFINE c == Constrain(r, p)
             both(k) == p.grades[k].supports \cap r.grades[k].supports
             rel(k) == r.grades[k].relevant /\ p.grades[k].relevant /\ both(k) # {}
             bk(n) == Backing(c.grades, n) # {}
  <1>1. /\ DOMAIN c.grades = DOMAIN r.grades
        /\ \A k \in DOMAIN r.grades :
              /\ c.grades[k].relevant <=> rel(k)
              /\ c.grades[k].supports = IF rel(k) THEN both(k) ELSE {}
      BY DEF Constrain
  <1>2. /\ DOMAIN c.needs = N
        /\ \A n \in N : c.needs[n] = BoundedStatus(r.needs[n], p.needs[n], bk(n))
      BY DEF Constrain
  <1>3. \A n \in N : p.needs[n] \in Support /\ Backed(p, n)
      BY ParsedBacked
  <1>4. DOMAIN p.grades = R
      BY ParsedBacked
  <1> HIDE DEF c
  <1>5. Approved(c) \subseteq Approved(r)
      BY <1>1 DEF Approved
  <1>6. \A k \in Approved(c) : /\ c.grades[k].supports # {}
                              /\ c.grades[k].supports \subseteq r.grades[k].supports
      BY <1>1 DEF Approved
  <1>7. ASSUME NEW n \in N PROVE Backed(c, n) /\ Order[c.needs[n]] <= Order[r.needs[n]]
    <2>1. bk(n) <=> \E k \in Approved(c) : n \in c.grades[k].supports
        BY <1>1 DEF Backing, Approved
    <2>2. CASE bk(n)
      <3>1. PICK k \in Approved(c) : n \in c.grades[k].supports
          BY <2>1, <2>2
      <3>2. /\ k \in Approved(r) /\ n \in r.grades[k].supports
            /\ k \in Approved(p) /\ n \in p.grades[k].supports
          BY <3>1, <1>1, <1>4 DEF Approved
      <3>3. r.needs[n] # "missing" /\ p.needs[n] # "missing"
          BY <3>2, <1>3 DEF Backed
      <3>4. c.needs[n] = LowerStatus(r.needs[n], p.needs[n])
          BY <1>2, <2>2 DEF BoundedStatus
      <3>5. r.needs[n] \in Support /\ p.needs[n] \in Support
          BY <1>3
      <3>6. /\ c.needs[n] # "missing"
            /\ Order[c.needs[n]] <= Order[r.needs[n]]
          BY <3>3, <3>4, <3>5, LowerOf
      <3> QED BY <3>6, <3>1 DEF Backed
    <2>3. CASE ~bk(n)
      <3>1. c.needs[n] = "missing"
          BY <1>2, <2>3 DEF BoundedStatus
      <3>2. Order[c.needs[n]] <= Order[r.needs[n]]
          BY <3>1, LowerOf DEF Support
      <3> QED BY <3>1, <3>2, <2>1, <2>3 DEF Backed
    <2> QED BY <2>2, <2>3
  <1> QED BY <1>2, <1>5, <1>6, <1>7 DEF c

-----------------------------------------------------------------------------
\* Nothing has been decided when a question arrives.
LEMMA AnswerInit == Init => AInv
  <1> SUFFICES ASSUME Init PROVE AInv
      OBVIOUS
  <1>1. needs \in Needs
      BY AnsweringAssumption DEF Init, Needs
  <1>2. gradings \in [Needs -> {NoReport}]
      BY DEF Init
  <1>3. DOMAIN report.needs = {}
      BY DEF Init, NoReport
  <1> QED BY <1>1, <1>2, <1>3
      DEF Init, AInv, BeforeReport, AnswersRestOnGrades, NoAnswer

\* A grading of the active need keeps what is known of all gradings.
LEMMA GradingStep ==
    ASSUME AInv, pc = "grade", NEW r, GradingOK(r, active), GradedAs(r)
    PROVE  AInv'
  <1>1. gradings' = [gradings EXCEPT ![active] = r]
        /\ evidence' = evidence \cup Approved(r)
        /\ pc' \in {"grade", "aggregate"}
        /\ needs' = needs /\ report' = report /\ answer' = answer
      BY DEF GradedAs, NextNeed
  <1>2. PICK S : gradings \in [Needs -> S]
      BY DEF AInv
  <1>3. /\ gradings' \in [Needs -> S \cup {r}]
        /\ \A n \in Needs : gradings'[n] = IF n = active THEN r ELSE gradings[n]
      BY <1>1, <1>2
  <1>4. \A n \in Needs : gradings'[n] # NoReport => GradingOK(gradings'[n], n)
      BY <1>3 DEF AInv
  <1>5. \A n \in Needs : gradings'[n] # NoReport => Approved(gradings'[n]) \subseteq evidence'
      BY <1>1, <1>3 DEF AInv, BeforeReport
  <1>6. report' = NoReport /\ answer' = NoAnswer
      BY <1>1 DEF AInv, BeforeReport
  <1>7. \A n \in DOMAIN report'.needs : Backed(report', n)
      BY <1>1 DEF AInv
  <1>8. AnswersRestOnGrades'
      BY <1>6 DEF AnswersRestOnGrades, NoAnswer
  <1> QED BY <1>1, <1>3, <1>4, <1>5, <1>6, <1>7, <1>8 DEF AInv, Backed, Approved

\* A report within a traced one is traced.
LEMMA NarrowerTraced ==
    ASSUME Traced(report), NEW r, DOMAIN r.needs = DOMAIN report.needs,
           \A n \in 1..needs : report.needs[n] \in Support,
           \A n \in 1..needs : Order[r.needs[n]] <= Order[report.needs[n]],
           Approved(r) \subseteq Approved(report),
           \A k \in Approved(r) : /\ r.grades[k].supports # {}
                                 /\ r.grades[k].supports \subseteq report.grades[k].supports
    PROVE  Traced(r)
  <1>1. ASSUME NEW n \in 1..needs, r.needs[n] = "supported" PROVE n \in SupportedNeeds
    <2>1. Order["supported"] <= Order[report.needs[n]]
        BY <1>1
    <2>2. report.needs[n] = "supported"
        BY <2>1, LowerOf
    <2> QED BY <2>2 DEF Traced
  <1> QED BY <1>1 DEF Traced

\* Once the report is arbitrated its backing and its origin count.
LEMMA ArbitrationStep ==
    ASSUME AInv, pc = "arbitrate", NEW r, \A n \in DOMAIN r.needs : Backed(r, n),
           Traced(r), Arbitrated(r)
    PROVE  AInv'
  <1>1. report' = r /\ pc' = "prepare" /\ needs' = needs /\ gradings' = gradings
        /\ answer' = answer
      BY DEF Arbitrated
  <1>2. answer' = NoAnswer
      BY <1>1 DEF AInv
  <1>3. AnswersRestOnGrades'
      BY <1>2 DEF AnswersRestOnGrades, NoAnswer
  <1>4. \A n \in DOMAIN report'.needs : Backed(report', n)
      BY <1>1
  <1>5. Traced(report)'
      BY <1>1 DEF Traced, Supports, SupportedNeeds, Graded, Approved
  <1> QED BY <1>1, <1>2, <1>3, <1>4, <1>5 DEF AInv, BeforeReport, Backed, Approved

\* What the arbiter's answer is worth: the question's report, no wider.
LEMMA ProposalNarrows ==
    ASSUME AInv, pc = "arbitrate", NEW p \in ParsedReports(evidence, 1..needs)
    PROVE  LET c == Constrain(report, p)
           IN  /\ DOMAIN c.needs = 1..needs
               /\ \A n \in 1..needs : Backed(c, n) /\ Order[c.needs[n]] <= Order[report.needs[n]]
               /\ Approved(c) \subseteq Approved(report)
               /\ \A k \in Approved(c) :
                     /\ c.grades[k].supports # {}
                     /\ c.grades[k].supports \subseteq report.grades[k].supports
  <1> DEFINE N == 1..needs
  <1>1. DOMAIN report.grades = evidence /\ DOMAIN report.needs = N
        /\ \A n \in N : report.needs[n] \in Support /\ Backed(report, n)
      BY DEF AInv
  <1>2. p \in ParsedReports(evidence, N)
      OBVIOUS
  <1> HIDE DEF N
  <1>3. LET c == Constrain(report, p)
        IN  /\ DOMAIN c.needs = N
            /\ \A n \in N : Backed(c, n) /\ Order[c.needs[n]] <= Order[report.needs[n]]
            /\ Approved(c) \subseteq Approved(report)
            /\ \A k \in Approved(c) :
                  /\ c.grades[k].supports # {}
                  /\ c.grades[k].supports \subseteq report.grades[k].supports
      BY <1>1, <1>2, ConstrainNarrows
  <1> QED BY <1>3 DEF N

\* Without an arbiter's answer, only the report's fallback flag changes.
LEMMA PassthroughNarrows ==
    ASSUME AInv, pc = "arbitrate"
    PROVE  LET c == [report EXCEPT !.fallback = TRUE]
           IN  c.needs = report.needs /\ c.grades = report.grades
  BY DEF AInv
-----------------------------------------------------------------------------
\* Calls that go on, wait for a repair or give up leave the grades alone.
LEMMA IdleStep ==
    ASSUME AInv, UNCHANGED <<needs, gradings, evidence, report, answer>>,
           \/ pc' = pc
           \/ pc' = "failed"
           \/ pc \in BeforeReport /\ pc' \in BeforeReport
           \/ pc' = "prepare" /\ pc = "arbitrate"
    PROVE  AInv'
  <1>1. needs' = needs /\ gradings' = gradings /\ evidence' = evidence
        /\ report' = report /\ answer' = answer
      OBVIOUS
  <1>2. AnswersRestOnGrades'
      BY <1>1 DEF AInv, AnswersRestOnGrades, SupportedNeeds, Graded, Approved
  <1>3. \A n \in DOMAIN report'.needs : Backed(report', n)
      BY <1>1 DEF AInv
  <1>4. pc' \notin {"done", "failed"} => answer' = NoAnswer
      BY <1>1 DEF AInv, BeforeReport
  <1>5. pc' \in BeforeReport => pc \in BeforeReport
      BY DEF BeforeReport
  <1>6. pc' = "arbitrate" => pc = "arbitrate"
      BY DEF BeforeReport
  <1>7. Traced(report) => Traced(report)'
      BY <1>1 DEF Traced, Supports, SupportedNeeds, Graded, Approved
  <1>8. pc' \in {"arbitrate", "prepare", "generate"} =>
           pc \in {"arbitrate", "prepare", "generate"}
      BY DEF BeforeReport
  <1> QED BY <1>1, <1>2, <1>3, <1>4, <1>5, <1>6, <1>7, <1>8 DEF AInv, Backed, Approved

\* The number of needs is decided before anything is graded.
LEMMA DecomposedStep == ASSUME AInv, pc = "decompose", Decomposed PROVE AInv'
  <1>1. needs' \in Needs /\ pc' = "grade" /\ gradings' = gradings
        /\ evidence' = evidence /\ report' = report /\ answer' = answer
      BY DEF Decomposed
  <1>2. AnswersRestOnGrades'
      BY <1>1 DEF AInv, AnswersRestOnGrades, NoAnswer
  <1> QED BY <1>1, <1>2 DEF AInv, BeforeReport, Backed, Approved

\* Every step keeps AInv: one case per action.
LEMMA AnswerStep == AInv /\ [Next]_vars => AInv'
  <1> SUFFICES ASSUME AInv, [Next]_vars PROVE AInv'
      OBVIOUS
  <1>1. CASE Ask
    <2>1. pc' = pc /\ UNCHANGED <<needs, gradings, evidence, report, answer>>
        BY <1>1 DEF Ask
    <2> QED BY <2>1, IdleStep
  <1>2. CASE AnswerValid
    <2>1. CASE pc = "classify" /\ Classified
        BY <2>1, IdleStep DEF Classified, graph, BeforeReport
    <2>2. CASE pc = "decompose" /\ Decomposed
        BY <2>2, DecomposedStep
    <2>3. ASSUME pc = "grade", NEW r \in ParsedReports(seen, {active}), GradedAs(r)
          PROVE AInv'
      <3>1. GradingOK(r, active)
          BY ParsedBacked DEF GradingOK
      <3> QED BY <2>3, <3>1, GradingStep
    <2>4. ASSUME pc = "arbitrate", NEW p \in ParsedReports(evidence, 1..needs),
                 Arbitrated(Constrain(report, p))
          PROVE AInv'
      <3> DEFINE c == Constrain(report, p)
      <3>1. /\ \A n \in DOMAIN c.needs : Backed(c, n)
            /\ DOMAIN c.needs = 1..needs
            /\ \A n \in 1..needs : Order[c.needs[n]] <= Order[report.needs[n]]
            /\ Approved(c) \subseteq Approved(report)
            /\ \A k \in Approved(c) : /\ c.grades[k].supports # {}
                                    /\ c.grades[k].supports \subseteq report.grades[k].supports
          BY <2>4, ProposalNarrows
      <3>2. Arbitrated(c)
          BY <2>4
      <3> HIDE DEF c
      <3>3. /\ Traced(report) /\ DOMAIN report.needs = 1..needs
            /\ \A n \in 1..needs : report.needs[n] \in Support
          BY <2>4 DEF AInv
      <3>4. Traced(c)
          BY <3>1, <3>3, NarrowerTraced
      <3> QED BY <2>4, <3>1, <3>2, <3>4, ArbitrationStep
    <2> QED BY <1>2, <2>1, <2>2, <2>3, <2>4 DEF AnswerValid, Parsed
  <1>3. CASE AnswerInvalid \/ ProviderFails \/ AnswerUnexpected
    <2>1. pc' = pc /\ UNCHANGED <<needs, gradings, evidence, report, answer>>
        BY <1>3 DEF AnswerInvalid, ProviderFails, AnswerUnexpected, graph
    <2> QED BY <2>1, IdleStep
  <1>4. CASE Fallback
    <2>1. CASE pc = "classify" /\ Classified
        BY <2>1, IdleStep DEF Classified, graph, BeforeReport
    <2>2. CASE pc = "decompose" /\ Decomposed
        BY <2>2, DecomposedStep
    <2>3. ASSUME pc = "grade", NEW r \in HeuristicReports(seen, active), GradedAs(r)
          PROVE AInv'
        BY <2>3, HeuristicBacked, GradingStep
    <2>4. CASE pc = "arbitrate" /\ Arbitrated([report EXCEPT !.fallback = TRUE])
      <3> DEFINE c == [report EXCEPT !.fallback = TRUE]
      <3>1. c.needs = report.needs /\ c.grades = report.grades
          BY <2>4, PassthroughNarrows
      <3>2. Arbitrated(c)
          BY <2>4
      <3> HIDE DEF c
      <3>3. \A n \in DOMAIN c.needs : Backed(c, n)
          BY <3>1 DEF AInv, Backed, Approved
      <3>4. Traced(c)
          BY <2>4, <3>1 DEF AInv, Traced, Approved
      <3> QED BY <2>4, <3>2, <3>3, <3>4, ArbitrationStep
    <2> QED BY <1>4, <2>1, <2>2, <2>3, <2>4 DEF Fallback, FallenBack
  <1>5. CASE Raise \/ GenerationFails
    <2>1. pc' = "failed" /\ UNCHANGED <<needs, gradings, evidence, report, answer>>
        BY <1>5 DEF Raise, GenerationFails, graph
    <2> QED BY <2>1, IdleStep
  <1>6. CASE GradeNothing
      BY <1>6, MissingBacked, GradingStep DEF GradeNothing
  <1>7. CASE Unattempted
    <2>1. pc = "grade" /\ pc' \in {"grade", "aggregate"}
          /\ UNCHANGED <<needs, gradings, evidence, report, answer>>
        BY <1>7 DEF Unattempted, NextNeed
    <2> QED BY <2>1, IdleStep DEF BeforeReport
  <1>8. CASE Aggregate
    <2>1. report' = Aggregated /\ pc = "aggregate" /\ pc' = "arbitrate" /\ needs' = needs
          /\ gradings' = gradings /\ evidence' = evidence /\ answer' = answer
        BY <1>8 DEF Aggregate
    <2>2. answer' = NoAnswer
        BY <2>1 DEF AInv
    <2>3. AnswersRestOnGrades'
        BY <2>2 DEF AnswersRestOnGrades, NoAnswer
    <2>4. /\ DOMAIN Aggregated.grades = evidence
          /\ DOMAIN Aggregated.needs = 1..needs
          /\ \A n \in 1..needs : Aggregated.needs[n] \in Support /\ Backed(Aggregated, n)
          /\ Traced(Aggregated)
        BY <2>1, AggregateBacked
    <2>5. /\ DOMAIN report'.grades = evidence'
          /\ DOMAIN report'.needs = 1..needs'
          /\ \A n \in 1..needs' : report'.needs[n] \in Support /\ Backed(report', n)
        BY <2>1, <2>4
    <2>6. Traced(report)'
        BY <2>1, <2>4 DEF Traced, Supports, SupportedNeeds, Graded, Approved
    <2> QED BY <2>1, <2>2, <2>3, <2>5, <2>6 DEF AInv, BeforeReport, Backed, Approved
  <1>9. CASE SkipArbitration
    <2>1. pc = "arbitrate" /\ pc' = "prepare"
          /\ UNCHANGED <<needs, gradings, evidence, report, answer>>
        BY <1>9 DEF SkipArbitration, graph
    <2> QED BY <2>1, IdleStep
  <1>10. CASE Prepare
    <2>1. pc = "prepare" /\ pc' = "generate" /\ needs' = needs
          /\ gradings' = gradings /\ report' = report /\ answer' = answer
        BY <1>10 DEF Prepare
    <2>2. answer' = NoAnswer
        BY <2>1 DEF AInv
    <2>3. AnswersRestOnGrades'
        BY <2>2 DEF AnswersRestOnGrades, NoAnswer
    <2>4. Traced(report)'
        BY <2>1 DEF AInv, Traced, Supports, SupportedNeeds, Graded, Approved
    <2> QED BY <2>1, <2>2, <2>3, <2>4 DEF AInv, BeforeReport, Backed, Approved
  <1>11. CASE Generate
    <2>1. pc = "generate" /\ pc' = "done" /\ needs' = needs
          /\ gradings' = gradings /\ report' = report /\ evidence' = evidence
        BY <1>11 DEF Generate, Blocked
    <2>2. AnswersRestOnGrades'
      <3>1. CASE answer'.outcome \notin {"complete", "partial"}
          BY <3>1 DEF AnswersRestOnGrades
      <3>2. CASE answer'.outcome \in {"complete", "partial"}
        <4>1. /\ Answerable(report)
              /\ answer'.used = evidence \cap Approved(report)
              /\ answer'.outcome = "complete" => Sufficient(report)
            BY <1>11, <3>2 DEF Generate, Blocked, SelectAnswerEvidence
        <4>2. Traced(report)
            BY <1>11 DEF Generate, AInv
        <4>3. \A k \in answer'.used : \E n \in Graded :
                 Supports(n, k) /\ n \in report.grades[k].supports
            BY <4>1, <4>2 DEF Traced, Supports
        <4>4. SupportedNeeds # {}
          <5>1. 1 \in 1..needs
              BY AnsweringAssumption DEF AInv, Needs
          <5> QED BY <4>1, <4>2, <5>1 DEF Traced, Answerable, Sufficient
        <4>5. answer'.outcome = "complete" => SupportedNeeds = 1..needs
            BY <4>1, <4>2 DEF Traced, Sufficient, SupportedNeeds, Graded
        <4> QED BY <2>1, <4>3, <4>4, <4>5
                DEF AnswersRestOnGrades, Supports, SupportedNeeds, Graded, Approved
      <3> QED BY <3>1, <3>2
    <2> QED BY <2>1, <2>2 DEF AInv, BeforeReport, Backed, Approved
  <1>12. CASE UNCHANGED vars
      BY <1>12, IdleStep DEF vars
  <1> QED BY <1>1, <1>2, <1>3, <1>4, <1>5, <1>6, <1>7, <1>8, <1>9, <1>10, <1>11, <1>12
          DEF Next

\* AInv holds in every reachable state.
THEOREM AnswerInvariance == Spec => []AInv
  <1>1. AInv /\ [Next]_vars => AInv'
      BY AnswerStep
  <1> QED BY AnswerInit, <1>1, PTL DEF Spec

\* Whatever models and fallbacks answered, the statuses of the question's
\* report say what its approved evidence supports.
THEOREM ReportBacked == Spec => []StatusBacked
  <1>1. AInv => StatusBacked
      BY DEF AInv, Backed, StatusBacked
  <1> QED BY <1>1, AnswerInvariance, PTL

\* What an answer is generated from, and its being called complete, rest on
\* what the graders of the single needs said, whatever was aggregated,
\* arbitrated, repaired or replaced in between.
THEOREM AnswersTraced == Spec => []AnswersRestOnGrades
  <1>1. AInv => AnswersRestOnGrades
      BY DEF AInv
  <1> QED BY <1>1, AnswerInvariance, PTL

\* Arbitration, whether by the model, repaired or replaced, never approves,
\* supports or raises anything the graders did not.
THEOREM NothingRevived == Spec => ArbitrationNarrows
  <1> DEFINE Narrows ==
         pc = "arbitrate" =>
            /\ Approved(report') \subseteq Approved(report)
            /\ \A k \in Approved(report') :
                  report'.grades[k].supports \subseteq report.grades[k].supports
            /\ \A n \in 1..needs : Order[report'.needs[n]] <= Order[report.needs[n]]
  <1>1. ASSUME AInv, [Next]_vars PROVE [Narrows]_vars
    <2> SUFFICES ASSUME pc = "arbitrate", Next PROVE Narrows
        BY <1>1
    <2>1. \A n \in 1..needs : report.needs[n] \in Support
        BY <1>1 DEF AInv
    <2>2. \A n \in 1..needs : Order[report.needs[n]] <= Order[report.needs[n]]
        BY <2>1, LowerOf
    <2>3. CASE report'.needs = report.needs /\ report'.grades = report.grades
        BY <2>3, <2>2 DEF Approved
    <2>4. CASE AnswerValid
      <3>1. PICK p \in ParsedReports(evidence, 1..needs) : Arbitrated(Constrain(report, p))
          BY <2>4 DEF AnswerValid, Parsed
      <3> DEFINE c == Constrain(report, p)
      <3>2. report' = c
          BY <3>1 DEF Arbitrated
      <3>3. /\ \A n \in 1..needs : Order[c.needs[n]] <= Order[report.needs[n]]
            /\ Approved(c) \subseteq Approved(report)
            /\ \A k \in Approved(c) : c.grades[k].supports \subseteq report.grades[k].supports
          BY <1>1, ProposalNarrows
      <3> HIDE DEF c
      <3> QED BY <3>2, <3>3 DEF Approved
    <2>5. CASE Fallback
      <3>1. report' = [report EXCEPT !.fallback = TRUE]
          BY <2>5 DEF Fallback, FallenBack, Arbitrated
      <3> QED BY <1>1, <3>1, <2>3, PassthroughNarrows
    <2>6. CASE ~AnswerValid /\ ~Fallback
      <3>1. report' = report
          BY <2>6 DEF Next, Ask, AnswerInvalid, ProviderFails, AnswerUnexpected, Raise,
             GradeNothing, Unattempted, Aggregate, SkipArbitration, Prepare, Generate,
             GenerationFails, GradedAs, graph
      <3> QED BY <3>1, <2>3
    <2> QED BY <2>4, <2>5, <2>6
  <1> QED BY <1>1, AnswerInvariance, PTL DEF Spec, ArbitrationNarrows
=============================================================================
