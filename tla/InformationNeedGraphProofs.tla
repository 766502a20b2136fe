---------------------- MODULE InformationNeedGraphProofs ----------------------
(***************************************************************************)
(* The safety of the information-need graph for any number of needs and    *)
(* chunks, any budgets and any answers of models, retrievers and graders.  *)
(*                                                                         *)
(* GraphInv is the invariant everything rests on: what the next node finds *)
(* (ControlInv) and that the evidence index is in order (IndexInv).  The   *)
(* accounts, the preference and the report each add what they need to it,  *)
(* and together they show that the graph implements BoundedWorkQueue.      *)
(***************************************************************************)
EXTENDS InformationNeedGraph, DataTheorems

USE GraphAssumption

-----------------------------------------------------------------------------
(* Merging a lookup into the evidence index.                               *)

\* An evidence index: the next rank is above every rank given.
Indexes == {s \in [rank: [Chunks -> Nat], next: Nat \ {0}] : \A k \in Chunks : s.rank[k] < s.next}

\* What merging one result does to the index before.
AfterResult(k, before) ==
    LET new == NewRank(before.rank, before.next)
    IN IF before.rank[k] # 0 \/ Cardinality(InIndex(before.rank)) >= MaxEvidence
       THEN before
       ELSE [rank |-> [before.rank EXCEPT ![k] = new], next |-> new + 1]

IsMerging(at, results) ==
    at = [i \in 0..Len(results) |->
            IF i = 0 THEN [rank |-> rank, next |-> nextRank]
            ELSE AfterResult(results[i], at[i - 1])]

\* The next rank is already above every rank in an index.
LEMMA NextIsNewRank ==
    ASSUME NEW s \in Indexes
    PROVE  NewRank(s.rank, s.next) = s.next
  <1> DEFINE S == {s.next} \cup {s.rank[k] + 1 : k \in Chunks}
  <1>1. s.next \in S /\ s.next \in Nat /\ \A y \in S : y \in Nat /\ s.next >= y
      BY DEF Indexes
  <1> HIDE DEF S
  <1>2. \A x \in S : (\A y \in S : x >= y) => x = s.next
      BY <1>1
  <1>3. Max(S) = s.next
      BY <1>1, <1>2 DEF Max
  <1> QED
      BY <1>3 DEF NewRank, S

\* A result is skipped or enters the index under the next rank.
LEMMA AfterResultFacts ==
    ASSUME NEW k \in Chunks, NEW s \in Indexes
    PROVE  /\ AfterResult(k, s) \in Indexes
           /\ \/ AfterResult(k, s) = s
              \/ /\ s.rank[k] = 0 /\ ~ (Cardinality(InIndex(s.rank)) >= MaxEvidence)
                 /\ AfterResult(k, s).rank = [s.rank EXCEPT ![k] = s.next]
                 /\ AfterResult(k, s).next = s.next + 1
  <1>1. CASE s.rank[k] # 0 \/ Cardinality(InIndex(s.rank)) >= MaxEvidence
      BY <1>1 DEF AfterResult
  <1>2. CASE ~ (s.rank[k] # 0 \/ Cardinality(InIndex(s.rank)) >= MaxEvidence)
    <2> DEFINE t == [rank |-> [s.rank EXCEPT ![k] = s.next], next |-> s.next + 1]
    <2>1. AfterResult(k, s) = t
        BY <1>2, NextIsNewRank DEF AfterResult
    <2>2. t \in Indexes
        BY DEF Indexes
    <2> QED
        BY <1>2, <2>1, <2>2
  <1> QED
      BY <1>1, <1>2

Current == [rank |-> rank, next |-> nextRank]

\* The recursion Merged is defined by has a solution.
LEMMA MergingExists ==
    ASSUME NEW results \in Seq(Chunks), Current \in Indexes
    PROVE  \E at : IsMerging(at, results)
  <1> DEFINE n == Len(results)
             step == [i \in 1..n |-> [s \in Indexes |-> AfterResult(results[i], s)]]
  <1>1. n \in Nat /\ \A i \in 1..n : results[i] \in Chunks
      OBVIOUS
  <1>2. step \in [1..n -> [Indexes -> Indexes]]
    <2>1. ASSUME NEW i \in 1..n, NEW s \in Indexes PROVE AfterResult(results[i], s) \in Indexes
        BY <1>1, AfterResultFacts
    <2> QED
        BY <2>1
  <1>3. PICK f : Iterates(f, Indexes, n, Current, step)
    <2>1. Current \in Indexes
        OBVIOUS
    <2> HIDE DEF step, n
    <2> QED
        BY <1>1, <1>2, <2>1, RecursionExists
  <1>4. ASSUME NEW i \in 1..n PROVE f[i] = AfterResult(results[i], f[i - 1])
    <2>1. f[i - 1] \in Indexes
        BY <1>1, <1>3 DEF Iterates
    <2> QED
        BY <1>3, <2>1 DEF Iterates
  <1>5. f = [i \in 0..n |-> IF i = 0 THEN Current ELSE AfterResult(results[i], f[i - 1])]
    <2>1. \A i \in 0..n : f[i] = IF i = 0 THEN Current ELSE AfterResult(results[i], f[i - 1])
        BY <1>1, <1>3, <1>4 DEF Iterates
    <2> HIDE DEF n
    <2> QED
        BY <1>3, <2>1 DEF Iterates
  <1> QED
      BY <1>5 DEF IsMerging, Current

\* Merging keeps every chunk and its rank, adds results only, under ranks that were
\* never given, and stays within the index's limit.
Extends(s, results) ==
    /\ s \in Indexes /\ s.next >= nextRank
    /\ \A k \in Chunks :
          /\ rank[k] # 0 => s.rank[k] = rank[k]
          /\ rank[k] = 0 /\ s.rank[k] # 0 =>
                s.rank[k] >= nextRank /\ \E i \in 1..Len(results) : k = results[i]
    /\ \A j, k \in Chunks : s.rank[j] = s.rank[k] /\ s.rank[j] # 0 => j = k
    /\ IsFiniteSet(InIndex(s.rank)) /\ Cardinality(InIndex(s.rank)) <= MaxEvidence

\* One more result leaves the index extended.
LEMMA ExtendsStep ==
    ASSUME NEW results \in Seq(Chunks), NEW i \in 1..Len(results), NEW s, Extends(s, results),
           nextRank \in Nat
    PROVE  Extends(AfterResult(results[i], s), results)
  <1> DEFINE k == results[i]
             t == AfterResult(k, s)
  <1>0. k \in Chunks /\ s \in Indexes
      BY DEF Extends
  <1>1. CASE t = s
      BY <1>1
  <1>2. CASE /\ s.rank[k] = 0 /\ ~ (Cardinality(InIndex(s.rank)) >= MaxEvidence)
             /\ t.rank = [s.rank EXCEPT ![k] = s.next]
             /\ t.next = s.next + 1
    <2>1. t \in Indexes
        BY <1>0, AfterResultFacts
    <2> HIDE DEF t, k
    <2>2. /\ s.rank \in [Chunks -> Nat] /\ s.next \in Nat \ {0} /\ \A c \in Chunks : s.rank[c] < s.next
          /\ s.next >= nextRank
        BY <1>0 DEF Indexes, Extends
    <2>3. t.rank[k] = s.next /\ \A c \in Chunks \ {k} : t.rank[c] = s.rank[c]
        BY <1>0, <1>2, <2>2
    <2>4. InIndex(t.rank) = InIndex(s.rank) \cup {k} /\ k \notin InIndex(s.rank)
        BY <1>0, <1>2, <2>2, <2>3 DEF InIndex
    <2>5. IsFiniteSet(InIndex(t.rank)) /\ Cardinality(InIndex(t.rank)) <= MaxEvidence
      <3>1. IsFiniteSet(InIndex(s.rank))
          BY DEF Extends
      <3>2. Cardinality(InIndex(s.rank)) \in Nat
          BY <3>1, FS_CardinalityType
      <3>3. IsFiniteSet(InIndex(t.rank)) /\ Cardinality(InIndex(t.rank)) = Cardinality(InIndex(s.rank)) + 1
          BY <2>4, <3>1, FS_AddElement
      <3> QED
          BY <1>2, <3>2, <3>3
    <2>6. t.next >= nextRank
        BY <1>2, <2>2
    <2>7. \A c \in Chunks :
            /\ rank[c] # 0 => t.rank[c] = rank[c]
            /\ rank[c] = 0 /\ t.rank[c] # 0 =>
                  t.rank[c] >= nextRank /\ \E j \in 1..Len(results) : c = results[j]
      <3>1. rank[k] = 0
          BY <1>0, <1>2 DEF Extends
      <3>2. k = results[i]
          BY DEF k
      <3> QED
          BY <2>2, <2>3, <3>1, <3>2 DEF Extends
    <2>8. \A c, d \in Chunks : t.rank[c] = t.rank[d] /\ t.rank[c] # 0 => c = d
        BY <2>2, <2>3 DEF Extends
    <2> QED
        BY <2>1, <2>5, <2>6, <2>7, <2>8 DEF Extends, t, k
  <1> QED
      BY <1>0, <1>1, <1>2, AfterResultFacts

\* What merging a lookup's results does to the index.
LEMMA MergedExtends ==
    ASSUME NEW results \in Seq(Chunks), Current \in Indexes,
           \A j, k \in Chunks : rank[j] = rank[k] /\ rank[j] # 0 => j = k,
           IsFiniteSet(InIndex(rank)), Cardinality(InIndex(rank)) <= MaxEvidence
    PROVE  Extends(Merged(results), results)
  <1> DEFINE at == CHOOSE at : IsMerging(at, results)
             C == {i \in Nat : i <= Len(results) => Extends(at[i], results)}
  <1>1. Merged(results) = at[Len(results)]
      BY DEF Merged, IsMerging, AfterResult
  <1>2. IsMerging(at, results)
      BY MergingExists
  <1> HIDE DEF at
  <1>3. 0 \in C
    <2>1. at[0] = Current
        BY <1>2 DEF IsMerging, Current
    <2>2. Extends(Current, results)
        BY DEF Extends, Current, Indexes
    <2> QED
        BY <2>1, <2>2
  <1>4. ASSUME NEW i \in C PROVE i + 1 \in C
    <2> SUFFICES ASSUME i + 1 <= Len(results) PROVE Extends(at[i + 1], results)
        OBVIOUS
    <2>1. Extends(at[i], results) /\ i + 1 \in 1..Len(results)
        OBVIOUS
    <2>2. at[i + 1] = AfterResult(results[i + 1], at[i])
      <3>1. (i + 1) - 1 = i /\ i + 1 # 0 /\ i + 1 \in 0..Len(results)
          BY <2>1
      <3> HIDE DEF C
      <3> QED
        BY <1>2, <3>1 DEF IsMerging
    <2>3. nextRank \in Nat
        BY DEF Current, Indexes
    <2> HIDE DEF C
    <2> QED
        BY <2>1, <2>2, <2>3, ExtendsStep
  <1>5. C = Nat
    <2>1. C \in SUBSET Nat
        OBVIOUS
    <2> HIDE DEF C
    <2> QED
        BY <1>3, <1>4, <2>1, NatSetInduction
  <1> QED
      BY <1>1, <1>5

-----------------------------------------------------------------------------
(* What the nodes do to the need they work on.                             *)

\* The nodes that work on the active need.
Working == Nodes \ {"select", "aggregate"}

\* Only the execution of need b changes.
ChangesOnly(b) ==
    /\ b \in Needs
    /\ need' \in [Needs -> Executions]
    /\ \A n \in Needs \ {b} : need'[n] = need[n]

SameWork(x, y) == x.attempts = y.attempts /\ x.keys = y.keys /\ x.grade = y.grade
SameClass(x, y) ==
    x.reclass = y.reclass /\ x.classified = y.classified /\ x.confident = y.confident

\* A node that replaces one execution changes no other.
LEMMA Updated ==
    ASSUME need \in [Needs -> Executions], NEW b \in Needs, NEW e \in Executions,
           need' = [need EXCEPT ![b] = e]
    PROVE  need'[b] = e /\ ChangesOnly(b)
  BY DEF ChangesOnly

\* What each node does to the need it works on.
LEMMA SelectEffect ==
    ASSUME TypeOK, SelectNeed
    PROVE  /\ active + 1 \in Needs /\ active' = active + 1
           /\ ChangesOnly(active + 1)
           /\ need'[active + 1].status = "active" /\ need'[active + 1].route = "none"
           /\ SameWork(need'[active + 1], need[active + 1])
           /\ SameClass(need'[active + 1], need[active + 1])
  <1>1. active + 1 \in Needs /\ active' = active + 1
      BY DEF SelectNeed, TypeOK, Needs
  <1>2. PICK b \in Needs : b = active + 1
      BY <1>1
  <1> DEFINE e == [need[b] EXCEPT !.status = "active", !.route = "none"]
  <1>3. need' = [need EXCEPT ![b] = e]
      BY <1>2 DEF SelectNeed, TypeOK
  <1>4. e \in Executions /\ e.status = "active" /\ e.route = "none"
        /\ SameWork(e, need[b]) /\ SameClass(e, need[b])
      BY DEF TypeOK, Executions, SameWork, SameClass
  <1> HIDE DEF e
  <1>5. need'[b] = e /\ ChangesOnly(b)
      BY <1>3, <1>4, Updated DEF TypeOK
  <1> QED
      BY <1>1, <1>2, <1>4, <1>5

\* A repeated classification is counted, and the budget of them is respected.
LEMMA ClassifyEffect ==
    ASSUME TypeOK, active \in Needs, Classify,
           need[active].classified => need[active].reclass < MaxReclass
    PROVE  /\ ChangesOnly(active)
           /\ need'[active].classified /\ need'[active].route = "none"
           /\ need'[active].reclass = need[active].reclass + (IF need[active].classified THEN 1 ELSE 0)
           /\ need'[active].status = need[active].status
           /\ SameWork(need'[active], need[active])
  <1> DEFINE x == need[active]
  <1>0. x \in Executions
      BY DEF TypeOK
  <1>1. PICK c \in BOOLEAN :
           need' = [need EXCEPT
                    ![active].reclass = IF need[active].classified THEN @ + 1 ELSE @,
                    ![active].classified = TRUE,
                    ![active].confident = c,
                    ![active].route = "none"]
      BY DEF Classify
  <1>2. PICK v : v = IF x.classified THEN x.reclass + 1 ELSE x.reclass
      OBVIOUS
  <1>3. v \in 0..MaxReclass /\ v = x.reclass + (IF x.classified THEN 1 ELSE 0)
      BY <1>0, <1>2 DEF Executions
  <1> DEFINE x1 == [x EXCEPT !.reclass = IF x.classified THEN @ + 1 ELSE @]
             e == [x1 EXCEPT !.classified = TRUE, !.confident = c, !.route = "none"]
  <1>4. need' = [need EXCEPT ![active] = e]
      BY <1>1 DEF TypeOK
  <1>5. /\ x1 \in Executions /\ x1.reclass = v /\ x1.status = x.status
        /\ SameWork(x1, x)
      BY <1>0, <1>2, <1>3 DEF Executions, SameWork
  <1> HIDE DEF x1
  <1>6. /\ e \in Executions /\ e.reclass = v /\ e.status = x.status
        /\ SameWork(e, x) /\ e.classified /\ e.route = "none"
      BY <1>5 DEF Executions, SameWork
  <1> HIDE DEF e
  <1>7. need'[active] = e /\ ChangesOnly(active)
      BY <1>4, <1>6, Updated DEF TypeOK
  <1> QED
      BY <1>3, <1>6, <1>7

\* A node that only routes the need.
LEMMA RouteEffect ==
    ASSUME TypeOK, active \in Needs,
           NEW r \in {"none", "retry", "reclassify", "supported", "exhausted"},
           need' = [need EXCEPT ![active].route = r]
    PROVE  /\ ChangesOnly(active)
           /\ need'[active].route = r /\ need'[active].status = need[active].status
           /\ SameWork(need'[active], need[active]) /\ SameClass(need'[active], need[active])
  <1> DEFINE e == [need[active] EXCEPT !.route = r]
  <1>1. /\ e \in Executions /\ e.route = r /\ e.status = need[active].status
        /\ SameWork(e, need[active]) /\ SameClass(e, need[active])
      BY DEF TypeOK, Executions, Resolved, SameWork, SameClass
  <1>2. need' = [need EXCEPT ![active] = e]
      OBVIOUS
  <1> HIDE DEF e
  <1>3. need'[active] = e /\ ChangesOnly(active)
      BY <1>1, <1>2, Updated DEF TypeOK
  <1> QED
      BY <1>1, <1>3

\* A node that only changes the evidence of the need.
LEMMA KeysEffect ==
    ASSUME TypeOK, active \in Needs, NEW keys \in SUBSET Chunks,
           need' = [need EXCEPT ![active].keys = keys]
    PROVE  /\ ChangesOnly(active)
           /\ need'[active].keys = keys /\ need'[active].grade = need[active].grade
           /\ need'[active].attempts = need[active].attempts
           /\ need'[active].route = need[active].route /\ need'[active].status = need[active].status
           /\ SameClass(need'[active], need[active])
  <1> DEFINE e == [need[active] EXCEPT !.keys = keys]
  <1>1. /\ e \in Executions /\ e.keys = keys /\ e.grade = need[active].grade
        /\ e.attempts = need[active].attempts
        /\ e.route = need[active].route /\ e.status = need[active].status
        /\ SameClass(e, need[active])
      BY DEF TypeOK, Executions, SameClass
  <1>2. need' = [need EXCEPT ![active] = e]
      OBVIOUS
  <1> HIDE DEF e
  <1>3. need'[active] = e /\ ChangesOnly(active)
      BY <1>1, <1>2, Updated DEF TypeOK
  <1> QED
      BY <1>1, <1>3

\* An attempt ends with its grading.
LEMMA GradeEffect ==
    ASSUME TypeOK, active \in Needs, need[active].attempts < MaxAttempts,
           NEW kept \in SUBSET Chunks, NEW g \in Grades,
           need' = [need EXCEPT ![active].keys = kept,
                                ![active].grade = g,
                                ![active].attempts = @ + 1]
    PROVE  /\ ChangesOnly(active)
           /\ need'[active].keys = kept /\ need'[active].grade = g
           /\ need'[active].attempts = need[active].attempts + 1
           /\ need'[active].route = need[active].route /\ need'[active].status = need[active].status
           /\ SameClass(need'[active], need[active])
  <1> DEFINE x == need[active]
             x1 == [x EXCEPT !.keys = kept]
             x2 == [x1 EXCEPT !.grade = g]
             e == [x2 EXCEPT !.attempts = @ + 1]
  <1>0. x \in Executions
      BY DEF TypeOK
  <1>1. need' = [need EXCEPT ![active] = e]
      BY DEF TypeOK
  <1>2. /\ x2 \in Executions /\ x2.keys = kept /\ x2.grade = g
        /\ x2.attempts = x.attempts
        /\ x2.route = x.route /\ x2.status = x.status
        /\ SameClass(x2, x)
      BY <1>0 DEF Executions, SameClass
  <1> HIDE DEF x2
  <1>3. x2.attempts + 1 \in 0..MaxAttempts
      BY <1>0, <1>2 DEF Executions
  <1>4. /\ e \in Executions /\ e.keys = kept /\ e.grade = g
        /\ e.attempts = x.attempts + 1
        /\ e.route = x.route /\ e.status = x.status
        /\ SameClass(e, x)
      BY <1>2, <1>3 DEF Executions, SameClass
  <1> HIDE DEF e
  <1>5. need'[active] = e /\ ChangesOnly(active)
      BY <1>1, <1>4, Updated DEF TypeOK
  <1> QED
      BY <1>4, <1>5

\* A need is resolved as it was routed.
LEMMA StatusEffect ==
    ASSUME TypeOK, active \in Needs, need[active].route \in Resolved,
           need' = [need EXCEPT ![active].status = need[active].route]
    PROVE  /\ ChangesOnly(active)
           /\ need'[active].status = need[active].route
           /\ need'[active].route = need[active].route
           /\ SameWork(need'[active], need[active]) /\ SameClass(need'[active], need[active])
  <1> DEFINE e == [need[active] EXCEPT !.status = need[active].route]
  <1>1. /\ e \in Executions /\ e.status = need[active].route /\ e.route = need[active].route
        /\ SameWork(e, need[active]) /\ SameClass(e, need[active])
      BY DEF TypeOK, Executions, Resolved, SameWork, SameClass
  <1>2. need' = [need EXCEPT ![active] = e]
      OBVIOUS
  <1> HIDE DEF e
  <1>3. need'[active] = e /\ ChangesOnly(active)
      BY <1>1, <1>2, Updated DEF TypeOK
  <1> QED
      BY <1>1, <1>3

-----------------------------------------------------------------------------
(* The invariant.                                                          *)

\* The needs before the active one are resolved, those after it are untouched.
WorkedInOrder ==
    \A n \in Needs :
        /\ n < active => need[n].status \in Resolved
        /\ n > active => need[n] = NewExecution

\* What the runner's next node finds, the active need's execution above all.
ControlInv ==
    /\ node # "raised"
    /\ node \in Working => active \in Needs /\ need[active].status = "active"
    /\ node \in {"select", "aggregate", "aggregated"} /\ active \in Needs =>
          need[active].status \in Resolved
    /\ node \in {"aggregate", "aggregated"} => active = NumNeeds
    /\ node = "execute" => total < MaxTotal
    /\ node \in {"classify", "plan", "execute", "validate", "grade"} =>
          need[active].attempts < MaxAttempts
    /\ node = "classify" /\ need[active].classified => need[active].reclass < MaxReclass
    /\ node \in Working \ {"classify"} => need[active].classified
    /\ node \in {"decide", "detect"} => need[active].attempts > 0
    /\ node \in {"detect", "complete"} =>
          /\ need[active].route \in Resolved
          /\ need[active].route = "supported" => need[active].attempts > 0
    /\ WorkedInOrder

\* A grading is out of date between the next lookup's validation and its grading.
Regrading == {"grade", "failed", "exceeded"}

\* No rank is given twice, what is approved is indexed, and the index is accounted for.
IndexInv ==
    /\ Current \in Indexes
    /\ \A p \in snapshots : p[1] < nextRank
    /\ OneChunkPerRank
    /\ EvidenceAccounted /\ IsFiniteSet(InIndex(rank))
    /\ \A n \in Needs : n # active \/ node \notin Regrading =>
          need[n].grade.supporting \subseteq RanksOf(need[n].keys)

GraphInv == TypeOK /\ ControlInv /\ IndexInv

\* A working node has an active need.
LEMMA ActiveTyped ==
    ASSUME TypeOK, ControlInv, node \in Working
    PROVE  active \in Needs /\ need[active] \in Executions
  BY DEF TypeOK, ControlInv

\* Pruning drops what only need b referred to, and changes no rank.
LEMMA PruneEffect ==
    ASSUME TypeOK, EvidenceAccounted, IsFiniteSet(InIndex(rank)), Current \in Indexes,
           NEW b \in Needs, NEW kept \in SUBSET need[b].keys, Prune(b, kept),
           ChangesOnly(b), need'[b].keys = kept
    PROVE  /\ rank' \in [Chunks -> Nat]
           /\ \A k \in Chunks : rank'[k] \in {0, rank[k]}
           /\ \A n \in Needs : \A k \in need'[n].keys : k \in Chunks /\ rank'[k] = rank[k]
           /\ InIndex(rank') = UNION {need'[n].keys : n \in Needs}
           /\ IsFiniteSet(InIndex(rank')) /\ Cardinality(InIndex(rank')) <= MaxEvidence
  <1>0. /\ rank \in [Chunks -> Nat]
        /\ \A n \in Needs : need[n].keys \in SUBSET Chunks
      BY DEF TypeOK, Executions
  <1>1. /\ rank' \in [Chunks -> Nat]
        /\ \A k \in Chunks : rank'[k] = IF k \in kept \/ \E m \in Needs \ {b} : k \in need[m].keys
                                        THEN rank[k] ELSE 0
      BY <1>0 DEF Prune
  <1>2. \A n \in Needs : need'[n].keys = IF n = b THEN kept ELSE need[n].keys
      BY DEF ChangesOnly
  <1>3. \A k \in Chunks : rank[k] # 0 <=> \E n \in Needs : k \in need[n].keys
    <2>1. InIndex(rank) = UNION {need[n].keys : n \in Needs}
        BY DEF EvidenceAccounted
    <2> QED
        BY <2>1 DEF InIndex
  <1>4. \A n \in Needs : \A k \in need'[n].keys : k \in Chunks /\ rank'[k] = rank[k]
      BY <1>0, <1>1, <1>2
  <1>5. \A k \in Chunks : rank'[k] # 0 <=> \E n \in Needs : k \in need'[n].keys
      BY <1>0, <1>1, <1>2, <1>3
  <1>6. InIndex(rank') = UNION {need'[n].keys : n \in Needs}
      BY <1>4, <1>5 DEF InIndex
  <1>7. InIndex(rank') \subseteq InIndex(rank)
      BY <1>1 DEF InIndex
  <1>8. IsFiniteSet(InIndex(rank')) /\ Cardinality(InIndex(rank')) <= MaxEvidence
    <2>1. /\ IsFiniteSet(InIndex(rank')) /\ Cardinality(InIndex(rank')) <= Cardinality(InIndex(rank))
        BY <1>7, FS_Subset
    <2>2. Cardinality(InIndex(rank')) \in Nat /\ Cardinality(InIndex(rank)) \in Nat
          /\ Cardinality(InIndex(rank)) <= MaxEvidence
        BY <2>1, FS_CardinalityType DEF EvidenceAccounted
    <2> QED
        BY <2>1, <2>2
  <1> QED
      BY <1>1, <1>4, <1>6, <1>8

\* A lookup is within the budget; its results enter the index under new ranks.
LEMMA ExecuteEffect ==
    ASSUME GraphInv, Execute
    PROVE  \E found \in SUBSET Chunks :
              /\ ChangesOnly(active) /\ SameClass(need'[active], need[active])
              /\ need'[active].keys = need[active].keys \cup found
              /\ need'[active].grade = need[active].grade
              /\ need'[active].attempts = need[active].attempts
              /\ need'[active].status = need[active].status
              /\ node' = "validate" /\ total' = total + 1 /\ total < MaxTotal
              /\ snapshots' = snapshots \cup {<<rank'[k], k>> : k \in found}
              /\ Current' \in Indexes /\ nextRank' >= nextRank
              /\ \A k \in found : rank'[k] # 0
              /\ \A k \in Chunks :
                    /\ rank[k] # 0 => rank'[k] = rank[k]
                    /\ rank[k] = 0 /\ rank'[k] # 0 => rank'[k] >= nextRank /\ k \in found
              /\ \A j, k \in Chunks : rank'[j] = rank'[k] /\ rank'[j] # 0 => j = k
              /\ IsFiniteSet(InIndex(rank')) /\ Cardinality(InIndex(rank')) <= MaxEvidence
  <1>1. node \in Working /\ active \in Needs /\ need[active] \in Executions /\ total < MaxTotal
    <2>1. node = "execute"
        BY DEF Execute, Enter
    <2> QED
        BY <2>1, ActiveTyped DEF GraphInv, ControlInv, Working, Nodes
  <1>2. PICK results \in Lookups :
           LET merged == Merged(results)
               keys == {k \in {results[i] : i \in 1..Len(results)} : merged.rank[k] # 0}
           IN /\ rank' = merged.rank
              /\ nextRank' = merged.next
              /\ need' = [need EXCEPT ![active].keys = @ \cup keys]
              /\ snapshots' = snapshots \cup {<<merged.rank[k], k>> : k \in keys}
              /\ total' = total + 1
              /\ node' = "validate"
    <2>1. ~ (total >= MaxTotal)
        BY <1>1 DEF GraphInv, TypeOK
    <2> QED
        BY <2>1 DEF Execute
  <1> DEFINE s == Merged(results)
             found == {k \in {results[i] : i \in 1..Len(results)} : s.rank[k] # 0}
  <1>3. results \in Seq(Chunks)
      BY DEF Lookups
  <1>4. Extends(s, results)
    <2>1. \A j, k \in Chunks : rank[j] = rank[k] /\ rank[j] # 0 => j = k
      <3> SUFFICES ASSUME NEW j \in Chunks, NEW k \in Chunks, rank[j] = rank[k], rank[j] # 0
                   PROVE  j = k
          OBVIOUS
      <3>1. <<rank[j], j>> \in Pairs /\ <<rank[k], k>> \in Pairs
          BY DEF Pairs, InIndex
      <3> QED
          BY <3>1 DEF GraphInv, IndexInv, OneChunkPerRank
    <2> QED
        BY <1>3, <2>1, MergedExtends DEF GraphInv, IndexInv, EvidenceAccounted
  <1> HIDE DEF s
  <1>5. /\ rank' = s.rank /\ nextRank' = s.next /\ total' = total + 1 /\ node' = "validate"
        /\ snapshots' = snapshots \cup {<<rank'[k], k>> : k \in found}
        /\ need' = [need EXCEPT ![active].keys = @ \cup found]
      BY <1>2 DEF s
  <1>6. found \in SUBSET Chunks
      BY <1>3
  <1>7. /\ s \in Indexes /\ Current' = s
    <2>1. s \in Indexes
        BY <1>4 DEF Extends
    <2>2. s = [rank |-> s.rank, next |-> s.next]
        BY <2>1 DEF Indexes
    <2> QED
        BY <1>5, <2>1, <2>2 DEF Current
  <1>8. /\ \A k \in found : rank'[k] # 0
        /\ \A k \in Chunks : rank[k] = 0 /\ rank'[k] # 0 => rank'[k] >= nextRank /\ k \in found
      BY <1>4, <1>5 DEF Extends
  <1>9. need[active].keys \cup found \in SUBSET Chunks
      BY <1>1, <1>6 DEF Executions
  <1> HIDE DEF found
  <1>10. need' = [need EXCEPT ![active].keys = need[active].keys \cup found]
      BY <1>5
  <1>11. /\ ChangesOnly(active) /\ SameClass(need'[active], need[active])
         /\ need'[active].keys = need[active].keys \cup found
         /\ need'[active].grade = need[active].grade
         /\ need'[active].attempts = need[active].attempts
         /\ need'[active].status = need[active].status
      BY <1>1, <1>9, <1>10, KeysEffect DEF GraphInv
  <1> QED
      BY <1>1, <1>4, <1>5, <1>6, <1>7, <1>8, <1>11 DEF Extends

\* The runner counts the node it enters.
LEMMA Entering ==
    ASSUME TypeOK, NEW at, Enter(at)
    PROVE  node = at /\ steps' = steps + 1 /\ steps' \in 0..MaxSteps
  <1>1. MaxSteps \in Nat
      BY DEF MaxSteps
  <1> QED
      BY <1>1 DEF TypeOK, Enter

\* A node that adds nothing to the evidence and takes nothing from it.
LEMMA IndexKept ==
    ASSUME IndexInv, UNCHANGED evidenceVars,
           \A n \in Needs : need'[n].keys = need[n].keys /\ need'[n].grade = need[n].grade,
           \A n \in Needs : n # active' \/ node' \notin Regrading =>
                            n # active \/ node \notin Regrading
    PROVE  IndexInv'
  <1>1. rank' = rank /\ nextRank' = nextRank /\ snapshots' = snapshots /\ Current' = Current
      BY DEF evidenceVars, Current
  <1>2. OneChunkPerRank'
      BY <1>1 DEF IndexInv, OneChunkPerRank, Pairs
  <1>3. EvidenceAccounted'
      BY <1>1 DEF IndexInv, EvidenceAccounted
  <1>4. \A n \in Needs : RanksOf(need[n].keys)' = RanksOf(need[n].keys)
      BY <1>1 DEF RanksOf
  <1>5. \A n \in Needs : n # active' \/ node' \notin Regrading =>
                         need'[n].grade.supporting \subseteq RanksOf(need[n].keys)'
      BY <1>4 DEF IndexInv
  <1> QED
      BY <1>1, <1>2, <1>3, <1>5 DEF IndexInv

\* A node that works on the active need only.
LEMMA OrderKept ==
    ASSUME WorkedInOrder, active' = active, active \in 0..NumNeeds,
           ChangesOnly(active) \/ need' = need
    PROVE  WorkedInOrder'
  BY DEF WorkedInOrder, ChangesOnly, Needs

\* A new need is untouched, and all before it are resolved.
LEMMA SelectKeeps ==
    ASSUME GraphInv, SelectNeed
    PROVE  GraphInv'
  <1>1. /\ Enter("select") /\ node' = "classify"
        /\ UNCHANGED <<rank, nextRank, snapshots, total, preference, report>>
      BY DEF SelectNeed, evidenceVars
  <1>2. /\ active + 1 \in Needs /\ active' = active + 1
        /\ ChangesOnly(active + 1)
        /\ need'[active + 1].status = "active" /\ need'[active + 1].route = "none"
        /\ SameWork(need'[active + 1], need[active + 1])
        /\ SameClass(need'[active + 1], need[active + 1])
      BY SelectEffect DEF GraphInv
  <1>3. TypeOK'
      BY <1>1, <1>2, Entering DEF GraphInv, TypeOK, ChangesOnly, Nodes, Needs
  <1>4. need[active + 1] = NewExecution
      BY <1>2 DEF GraphInv, ControlInv, WorkedInOrder, TypeOK
  <1>5. WorkedInOrder'
    <2> SUFFICES ASSUME NEW n \in Needs
                 PROVE  /\ n < active + 1 => need'[n].status \in Resolved
                        /\ n > active + 1 => need'[n] = NewExecution
        BY <1>2 DEF WorkedInOrder
    <2>1. active \in Nat /\ n \in Nat
        BY DEF GraphInv, TypeOK, Needs
    <2>2. n # active + 1 => need'[n] = need[n]
        BY <1>2 DEF ChangesOnly
    <2>3. active = n => need[n].status \in Resolved
        BY <1>1 DEF GraphInv, ControlInv, Enter
    <2>4. /\ n < active => need[n].status \in Resolved
          /\ n > active => need[n] = NewExecution
        BY DEF GraphInv, ControlInv, WorkedInOrder
    <2>5. /\ n < active + 1 => n # active + 1 /\ (n < active \/ active = n)
          /\ n > active + 1 => n # active + 1 /\ n > active
        BY <2>1
    <2> QED
        BY <2>2, <2>3, <2>4, <2>5
  <1>6. ControlInv'
    <2>1. need'[active + 1].attempts = 0 /\ need'[active + 1].classified = FALSE
        BY <1>2, <1>4 DEF SameWork, SameClass, NewExecution
    <2> QED
        BY <1>1, <1>2, <1>5, <2>1 DEF ControlInv, Working, Nodes
  <1>7. IndexInv'
    <2>1. \A n \in Needs : need'[n].keys = need[n].keys /\ need'[n].grade = need[n].grade
        BY <1>2 DEF ChangesOnly, SameWork
    <2> QED
        BY <1>1, <2>1, IndexKept DEF GraphInv, Enter, Regrading, evidenceVars
  <1> QED
      BY <1>3, <1>6, <1>7 DEF GraphInv

\* The queue is finished when all needs are resolved.
LEMMA FinishQueueKeeps ==
    ASSUME GraphInv, FinishQueue
    PROVE  GraphInv'
  <1>1. /\ Enter("select") /\ node' = "aggregate" /\ active = NumNeeds
        /\ UNCHANGED <<active, need, rank, nextRank, snapshots, total, preference, report>>
      BY DEF FinishQueue, evidenceVars
  <1>2. TypeOK'
      BY <1>1, Entering DEF GraphInv, TypeOK, Nodes
  <1>3. WorkedInOrder'
      BY <1>1, OrderKept DEF GraphInv, TypeOK, ControlInv
  <1>4. ControlInv'
      BY <1>1, <1>3 DEF GraphInv, ControlInv, Enter, Working
  <1>5. IndexInv'
      BY <1>1, IndexKept DEF GraphInv, Enter, Regrading, evidenceVars
  <1> QED
      BY <1>2, <1>4, <1>5 DEF GraphInv

\* A node that changes no more of the active need than its course.
LEMMA CourseKeeps ==
    ASSUME GraphInv, NEW at, Enter(at), at \in Working \ {"grade"}, node' \in Nodes \ {"grade"},
           ChangesOnly(active), SameWork(need'[active], need[active]),
           UNCHANGED <<active, evidenceVars, total, preference, report>>
    PROVE  TypeOK' /\ WorkedInOrder' /\ IndexInv' /\ active \in Needs
  <1>1. /\ UNCHANGED <<active, rank, nextRank, snapshots, total, preference, report>>
        /\ node = at
      BY DEF evidenceVars, Enter
  <1>2. TypeOK'
      BY <1>1, Entering DEF GraphInv, TypeOK, ChangesOnly
  <1>3. WorkedInOrder'
      BY <1>1, OrderKept DEF GraphInv, TypeOK, ControlInv
  <1>4. IndexInv'
    <2>1. \A n \in Needs : need'[n].keys = need[n].keys /\ need'[n].grade = need[n].grade
        BY DEF ChangesOnly, SameWork
    <2>2. node \notin Regrading
        BY <1>1 DEF Regrading, Working, Nodes
    <2> QED
        BY <2>1, <2>2, IndexKept DEF GraphInv
  <1> QED
      BY <1>2, <1>3, <1>4 DEF ChangesOnly

\* A classification sends the need to planning.
LEMMA ClassifyKeeps ==
    ASSUME GraphInv, Classify
    PROVE  GraphInv'
  <1>1. /\ Enter("classify") /\ node = "classify" /\ node' = "plan"
        /\ UNCHANGED <<active, evidenceVars, total, preference, report>>
      BY DEF Classify, Enter
  <1>2. /\ active \in Needs /\ need[active].status = "active"
        /\ need[active].attempts < MaxAttempts
        /\ need[active].classified => need[active].reclass < MaxReclass
      BY <1>1 DEF GraphInv, ControlInv, Working, Nodes
  <1>3. /\ ChangesOnly(active)
        /\ need'[active].status = need[active].status /\ need'[active].classified
        /\ SameWork(need'[active], need[active])
      BY <1>2, ClassifyEffect DEF GraphInv
  <1>4. TypeOK' /\ WorkedInOrder' /\ IndexInv'
      BY <1>1, <1>3, CourseKeeps DEF Working, Nodes
  <1>5. ControlInv'
      BY <1>1, <1>2, <1>3, <1>4 DEF ControlInv, SameWork, Working, Nodes
  <1> QED
      BY <1>4, <1>5 DEF GraphInv

\* Planning goes on to a lookup within the budget, or gives the need up.
LEMMA PlanKeeps ==
    ASSUME GraphInv, PlanAttempt \/ StopPlanning
    PROVE  GraphInv'
  <1>1. /\ Enter("plan") /\ node = "plan"
        /\ UNCHANGED <<active, evidenceVars, total, preference, report>>
        /\ \/ /\ need' = [need EXCEPT ![active].route = "none"]
              /\ total < MaxTotal /\ node' = "execute"
           \/ /\ need' = [need EXCEPT ![active].route = "exhausted"]
              /\ node' = "complete"
      BY DEF PlanAttempt, StopPlanning, Enter
  <1>2. /\ active \in Needs /\ need[active].status = "active"
        /\ need[active].attempts < MaxAttempts /\ need[active].classified
      BY <1>1 DEF GraphInv, ControlInv, Working, Nodes
  <1>3. /\ ChangesOnly(active)
        /\ need'[active].status = need[active].status
        /\ node' = "complete" => need'[active].route = "exhausted"
        /\ SameWork(need'[active], need[active]) /\ SameClass(need'[active], need[active])
      BY <1>1, <1>2, RouteEffect DEF GraphInv
  <1>4. TypeOK' /\ WorkedInOrder' /\ IndexInv'
      BY <1>1, <1>3, CourseKeeps DEF Working, Nodes
  <1>5. ControlInv'
      BY <1>1, <1>2, <1>3, <1>4 DEF ControlInv, SameWork, SameClass, Working, Nodes, Resolved
  <1> QED
      BY <1>4, <1>5 DEF GraphInv

\* A need goes on while it has attempts left, or to its detection with a terminal route.
LEMMA DecideEffect ==
    ASSUME GraphInv, Decide
    PROVE  /\ active \in Needs /\ need[active].status = "active" /\ ChangesOnly(active)
           /\ need'[active].status = need[active].status
           /\ SameWork(need'[active], need[active]) /\ SameClass(need'[active], need[active])
           /\ need[active].attempts > 0
           /\ node' \in {"plan", "classify", "detect"}
           /\ node' \in {"plan", "classify"} => need[active].attempts < MaxAttempts
           /\ need[active].classified
           /\ node' = "classify" => need[active].reclass < MaxReclass
           /\ node' = "detect" => need'[active].route \in Resolved
           /\ node' = "detect" => (need'[active].route = "supported"
                                    <=> need[active].grade.support = "supported")
           /\ node' # "detect" => need[active].grade.support # "supported"
  <1>1. PICK r : /\ r = Decision(need[active])
                 /\ need' = [need EXCEPT ![active].route = r]
                 /\ node' = CASE r = "retry"      -> "plan"
                              [] r = "reclassify" -> "classify"
                              [] r \in Resolved   -> "detect"
      BY DEF Decide
  <1>2. /\ Enter("decide") /\ node = "decide"
        /\ UNCHANGED <<active, evidenceVars, total, preference, report>>
      BY DEF Decide, Enter
  <1>3. /\ active \in Needs /\ need[active].status = "active"
        /\ need[active].attempts > 0
      BY <1>2 DEF GraphInv, ControlInv, Working, Nodes
  <1>4. /\ r \in {"supported", "exhausted", "reclassify", "retry"}
        /\ r \in {"retry", "reclassify"} => ~ (need[active].attempts >= MaxAttempts)
        /\ r = "reclassify" => need[active].reclass < MaxReclass
        /\ r = "supported" <=> need[active].grade.support = "supported"
      BY <1>1 DEF Decision
  <1>5. /\ node' \in {"plan", "classify", "detect"}
        /\ node' = "plan" => r = "retry"
        /\ node' = "classify" => r = "reclassify"
        /\ node' = "detect" => r \in Resolved
        /\ node' # "detect" => r # "supported"
      BY <1>1, <1>4 DEF Resolved
  <1>6. need[active].attempts \in Nat
      BY <1>3 DEF GraphInv, TypeOK, Executions
  <1>7. node' \in {"plan", "classify"} => need[active].attempts < MaxAttempts
      BY <1>4, <1>5, <1>6
  <1>8. /\ ChangesOnly(active)
        /\ need'[active].route = r /\ need'[active].status = need[active].status
        /\ SameWork(need'[active], need[active]) /\ SameClass(need'[active], need[active])
      BY <1>1, <1>3, <1>4, RouteEffect DEF GraphInv
  <1>9. need[active].classified
      BY <1>2 DEF GraphInv, ControlInv, Working, Nodes
  <1> QED
      BY <1>3, <1>4, <1>5, <1>7, <1>8, <1>9

\* A decision sends the need to a node that has what it needs.
LEMMA DecideKeeps ==
    ASSUME GraphInv, Decide
    PROVE  GraphInv'
  <1>1. /\ Enter("decide") /\ node = "decide"
        /\ UNCHANGED <<active, evidenceVars, total, preference, report>>
      BY DEF Decide, Enter
  <1>2. /\ active \in Needs /\ need[active].status = "active" /\ ChangesOnly(active)
        /\ need'[active].status = need[active].status
        /\ SameWork(need'[active], need[active]) /\ SameClass(need'[active], need[active])
        /\ need[active].attempts > 0
        /\ node' \in {"plan", "classify", "detect"}
        /\ node' \in {"plan", "classify"} => need[active].attempts < MaxAttempts
        /\ need[active].classified
        /\ node' = "classify" => need[active].reclass < MaxReclass
        /\ node' = "detect" => need'[active].route \in Resolved
      BY DecideEffect
  <1>3. TypeOK' /\ WorkedInOrder' /\ IndexInv'
    <2>1. node' \in Nodes \ {"grade"} /\ "decide" \in Working \ {"grade"}
        BY <1>2 DEF Working, Nodes
    <2> QED
        BY <1>1, <1>2, <2>1, CourseKeeps
  <1>4. ControlInv'
    <2>1. node' # "raised"
        BY <1>2
    <2> QED
        BY <1>1, <1>2, <1>3, <2>1 DEF ControlInv, SameWork, SameClass, Working
  <1> QED
      BY <1>3, <1>4 DEF GraphInv

\* Completion resolves the active need.
LEMMA CompleteKeeps ==
    ASSUME GraphInv, Complete
    PROVE  GraphInv'
  <1>1. /\ Enter("complete") /\ node = "complete"
        /\ UNCHANGED <<active, evidenceVars, total, preference, report>>
      BY DEF Complete, Enter
  <1>2. active \in Needs /\ need[active].route \in Resolved
      BY <1>1 DEF GraphInv, ControlInv, Working, Nodes
  <1>3. /\ need' = [need EXCEPT ![active].status = need[active].route]
        /\ node' = "select"
      BY <1>2 DEF Complete
  <1>4. /\ ChangesOnly(active)
        /\ need'[active].status = need[active].route
        /\ SameWork(need'[active], need[active])
      BY <1>2, <1>3, StatusEffect DEF GraphInv
  <1>5. TypeOK' /\ WorkedInOrder' /\ IndexInv'
      BY <1>1, <1>3, <1>4, CourseKeeps DEF Working, Nodes
  <1>6. ControlInv'
      BY <1>1, <1>2, <1>3, <1>4, <1>5 DEF ControlInv, Working
  <1> QED
      BY <1>5, <1>6 DEF GraphInv

\* A lookup keeps the index in order: new chunks get ranks never given before.
LEMMA ExecuteKeeps ==
    ASSUME GraphInv, Execute
    PROVE  GraphInv'
  <1>0. /\ Enter("execute") /\ node = "execute"
        /\ UNCHANGED <<active, preference, report>>
      BY DEF Execute, Enter
  <1>1. /\ active \in Needs /\ need[active].status = "active"
        /\ need[active].attempts < MaxAttempts /\ need[active].classified
      BY <1>0 DEF GraphInv, ControlInv, Working, Nodes
  <1>2. PICK found \in SUBSET Chunks :
              /\ ChangesOnly(active) /\ SameClass(need'[active], need[active])
              /\ need'[active].keys = need[active].keys \cup found
              /\ need'[active].grade = need[active].grade
              /\ need'[active].attempts = need[active].attempts
              /\ need'[active].status = need[active].status
              /\ node' = "validate" /\ total' = total + 1 /\ total < MaxTotal
              /\ snapshots' = snapshots \cup {<<rank'[k], k>> : k \in found}
              /\ Current' \in Indexes /\ nextRank' >= nextRank
              /\ \A k \in found : rank'[k] # 0
              /\ \A k \in Chunks :
                    /\ rank[k] # 0 => rank'[k] = rank[k]
                    /\ rank[k] = 0 /\ rank'[k] # 0 => rank'[k] >= nextRank /\ k \in found
              /\ \A j, k \in Chunks : rank'[j] = rank'[k] /\ rank'[j] # 0 => j = k
              /\ IsFiniteSet(InIndex(rank')) /\ Cardinality(InIndex(rank')) <= MaxEvidence
      BY ExecuteEffect
  <1>3. /\ rank' \in [Chunks -> Nat] /\ nextRank' \in Nat \ {0}
        /\ \A k \in Chunks : rank'[k] < nextRank'
      BY <1>2 DEF Current, Indexes
  <1>4. /\ rank \in [Chunks -> Nat] /\ nextRank \in Nat \ {0} /\ \A k \in Chunks : rank[k] < nextRank
        /\ snapshots \subseteq (Nat \ {0}) \X Chunks /\ \A p \in snapshots : p[1] < nextRank
        /\ \A n \in Needs : need[n].keys \subseteq Chunks
      BY DEF GraphInv, TypeOK, IndexInv, Current, Indexes, Executions
  <1>5. TypeOK'
    <2>1. total' \in 0..MaxTotal
        BY <1>2 DEF GraphInv, TypeOK
    <2>2. snapshots' \subseteq (Nat \ {0}) \X Chunks
      <3>1. \A k \in found : <<rank'[k], k>> \in (Nat \ {0}) \X Chunks
          BY <1>2, <1>3
      <3> QED
          BY <1>2, <1>4, <3>1
    <2> QED
        BY <1>0, <1>2, <1>3, <2>1, <2>2, Entering DEF GraphInv, TypeOK, ChangesOnly, Nodes
  <1>6. WorkedInOrder'
      BY <1>0, <1>2, OrderKept DEF GraphInv, TypeOK, ControlInv
  <1>7. ControlInv'
      BY <1>0, <1>1, <1>2, <1>6 DEF ControlInv, SameClass, Working, Nodes
  <1>8. \A p \in snapshots' : p[1] < nextRank'
    <2>1. \A p \in snapshots : p[1] < nextRank'
        BY <1>2, <1>3, <1>4
    <2>2. \A k \in found : rank'[k] < nextRank'
        BY <1>3
    <2> QED
        BY <1>2, <2>1, <2>2
  <1>9. OneChunkPerRank'
    <2> DEFINE new == {<<rank'[k], k>> : k \in InIndex(rank')}
    <2>1. Pairs' = snapshots \cup new
      <3>1. found \subseteq InIndex(rank')
          BY <1>2 DEF InIndex
      <3>2. {<<rank'[k], k>> : k \in found} \subseteq new
          BY <3>1
      <3>3. Pairs' = snapshots' \cup new
          BY DEF Pairs
      <3> QED
          BY <1>2, <3>2, <3>3
    <2>2. \A p \in snapshots, k \in InIndex(rank') : p[1] = rank'[k] => p[2] = k
      <3> SUFFICES ASSUME NEW p \in snapshots, NEW k \in Chunks, rank'[k] # 0, p[1] = rank'[k]
                   PROVE  p[2] = k
          BY DEF InIndex
      <3>1. rank[k] # 0 /\ rank'[k] = rank[k]
          BY <1>2, <1>3, <1>4
      <3>2. p \in Pairs /\ <<rank[k], k>> \in Pairs
          BY <3>1 DEF Pairs, InIndex
      <3> QED
          BY <3>1, <3>2 DEF GraphInv, IndexInv, OneChunkPerRank
    <2>3. \A p, q \in snapshots : p[1] = q[1] => p[2] = q[2]
        BY DEF GraphInv, IndexInv, OneChunkPerRank, Pairs
    <2>4. \A j, k \in InIndex(rank') : rank'[j] = rank'[k] => j = k
        BY <1>2 DEF InIndex
    <2>5. \A p \in new : \E k \in InIndex(rank') : p[1] = rank'[k] /\ p[2] = k
        OBVIOUS
    <2> HIDE DEF new
    <2>6. ASSUME NEW p \in Pairs', NEW q \in Pairs', p[1] = q[1] PROVE p[2] = q[2]
      <3>1. CASE p \in snapshots /\ q \in snapshots
          BY <2>3, <2>6, <3>1
      <3>2. CASE p \in new /\ q \in new
          BY <2>4, <2>5, <2>6, <3>2
      <3>3. CASE p \in snapshots /\ q \in new
          BY <2>2, <2>5, <2>6, <3>3
      <3>4. CASE p \in new /\ q \in snapshots
          BY <2>2, <2>5, <2>6, <3>4
      <3> QED
          BY <2>1, <3>1, <3>2, <3>3, <3>4
    <2> QED
        BY <2>6 DEF OneChunkPerRank
  <1>10. \A n \in Needs : need'[n].keys = IF n = active THEN need[n].keys \cup found ELSE need[n].keys
      BY <1>1, <1>2 DEF ChangesOnly
  <1>11. EvidenceAccounted'
    <2>1. \A k \in Chunks : rank[k] # 0 <=> \E n \in Needs : k \in need[n].keys
      <3>1. InIndex(rank) = UNION {need[n].keys : n \in Needs}
          BY DEF GraphInv, IndexInv, EvidenceAccounted
      <3> QED
          BY <3>1 DEF InIndex
    <2>2. \A k \in Chunks : rank'[k] # 0 <=> rank[k] # 0 \/ k \in found
        BY <1>2, <1>3, <1>4
    <2>3. \A k \in Chunks : rank'[k] # 0 <=> \E n \in Needs : k \in need'[n].keys
        BY <1>1, <1>10, <2>1, <2>2
    <2>4. \A n \in Needs : need'[n].keys \subseteq Chunks
        BY <1>4, <1>10
    <2>5. InIndex(rank') = UNION {need'[n].keys : n \in Needs}
        BY <2>3, <2>4 DEF InIndex
    <2> QED
        BY <1>2, <2>5 DEF EvidenceAccounted
  <1>12. ASSUME NEW n \in Needs
         PROVE  need'[n].grade.supporting \subseteq RanksOf(need[n].keys)'
    <2>1. need'[n].grade = need[n].grade
        BY <1>2 DEF ChangesOnly
    <2>2. need[n].grade.supporting \subseteq RanksOf(need[n].keys)
        BY <1>0 DEF GraphInv, IndexInv, Regrading
    <2>3. \A k \in need[n].keys : k \in need'[n].keys /\ rank'[k] = rank[k]
      <3>1. \A k \in need[n].keys : k \in InIndex(rank)
          BY DEF GraphInv, IndexInv, EvidenceAccounted
      <3> QED
          BY <1>2, <1>10, <3>1 DEF InIndex
    <2>4. RanksOf(need[n].keys) \subseteq RanksOf(need[n].keys)'
        BY <2>3 DEF RanksOf
    <2> QED
        BY <2>1, <2>2, <2>4
  <1>13. IndexInv'
      BY <1>2, <1>8, <1>9, <1>11, <1>12 DEF IndexInv
  <1> QED
      BY <1>5, <1>7, <1>13 DEF GraphInv

\* Pruning leaves an index that is in order, and what the other needs refer to.
LEMMA PruneKeeps ==
    ASSUME GraphInv, NEW kept \in SUBSET need[active].keys, active \in Needs, Prune(active, kept),
           ChangesOnly(active), need'[active].keys = kept,
           UNCHANGED <<active, nextRank, snapshots>>,
           node' \in Regrading \/ need'[active].grade.supporting \subseteq RanksOf(need[active].keys)'
    PROVE  rank' \in [Chunks -> Nat] /\ IndexInv'
  <1>1. /\ rank' \in [Chunks -> Nat]
        /\ \A k \in Chunks : rank'[k] \in {0, rank[k]}
        /\ \A n \in Needs : \A k \in need'[n].keys : k \in Chunks /\ rank'[k] = rank[k]
        /\ InIndex(rank') = UNION {need'[n].keys : n \in Needs}
        /\ IsFiniteSet(InIndex(rank')) /\ Cardinality(InIndex(rank')) <= MaxEvidence
      BY PruneEffect DEF GraphInv, IndexInv
  <1>2. Current' \in Indexes
    <2>1. nextRank \in Nat \ {0} /\ \A k \in Chunks : rank[k] < nextRank
        BY DEF GraphInv, IndexInv, Current, Indexes
    <2> QED
        BY <1>1, <2>1 DEF Current, Indexes
  <1>3. OneChunkPerRank'
    <2>1. \A p \in Pairs' : p \in Pairs
        BY <1>1 DEF Pairs, InIndex
    <2> QED
        BY <2>1 DEF GraphInv, IndexInv, OneChunkPerRank
  <1>4. ASSUME NEW n \in Needs, n # active \/ node' \notin Regrading
        PROVE  need'[n].grade.supporting \subseteq RanksOf(need[n].keys)'
    <2>1. CASE n = active
        BY <1>4, <2>1
    <2>2. CASE n # active
      <3>1. need'[n] = need[n]
          BY <2>2 DEF ChangesOnly
      <3>2. need[n].grade.supporting \subseteq RanksOf(need[n].keys)
          BY <2>2 DEF GraphInv, IndexInv
      <3>3. RanksOf(need[n].keys)' = RanksOf(need[n].keys)
          BY <1>1, <3>1 DEF RanksOf
      <3> QED
          BY <3>1, <3>2, <3>3
    <2> QED
        BY <2>1, <2>2
  <1>5. \A p \in snapshots' : p[1] < nextRank'
      BY DEF GraphInv, IndexInv
  <1> QED
      BY <1>1, <1>2, <1>3, <1>4, <1>5 DEF IndexInv, EvidenceAccounted

\* Validation drops evidence; the last grading is out of date until the next.
LEMMA ValidateKeeps ==
    ASSUME GraphInv, Validate
    PROVE  GraphInv'
  <1>0. /\ Enter("validate") /\ node = "validate" /\ node' = "grade"
        /\ UNCHANGED <<active, nextRank, snapshots, total, preference, report>>
      BY DEF Validate, Enter
  <1>1. /\ active \in Needs /\ need[active].status = "active"
        /\ need[active].attempts < MaxAttempts /\ need[active].classified
        /\ need[active].keys \subseteq Chunks
      BY <1>0 DEF GraphInv, ControlInv, Working, Nodes, TypeOK, Executions
  <1>2. PICK kept \in SUBSET need[active].keys :
           Prune(active, kept) /\ need' = [need EXCEPT ![active].keys = kept]
      BY DEF Validate
  <1>3. /\ ChangesOnly(active)
        /\ need'[active].keys = kept /\ need'[active].attempts = need[active].attempts
        /\ need'[active].status = need[active].status
        /\ SameClass(need'[active], need[active])
    <2>1. kept \in SUBSET Chunks
        BY <1>1
    <2> QED
        BY <1>1, <1>2, <2>1, KeysEffect DEF GraphInv
  <1>4. rank' \in [Chunks -> Nat] /\ IndexInv'
      BY <1>0, <1>1, <1>2, <1>3, PruneKeeps DEF Regrading
  <1>5. TypeOK'
      BY <1>0, <1>3, <1>4, Entering DEF GraphInv, TypeOK, ChangesOnly, Nodes
  <1>6. WorkedInOrder'
      BY <1>0, <1>3, OrderKept DEF GraphInv, TypeOK, ControlInv
  <1>7. ControlInv'
      BY <1>0, <1>1, <1>3, <1>6 DEF ControlInv, SameClass, Working, Nodes
  <1> QED
      BY <1>4, <1>5, <1>7 DEF GraphInv

\* The grading and the chunks it calls relevant replace the need's.
LEMMA GradedEffect ==
    ASSUME GraphInv, Grade
    PROVE  /\ active \in Needs /\ need[active].status = "active" /\ need[active].classified
           /\ need[active].attempts < MaxAttempts /\ need[active].attempts \in Nat
           /\ ChangesOnly(active) /\ SameClass(need'[active], need[active])
           /\ need'[active].attempts = need[active].attempts + 1
           /\ need'[active].status = need[active].status
           /\ need'[active].keys \in SUBSET need[active].keys
           /\ Prune(active, need'[active].keys)
           /\ need'[active].grade.supporting \subseteq RanksOf(need[active].keys)'
           /\ need'[active].grade.support = "supported" => need'[active].grade.supporting # {}
  <1>0. /\ Enter("grade") /\ node = "grade" /\ node' = "decide"
        /\ UNCHANGED <<active, nextRank, snapshots, total, preference, report>>
      BY DEF Grade, Enter
  <1>1. /\ active \in Needs /\ need[active].status = "active"
        /\ need[active].attempts < MaxAttempts /\ need[active].attempts \in Nat
        /\ need[active].classified
        /\ need[active].keys \subseteq Chunks /\ need[active].keys \subseteq InIndex(rank)
        /\ rank \in [Chunks -> Nat]
      BY <1>0 DEF GraphInv, ControlInv, Working, Nodes, TypeOK, Executions, IndexInv, EvidenceAccounted
  <1>2. PICK g \in GradesOver(RanksOf(need[active].keys)) :
           LET kept == {k \in need[active].keys : rank[k] \in g.relevant}
           IN /\ Prune(active, kept)
              /\ need' = [need EXCEPT ![active].keys = kept,
                                      ![active].grade = g,
                                      ![active].attempts = @ + 1]
      BY DEF Grade
  <1> DEFINE kept == {k \in need[active].keys : rank[k] \in g.relevant}
  <1>3. /\ g.support = "supported" => g.supporting # {}
        /\ g \in Grades /\ g.supporting \subseteq g.relevant
        /\ g.relevant \subseteq RanksOf(need[active].keys)
    <2>1. RanksOf(need[active].keys) \subseteq Nat \ {0}
        BY <1>1 DEF RanksOf, InIndex
    <2> QED
        BY <2>1 DEF GradesOver, Grades
  <1>4. kept \in SUBSET Chunks /\ kept \in SUBSET need[active].keys
      BY <1>1
  <1>5. g.supporting \subseteq {rank[k] : k \in kept}
      BY <1>3 DEF RanksOf
  <1> HIDE DEF kept
  <1>6. /\ Prune(active, kept)
        /\ need' = [need EXCEPT ![active].keys = kept,
                                ![active].grade = g,
                                ![active].attempts = @ + 1]
      BY <1>2 DEF kept
  <1>7. /\ ChangesOnly(active)
        /\ need'[active].keys = kept /\ need'[active].grade = g
        /\ need'[active].attempts = need[active].attempts + 1
        /\ need'[active].status = need[active].status
        /\ SameClass(need'[active], need[active])
      BY <1>1, <1>3, <1>4, <1>6, GradeEffect DEF GraphInv
  <1>8. \A k \in kept : rank'[k] = rank[k]
      BY <1>4, <1>6 DEF Prune
  <1>9. need'[active].grade.supporting \subseteq RanksOf(need[active].keys)'
      BY <1>0, <1>5, <1>7, <1>8 DEF RanksOf
  <1> QED
      BY <1>1, <1>3, <1>4, <1>6, <1>7, <1>9

\* A grading speaks for the chunks it keeps.
LEMMA GradeKeeps ==
    ASSUME GraphInv, Grade
    PROVE  GraphInv'
  <1>1. /\ Enter("grade") /\ node' = "decide"
        /\ UNCHANGED <<active, nextRank, snapshots, total, preference, report>>
      BY DEF Grade
  <1>2. rank' \in [Chunks -> Nat] /\ IndexInv'
      BY <1>1, GradedEffect, PruneKeeps
  <1>3. TypeOK'
      BY <1>1, <1>2, GradedEffect, Entering DEF GraphInv, TypeOK, ChangesOnly, Nodes
  <1>4. WorkedInOrder'
      BY <1>1, GradedEffect, OrderKept DEF GraphInv, TypeOK, ControlInv
  <1>5. ControlInv'
      BY <1>1, <1>4, GradedEffect DEF ControlInv, SameClass, Working, Nodes
  <1> QED
      BY <1>2, <1>3, <1>5 DEF GraphInv

\* What detection may make of the preference.
LEMMA PreferenceTyped ==
    ASSUME preference \in {NoPreference} \cup Preferences, NEW k \in Chunks, NEW s \in Scores
    PROVE  /\ PreferenceAfter(DocumentOf[k], s) \in Preferences
           /\ PreferenceAfter(DocumentOf[k], s).document \in {DocumentOf[k], preference.document}
           /\ PreferenceAfter(DocumentOf[k], s).document # DocumentOf[k] =>
                 PreferenceAfter(DocumentOf[k], s) = preference
  <1>1. [document |-> DocumentOf[k], score |-> s] \in Preferences
      BY DEF Preferences
  <1>2. CASE preference = NoPreference
      BY <1>1, <1>2 DEF PreferenceAfter
  <1>3. CASE preference # NoPreference
    <2>1. preference \in Preferences
        BY <1>3
    <2>2. [preference EXCEPT !.score = s] \in Preferences
          /\ [preference EXCEPT !.score = s].document = preference.document
        BY <2>1 DEF Preferences
    <2> QED
        BY <1>1, <1>3, <2>1, <2>2 DEF PreferenceAfter
  <1> QED
      BY <1>2, <1>3

\* The preference is left alone, or moves to a document of the active need's evidence.
LEMMA DetectEffect ==
    ASSUME GraphInv, DetectPrimaryDocument
    PROVE  /\ Enter("detect") /\ node = "detect" /\ node' = "complete" /\ active \in Needs
           /\ UNCHANGED <<active, need, evidenceVars, total, report>>
           /\ preference' \in {NoPreference} \cup Preferences
           /\ \/ preference' = preference
              \/ \E k \in need[active].keys :
                    /\ k \in Chunks /\ rank[k] \in need[active].grade.supporting
                    /\ preference'.document = DocumentOf[k]
  <1>1. /\ Enter("detect") /\ node = "detect"
        /\ UNCHANGED <<active, need, evidenceVars, total, report>>
      BY DEF DetectPrimaryDocument, Enter
  <1>2. /\ active \in Needs /\ need[active].attempts # 0
        /\ need[active].keys \subseteq Chunks
        /\ preference \in {NoPreference} \cup Preferences
      BY <1>1 DEF GraphInv, ControlInv, Working, Nodes, TypeOK, Executions
  <1>3. /\ node' = "complete"
        /\ \/ UNCHANGED preference
           \/ \E document \in Candidates(need[active]), score \in Scores :
                 preference' = PreferenceAfter(document, score)
      BY <1>2 DEF DetectPrimaryDocument
  <1>4. CASE UNCHANGED preference
      BY <1>1, <1>2, <1>3, <1>4
  <1>5. ASSUME NEW document \in Candidates(need[active]), NEW score \in Scores,
               preference' = PreferenceAfter(document, score)
        PROVE  /\ preference' \in {NoPreference} \cup Preferences
               /\ \/ preference' = preference
                  \/ \E k \in need[active].keys :
                        /\ k \in Chunks /\ rank[k] \in need[active].grade.supporting
                        /\ preference'.document = DocumentOf[k]
    <2>1. PICK k \in need[active].keys :
             /\ rank[k] \in need[active].grade.supporting /\ document = DocumentOf[k]
        BY <1>5 DEF Candidates
    <2> QED
        BY <1>2, <1>5, <2>1, PreferenceTyped
  <1> QED
      BY <1>1, <1>2, <1>3, <1>4, <1>5

\* Detection finds a graded need, and so never raises.
LEMMA DetectKeeps ==
    ASSUME GraphInv, DetectPrimaryDocument
    PROVE  GraphInv'
  <1>1. /\ Enter("detect") /\ node = "detect" /\ node' = "complete"
        /\ UNCHANGED <<active, need, evidenceVars, total, report>>
        /\ preference' \in {NoPreference} \cup Preferences
      BY DetectEffect
  <1>2. TypeOK'
      BY <1>1, Entering DEF GraphInv, TypeOK, Nodes, evidenceVars
  <1>3. WorkedInOrder'
      BY <1>1, OrderKept DEF GraphInv, TypeOK, ControlInv
  <1>4. ControlInv'
      BY <1>1, <1>3 DEF GraphInv, ControlInv, Working, Nodes
  <1>5. IndexInv'
      BY <1>1, IndexKept DEF GraphInv, Regrading
  <1> QED
      BY <1>2, <1>4, <1>5 DEF GraphInv

\* Aggregation never meets a rank it cannot resolve.
LEMMA AggregateKeeps ==
    ASSUME GraphInv, Aggregate
    PROVE  GraphInv' /\ node' = "aggregated"
  <1>1. /\ node = "aggregate"
        /\ UNCHANGED <<steps, active, need, rank, nextRank, snapshots, total, preference>>
      BY DEF Aggregate, evidenceVars
  <1>2. OneChunkPerRank
      BY DEF GraphInv, IndexInv
  <1>3. ASSUME NEW n \in Needs PROVE Approved(n) \subseteq RanksOf(InIndex(rank))
    <2>1. Approved(n) \subseteq RanksOf(need[n].keys)
        BY <1>1 DEF GraphInv, IndexInv, Regrading, Approved
    <2>2. need[n].keys \subseteq InIndex(rank)
        BY DEF GraphInv, IndexInv, EvidenceAccounted
    <2> QED
        BY <2>1, <2>2 DEF RanksOf
  <1>4. node' = "aggregated" /\ report' \in {"missing", "sufficient", "weak"}
      BY <1>2, <1>3 DEF Aggregate
  <1>5. TypeOK'
      BY <1>1, <1>4 DEF GraphInv, TypeOK, Ends
  <1>6. WorkedInOrder'
      BY <1>1, OrderKept DEF GraphInv, TypeOK, ControlInv
  <1>7. ControlInv'
      BY <1>1, <1>4, <1>6 DEF GraphInv, ControlInv, Working, Nodes
  <1>8. IndexInv'
      BY <1>1, <1>4, IndexKept DEF GraphInv, Regrading, evidenceVars
  <1> QED
      BY <1>4, <1>5, <1>7, <1>8 DEF GraphInv

\* A run that is cut short leaves everything as it was.
LEMMA StoppingKeeps ==
    ASSUME GraphInv, FailProvider \/ ExceedStepLimit
    PROVE  GraphInv'
  <1>1. /\ UNCHANGED <<active, need, rank, nextRank, snapshots, total, preference, report>>
        /\ node' \in {"failed", "exceeded"} /\ steps' \in 0..MaxSteps
      BY Entering DEF GraphInv, TypeOK, FailProvider, ExceedStepLimit, evidenceVars
  <1>2. TypeOK'
      BY <1>1 DEF GraphInv, TypeOK, Ends
  <1>3. WorkedInOrder'
      BY <1>1, OrderKept DEF GraphInv, TypeOK, ControlInv
  <1>4. ControlInv'
      BY <1>1, <1>3 DEF ControlInv, Working, Nodes
  <1>5. IndexInv'
      BY <1>1, IndexKept DEF GraphInv, Regrading, evidenceVars
  <1> QED
      BY <1>2, <1>4, <1>5 DEF GraphInv

\* Every node keeps the invariant.
LEMMA GraphStep ==
    ASSUME GraphInv, [Next]_vars
    PROVE  GraphInv'
  <1>1. CASE UNCHANGED vars
    <2>1. UNCHANGED <<node, steps, active, need, rank, nextRank, snapshots, total,
                      preference, report>>
        BY <1>1 DEF vars
    <2>2. IndexInv'
        BY <2>1, IndexKept DEF GraphInv, evidenceVars
    <2> QED
        BY <2>1, <2>2 DEF GraphInv, TypeOK, ControlInv, WorkedInOrder
  <1>2. CASE Next
      BY <1>2, SelectKeeps, FinishQueueKeeps, ClassifyKeeps, PlanKeeps, ExecuteKeeps,
         ValidateKeeps, GradeKeeps, DecideKeeps, DetectKeeps, CompleteKeeps,
         AggregateKeeps, StoppingKeeps DEF Next
  <1> QED
      BY <1>1, <1>2

\* A query starts with nothing done.
LEMMA GraphInitially == Init => GraphInv
  <1> SUFFICES ASSUME Init PROVE GraphInv
      OBVIOUS
  <1>1. \A n \in Needs : need[n] = NewExecution
      BY DEF Init
  <1>2. NewExecution \in Executions
      BY DEF NewExecution, Executions, Ungraded, Grades
  <1>3. MaxSteps \in Nat
      BY DEF MaxSteps
  <1>4. TypeOK
      BY <1>2, <1>3 DEF Init, TypeOK, Nodes
  <1>5. ControlInv
      BY <1>1 DEF Init, ControlInv, WorkedInOrder, Working, Nodes, Needs
  <1>6. InIndex(rank) = {} /\ \A n \in Needs : need[n].keys = {} /\ need[n].grade.supporting = {}
      BY <1>1 DEF Init, InIndex, NewExecution, Ungraded
  <1>7. EvidenceAccounted /\ IsFiniteSet(InIndex(rank))
    <2>1. UNION {need[n].keys : n \in Needs} = {}
        BY <1>6
    <2> QED
        BY <1>6, <2>1, FS_EmptySet DEF EvidenceAccounted
  <1>8. OneChunkPerRank
      BY <1>6 DEF OneChunkPerRank, Pairs, Init
  <1>9. Current \in Indexes
      BY DEF Init, Current, Indexes
  <1>10. IndexInv
      BY <1>6, <1>7, <1>8, <1>9 DEF IndexInv, Init
  <1> QED
      BY <1>4, <1>5, <1>10 DEF GraphInv

\* Whatever the models, retrievers and graders answer.
THEOREM GraphInvariant == Spec => []GraphInv
  <1>1. GraphInv /\ [Next]_vars => GraphInv'
      BY GraphStep
  <1> QED
      BY <1>1, GraphInitially, PTL DEF Spec

\* Every variable keeps its type, and a preference is always of an indexed document.
THEOREM GraphTyped == Spec => []TypeOK
  <1>1. GraphInv => TypeOK
      BY DEF GraphInv
  <1> QED
      BY <1>1, GraphInvariant, PTL

\* The index holds what the needs refer to, and no more than its limit.
THEOREM EvidenceIsAccounted == Spec => []EvidenceAccounted
  <1>1. GraphInv => EvidenceAccounted
      BY DEF GraphInv, IndexInv
  <1> QED
      BY <1>1, GraphInvariant, PTL

-----------------------------------------------------------------------------
(* The accounts.                                                           *)

\* There are finitely many needs.
LEMMA NeedsFinite == IsFiniteSet(Needs)
  <1>1. 1 \in Int /\ NumNeeds \in Int
      OBVIOUS
  <1> QED
      BY <1>1, FS_Interval DEF Needs

\* A count kept per need changes with the need that changes.
LEMMA CountChanges ==
    ASSUME NEW f \in [Needs -> Nat], NEW g \in [Needs -> Nat], NEW b \in Needs, NEW by \in {0, 1},
           \A n \in Needs \ {b} : g[n] = f[n], g[b] = f[b] + by
    PROVE  SumFunction(f) \in Nat /\ SumFunction(g) = SumFunction(f) + by
  <1>1. SumFunction(f) = SumFunctionOnSet(f, Needs) /\ SumFunction(g) = SumFunctionOnSet(g, Needs)
      BY DEF SumFunction, SumFunctionOnSet, FoldFunction
  <1>2. /\ g[b] \in Int /\ \A n \in Needs : f[n] \in Int
        /\ \A n \in Needs : f[n] \in Nat
      OBVIOUS
  <1>3. SumFunctionOnSet(f, Needs) \in Nat /\ SumFunctionOnSet(g, Needs) \in Nat
    <2>1. \A n \in Needs : g[n] \in Nat
        OBVIOUS
    <2> QED
        BY <1>2, <2>1, NeedsFinite, SumType
  <1>4. SumFunctionOnSet(g, Needs) + f[b] = SumFunctionOnSet(f, Needs) + g[b]
    <2>1. \A n \in Needs : f[n] \in Int
        BY <1>2
    <2>2. g[b] \in Int
        BY <1>2
    <2>3. \A n \in Needs \ {b} : g[n] = f[n]
        OBVIOUS
    <2> QED
        BY <2>1, <2>2, <2>3, NeedsFinite, SumChange
  <1>5. f[b] \in Nat /\ by \in Nat /\ g[b] = f[b] + by
      OBVIOUS
  <1> QED
      BY <1>1, <1>3, <1>4, <1>5

\* A grading counts one attempt, a repeated classification one reclassification.
LEMMA CountsChange ==
    ASSUME TypeOK, NEW b \in Needs, ChangesOnly(b), NEW da \in {0, 1}, NEW dr \in {0, 1},
           need'[b].attempts = need[b].attempts + da,
           need'[b].reclass = need[b].reclass + dr
    PROVE  /\ Attempts \in Nat /\ Attempts' = Attempts + da
           /\ Reclassifications \in Nat /\ Reclassifications' = Reclassifications + dr
  <1> DEFINE a(nd) == [n \in Needs |-> nd[n].attempts]
             r(nd) == [n \in Needs |-> nd[n].reclass]
  <1>1. /\ Attempts = SumFunction(a(need)) /\ Attempts' = SumFunction(a(need'))
        /\ Reclassifications = SumFunction(r(need)) /\ Reclassifications' = SumFunction(r(need'))
      BY DEF Attempts, Reclassifications
  <1>2. /\ a(need) \in [Needs -> Nat] /\ a(need') \in [Needs -> Nat]
        /\ r(need) \in [Needs -> Nat] /\ r(need') \in [Needs -> Nat]
      BY DEF TypeOK, ChangesOnly, Executions
  <1>3. /\ \A n \in Needs \ {b} : a(need')[n] = a(need)[n] /\ r(need')[n] = r(need)[n]
        /\ a(need')[b] = a(need)[b] + da /\ r(need')[b] = r(need)[b] + dr
      BY DEF ChangesOnly
  <1> HIDE DEF a, r
  <1>4. SumFunction(a(need)) \in Nat /\ SumFunction(a(need')) = SumFunction(a(need)) + da
      BY <1>2, <1>3, CountChanges
  <1>5. SumFunction(r(need)) \in Nat /\ SumFunction(r(need')) = SumFunction(r(need)) + dr
      BY <1>2, <1>3, CountChanges
  <1> QED
      BY <1>1, <1>4, <1>5

\* Both counts are numbers.
LEMMA CountsTyped ==
    ASSUME TypeOK
    PROVE  Attempts \in Nat /\ Reclassifications \in Nat
  <1>1. 1 \in Needs
      BY DEF Needs
  <1>2. /\ [n \in Needs |-> need[n].attempts] \in [Needs -> Nat]
        /\ [n \in Needs |-> need[n].reclass] \in [Needs -> Nat]
      BY DEF TypeOK, Executions
  <1>3. \A f \in [Needs -> Nat] : SumFunction(f) \in Nat
    <2> SUFFICES ASSUME NEW f \in [Needs -> Nat] PROVE SumFunction(f) \in Nat
        OBVIOUS
    <2>1. SumFunction(f) = SumFunctionOnSet(f, Needs) /\ \A n \in Needs : f[n] \in Nat
        BY DEF SumFunction
    <2> QED
        BY <2>1, NeedsFinite, SumType
  <1> QED
      BY <1>2, <1>3 DEF Attempts, Reclassifications

\* A node that grades nothing and reclassifies nothing.
LEMMA CountsKept ==
    ASSUME TypeOK, NEW b \in Needs, ChangesOnly(b),
           need'[b].attempts = need[b].attempts, need'[b].reclass = need[b].reclass
    PROVE  Attempts' = Attempts /\ Reclassifications' = Reclassifications
  <1>1. need[b].attempts \in Nat /\ need[b].reclass \in Nat
      BY DEF TypeOK, Executions
  <1>2. Attempts' = Attempts + 0 /\ Reclassifications' = Reclassifications + 0
      BY <1>1, CountsChange
  <1> QED
      BY <1>2, CountsTyped

\* Both accounts of what a query has cost.
Accounts ==
    node \notin {"failed", "exceeded"} =>
        /\ total = Attempts + (IF node \in {"validate", "grade"} THEN 1 ELSE 0)
        /\ steps + Remaining =
              4 * active + 5 * total + Reclassifications
              + (IF node \in {"aggregate", "aggregated"} THEN 1 ELSE 0)

\* Every node pays for itself.
LEMMA AccountsStep ==
    ASSUME GraphInv, Accounts, [Next]_vars
    PROVE  Accounts'
  <1>0. /\ TypeOK /\ steps \in Nat /\ total \in Nat /\ active \in Nat
        /\ Attempts \in Nat /\ Reclassifications \in Nat
      BY CountsTyped DEF GraphInv, TypeOK, MaxSteps
  <1>1. CASE UNCHANGED vars
    <2>1. UNCHANGED <<node, steps, active, need, total>>
        BY <1>1 DEF vars
    <2>2. Attempts' = Attempts /\ Reclassifications' = Reclassifications /\ Remaining' = Remaining
        BY <2>1 DEF Attempts, Reclassifications, Remaining
    <2> QED
        BY <2>1, <2>2 DEF Accounts
  <1>2. CASE SelectNeed
    <2>1. /\ node = "select" /\ node' = "classify" /\ steps' = steps + 1 /\ total' = total
          /\ active' = active + 1
        BY <1>0, <1>2, Entering DEF SelectNeed
    <2>2. /\ active + 1 \in Needs /\ ChangesOnly(active + 1)
          /\ need'[active + 1].attempts = need[active + 1].attempts
          /\ need'[active + 1].reclass = need[active + 1].reclass
          /\ need'[active + 1].classified = need[active + 1].classified
        BY <1>0, <1>2, SelectEffect DEF SameWork, SameClass
    <2>3. need[active + 1].classified = FALSE
        BY <1>0, <2>2 DEF GraphInv, ControlInv, WorkedInOrder, NewExecution
    <2>4. Attempts' = Attempts /\ Reclassifications' = Reclassifications
        BY <1>0, <2>2, CountsKept
    <2>5. Remaining = 0 /\ Remaining' = 3
        BY <2>1, <2>2, <2>3 DEF Remaining
    <2> QED
        BY <1>0, <2>1, <2>4, <2>5 DEF Accounts
  <1>3. CASE FinishQueue
    <2>1. /\ node = "select" /\ node' = "aggregate" /\ steps' = steps + 1
          /\ UNCHANGED <<active, need, total>>
        BY <1>0, <1>3, Entering DEF FinishQueue
    <2>2. Attempts' = Attempts /\ Reclassifications' = Reclassifications
        BY <2>1 DEF Attempts, Reclassifications
    <2>3. Remaining = 0 /\ Remaining' = 0
        BY <2>1 DEF Remaining
    <2> QED
        BY <1>0, <2>1, <2>2, <2>3 DEF Accounts
  <1>4. CASE Classify
    <2>1. /\ node = "classify" /\ node' = "plan" /\ steps' = steps + 1
          /\ UNCHANGED <<active, total>>
        BY <1>0, <1>4, Entering DEF Classify
    <2>2. active \in Needs /\ (need[active].classified => need[active].reclass < MaxReclass)
        BY <2>1 DEF GraphInv, ControlInv, Working, Nodes
    <2>3. /\ ChangesOnly(active) /\ need'[active].attempts = need[active].attempts
          /\ need'[active].reclass = need[active].reclass + (IF need[active].classified THEN 1 ELSE 0)
        BY <1>0, <1>4, <2>2, ClassifyEffect DEF SameWork
    <2>4. need[active].attempts \in Nat /\ need[active].classified \in BOOLEAN
        BY <1>0, <2>2 DEF TypeOK, Executions
    <2>5. CASE need[active].classified
      <3>1. /\ need'[active].reclass = need[active].reclass + 1
            /\ need'[active].attempts = need[active].attempts + 0
          BY <2>3, <2>4, <2>5
      <3>2. Attempts' = Attempts + 0 /\ Reclassifications' = Reclassifications + 1
          BY <1>0, <2>2, <2>3, <3>1, CountsChange
      <3>3. Remaining = 2 /\ Remaining' = 2
          BY <2>1, <2>5 DEF Remaining
      <3> QED
          BY <1>0, <2>1, <3>2, <3>3 DEF Accounts
    <2>6. CASE ~ need[active].classified
      <3>1. need'[active].reclass = need[active].reclass
        <4>1. need[active].reclass \in Nat
            BY <1>0, <2>2 DEF TypeOK, Executions
        <4> QED
            BY <2>3, <2>6, <4>1
      <3>2. Attempts' = Attempts /\ Reclassifications' = Reclassifications
          BY <1>0, <2>2, <2>3, <3>1, CountsKept
      <3>3. Remaining = 3 /\ Remaining' = 2
          BY <2>1, <2>6 DEF Remaining
      <3> QED
          BY <1>0, <2>1, <3>2, <3>3 DEF Accounts
    <2> QED
        BY <2>5, <2>6
  <1>5. CASE PlanAttempt \/ StopPlanning
    <2>1. /\ node = "plan" /\ steps' = steps + 1 /\ UNCHANGED <<active, total>>
          /\ \E r \in {"none", "exhausted"} :
                need' = [need EXCEPT ![active].route = r]
          /\ node' \in {"execute", "complete"}
        BY <1>0, <1>5, Entering DEF PlanAttempt, StopPlanning
    <2>2. active \in Needs
        BY <2>1 DEF GraphInv, ControlInv, Working, Nodes
    <2>3. Attempts' = Attempts /\ Reclassifications' = Reclassifications
        BY <1>0, <2>1, <2>2, RouteEffect, CountsKept DEF SameWork, SameClass
    <2>4. Remaining = 2 /\ Remaining' = 1
        BY <2>1 DEF Remaining
    <2> QED
        BY <1>0, <2>1, <2>3, <2>4 DEF Accounts
  <1>6. CASE Execute
    <2>1. /\ node = "execute" /\ steps' = steps + 1 /\ active' = active
        BY <1>0, <1>6, Entering DEF Execute
    <2>2. active \in Needs
        BY <2>1 DEF GraphInv, ControlInv, Working, Nodes
    <2>3. /\ ChangesOnly(active) /\ need'[active].attempts = need[active].attempts
          /\ need'[active].reclass = need[active].reclass
          /\ node' = "validate" /\ total' = total + 1
        BY <1>6, ExecuteEffect DEF SameClass
    <2>4. Attempts' = Attempts /\ Reclassifications' = Reclassifications
        BY <1>0, <2>2, <2>3, CountsKept
    <2>5. Remaining = 1 /\ Remaining' = 5
        BY <2>1, <2>3 DEF Remaining
    <2> QED
        BY <1>0, <2>1, <2>3, <2>4, <2>5 DEF Accounts
  <1>7. CASE Validate
    <2>1. /\ node = "validate" /\ node' = "grade" /\ steps' = steps + 1 /\ UNCHANGED <<active, total>>
        BY <1>0, <1>7, Entering DEF Validate
    <2>2. active \in Needs
        BY <2>1 DEF GraphInv, ControlInv, Working, Nodes
    <2>3. PICK kept \in SUBSET need[active].keys : need' = [need EXCEPT ![active].keys = kept]
        BY <1>7 DEF Validate
    <2>4. kept \in SUBSET Chunks
        BY <1>0, <2>2 DEF TypeOK, Executions
    <2>5. Attempts' = Attempts /\ Reclassifications' = Reclassifications
        BY <1>0, <2>2, <2>3, <2>4, KeysEffect, CountsKept DEF SameClass
    <2>6. Remaining = 5 /\ Remaining' = 4
        BY <2>1 DEF Remaining
    <2> QED
        BY <1>0, <2>1, <2>5, <2>6 DEF Accounts
  <1>8. CASE Grade
    <2>1. /\ node = "grade" /\ node' = "decide" /\ steps' = steps + 1 /\ UNCHANGED <<active, total>>
        BY <1>0, <1>8, Entering DEF Grade
    <2>2. /\ active \in Needs /\ ChangesOnly(active)
          /\ need'[active].attempts = need[active].attempts + 1
          /\ need'[active].reclass = need[active].reclass
        BY <1>8, GradedEffect DEF SameClass
    <2>3. need[active].reclass \in Nat
        BY <1>0, <2>2 DEF TypeOK, Executions
    <2>4. Attempts' = Attempts + 1 /\ Reclassifications' = Reclassifications + 0
        BY <1>0, <2>2, <2>3, CountsChange
    <2>5. Remaining = 4 /\ Remaining' = 3
        BY <2>1 DEF Remaining
    <2> QED
        BY <1>0, <2>1, <2>4, <2>5 DEF Accounts
  <1>9. CASE Decide
    <2>1. /\ node = "decide" /\ steps' = steps + 1 /\ UNCHANGED <<active, total>>
        BY <1>0, <1>9, Entering DEF Decide
    <2>2. /\ active \in Needs /\ ChangesOnly(active)
          /\ SameWork(need'[active], need[active]) /\ SameClass(need'[active], need[active])
          /\ node' \in {"plan", "classify", "detect"}
          /\ need[active].classified
        BY <1>9, DecideEffect
    <2>3. Attempts' = Attempts /\ Reclassifications' = Reclassifications
        BY <1>0, <2>2, CountsKept DEF SameWork, SameClass
    <2>4. Remaining = 3 /\ Remaining' = 2
        BY <2>1, <2>2 DEF Remaining, SameClass
    <2> QED
        BY <1>0, <2>1, <2>2, <2>3, <2>4 DEF Accounts
  <1>10. CASE DetectPrimaryDocument
    <2>1. /\ node = "detect" /\ node' = "complete" /\ steps' = steps + 1
          /\ UNCHANGED <<active, need, total>>
        BY <1>0, <1>10, DetectEffect, Entering
    <2>2. Attempts' = Attempts /\ Reclassifications' = Reclassifications
        BY <2>1 DEF Attempts, Reclassifications
    <2>3. Remaining = 2 /\ Remaining' = 1
        BY <2>1 DEF Remaining
    <2> QED
        BY <1>0, <2>1, <2>2, <2>3 DEF Accounts
  <1>11. CASE Complete
    <2>1. /\ node = "complete" /\ steps' = steps + 1 /\ UNCHANGED <<active, total>>
        BY <1>0, <1>11, Entering DEF Complete
    <2>2. active \in Needs /\ need[active].route \in Resolved
        BY <2>1 DEF GraphInv, ControlInv, Working, Nodes
    <2>3. /\ need' = [need EXCEPT ![active].status = need[active].route]
          /\ node' = "select"
        BY <1>11, <2>2 DEF Complete
    <2>4. Attempts' = Attempts /\ Reclassifications' = Reclassifications
        BY <1>0, <2>2, <2>3, StatusEffect, CountsKept DEF SameWork, SameClass
    <2>5. Remaining = 1 /\ Remaining' = 0
        BY <2>1, <2>3 DEF Remaining
    <2> QED
        BY <1>0, <2>1, <2>3, <2>4, <2>5 DEF Accounts
  <1>12. CASE Aggregate
    <2>1. node = "aggregate" /\ node' = "aggregated" /\ UNCHANGED <<steps, active, need, total>>
        BY <1>12, AggregateKeeps DEF Aggregate
    <2>2. Attempts' = Attempts /\ Reclassifications' = Reclassifications
        BY <2>1 DEF Attempts, Reclassifications
    <2>3. Remaining = 0 /\ Remaining' = 0
        BY <2>1 DEF Remaining
    <2> QED
        BY <1>0, <2>1, <2>2, <2>3 DEF Accounts
  <1>13. CASE FailProvider \/ ExceedStepLimit
      BY <1>13 DEF FailProvider, ExceedStepLimit, Accounts
  <1> QED
      BY <1>1, <1>2, <1>3, <1>4, <1>5, <1>6, <1>7, <1>8, <1>9, <1>10, <1>11, <1>12, <1>13
         DEF Next

\* A query starts with nothing spent.
LEMMA AccountsInitially == Init => Accounts
  <1> SUFFICES ASSUME Init PROVE Accounts
      OBVIOUS
  <1>1. \A n \in Needs : need[n] = NewExecution
      BY DEF Init
  <1>2. ASSUME NEW f, \A n \in Needs : f[n] = 0
        PROVE  SumFunctionOnSet(f, Needs) = 0
      BY <1>2, NeedsFinite, SumOfZeros
  <1>3. Attempts = 0 /\ Reclassifications = 0
    <2> DEFINE a == [n \in Needs |-> need[n].attempts]
               r == [n \in Needs |-> need[n].reclass]
    <2>1. /\ Attempts = SumFunctionOnSet(a, Needs)
          /\ Reclassifications = SumFunctionOnSet(r, Needs)
        BY DEF Attempts, Reclassifications, SumFunction
    <2>2. (\A n \in Needs : a[n] = 0) /\ (\A n \in Needs : r[n] = 0)
        BY <1>1 DEF NewExecution
    <2> HIDE DEF a, r
    <2> QED
        BY <1>2, <2>1, <2>2
  <1>4. node = "select" /\ steps = 0 /\ total = 0 /\ active = 0 /\ Remaining = 0
      BY DEF Init, Remaining
  <1> QED
      BY <1>3, <1>4 DEF Accounts

\* Both accounts hold until a run is cut short.
LEMMA AccountsInvariant == Spec => []Accounts
  <1>1. GraphInv /\ Accounts /\ [Next]_vars => Accounts'
      BY AccountsStep
  <1> QED
      BY <1>1, GraphInvariant, AccountsInitially, PTL DEF Spec

\* No lookup goes uncounted or beyond the budget, and no node ever raises.
THEOREM BudgetsAreRespected == Spec => []BudgetsRespected
  <1>1. GraphInv /\ Accounts => BudgetsRespected
      BY DEF GraphInv, ControlInv, TypeOK, Accounts, BudgetsRespected
  <1> QED
      BY <1>1, GraphInvariant, AccountsInvariant, PTL

\* The steps of a run are those its needs, lookups and reclassifications cost.
THEOREM StepsAreAccounted == Spec => []StepsAccounted
  <1>1. Accounts => StepsAccounted
      BY DEF Accounts, StepsAccounted
  <1> QED
      BY <1>1, AccountsInvariant, PTL

-----------------------------------------------------------------------------
(* Resolved needs and the preference.                                      *)

\* A step changes one need that is not resolved, and no chunk that a need keeps
\* changes its rank.
LEMMA StepEffect ==
    ASSUME GraphInv, Next
    PROVE  /\ \/ need' = need
              \/ \E b \in Needs : ChangesOnly(b) /\ need[b].status \notin Resolved
           /\ \A n \in Needs : \A k \in need[n].keys \cap need'[n].keys : rank'[k] = rank[k]
  <1> DEFINE Goal ==
           /\ \/ need' = need
              \/ \E b \in Needs : ChangesOnly(b) /\ need[b].status \notin Resolved
           /\ \A n \in Needs : \A k \in need[n].keys \cap need'[n].keys : rank'[k] = rank[k]
  <1>0. TypeOK
      BY DEF GraphInv
  <1>1. ASSUME node \in Working PROVE active \in Needs /\ need[active].status \notin Resolved
      BY <1>1 DEF GraphInv, ControlInv, Resolved
  <1>2. CASE SelectNeed
    <2>1. active + 1 \in Needs /\ ChangesOnly(active + 1) /\ rank' = rank
        BY <1>0, <1>2, SelectEffect DEF SelectNeed, evidenceVars
    <2>2. need[active + 1] = NewExecution
        BY <1>0, <2>1 DEF GraphInv, ControlInv, WorkedInOrder, TypeOK
    <2> QED
        BY <2>1, <2>2 DEF NewExecution, Resolved
  <1>3. CASE FinishQueue \/ Aggregate \/ FailProvider \/ ExceedStepLimit
      BY <1>3 DEF FinishQueue, Aggregate, FailProvider, ExceedStepLimit, evidenceVars
  <1>4. CASE DetectPrimaryDocument
      BY <1>4, DetectEffect DEF evidenceVars
  <1>5. CASE Classify
    <2>1. node = "classify" /\ rank' = rank
        BY <1>5 DEF Classify, Enter, evidenceVars
    <2>2. active \in Needs /\ (need[active].classified => need[active].reclass < MaxReclass)
          /\ need[active].status \notin Resolved
        BY <1>1, <2>1 DEF GraphInv, ControlInv, Working, Nodes
    <2> QED
        BY <1>0, <1>5, <2>1, <2>2, ClassifyEffect
  <1>6. CASE PlanAttempt \/ StopPlanning
    <2>1. /\ node = "plan" /\ rank' = rank
          /\ \E r \in {"none", "exhausted"} : need' = [need EXCEPT ![active].route = r]
        BY <1>6 DEF PlanAttempt, StopPlanning, Enter, evidenceVars
    <2>2. active \in Needs /\ need[active].status \notin Resolved
        BY <1>1, <2>1 DEF Working, Nodes
    <2> QED
        BY <1>0, <2>1, <2>2, RouteEffect
  <1>7. CASE Execute
    <2>1. node = "execute"
        BY <1>7 DEF Execute, Enter
    <2>2. active \in Needs /\ need[active].status \notin Resolved
        BY <1>1, <2>1 DEF Working, Nodes
    <2>3. ChangesOnly(active) /\ \A k \in Chunks : rank[k] # 0 => rank'[k] = rank[k]
        BY <1>7, ExecuteEffect
    <2>4. \A n \in Needs : need[n].keys \subseteq InIndex(rank)
        BY DEF GraphInv, IndexInv, EvidenceAccounted
    <2> QED
        BY <2>2, <2>3, <2>4 DEF InIndex
  <1>8. CASE Validate
    <2>1. node = "validate"
        BY <1>8 DEF Validate, Enter
    <2>2. active \in Needs /\ need[active].status \notin Resolved
        BY <1>1, <2>1 DEF Working, Nodes
    <2>3. PICK kept \in SUBSET need[active].keys :
             Prune(active, kept) /\ need' = [need EXCEPT ![active].keys = kept]
        BY <1>8 DEF Validate
    <2>4. kept \in SUBSET Chunks
        BY <1>0, <2>2 DEF TypeOK, Executions
    <2>5. ChangesOnly(active) /\ need'[active].keys = kept
        BY <1>0, <2>2, <2>3, <2>4, KeysEffect
    <2>6. \A n \in Needs : \A k \in need'[n].keys : k \in Chunks /\ rank'[k] = rank[k]
        BY <1>0, <2>2, <2>3, <2>5, PruneEffect DEF GraphInv, IndexInv
    <2> QED
        BY <2>2, <2>5, <2>6
  <1>9. CASE Grade
    <2>1. /\ active \in Needs /\ need[active].status \notin Resolved
          /\ ChangesOnly(active) /\ need'[active].keys \in SUBSET need[active].keys
          /\ Prune(active, need'[active].keys)
        BY <1>9, GradedEffect DEF Resolved
    <2>2. \A n \in Needs : \A k \in need'[n].keys : k \in Chunks /\ rank'[k] = rank[k]
        BY <1>0, <2>1, PruneEffect DEF GraphInv, IndexInv
    <2> QED
        BY <2>1, <2>2
  <1>10. CASE Decide
      BY <1>10, DecideEffect DEF Decide, evidenceVars, Resolved
  <1>11. CASE Complete
    <2>1. node = "complete" /\ rank' = rank
        BY <1>11 DEF Complete, Enter, evidenceVars
    <2>2. active \in Needs /\ need[active].status \notin Resolved /\ need[active].route \in Resolved
        BY <1>1, <2>1 DEF GraphInv, ControlInv, Working, Nodes
    <2>3. need' = [need EXCEPT ![active].status = need[active].route]
        BY <1>11, <2>2 DEF Complete
    <2> QED
        BY <1>0, <2>1, <2>2, <2>3, StatusEffect
  <1> QED
      BY <1>2, <1>3, <1>4, <1>5, <1>6, <1>7, <1>8, <1>9, <1>10, <1>11 DEF Next

\* A resolved need is none of those that change.
LEMMA ResolvedStep ==
    ASSUME GraphInv, Next, NEW n \in Needs, need[n].status \in Resolved
    PROVE  need'[n] = need[n] /\ \A k \in need[n].keys : rank'[k] = rank[k]
  <1>1. need'[n] = need[n]
      BY StepEffect DEF ChangesOnly
  <1> QED
      BY <1>1, StepEffect

\* No later need disturbs a resolved one.
THEOREM ResolvedStaysFinal == Spec => ResolvedIsFinal
  <1> DEFINE Final == \A n \in Needs :
                        need[n].status \in Resolved =>
                            /\ need'[n] = need[n]
                            /\ \A k \in need[n].keys : rank'[k] = rank[k]
  <1>1. GraphInv /\ [Next]_vars => [Final]_vars
      BY ResolvedStep
  <1>2. ResolvedIsFinal <=> [][Final]_vars
      BY DEF ResolvedIsFinal
  <1> HIDE DEF Final
  <1> QED
      BY <1>1, <1>2, GraphInvariant, PTL DEF Spec

\* The witness of the preference is resolved, or about to be.
LEMMA PreferenceStep ==
    ASSUME GraphInv, PreferenceIsBacked, [Next]_vars
    PROVE  PreferenceIsBacked'
  <1> DEFINE After == {"complete", "select", "aggregate"} \cup Ends
             Backs(n, k) ==
                /\ n < active \/ node \in After
                /\ DocumentOf[k] = preference.document
                /\ k \in need[n].keys /\ rank[k] # 0
                /\ rank[k] \in need[n].grade.supporting
  <1>0. TypeOK /\ active \in Nat /\ NumNeeds \in Nat
      BY DEF GraphInv, TypeOK
  <1>1. CASE UNCHANGED vars
      BY <1>1 DEF vars, PreferenceIsBacked
  <1>2. CASE DetectPrimaryDocument /\ preference' # preference
    <2>1. PICK k \in need[active].keys :
             /\ k \in Chunks /\ rank[k] \in need[active].grade.supporting
             /\ preference'.document = DocumentOf[k]
        BY <1>2, DetectEffect
    <2>2. active \in Needs /\ node' = "complete" /\ UNCHANGED <<need, rank>>
        BY <1>2, DetectEffect DEF evidenceVars
    <2>3. rank[k] # 0
      <3>1. k \in InIndex(rank)
          BY <2>2 DEF GraphInv, IndexInv, EvidenceAccounted
      <3> QED
          BY <3>1 DEF InIndex
    <2> QED
        BY <2>1, <2>2, <2>3 DEF PreferenceIsBacked
  <1>3. CASE Next /\ preference' = preference
    <2> SUFFICES ASSUME preference # NoPreference
                 PROVE  \E n \in Needs, k \in Chunks : Backs(n, k)'
        BY <1>3 DEF PreferenceIsBacked
    <2>1. PICK n \in Needs, k \in Chunks : Backs(n, k)
        BY DEF PreferenceIsBacked
    <2>2. n \in Nat /\ ~ (n > active)
      <3>1. n > active => need[n].keys = {}
          BY DEF GraphInv, ControlInv, WorkedInOrder, NewExecution
      <3> QED
          BY <2>1, <3>1 DEF Needs
    <2>3. CASE need[n].status \in Resolved
      <3>1. need'[n] = need[n] /\ rank'[k] = rank[k]
          BY <1>3, <2>1, <2>3, ResolvedStep
      <3>2. n < active' \/ node' \in After
        <4>1. CASE n < active
          <5>1. active' \in {active, active + 1}
              BY <1>3 DEF Next, SelectNeed, FinishQueue, Classify, PlanAttempt, StopPlanning,
                          Execute, Validate, Grade, Decide, DetectPrimaryDocument, Complete,
                          Aggregate, FailProvider, ExceedStepLimit
          <5> QED
              BY <1>0, <2>2, <4>1, <5>1
        <4>2. CASE n = active
          <5>1. node \in After \ {"complete"}
            <6>1. node # "complete"
                BY <2>3, <4>2 DEF GraphInv, ControlInv, Working, Nodes, Resolved
            <6> QED
                BY <1>0, <2>1, <4>2, <6>1
          <5>2. SelectNeed \/ FinishQueue \/ Aggregate \/ ExceedStepLimit
              BY <1>3, <5>1 DEF Next, Classify, PlanAttempt, StopPlanning, Execute, Validate,
                 Grade, Decide, DetectPrimaryDocument, Complete, FailProvider, Enter, Ends
          <5>3. active' = active + 1 \/ node' \in {"aggregate", "aggregated", "raised", "exceeded"}
              BY <5>2 DEF SelectNeed, FinishQueue, Aggregate, ExceedStepLimit
          <5> QED
              BY <1>0, <4>2, <5>3 DEF Ends
        <4> QED
            BY <1>0, <2>2, <4>1, <4>2
      <3> QED
          BY <1>3, <2>1, <3>1, <3>2
    <2>4. CASE need[n].status \notin Resolved
      <3>1. n = active /\ node \in After
          BY <1>0, <2>1, <2>2, <2>4 DEF GraphInv, ControlInv, WorkedInOrder
      <3>2. CASE node = "complete"
        <4>1. Complete \/ ExceedStepLimit
            BY <1>3, <3>2 DEF Next, SelectNeed, FinishQueue, Classify, PlanAttempt, StopPlanning,
               Execute, Validate, Grade, Decide, DetectPrimaryDocument, FailProvider, Aggregate,
               Enter
        <4>2. CASE Complete
          <5>1. need[active].route \in Resolved
              BY <3>2 DEF GraphInv, ControlInv
          <5>2. /\ need' = [need EXCEPT ![active].status = need[active].route]
                /\ node' = "select" /\ rank' = rank
              BY <4>2, <5>1 DEF Complete, evidenceVars
          <5>3. SameWork(need'[active], need[active])
              BY <1>0, <3>1, <5>1, <5>2, StatusEffect
          <5> QED
              BY <1>3, <2>1, <3>1, <5>2, <5>3 DEF SameWork
        <4>3. CASE ExceedStepLimit
          <5>1. node' = "exceeded" /\ UNCHANGED <<need, rank>>
              BY <4>3 DEF ExceedStepLimit, evidenceVars
          <5> QED
              BY <1>3, <2>1, <5>1 DEF Ends
        <4> QED
            BY <4>1, <4>2, <4>3
      <3>3. CASE node # "complete"
        <4>1. node \in {"failed", "exceeded"}
            BY <2>4, <3>1, <3>3 DEF GraphInv, ControlInv, Ends
        <4> QED
            BY <1>3, <4>1 DEF Next, SelectNeed, FinishQueue, Classify, PlanAttempt, StopPlanning,
               Execute, Validate, Grade, Decide, DetectPrimaryDocument, Complete, FailProvider,
               Aggregate, ExceedStepLimit, Enter, Nodes
      <3> QED
          BY <3>2, <3>3
    <2> QED
        BY <2>3, <2>4
  <1>4. Next => DetectPrimaryDocument \/ preference' = preference
      BY DEF Next, SelectNeed, FinishQueue, Classify, PlanAttempt, StopPlanning, Execute, Validate,
         Grade, Decide, Complete, FailProvider, Aggregate, ExceedStepLimit
  <1> QED
      BY <1>1, <1>2, <1>3, <1>4

\* The preferred document keeps a supporting chunk in the index.
THEOREM PreferenceBacked == Spec => []PreferenceIsBacked
  <1>1. Init => PreferenceIsBacked
      BY DEF Init, PreferenceIsBacked
  <1>2. GraphInv /\ PreferenceIsBacked /\ [Next]_vars => PreferenceIsBacked'
      BY PreferenceStep
  <1> QED
      BY <1>1, <1>2, GraphInvariant, PTL DEF Spec

-----------------------------------------------------------------------------
(* The report.                                                             *)

\* The nodes that neither resolve nor grade a need.
LEMMA WorkEffect ==
    ASSUME GraphInv, Classify \/ PlanAttempt \/ StopPlanning \/ Execute \/ Validate \/ Decide
    PROVE  /\ node \in Working /\ node' \in Nodes /\ active \in Needs /\ ChangesOnly(active)
           /\ need'[active].status = need[active].status
           /\ need'[active].attempts = need[active].attempts
           /\ need'[active].grade = need[active].grade
  <1>0. TypeOK
      BY DEF GraphInv
  <1>1. ASSUME node \in Working PROVE active \in Needs /\ need[active] \in Executions
      BY <1>0, <1>1, ActiveTyped DEF GraphInv
  <1>2. CASE Classify
    <2>1. node = "classify" /\ node' = "plan"
        BY <1>2 DEF Classify, Enter
    <2>2. active \in Needs /\ (need[active].classified => need[active].reclass < MaxReclass)
        BY <2>1 DEF GraphInv, ControlInv, Working, Nodes
    <2> QED
        BY <1>0, <1>2, <2>1, <2>2, ClassifyEffect DEF Working, Nodes, SameWork
  <1>3. CASE PlanAttempt \/ StopPlanning
    <2>1. /\ node = "plan" /\ node' \in {"execute", "complete"}
          /\ \E r \in {"none", "exhausted"} : need' = [need EXCEPT ![active].route = r]
        BY <1>3 DEF PlanAttempt, StopPlanning, Enter
    <2>2. active \in Needs
        BY <1>1, <2>1 DEF Working, Nodes
    <2> QED
        BY <1>0, <2>1, <2>2, RouteEffect DEF Working, Nodes, SameWork
  <1>4. CASE Execute
    <2>1. node = "execute"
        BY <1>4 DEF Execute, Enter
    <2>2. active \in Needs
        BY <1>1, <2>1 DEF Working, Nodes
    <2> QED
        BY <1>4, <2>1, <2>2, ExecuteEffect DEF Working, Nodes
  <1>5. CASE Validate
    <2>1. /\ node = "validate" /\ node' = "grade"
          /\ \E kept \in SUBSET need[active].keys : need' = [need EXCEPT ![active].keys = kept]
        BY <1>5 DEF Validate, Enter
    <2>2. active \in Needs /\ need[active].keys \subseteq Chunks
        BY <1>1, <2>1 DEF Working, Nodes, Executions
    <2>3. PICK kept \in SUBSET Chunks : need' = [need EXCEPT ![active].keys = kept]
        BY <2>1, <2>2
    <2> QED
        BY <1>0, <2>1, <2>2, <2>3, KeysEffect DEF Working, Nodes
  <1>6. CASE Decide
    <2>1. node = "decide"
        BY <1>6 DEF Decide, Enter
    <2> QED
        BY <1>6, <2>1, DecideEffect DEF Working, Nodes, SameWork
  <1> QED
      BY <1>2, <1>3, <1>4, <1>5, <1>6

IsSupported(n) == need[n].grade.support = "supported"

\* A completed need carries the status its last grade deserves.
Settled(n) == need[n].status = "supported" <=> IsSupported(n)

\* The active need is not supported until the decision finds that it is.
SupportInv ==
    /\ node \in {"select", "aggregate", "aggregated"} /\ active \in Needs => Settled(active)
    /\ node \in {"classify", "plan", "execute", "validate", "grade"} => ~ IsSupported(active)
    /\ node \in {"detect", "complete"} =>
          (need[active].route = "supported" <=> IsSupported(active))
    /\ \A n \in Needs :
          /\ n < active => Settled(n)
          /\ IsSupported(n) => need[n].grade.supporting # {}

ReportInv == SupportInv /\ ReportIsSound

\* A node that grades nothing and resolves nothing.
LEMMA SupportKept ==
    ASSUME GraphInv, SupportInv, active' = active, node \in Working, NEW to, node' = to,
           ChangesOnly(active), need'[active].grade = need[active].grade,
           to \in Nodes \ {"select", "aggregate"},
           to \in {"classify", "plan", "execute", "validate", "grade"} => ~ IsSupported(active),
           to \in {"detect", "complete"} =>
              (need'[active].route = "supported" <=> IsSupported(active))
    PROVE  SupportInv'
  <1>1. active \in Needs /\ active \in Nat
      BY DEF ChangesOnly, GraphInv, TypeOK
  <1>2. IsSupported(active)' <=> IsSupported(active)
      BY DEF IsSupported
  <1>3. ASSUME NEW n \in Needs
        PROVE  /\ n < active => Settled(n)'
               /\ IsSupported(n)' => need'[n].grade.supporting # {}
    <2>1. CASE n = active
        BY <1>1, <2>1 DEF SupportInv, IsSupported
    <2>2. CASE n # active
        BY <2>2 DEF SupportInv, ChangesOnly, Settled, IsSupported
    <2> QED
        BY <2>1, <2>2
  <1> QED
      BY <1>2, <1>3 DEF SupportInv, Nodes

\* Every node keeps SupportInv.
LEMMA SupportStep ==
    ASSUME GraphInv, SupportInv, [Next]_vars
    PROVE  SupportInv'
  <1>0. TypeOK /\ active \in Nat
      BY DEF GraphInv, TypeOK
  <1>1. CASE UNCHANGED vars
      BY <1>1 DEF vars, SupportInv, Settled, IsSupported
  <1>2. CASE SelectNeed
    <2>1. PICK b \in Needs : b = active + 1
        BY <1>0, <1>2, SelectEffect
    <2>2. /\ node = "select" /\ node' = "classify" /\ active' = b /\ ChangesOnly(b)
          /\ need'[b].grade = need[b].grade
        BY <1>0, <1>2, <2>1, SelectEffect DEF SelectNeed, Enter, SameWork
    <2>3. need[b] = NewExecution
        BY <1>0, <2>1 DEF GraphInv, ControlInv, WorkedInOrder
    <2>4. ~ IsSupported(b)'
        BY <2>2, <2>3 DEF IsSupported, NewExecution, Ungraded
    <2>5. ASSUME NEW n \in Needs
          PROVE  /\ n < b => Settled(n)'
                 /\ IsSupported(n)' => need'[n].grade.supporting # {}
      <3>1. CASE n = b
          BY <2>1, <2>4, <3>1 DEF Needs
      <3>2. CASE n # b
        <4>1. need'[n] = need[n] /\ (n < b => n < active \/ n = active)
            BY <1>0, <2>1, <2>2, <3>2 DEF ChangesOnly, Needs
        <4>2. n = active => Settled(n)
            BY <2>2 DEF SupportInv
        <4> QED
            BY <4>1, <4>2 DEF SupportInv, Settled, IsSupported
      <3> QED
          BY <3>1, <3>2
    <2> QED
        BY <2>2, <2>4, <2>5 DEF SupportInv
  <1>3. CASE Classify \/ PlanAttempt \/ Execute \/ Validate
    <2>1. /\ active' = active /\ node' \in {"plan", "execute", "validate", "grade", "raised"}
          /\ node \in {"classify", "plan", "execute", "validate"}
        BY <1>3 DEF Classify, PlanAttempt, Execute, Validate, Enter
    <2>2. ~ IsSupported(active)
        BY <2>1 DEF SupportInv
    <2> QED
        BY <1>3, <2>1, <2>2, WorkEffect, SupportKept DEF Nodes
  <1>4. CASE StopPlanning
    <2>1. /\ active' = active /\ node = "plan" /\ node' = "complete" /\ active \in Needs
        BY <1>4, WorkEffect DEF StopPlanning, Enter
    <2>2. need'[active].route = "exhausted"
        BY <1>0, <1>4, <2>1, RouteEffect DEF StopPlanning
    <2>3. ~ IsSupported(active)
        BY <2>1 DEF SupportInv
    <2> QED
        BY <1>4, <2>1, <2>2, <2>3, WorkEffect, SupportKept DEF Nodes
  <1>5. CASE Decide
    <2>1. active' = active /\ node' \in {"plan", "classify", "detect"}
        BY <1>5, DecideEffect DEF Decide
    <2> QED
        BY <1>5, <2>1, DecideEffect, WorkEffect, SupportKept DEF Nodes, IsSupported
  <1>6. CASE Grade
    <2>1. /\ active' = active /\ node' = "decide" /\ active \in Needs /\ ChangesOnly(active)
          /\ need'[active].grade.support = "supported" => need'[active].grade.supporting # {}
        BY <1>6, GradedEffect DEF Grade
    <2>2. ASSUME NEW n \in Needs
          PROVE  /\ n < active => Settled(n)'
                 /\ IsSupported(n)' => need'[n].grade.supporting # {}
      <3>1. CASE n = active
          BY <1>0, <2>1, <3>1 DEF IsSupported
      <3>2. CASE n # active
          BY <2>1, <3>2 DEF SupportInv, ChangesOnly, Settled, IsSupported
      <3> QED
          BY <3>1, <3>2
    <2> QED
        BY <2>1, <2>2 DEF SupportInv
  <1>7. CASE Complete
    <2>1. node = "complete" /\ active' = active
        BY <1>7 DEF Complete, Enter
    <2>2. /\ active \in Needs /\ need[active].route \in Resolved
          /\ need[active].route = "supported" <=> IsSupported(active)
        BY <2>1 DEF GraphInv, ControlInv, Working, Nodes, SupportInv
    <2>3. node' = "select" /\ need' = [need EXCEPT ![active].status = need[active].route]
        BY <1>7, <2>2 DEF Complete
    <2>4. /\ ChangesOnly(active) /\ need'[active].status = need[active].route
          /\ need'[active].grade = need[active].grade
        BY <1>0, <2>2, <2>3, StatusEffect DEF SameWork
    <2>5. Settled(active)'
        BY <2>1, <2>2, <2>4 DEF Settled, IsSupported
    <2>6. ASSUME NEW n \in Needs
          PROVE  /\ n < active => Settled(n)'
                 /\ IsSupported(n)' => need'[n].grade.supporting # {}
      <3>1. CASE n = active
          BY <2>4, <2>5, <3>1, <2>1 DEF IsSupported, SupportInv
      <3>2. CASE n # active
          BY <2>4, <3>2 DEF SupportInv, ChangesOnly, Settled, IsSupported
      <3> QED
          BY <3>1, <3>2
    <2> QED
        BY <2>1, <2>3, <2>5, <2>6 DEF SupportInv
  <1>8. CASE DetectPrimaryDocument
    <2>1. node = "detect" /\ node' = "complete" /\ UNCHANGED <<need, active>>
        BY <1>8, DetectEffect
    <2> QED
        BY <2>1 DEF SupportInv, Settled, IsSupported
  <1>9. CASE FinishQueue \/ Aggregate
    <2>1. /\ UNCHANGED <<need, active>>
          /\ \/ node = "select" /\ node' = "aggregate"
             \/ node = "aggregate" /\ node' = "aggregated"
        BY <1>9, AggregateKeeps DEF FinishQueue, Aggregate, Enter
    <2> QED
        BY <2>1 DEF SupportInv, Settled, IsSupported
  <1>10. CASE FailProvider \/ ExceedStepLimit
    <2>1. UNCHANGED <<need, active>> /\ node' \in {"failed", "exceeded"}
        BY <1>10 DEF FailProvider, ExceedStepLimit
    <2> QED
        BY <2>1 DEF SupportInv, Settled, IsSupported
  <1> QED
      BY <1>1, <1>2, <1>3, <1>4, <1>5, <1>6, <1>7, <1>8, <1>9, <1>10 DEF Next

\* The report is computed once, from gradings that agree with the statuses.
LEMMA ReportStep ==
    ASSUME GraphInv, ReportInv, [Next]_vars
    PROVE  ReportInv'
  <1>0. SupportInv /\ ReportIsSound /\ TypeOK /\ active \in Nat /\ NumNeeds \in Nat
      BY DEF ReportInv, GraphInv, TypeOK
  <1>1. CASE node' # "aggregated"
      BY <1>0, <1>1, SupportStep DEF ReportInv, ReportIsSound
  <1>2. CASE UNCHANGED vars
      BY <1>0, <1>2, SupportStep DEF vars, ReportInv, ReportIsSound
  <1>3. CASE Aggregate
    <2>1. UNCHANGED <<need, active, rank>> /\ node = "aggregate" /\ active = NumNeeds
        BY <1>3 DEF Aggregate, GraphInv, ControlInv, evidenceVars
    <2>2. ASSUME NEW n \in Needs PROVE Settled(n)
      <3>1. n < active \/ n = active
          BY <1>0, <2>1 DEF Needs
      <3> QED
          BY <1>0, <2>1, <3>1 DEF SupportInv
    <2>3. /\ \A n \in Needs : Approved(n) \subseteq RanksOf(InIndex(rank))
          /\ report' = IF AggregatedEvidence = {} THEN "missing"
                       ELSE IF AllSupported THEN "sufficient" ELSE "weak"
        BY <1>3, AggregateKeeps DEF Aggregate
    <2>4. ASSUME AllSupported PROVE AggregatedEvidence # {}
      <3>1. 1 \in Needs /\ IsSupported(1)
          BY <1>0, <2>4 DEF AllSupported, IsSupported, Needs
      <3>2. PICK r \in Approved(1) : TRUE
          BY <1>0, <3>1 DEF SupportInv, Approved
      <3>3. PICK k \in InIndex(rank) : rank[k] = r
          BY <2>3, <3>1, <3>2 DEF RanksOf
      <3> QED
          BY <3>1, <3>2, <3>3 DEF AggregatedEvidence
    <2>5. report' = "sufficient" <=> AllSupported
        BY <2>3, <2>4
    <2>6. ReportIsSound'
        BY <2>1, <2>2, <2>5 DEF ReportIsSound, Settled, IsSupported, AllSupported
    <2> QED
        BY <1>0, <2>6, SupportStep DEF ReportInv
  <1>4. Next => Aggregate \/ node' # "aggregated"
    <2>1. Decide => node' # "aggregated"
        BY DecideEffect
    <2> QED
        BY <2>1 DEF Next, SelectNeed, FinishQueue, Classify, PlanAttempt, StopPlanning, Execute,
           Validate, Grade, DetectPrimaryDocument, Complete, FailProvider, ExceedStepLimit
  <1> QED
      BY <1>1, <1>2, <1>3, <1>4

\* Nothing is supported at first.
LEMMA ReportInitially == Init => ReportInv
  <1> SUFFICES ASSUME Init PROVE ReportInv
      OBVIOUS
  <1>1. \A n \in Needs : ~ IsSupported(n)
      BY DEF Init, NewExecution, Ungraded, IsSupported
  <1> QED
      BY <1>1 DEF Init, ReportInv, SupportInv, ReportIsSound, Needs

\* The query reports complete evidence exactly when every need was completed as
\* supported, for every budget and whatever the models answer.
THEOREM ReportSound == Spec => []ReportIsSound
  <1>1. GraphInv /\ ReportInv /\ [Next]_vars => ReportInv'
      BY ReportStep
  <1>2. ReportInv => ReportIsSound
      BY DEF ReportInv
  <1> QED
      BY <1>1, <1>2, ReportInitially, GraphInvariant, PTL DEF Spec

-----------------------------------------------------------------------------
(* The abstract queue.                                                     *)

\* The queue's variables.
Statuses == [n \in Needs |-> need[n].status]
AttemptsOf == [n \in Needs |-> need[n].attempts]
Outcome == CASE node \in Nodes -> "running"
             [] node = "aggregated" ->
                   IF report = "sufficient" THEN "complete" ELSE "partial"
             [] OTHER -> "aborted"

\* Item i of the queue changes when the execution of need i does.
LEMMA StatusesChange ==
    ASSUME TypeOK, NEW b \in Needs, ChangesOnly(b)
    PROVE  /\ Statuses' = [Statuses EXCEPT ![b] = need'[b].status]
           /\ AttemptsOf' = [AttemptsOf EXCEPT ![b] = need'[b].attempts]
           /\ need'[b].status = need[b].status => Statuses' = Statuses
           /\ need'[b].attempts = need[b].attempts => AttemptsOf' = AttemptsOf
  BY DEF Statuses, AttemptsOf, ChangesOnly

\* The queue's actions, in terms of the graph.
LEMMA QueueUnfolds ==
    /\ Queue!vars = <<Statuses, AttemptsOf, Outcome>>
    /\ Queue!AttemptsMade = Attempts
    /\ \A i : Queue!Activate(i) <=>
          /\ Statuses[i] = "pending"
          /\ \A j \in 1..(i - 1) : Statuses[j] \in Resolved
          /\ Statuses' = [Statuses EXCEPT ![i] = "active"]
          /\ AttemptsOf' = AttemptsOf /\ Outcome' = Outcome
    /\ \A i : Queue!Attempt(i) <=>
          /\ Statuses[i] = "active"
          /\ AttemptsOf[i] < MaxAttempts
          /\ Attempts < MaxTotal
          /\ AttemptsOf' = [AttemptsOf EXCEPT ![i] = @ + 1]
          /\ Statuses' = Statuses /\ Outcome' = Outcome
    /\ \A i, as : Queue!Resolve(i, as) <=>
          /\ Statuses[i] = "active"
          /\ as = "supported" => AttemptsOf[i] > 0
          /\ Statuses' = [Statuses EXCEPT ![i] = as]
          /\ AttemptsOf' = AttemptsOf /\ Outcome' = Outcome
    /\ Queue!Finish <=>
          /\ \A i \in Needs : Statuses[i] \in Resolved
          /\ Outcome' = IF \A i \in Needs : Statuses[i] = "supported"
                        THEN "complete" ELSE "partial"
          /\ Statuses' = Statuses /\ AttemptsOf' = AttemptsOf
    /\ Queue!Abort <=>
          /\ Outcome' = "aborted"
          /\ Statuses' = Statuses /\ AttemptsOf' = AttemptsOf
    /\ Queue!Next <=>
          /\ Outcome = "running"
          /\ \/ \E i \in Needs :
                   \/ Queue!Activate(i) \/ Queue!Attempt(i)
                   \/ \E as \in Resolved : Queue!Resolve(i, as)
             \/ Queue!Finish
             \/ Queue!Abort
  <1> USE DEF Statuses, AttemptsOf, Outcome
  <1>1. Queue!vars = <<Statuses, AttemptsOf, Outcome>>
      BY DEF Queue!vars
  <1>2. Queue!AttemptsMade = Attempts
      BY DEF Queue!AttemptsMade, Attempts, Queue!SumFunction, SumFunction, Queue!SumFunctionOnSet,
         SumFunctionOnSet, Queue!FoldFunctionOnSet, FoldFunctionOnSet,
         Queue!MapThenFoldSet, MapThenFoldSet
  <1>3. Queue!Resolved = Resolved /\ Queue!Items = Needs
      BY DEF Queue!Resolved, Resolved, Queue!Items, Needs
  <1>4. ASSUME NEW i PROVE Queue!Activate(i) <=>
          /\ Statuses[i] = "pending"
          /\ \A j \in 1..(i - 1) : Statuses[j] \in Resolved
          /\ Statuses' = [Statuses EXCEPT ![i] = "active"]
          /\ AttemptsOf' = AttemptsOf /\ Outcome' = Outcome
      BY <1>3 DEF Queue!Activate
  <1>5. ASSUME NEW i PROVE Queue!Attempt(i) <=>
          /\ Statuses[i] = "active"
          /\ AttemptsOf[i] < MaxAttempts
          /\ Attempts < MaxTotal
          /\ AttemptsOf' = [AttemptsOf EXCEPT ![i] = @ + 1]
          /\ Statuses' = Statuses /\ Outcome' = Outcome
      BY <1>2 DEF Queue!Attempt
  <1>6. ASSUME NEW i, NEW as PROVE Queue!Resolve(i, as) <=>
          /\ Statuses[i] = "active"
          /\ as = "supported" => AttemptsOf[i] > 0
          /\ Statuses' = [Statuses EXCEPT ![i] = as]
          /\ AttemptsOf' = AttemptsOf /\ Outcome' = Outcome
      BY DEF Queue!Resolve
  <1>7. Queue!Finish <=>
          /\ \A i \in Needs : Statuses[i] \in Resolved
          /\ Outcome' = IF \A i \in Needs : Statuses[i] = "supported"
                        THEN "complete" ELSE "partial"
          /\ Statuses' = Statuses /\ AttemptsOf' = AttemptsOf
      BY <1>3 DEF Queue!Finish
  <1>8. Queue!Abort <=>
          /\ Outcome' = "aborted"
          /\ Statuses' = Statuses /\ AttemptsOf' = AttemptsOf
      BY DEF Queue!Abort
  <1>9. Queue!Next <=>
          /\ Outcome = "running"
          /\ \/ \E i \in Needs :
                   \/ Queue!Activate(i) \/ Queue!Attempt(i)
                   \/ \E as \in Resolved : Queue!Resolve(i, as)
             \/ Queue!Finish
             \/ Queue!Abort
      BY <1>3 DEF Queue!Next
  <1> HIDE DEF Statuses, AttemptsOf, Outcome
  <1> QED
      BY <1>1, <1>2, <1>4, <1>5, <1>6, <1>7, <1>8, <1>9

\* Every node is a step of the queue, or none.
LEMMA QueueStep ==
    ASSUME GraphInv, Accounts, ReportIsSound', [Next]_vars
    PROVE  [Queue!Next]_(Queue!vars)
  <1> DEFINE Stutters == Statuses' = Statuses /\ AttemptsOf' = AttemptsOf /\ Outcome' = Outcome
  <1>0. /\ TypeOK /\ active \in Nat /\ NumNeeds \in Nat /\ total \in Nat /\ MaxTotal \in Nat
        /\ total <= MaxTotal /\ Attempts \in Nat
      BY CountsTyped DEF GraphInv, TypeOK
  <1>1. ASSUME Stutters PROVE [Queue!Next]_(Queue!vars)
      BY <1>1 DEF Queue!vars, Statuses, AttemptsOf, Outcome
  <1>2. ASSUME node \in Nodes PROVE Outcome = "running"
      BY <1>2 DEF Outcome, Nodes
  <1>3. ASSUME node \in Nodes, node' \in Nodes PROVE Outcome' = Outcome
      BY <1>3 DEF Outcome, Nodes
  <1>4. ASSUME need' = need PROVE Statuses' = Statuses /\ AttemptsOf' = AttemptsOf
      BY <1>4 DEF Statuses, AttemptsOf
  <1>5. ASSUME node \in Nodes, NEW i \in Needs,
               Queue!Activate(i) \/ Queue!Attempt(i) \/ \E as \in Resolved : Queue!Resolve(i, as)
        PROVE  Queue!Next
      BY <1>2, <1>5, QueueUnfolds
  <1>6. CASE UNCHANGED vars
      BY <1>1, <1>6 DEF vars, Statuses, AttemptsOf, Outcome
  <1>7. CASE SelectNeed
    <2>0. PICK b \in Needs : b = active + 1
        BY <1>0, <1>7, SelectEffect
    <2>1. /\ node = "select" /\ node \in Nodes /\ node' \in Nodes
          /\ b \in Needs /\ ChangesOnly(b) /\ need'[b].status = "active"
          /\ need'[b].attempts = need[b].attempts
        BY <1>0, <1>7, <2>0, SelectEffect DEF SelectNeed, Enter, Nodes, SameWork
    <2>2. Statuses[b] = "pending"
        BY <1>0, <2>0, <2>1 DEF GraphInv, ControlInv, WorkedInOrder, NewExecution, Statuses
    <2>3. ASSUME NEW j \in 1..(b - 1) PROVE Statuses[j] \in Resolved
      <3>1. j \in Needs /\ (j < active \/ j = active)
          BY <1>0, <2>0 DEF Needs
      <3>2. need[j].status \in Resolved
          BY <2>1, <3>1 DEF GraphInv, ControlInv, WorkedInOrder
      <3> QED
          BY <3>1, <3>2 DEF Statuses
    <2>4. Statuses' = [Statuses EXCEPT ![b] = "active"] /\ AttemptsOf' = AttemptsOf
        BY <1>0, <2>1, StatusesChange
    <2>5. Outcome' = Outcome
        BY <1>3, <2>1
    <2>6. Queue!Activate(b)
        BY <2>2, <2>3, <2>4, <2>5, QueueUnfolds
    <2> QED
        BY <1>5, <2>1, <2>6
  <1>8. CASE Classify \/ PlanAttempt \/ StopPlanning \/ Execute \/ Validate \/ Decide
    <2>1. /\ node \in Nodes /\ node' \in Nodes /\ ChangesOnly(active) /\ active \in Needs
          /\ need'[active].status = need[active].status
          /\ need'[active].attempts = need[active].attempts
        BY <1>8, WorkEffect DEF Working
    <2> QED
        BY <1>0, <1>1, <1>3, <2>1, StatusesChange
  <1>9. CASE FinishQueue \/ DetectPrimaryDocument
    <2>1. need' = need /\ node \in Nodes /\ node' \in Nodes
        BY <1>9, DetectEffect DEF FinishQueue, Enter, Nodes
    <2> QED
        BY <1>1, <1>3, <1>4, <2>1
  <1>10. CASE Grade
    <2>1. /\ node = "grade" /\ node \in Nodes /\ node' \in Nodes
        BY <1>10 DEF Grade, Enter, Nodes
    <2>2. /\ active \in Needs /\ ChangesOnly(active)
          /\ need[active].status = "active" /\ need[active].attempts < MaxAttempts
          /\ need'[active].attempts = need[active].attempts + 1
          /\ need'[active].status = need[active].status
        BY <1>10, GradedEffect
    <2>3. Attempts < MaxTotal
        BY <1>0, <2>1 DEF Accounts
    <2>4. /\ Statuses' = Statuses /\ AttemptsOf' = [AttemptsOf EXCEPT ![active] = @ + 1]
      <3>1. AttemptsOf[active] + 1 = need'[active].attempts
          BY <2>2 DEF AttemptsOf
      <3> QED
          BY <1>0, <2>2, <3>1, StatusesChange
    <2>5. Statuses[active] = "active" /\ AttemptsOf[active] < MaxAttempts
        BY <2>2 DEF Statuses, AttemptsOf
    <2>6. PICK b \in Needs : b = active
        BY <2>2
    <2>7. Queue!Attempt(b)
        BY <1>3, <2>1, <2>3, <2>4, <2>5, <2>6, QueueUnfolds
    <2> QED
        BY <1>5, <2>1, <2>7
  <1>11. CASE Complete
    <2>1. node = "complete" /\ node \in Nodes
        BY <1>11 DEF Complete, Enter, Nodes
    <2>2. /\ active \in Needs /\ need[active].status = "active" /\ need[active].route \in Resolved
          /\ need[active].route = "supported" => need[active].attempts > 0
        BY <2>1 DEF GraphInv, ControlInv, Working
    <2>3. /\ need' = [need EXCEPT ![active].status = need[active].route]
          /\ node' \in Nodes
        BY <1>11, <2>2 DEF Complete, Nodes
    <2>4. /\ ChangesOnly(active) /\ need'[active].status = need[active].route
          /\ need'[active].attempts = need[active].attempts
        BY <1>0, <2>2, <2>3, StatusEffect DEF SameWork
    <2>5. Statuses' = [Statuses EXCEPT ![active] = need[active].route] /\ AttemptsOf' = AttemptsOf
        BY <1>0, <2>2, <2>4, StatusesChange
    <2>6. Statuses[active] = "active" /\ AttemptsOf[active] = need[active].attempts
        BY <2>2 DEF Statuses, AttemptsOf
    <2>7. PICK b \in Needs, as \in Resolved : b = active /\ as = need[active].route
        BY <2>2
    <2>8. Queue!Resolve(b, as)
        BY <1>3, <2>1, <2>2, <2>3, <2>5, <2>6, <2>7, QueueUnfolds
    <2> QED
        BY <1>5, <2>1, <2>8
  <1>12. CASE Aggregate
    <2>1. need' = need /\ node = "aggregate" /\ node \in Nodes /\ node' = "aggregated"
        BY <1>12, AggregateKeeps DEF Aggregate, Nodes
    <2>2. \A n \in Needs : need[n].status \in Resolved
      <3>1. \A n \in Needs : n < active \/ n = active
          BY <1>0, <2>1 DEF GraphInv, ControlInv, Needs
      <3> QED
          BY <2>1, <3>1 DEF GraphInv, ControlInv, WorkedInOrder
    <2>3. report' = "sufficient" <=> \A n \in Needs : need[n].status = "supported"
        BY <2>1 DEF ReportIsSound
    <2>4. Outcome' = IF \A n \in Needs : Statuses[n] = "supported"
                     THEN "complete" ELSE "partial"
      <3>1. Outcome' = IF report' = "sufficient" THEN "complete" ELSE "partial"
          BY <2>1 DEF Outcome, Nodes
      <3> QED
          BY <2>3, <3>1 DEF Statuses
    <2>5. \A i \in Needs : Statuses[i] \in Resolved
        BY <2>2 DEF Statuses
    <2>6. Queue!Finish
        BY <1>4, <2>1, <2>4, <2>5, QueueUnfolds
    <2> QED
        BY <1>2, <2>1, <2>6, QueueUnfolds
  <1>13. CASE FailProvider \/ ExceedStepLimit
    <2>1. need' = need /\ node \in Nodes /\ node' \in {"failed", "exceeded"}
        BY <1>13 DEF FailProvider, ExceedStepLimit, Enter, Nodes
    <2>2. Outcome' = "aborted"
        BY <2>1 DEF Outcome, Nodes
    <2>3. Queue!Abort
        BY <1>4, <2>1, <2>2, QueueUnfolds
    <2> QED
        BY <1>2, <2>1, <2>3, QueueUnfolds
  <1> QED
      BY <1>6, <1>7, <1>8, <1>9, <1>10, <1>11, <1>12, <1>13 DEF Next

\* A query starts as an unworked queue.
LEMMA QueueInitially == Init => Queue!Init
  <1> SUFFICES ASSUME Init PROVE Queue!Init
      OBVIOUS
  <1>1. \A n \in Needs : need[n].status = "pending" /\ need[n].attempts = 0
      BY DEF Init, NewExecution
  <1>2. node \in Nodes
      BY DEF Init, Nodes
  <1> QED
      BY <1>1, <1>2 DEF Queue!Init, Queue!Items, Needs, Nodes

\* The graph is the bounded work queue it is documented to be.
THEOREM GraphIsAQueue == Spec => Queue!Spec
  <1>1. GraphInv /\ Accounts /\ ReportIsSound' /\ [Next]_vars => [Queue!Next]_(Queue!vars)
      BY QueueStep
  <1> QED
      BY <1>1, QueueInitially, GraphInvariant, AccountsInvariant, ReportSound, PTL
         DEF Spec, Queue!Spec
=============================================================================
