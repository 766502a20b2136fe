----------------------- MODULE ContextualizationProofs -----------------------
(***************************************************************************)
(* The properties of Contextualization for documents of any size, any      *)
(* features and any limits.                                                *)
(*                                                                         *)
(* RequestsBounded is not inductive: that two of the three gathers may     *)
(* overlap but not all of them follows from which of them a phase has seen *)
(* begin and end.  CallsInv keeps that history; how many tasks a gather    *)
(* starts with does not matter to it.  FailuresInv keeps, for              *)
(* FailuresStayLocal and FailOpenNeverBlocks, what each phase has          *)
(* produced.                                                               *)
(*                                                                         *)
(* DocumentIsCovered and NeighborsFillTheirBudget are about what a         *)
(* behaviour starts with and never changes: they are results about         *)
(* chunk_document, cluster_chunk_embeddings and _select_bounded_neighbors. *)
(* The first two are defined by recursion, along the text that is left and *)
(* along the chunks that have no group yet.                                *)
(***************************************************************************)
EXTENDS Contextualization, DataTheorems, SequenceTheorems

TasksShaped ==
    /\ DOMAIN tasks = Gathers
    /\ \A g \in Gathers :
          /\ tasks[g] = [waiting |-> tasks[g].waiting, calling |-> tasks[g].calling]
          /\ tasks[g].calling \in 0..MaxConcurrency

\* What has not begun, and what has been awaited to its end.
PhasesApart ==
    /\ pc \in {"parsed", "build", "buildSummary"} =>
          tasks["rebuild"] = Idle /\ tasks["contexts"] = Idle
    /\ pc \in {"parsed", "buildSummary"} => tasks["build"] = Idle
    /\ pc \in {"rebuild", "rebuildSummary"} => tasks["contexts"] = Idle
    /\ pc = "rebuildSummary" => tasks["rebuild"] = Idle
    /\ tasks["rebuild"] = Idle \/ tasks["contexts"] = Idle

\* A hierarchy that was built left no request behind, one that was abandoned
\* is rebuilt only if the contextualization may fail open.
BuildsApart ==
    /\ hierarchy = "built" =>
          /\ tasks["build"] = Idle /\ tasks["rebuild"] = Idle
          /\ pc \notin {"parsed", "build", "buildSummary", "rebuild", "rebuildSummary"}
    /\ pc \in {"rebuild", "rebuildSummary"} \/ tasks["rebuild"] # Idle =>
          config.contextualization = "failOpen"
    /\ tasks["contexts"] # Idle /\ tasks["build"] # Idle =>
          config.contextualization = "failOpen"
    /\ pc = "contexts" /\ tasks["build"] # Idle => config.contextualization = "failOpen"

CallsInv ==
    /\ config \in [contextualization : Modes, hierarchy : Modes]
    /\ pc \in {"parsed", "chunks", "summaries"} \cup Gathers \cup Summaries \cup Ended
    /\ TasksShaped
    /\ PhasesApart
    /\ BuildsApart

-----------------------------------------------------------------------------
\* The invariant is as strong as the bound: of a gather and the other one that
\* may overlap it, each has at most max_concurrency requests.
LEMMA CallsInvBounds == CallsInv => RequestsBounded
  <1> SUFFICES ASSUME CallsInv PROVE RequestsBounded
      OBVIOUS
  <1> USE ContextualizationAssumption
  <1> DEFINE b == tasks["build"].calling
             r == tasks["rebuild"].calling
             c == tasks["contexts"].calling
  <1>1. b \in 0..MaxConcurrency /\ r \in 0..MaxConcurrency /\ c \in 0..MaxConcurrency
      BY DEF CallsInv, TasksShaped, Gathers, Builds
  <1>2. /\ tasks["build"] = Idle => b = 0
        /\ tasks["rebuild"] = Idle => r = 0
        /\ tasks["contexts"] = Idle => c = 0
      BY DEF Idle
  <1> HIDE DEF b, r, c
  <1>3. CASE pc \in Summaries
    <2>1. r = 0 /\ c = 0 /\ Calling = b + 1
        BY <1>1, <1>2, <1>3 DEF CallsInv, PhasesApart, Summaries, Calling, b, r, c
    <2>2. pc = "buildSummary" => b = 0
        BY <1>2 DEF CallsInv, PhasesApart
    <2>3. pc = "rebuildSummary" =>
              config.contextualization = "failOpen" /\ hierarchy # "built"
        BY DEF CallsInv, BuildsApart
    <2> QED
        BY <1>1, <1>3, <2>1, <2>2, <2>3 DEF RequestsBounded, Summaries
  <1>4. CASE pc \notin Summaries
    <2>1. Calling = b + r + c
        BY <1>1, <1>4 DEF Calling, b, r, c
    <2>2. r = 0 \/ c = 0
        BY <1>2 DEF CallsInv, PhasesApart
    <2>3. r > 0 \/ (b > 0 /\ c > 0) =>
              config.contextualization = "failOpen"
        BY <1>2 DEF CallsInv, BuildsApart
    <2>4. b > 0 \/ r > 0 => hierarchy # "built"
        BY <1>2 DEF CallsInv, BuildsApart
    <2> QED
        BY <1>1, <2>1, <2>2, <2>3, <2>4 DEF RequestsBounded
  <1> QED
      BY <1>3, <1>4

\* An upload starts without a request.
LEMMA CallsInvInitially == Init => CallsInv
  <1> SUFFICES ASSUME Init PROVE CallsInv
      OBVIOUS
  <1> USE ContextualizationAssumption
  <1>1. \A g \in Gathers : tasks[g] = Idle
      BY DEF Init
  <1>2. TasksShaped
      BY <1>1 DEF Init, TasksShaped, Idle
  <1>3. PhasesApart /\ BuildsApart
      BY <1>1 DEF Init, PhasesApart, BuildsApart, Gathers, Builds
  <1> QED
      BY <1>2, <1>3 DEF Init, CallsInv

-----------------------------------------------------------------------------
(* Each step changes at most one gather's tasks, or starts one.            *)

\* Starting or updating a gather keeps the tasks records of both counters.
LEMMA ShapeKept ==
    ASSUME TasksShaped, NEW g \in Gathers, NEW w, NEW k \in 0..MaxConcurrency,
           tasks' = [tasks EXCEPT ![g] = [waiting |-> w, calling |-> k]]
    PROVE  TasksShaped' /\ \A h \in Gathers \ {g} : tasks'[h] = tasks[h]
  BY DEF TasksShaped

\* A task that gets its gather's semaphore stops waiting and calls.
LEMMA AcquireIs ==
    ASSUME TasksShaped, NEW g \in Gathers, Acquire(g)
    PROVE  tasks' = [tasks EXCEPT ![g] = [waiting |-> tasks[g].waiting - 1,
                                          calling |-> tasks[g].calling + 1]]
  <1>1. tasks[g] = [waiting |-> tasks[g].waiting, calling |-> tasks[g].calling]
      BY DEF TasksShaped
  <1> QED
      BY <1>1 DEF Acquire, TasksShaped

\* It leaves every other gather alone.
LEMMA AcquireShaped ==
    ASSUME TasksShaped, NEW g \in Gathers, Acquire(g)
    PROVE  /\ TasksShaped'
           /\ \A h \in Gathers \ {g} : tasks'[h] = tasks[h]
           /\ tasks[g] # Idle
  <1> USE ContextualizationAssumption
  <1>2. tasks' = [tasks EXCEPT ![g] = [waiting |-> tasks[g].waiting - 1,
                                       calling |-> tasks[g].calling + 1]]
      BY AcquireIs
  <1>3. tasks[g].calling + 1 \in 0..MaxConcurrency
      BY DEF Acquire, TasksShaped
  <1>4. tasks[g] # Idle
      BY DEF Acquire, Idle
  <1> QED
      BY <1>2, <1>3, <1>4, ShapeKept

\* A request that comes back leaves every other gather alone.
LEMMA ReturnShaped ==
    ASSUME TasksShaped, NEW g \in Gathers, tasks[g].calling > 0,
           tasks' = [tasks EXCEPT ![g].calling = @ - 1]
    PROVE  /\ TasksShaped'
           /\ \A h \in Gathers \ {g} : tasks'[h] = tasks[h]
           /\ tasks[g] # Idle
  <1> USE ContextualizationAssumption
  <1>1. tasks[g] = [waiting |-> tasks[g].waiting, calling |-> tasks[g].calling]
      BY DEF TasksShaped
  <1>2. tasks' = [tasks EXCEPT ![g] = [waiting |-> tasks[g].waiting,
                                       calling |-> tasks[g].calling - 1]]
    <2>1. [tasks[g] EXCEPT !.calling = @ - 1]
              = [waiting |-> tasks[g].waiting, calling |-> tasks[g].calling - 1]
        BY <1>1
    <2> QED
        BY <2>1
  <1>3. tasks[g].calling - 1 \in 0..MaxConcurrency
      BY DEF TasksShaped
  <1>4. tasks[g] # Idle
      BY DEF Idle
  <1> QED
      BY <1>2, <1>3, <1>4, ShapeKept

\* A gather that starts leaves every other gather alone.
LEMMA StartShaped ==
    ASSUME TasksShaped, NEW g \in Gathers, NEW n, Start(g, n)
    PROVE  /\ TasksShaped'
           /\ \A h \in Gathers \ {g} : tasks'[h] = tasks[h]
  <1> USE ContextualizationAssumption
  <1>1. tasks' = [tasks EXCEPT ![g] = [waiting |-> n, calling |-> 0]]
      BY DEF Start, Gather
  <1>2. 0 \in 0..MaxConcurrency
      OBVIOUS
  <1> QED
      BY <1>1, <1>2, ShapeKept

\* A step that leaves the upload where it is: a gather that had tasks keeps
\* some, or has none any more.
LEMMA TaskStepKeepsInv ==
    ASSUME CallsInv, NEW g \in Gathers, TasksShaped', tasks[g] # Idle,
           \A h \in Gathers \ {g} : tasks'[h] = tasks[h],
           UNCHANGED <<config, pc, hierarchy>>
    PROVE  CallsInv'
  <1>1. \A h \in Gathers : tasks'[h] # Idle => tasks[h] # Idle
      OBVIOUS
  <1>2. PhasesApart'
      BY <1>1 DEF CallsInv, PhasesApart, Gathers, Builds
  <1>3. BuildsApart'
      BY <1>1 DEF CallsInv, BuildsApart, Gathers, Builds
  <1> QED
      BY <1>2, <1>3 DEF CallsInv

-----------------------------------------------------------------------------
(* The upload's steps that start a gather, or go on after one.             *)

\* Building the hierarchy starts next to nothing else.
LEMMA StartHierarchyKeepsInv == CallsInv /\ StartHierarchy => CallsInv'
  <1> SUFFICES ASSUME CallsInv, StartHierarchy PROVE CallsInv'
      OBVIOUS
  <1>1. CASE config.hierarchy = "off" /\ config.contextualization = "off"
    <2>1. pc = "parsed" /\ pc' = "chunks" /\ UNCHANGED <<tasks, config, hierarchy>>
        BY <1>1 DEF StartHierarchy, Contextualize, To
    <2> QED
        BY <2>1 DEF CallsInv, TasksShaped, PhasesApart, BuildsApart
  <1>2. CASE ~(config.hierarchy = "off" /\ config.contextualization = "off")
    <2>1. Start("build", Len(groups)) /\ pc = "parsed" /\ UNCHANGED <<config, hierarchy>>
        BY <1>2 DEF StartHierarchy
    <2>2. /\ TasksShaped'
          /\ \A h \in Gathers \ {"build"} : tasks'[h] = tasks[h]
        BY <2>1, StartShaped DEF CallsInv, Gathers, Builds
    <2>3. pc' = "build"
        BY <2>1 DEF Start, To
    <2>4. PhasesApart' /\ BuildsApart'
        BY <2>1, <2>2, <2>3 DEF CallsInv, PhasesApart, BuildsApart, Gathers, Builds
    <2> QED
        BY <2>1, <2>2, <2>3, <2>4 DEF CallsInv, Gathers, Builds
  <1> QED
      BY <1>1, <1>2

\* Starting the contextualization: the rebuild has ended or never began, and
\* the document's own hierarchy left nothing behind or the feature fails open.
LEMMA StartContextsKeepsInv ==
    ASSUME CallsInv, Start("contexts", Len(chunks)),
           pc \in Summaries, UNCHANGED config,
           hierarchy' = hierarchy \/ (pc = "buildSummary" /\ hierarchy' = "built")
    PROVE  CallsInv'
  <1>1. /\ TasksShaped'
        /\ \A h \in Gathers \ {"contexts"} : tasks'[h] = tasks[h]
      BY StartShaped DEF CallsInv, Gathers
  <1>2. pc' = "contexts"
      BY DEF Start, To
  <1>3. tasks["rebuild"] = Idle /\ (pc = "buildSummary" => tasks["build"] = Idle)
      BY DEF CallsInv, PhasesApart, Summaries
  <1>4. tasks'["rebuild"] = Idle /\ tasks'["build"] = tasks["build"]
      BY <1>1, <1>3 DEF Gathers, Builds
  <1>5. tasks["build"] # Idle => config.contextualization = "failOpen" /\ hierarchy # "built"
      BY <1>3 DEF CallsInv, BuildsApart, Summaries
  <1>6. PhasesApart'
      BY <1>2, <1>4 DEF PhasesApart
  <1>7. BuildsApart'
      BY <1>2, <1>3, <1>4, <1>5 DEF CallsInv, BuildsApart, Summaries
  <1> QED
      BY <1>1, <1>2, <1>6, <1>7 DEF CallsInv, Gathers

\* Raising out of the document's hierarchy, whether a group's summary failed
\* or the document's.
LEMMA BuildRaisedKeepsInv ==
    ASSUME CallsInv, pc \in {"build", "buildSummary"}, UNCHANGED <<config, hierarchy>>,
           NEW after,
           DOMAIN after = Gathers,
           after["rebuild"] = Idle /\ after["contexts"] = Idle,
           \A g \in Gathers :
              /\ after[g] = [waiting |-> after[g].waiting, calling |-> after[g].calling]
              /\ after[g].calling \in 0..MaxConcurrency,
           BuildRaised(after)
    PROVE  CallsInv'
  <1> USE ContextualizationAssumption
  <1>1. hierarchy # "built"
      BY DEF CallsInv, BuildsApart
  <1>2. CASE ~HierarchyMayFailOpen \/ config.contextualization = "off"
    <2>1. tasks' = after /\ pc' \in {"aborted", "chunks"}
        BY <1>2 DEF BuildRaised, To
    <2> QED
        BY <1>1, <2>1 DEF CallsInv, TasksShaped, PhasesApart, BuildsApart, Ended
  <1>3. CASE HierarchyMayFailOpen /\ config.contextualization # "off"
    <2>1. /\ pc' = "rebuild"
          /\ tasks' = [after EXCEPT !["rebuild"] = [waiting |-> Len(groups), calling |-> 0]]
        BY <1>3 DEF BuildRaised, To, Gather
    <2>2. config.contextualization = "failOpen"
        BY <1>3 DEF HierarchyMayFailOpen, CallsInv, Modes
    <2>3. TasksShaped'
        BY <2>1 DEF TasksShaped, Gathers, Builds
    <2>4. tasks'["contexts"] = Idle /\ tasks'["build"] = after["build"]
        BY <2>1 DEF Gathers, Builds
    <2>5. PhasesApart' /\ BuildsApart'
        BY <1>1, <2>1, <2>2, <2>4 DEF PhasesApart, BuildsApart
    <2> QED
        BY <2>1, <2>3, <2>5 DEF CallsInv, Gathers, Builds
  <1> QED
      BY <1>2, <1>3

\* A step from a phase whose gathers are over or abandoned to a later one.
LEMMA LaterPhaseKeepsInv ==
    ASSUME CallsInv, TasksShaped', UNCHANGED config,
           pc' \in {"chunks", "summaries"} \cup Ended,
           \A h \in Gathers : tasks[h] = Idle => tasks'[h] = Idle,
           hierarchy' = "built" => hierarchy = "built"
    PROVE  CallsInv'
  <1>1. PhasesApart'
      BY DEF CallsInv, PhasesApart, Gathers, Builds, Ended
  <1>2. BuildsApart'
      BY DEF CallsInv, BuildsApart, Gathers, Builds, Ended
  <1> QED
      BY <1>1, <1>2 DEF CallsInv

\* Every step keeps CallsInv: one case per action.
LEMMA CallsInvPreserved == CallsInv /\ [Next]_vars => CallsInv'
  <1> SUFFICES ASSUME CallsInv, [Next]_vars PROVE CallsInv'
      OBVIOUS
  <1> USE ContextualizationAssumption
  <1>1. CASE UNCHANGED vars
      BY <1>1 DEF CallsInv, TasksShaped, PhasesApart, BuildsApart, vars
  <1>2. ASSUME NEW g \in Gathers, Acquire(g) PROVE CallsInv'
    <2>1. /\ TasksShaped' /\ tasks[g] # Idle
          /\ \A h \in Gathers \ {g} : tasks'[h] = tasks[h]
        BY <1>2, AcquireShaped DEF CallsInv
    <2>2. UNCHANGED <<config, pc, hierarchy>>
        BY <1>2 DEF Acquire
    <2> QED
        BY <2>1, <2>2, TaskStepKeepsInv
  <1>3. ASSUME NEW g \in Gathers, Returns(g)
        PROVE  /\ TasksShaped' /\ tasks[g] # Idle
               /\ \A h \in Gathers \ {g} : tasks'[h] = tasks[h]
      BY <1>3, ReturnShaped DEF Returns, CallsInv
  <1>4. ASSUME NEW g \in Gathers, Answer(g) \/ FailAbandoned(g) PROVE CallsInv'
    <2>1. Returns(g) /\ UNCHANGED <<config, pc, hierarchy>>
        BY <1>4 DEF Answer, FailAbandoned
    <2> QED
        BY <2>1, <1>3, TaskStepKeepsInv
  <1>5. ASSUME NEW g \in Gathers, FailContexts(g) PROVE CallsInv'
    <2>1. /\ Returns(g) /\ UNCHANGED <<config, hierarchy>>
          /\ pc' \in {"chunks"} \cup Ended
        BY <1>5 DEF FailContexts, ContextsRaised, To, Ended
    <2>2. /\ TasksShaped' /\ tasks[g] # Idle
          /\ \A h \in Gathers \ {g} : tasks'[h] = tasks[h]
        BY <2>1, <1>3
    <2> QED
        BY <2>1, <2>2, LaterPhaseKeepsInv
  <1>6. CASE FailBuild
    <2> DEFINE after == [tasks EXCEPT !["build"] =
                            [waiting |-> tasks["build"].waiting,
                             calling |-> tasks["build"].calling - 1]]
    <2>1. [tasks["build"] EXCEPT !.calling = @ - 1]
              = [waiting |-> tasks["build"].waiting, calling |-> tasks["build"].calling - 1]
        BY DEF CallsInv, TasksShaped, Gathers, Builds
    <2>2. BuildRaised(after) /\ pc = "build" /\ UNCHANGED <<config, hierarchy>>
        BY <1>6, <2>1 DEF FailBuild
    <2>3. tasks["build"].calling - 1 \in 0..MaxConcurrency
        BY <1>6 DEF FailBuild, CallsInv, TasksShaped, Gathers, Builds
    <2>4. /\ DOMAIN after = Gathers
          /\ after["rebuild"] = Idle /\ after["contexts"] = Idle
          /\ \A g \in Gathers :
                /\ after[g] = [waiting |-> after[g].waiting, calling |-> after[g].calling]
                /\ after[g].calling \in 0..MaxConcurrency
        BY <2>2, <2>3 DEF CallsInv, TasksShaped, PhasesApart, Gathers, Builds
    <2> HIDE DEF after
    <2> QED
        BY <2>2, <2>4, BuildRaisedKeepsInv
  <1>7. CASE FailBuildSummary
    <2>1. BuildRaised(tasks) /\ pc = "buildSummary" /\ UNCHANGED <<config, hierarchy>>
        BY <1>7 DEF FailBuildSummary
    <2>2. /\ DOMAIN tasks = Gathers
          /\ tasks["rebuild"] = Idle /\ tasks["contexts"] = Idle
          /\ \A g \in Gathers :
                /\ tasks[g] = [waiting |-> tasks[g].waiting, calling |-> tasks[g].calling]
                /\ tasks[g].calling \in 0..MaxConcurrency
        BY <2>1 DEF CallsInv, TasksShaped, PhasesApart
    <2> QED
        BY <2>1, <2>2, BuildRaisedKeepsInv
  <1>8. CASE StartHierarchy
      BY <1>8, StartHierarchyKeepsInv
  <1>9. ASSUME NEW b \in Builds, SummariseDocument(b) PROVE CallsInv'
    <2>1. /\ pc = b /\ tasks[b] = Idle /\ pc' = SummaryOf[b]
          /\ UNCHANGED <<config, tasks, hierarchy>>
        BY <1>9 DEF SummariseDocument, Gathered, To
    <2>2. \/ pc = "build" /\ pc' = "buildSummary" /\ tasks["build"] = Idle
          \/ pc = "rebuild" /\ pc' = "rebuildSummary" /\ tasks["rebuild"] = Idle
        BY <2>1 DEF Builds, SummaryOf
    <2> QED
        BY <2>1, <2>2 DEF CallsInv, TasksShaped, PhasesApart, BuildsApart, Summaries
  <1>10. CASE FinishBuild
    <2>1. CASE config.contextualization = "off"
      <3>1. pc = "buildSummary" /\ pc' = "chunks" /\ UNCHANGED <<tasks, config>>
          BY <1>10, <2>1 DEF FinishBuild, Contextualize, To
      <3> QED
          BY <3>1 DEF CallsInv, TasksShaped, PhasesApart, BuildsApart
    <2>2. CASE config.contextualization # "off"
      <3>1. /\ pc = "buildSummary" /\ hierarchy' = "built"
            /\ Start("contexts", Len(chunks)) /\ UNCHANGED config
          BY <1>10, <2>2 DEF FinishBuild, Contextualize
      <3> QED
          BY <3>1, StartContextsKeepsInv DEF Summaries
    <2> QED
        BY <2>1, <2>2
  <1>11. CASE FinishRebuild
    <2>1. /\ pc = "rebuildSummary" /\ UNCHANGED <<config, hierarchy>>
          /\ Start("contexts", Len(chunks))
        BY <1>11 DEF FinishRebuild
    <2> QED
        BY <2>1, StartContextsKeepsInv DEF Summaries
  <1>12. CASE FailRebuildSummary \/ FinishContexts \/ IndexChunks \/ FailChunks
              \/ IndexSummaries \/ FailSummaries
    <2>1. /\ UNCHANGED <<config, tasks>>
          /\ pc' \in {"chunks", "summaries"} \cup Ended
          /\ hierarchy' = "built" => hierarchy = "built"
        BY <1>12 DEF FailRebuildSummary, ContextsRaised, FinishContexts, IndexChunks, FailChunks,
                     IndexSummaries, FailSummaries, To, Ended
    <2>2. TasksShaped'
        BY <2>1 DEF CallsInv, TasksShaped
    <2> QED
        BY <2>1, <2>2, LaterPhaseKeepsInv
  <1> QED
      BY <1>1, <1>2, <1>4, <1>5, <1>6, <1>7, <1>8, <1>9, <1>10, <1>11, <1>12
         DEF Next, Upload, TaskReturns

\* However many chunks and groups a document has and whatever fails, one upload
\* never has more than twice max_concurrency requests at the model, and never
\* more than max_concurrency unless an abandoned hierarchy was rebuilt.
THEOREM CallsBounded == Spec => []RequestsBounded
  <1>1. Init => CallsInv
      BY CallsInvInitially
  <1>2. CallsInv /\ [Next]_vars => CallsInv'
      BY CallsInvPreserved
  <1>3. CallsInv => RequestsBounded
      BY CallsInvBounds
  <1> QED
      BY <1>1, <1>2, <1>3, PTL DEF Spec

-----------------------------------------------------------------------------
(* What failures do to the upload.                                         *)

Beginning == {"parsed", "build", "buildSummary"}
Contextualizing == {"rebuild", "rebuildSummary", "contexts"}
Indexing == {"chunks", "summaries", "indexed"}

\* What the upload was built from, as its phases leave it: no hierarchy before
\* one is finished, no contexts before they are awaited to the end, and past
\* them the contexts that are required and none of a feature that is off.
ProducedInv ==
    /\ pc \in Beginning \cup {"rebuild", "rebuildSummary"} => hierarchy = "none"
    /\ pc \in Beginning \cup Contextualizing => contexts = "disabled"
    /\ pc \in Contextualizing => config.contextualization # "off"
    /\ contexts = "ready" => config.contextualization # "off"
    /\ pc \in Indexing /\ config.contextualization = "required" => contexts = "ready"

\* What the points say is what was produced when they were written.
PointsInv ==
    /\ points = [contextual |-> points.contextual, routed |-> points.routed,
                 summaries |-> points.summaries]
    /\ pc # "indexed" => ~points.summaries
    /\ pc \in {"summaries", "indexed"} =>
          /\ points.contextual <=> contexts = "ready"
          /\ points.routed <=> HierarchyIndexed
    /\ points.summaries => HierarchyIndexed
    /\ pc = "indexed" /\ config.hierarchy = "required" => points.summaries

FailuresInv ==
    /\ config \in [contextualization : Modes, hierarchy : Modes]
    /\ ProducedInv
    /\ PointsInv

\* What a finished upload promises is what was produced and then written.
LEMMA FailuresInvSuffices == FailuresInv => FailuresStayLocal
  BY DEF FailuresInv, ProducedInv, PointsInv, FailuresStayLocal, HierarchyIndexed, Indexing

\* An upload starts with nothing produced and nothing written.
LEMMA FailuresInvInitially == Init => FailuresInv
  BY DEF Init, FailuresInv, ProducedInv, PointsInv, Beginning, Contextualizing, Indexing,
         HierarchyIndexed

\* A task that starts, answers, or fails unawaited leaves all of that alone.
LEMMA TasksKeepFailuresInv ==
    ASSUME FailuresInv, UNCHANGED <<config, pc, hierarchy, contexts, points>>
    PROVE  FailuresInv'
  BY DEF FailuresInv, ProducedInv, PointsInv, Beginning, Contextualizing, Indexing,
         HierarchyIndexed

\* The contextualization raised: nothing but its status is lost.
LEMMA ContextsRaisedKeepsInv ==
    ASSUME FailuresInv, pc \in Contextualizing, ContextsRaised,
           UNCHANGED <<config, hierarchy, points>>
    PROVE  FailuresInv'
  BY DEF FailuresInv, ProducedInv, PointsInv, ContextsRaised, To, Modes, Beginning,
         Contextualizing, Indexing, HierarchyIndexed

\* The document's hierarchy raised: it is given up, rebuilt, or ends the upload.
LEMMA BuildRaisedKeepsFailuresInv ==
    ASSUME FailuresInv, pc \in {"build", "buildSummary"}, NEW after, BuildRaised(after),
           UNCHANGED <<config, hierarchy, contexts, points>>
    PROVE  FailuresInv'
  BY DEF FailuresInv, ProducedInv, PointsInv, BuildRaised, HierarchyMayFailOpen, To,
         Beginning, Contextualizing, Indexing, HierarchyIndexed

\* The contextualization begins, or is off and the chunks are indexed.
LEMMA ContextualizeKeepsInv ==
    ASSUME FailuresInv, pc \in {"parsed", "buildSummary"}, Contextualize,
           hierarchy' \in {"none", "built"},
           UNCHANGED <<config, contexts, points>>
    PROVE  FailuresInv'
  BY DEF FailuresInv, ProducedInv, PointsInv, Contextualize, Start, To, Beginning,
         Contextualizing, Indexing, HierarchyIndexed

\* Every step keeps FailuresInv: one case per action.
LEMMA FailuresInvPreserved == FailuresInv /\ [Next]_vars => FailuresInv'
  <1> SUFFICES ASSUME FailuresInv, [Next]_vars PROVE FailuresInv'
      OBVIOUS
  <1> USE DEF FailuresInv, ProducedInv, PointsInv, Beginning, Contextualizing, Indexing
  <1>1. CASE UNCHANGED vars
      BY <1>1, TasksKeepFailuresInv DEF vars
  <1>2. ASSUME NEW g \in Gathers, Acquire(g) \/ Answer(g) \/ FailAbandoned(g)
        PROVE  FailuresInv'
      BY <1>2, TasksKeepFailuresInv DEF Acquire, Answer, FailAbandoned
  <1>3. ASSUME NEW g \in Gathers, FailContexts(g) PROVE FailuresInv'
      BY <1>3, ContextsRaisedKeepsInv DEF FailContexts
  <1>4. CASE FailBuild
      BY <1>4, BuildRaisedKeepsFailuresInv DEF FailBuild
  <1>5. CASE FailBuildSummary
      BY <1>5, BuildRaisedKeepsFailuresInv DEF FailBuildSummary
  <1>6. CASE FailRebuildSummary
      BY <1>6, ContextsRaisedKeepsInv DEF FailRebuildSummary
  <1>7. CASE StartHierarchy
    <2>1. CASE config.hierarchy = "off" /\ config.contextualization = "off"
        BY <1>7, <2>1, ContextualizeKeepsInv DEF StartHierarchy
    <2>2. CASE ~(config.hierarchy = "off" /\ config.contextualization = "off")
      <3>1. pc = "parsed" /\ pc' = "build" /\ UNCHANGED <<config, hierarchy, contexts, points>>
          BY <1>7, <2>2 DEF StartHierarchy, Start, To
      <3> QED
          BY <3>1 DEF HierarchyIndexed
    <2> QED
        BY <2>1, <2>2
  <1>8. ASSUME NEW b \in Builds, SummariseDocument(b) PROVE FailuresInv'
    <2>1. /\ pc = b /\ pc' = SummaryOf[b]
          /\ UNCHANGED <<config, hierarchy, contexts, points>>
        BY <1>8 DEF SummariseDocument, Gathered, To
    <2>2. \/ pc = "build" /\ pc' = "buildSummary"
          \/ pc = "rebuild" /\ pc' = "rebuildSummary"
        BY <2>1 DEF Builds, SummaryOf
    <2> QED
        BY <2>1, <2>2 DEF HierarchyIndexed
  <1>9. CASE FinishBuild
      BY <1>9, ContextualizeKeepsInv DEF FinishBuild
  <1>10. CASE FinishRebuild
      BY <1>10 DEF FinishRebuild, Start, To, HierarchyIndexed
  <1>11. CASE FinishContexts
      BY <1>11 DEF FinishContexts, Gathered, To, HierarchyIndexed
  <1>12. CASE IndexChunks
    <2>1. /\ points'.contextual <=> contexts = "ready"
          /\ points'.routed <=> HierarchyIndexed
          /\ points'.summaries = points.summaries
          /\ points' = [contextual |-> points'.contextual, routed |-> points'.routed,
                        summaries |-> points'.summaries]
        BY <1>12 DEF IndexChunks
    <2> QED
        BY <1>12, <2>1 DEF IndexChunks, To, HierarchyIndexed
  <1>13. CASE FailChunks
      BY <1>13 DEF FailChunks, To, HierarchyIndexed
  <1>14. CASE IndexSummaries
    <2>1. /\ points'.contextual = points.contextual
          /\ points'.routed = points.routed
          /\ points'.summaries <=> HierarchyIndexed
          /\ points' = [contextual |-> points'.contextual, routed |-> points'.routed,
                        summaries |-> points'.summaries]
        BY <1>14 DEF IndexSummaries
    <2> QED
        BY <1>14, <2>1 DEF IndexSummaries, To, HierarchyIndexed
  <1>15. CASE FailSummaries
      BY <1>15 DEF FailSummaries, To, HierarchyIndexed
  <1> QED
      BY <1>1, <1>2, <1>3, <1>4, <1>5, <1>6, <1>7, <1>8, <1>9, <1>10, <1>11, <1>12,
         <1>13, <1>14, <1>15
         DEF Next, Upload, TaskReturns

\* Whichever summaries, contexts and writes fail, and whatever abandoned tasks
\* still do, a finished upload has all that is required, keeps a hierarchy that
\* was built and never has points that lead to a missing section.
THEOREM FailuresContained == Spec => []FailuresStayLocal
  <1>1. Init => FailuresInv
      BY FailuresInvInitially
  <1>2. FailuresInv /\ [Next]_vars => FailuresInv'
      BY FailuresInvPreserved
  <1>3. FailuresInv => FailuresStayLocal
      BY FailuresInvSuffices
  <1> QED
      BY <1>1, <1>2, <1>3, PTL DEF Spec

\* A step that ends an upload of which nothing is required.
LEMMA OnlyIndexingAborts ==
    ASSUME FailuresInv, Next, pc # "aborted", pc' = "aborted", "required" \notin Range(config)
    PROVE  pc = "chunks"
  <1>1. config.contextualization \in {"off", "failOpen"} /\ config.hierarchy \in {"off", "failOpen"}
      BY DEF FailuresInv, Range, Modes
  <1>2. HierarchyMayFailOpen
      BY <1>1 DEF HierarchyMayFailOpen
  <1>3. ASSUME NEW g \in Gathers, Acquire(g) \/ TaskReturns(g) PROVE FALSE
      BY <1>1, <1>3 DEF Acquire, TaskReturns, Answer, FailAbandoned, FailContexts, ContextsRaised,
                        To, FailuresInv, ProducedInv, Contextualizing
  <1>4. CASE FailBuild \/ FailBuildSummary
      BY <1>2, <1>4 DEF FailBuild, FailBuildSummary, BuildRaised, To
  <1>5. CASE FailRebuildSummary
      BY <1>1, <1>5 DEF FailRebuildSummary, ContextsRaised, To, FailuresInv, ProducedInv,
                        Contextualizing
  <1>6. CASE StartHierarchy \/ FinishBuild \/ FinishRebuild \/ FinishContexts
      BY <1>6 DEF StartHierarchy, FinishBuild, FinishRebuild, FinishContexts, Contextualize,
                  Start, To
  <1>7. ASSUME NEW b \in Builds, SummariseDocument(b) PROVE FALSE
      BY <1>7 DEF SummariseDocument, To, Builds, SummaryOf
  <1>8. CASE IndexChunks \/ IndexSummaries \/ FailSummaries
      BY <1>1, <1>8 DEF IndexChunks, IndexSummaries, FailSummaries, To
  <1>9. CASE FailChunks
      BY <1>9 DEF FailChunks
  <1> QED
      BY <1>3, <1>4, <1>5, <1>6, <1>7, <1>8, <1>9 DEF Next, Upload

\* If neither feature is required, an upload is never given up for either: only
\* writing the chunks themselves can fail it.
THEOREM NothingRequiredNeverBlocks == Spec => FailOpenNeverBlocks
  <1>1. Init => FailuresInv
      BY FailuresInvInitially
  <1>2. FailuresInv /\ [Next]_vars => FailuresInv'
      BY FailuresInvPreserved
  <1>3. FailuresInv /\ [Next]_vars =>
            [(pc' = "aborted" /\ pc # "aborted" /\ "required" \notin Range(config))
                => pc = "chunks"]_vars
      BY OnlyIndexingAborts
  <1> QED
      BY <1>1, <1>2, <1>3, PTL DEF Spec, FailOpenNeverBlocks
-----------------------------------------------------------------------------
(* Windows: normalize_text, _sliding_windows and chunk_document.           *)

\* One element before a sequence.
LEMMA Prepend ==
    ASSUME NEW S, NEW h \in S, NEW r \in Seq(S)
    PROVE  /\ <<h>> \o r \in Seq(S)
           /\ Len(<<h>> \o r) = Len(r) + 1
           /\ (<<h>> \o r)[1] = h
           /\ \A k \in 1..Len(r) : (<<h>> \o r)[k + 1] = r[k]
  <1>1. <<h>> \in Seq(S) /\ Len(<<h>>) = 1
      OBVIOUS
  <1>2. /\ <<h>> \o r \in Seq(S)
        /\ Len(<<h>> \o r) = 1 + Len(r)
        /\ \A i \in 1..(1 + Len(r)) :
              (<<h>> \o r)[i] = IF i <= 1 THEN <<h>>[i] ELSE r[i - 1]
      BY <1>1, ConcatProperties
  <1>3. Len(r) \in Nat
      OBVIOUS
  <1> QED
      BY <1>2, <1>3

\* What a page is made of.
Symbols == {"letter", "blank"}

\* InOrder lists every member of the set once, by growing keys.
LEMMA InOrderLists ==
    ASSUME NEW S, IsFiniteSet(S), NEW key, \A x \in S : key[x] \in Int,
           \A x, y \in S : key[x] = key[y] => x = y
    PROVE  /\ Cardinality(S) \in Nat
           /\ InOrder(S, key) \in [1..Cardinality(S) -> S]
           /\ \A i, j \in 1..Cardinality(S) :
                 i < j => key[InOrder(S, key)[i]] < key[InOrder(S, key)[j]]
           /\ \A x \in S : \E i \in 1..Cardinality(S) : InOrder(S, key)[i] = x
  <1>1. InOrder(S, key) = ByRank(S, key)
      BY DEF InOrder, ByRank, RankOf
  <1> QED
      BY <1>1, ByRankLists

\* What is left of a stretch of text is from its first letter to its last.
LEMMA StripToLetters ==
    ASSUME NEW text, NEW from \in Int, NEW to \in Int
    PROVE  \/ /\ Strip(text, from, to) = {}
              /\ \A i \in from..to : text[i] = "blank"
           \/ \E a, b \in from..to :
                 /\ a <= b
                 /\ Strip(text, from, to) = a..b
                 /\ text[a] # "blank" /\ text[b] # "blank"
                 /\ \A i \in from..to : text[i] # "blank" => i \in a..b
  <1> DEFINE letters == {i \in from..to : text[i] # "blank"}
  <1>1. CASE letters = {}
      BY <1>1 DEF Strip
  <1>2. CASE letters # {}
    <2>1. IsFiniteSet(letters)
        BY FS_Interval, FS_Subset
    <2>2. letters \subseteq Int
        OBVIOUS
    <2>3. Strip(text, from, to) = Min(letters)..Max(letters)
        BY <1>2 DEF Strip
    <2>4. /\ Min(letters) \in letters /\ \A y \in letters : Min(letters) <= y
          /\ Max(letters) \in letters /\ \A y \in letters : Max(letters) >= y
      <3> HIDE DEF letters
      <3> QED
          BY <1>2, <2>1, <2>2, MinOf, MaxOf
    <2> DEFINE a == Min(letters)
               b == Max(letters)
    <2>5. a \in from..to /\ b \in from..to /\ a <= b /\ text[a] # "blank" /\ text[b] # "blank"
        BY <2>2, <2>4
    <2>6. \A i \in from..to : text[i] # "blank" => i \in a..b
      <3> TAKE i \in from..to
      <3> HAVE text[i] # "blank"
      <3>1. i \in letters
          OBVIOUS
      <3> HIDE DEF letters
      <3> QED
          BY <2>2, <2>4, <3>1
    <2> HIDE DEF letters, a, b
    <2> QED
        BY <2>3, <2>5, <2>6 DEF a, b
  <1> QED
      BY <1>1, <1>2

\* No blank at an edge and none next to another one.
Normal(text) ==
    /\ text \in Seq(Symbols)
    /\ text # <<>> => text[1] # "blank" /\ text[Len(text)] # "blank"
    /\ \A i \in 1..(Len(text) - 1) : ~(text[i] = "blank" /\ text[i + 1] = "blank")

\* The text of a parsed page (normalize_text).
LEMMA NormalizeTextIsNormal ==
    ASSUME NEW text \in Seq(Symbols)
    PROVE  Normal(NormalizeText(text))
  <1> DEFINE inner == Strip(text, 1, Len(text))
             kept == {i \in inner : ~(text[i] = "blank" /\ text[i - 1] = "blank")}
             key == [i \in kept |-> i]
             order == InOrder(kept, key)
             n == Cardinality(kept)
             t == [i \in DOMAIN order |-> text[order[i]]]
  <1>0. NormalizeText(text) = t
      BY DEF NormalizeText
  <1>1. inner = {} \/ \E a, b \in 1..Len(text) : 
              a <= b /\ inner = a..b /\ text[a] # "blank" /\ text[b] # "blank"
      BY StripToLetters
  <1>2. inner \subseteq 1..Len(text)
      BY <1>1
  <1>3. IsFiniteSet(kept) /\ kept \subseteq 1..Len(text)
    <2>1. kept \subseteq 1..Len(text)
        BY <1>2
    <2>2. IsFiniteSet(1..Len(text))
        BY FS_Interval
    <2> HIDE DEF kept
    <2> QED
        BY <2>1, <2>2, FS_Subset
  <1>4. /\ n \in Nat
        /\ order \in [1..n -> kept]
        /\ \A i, j \in 1..n : i < j => order[i] < order[j]
        /\ \A x \in kept : \E i \in 1..n : order[i] = x
    <2>1. \A x \in kept : key[x] \in Int
        BY <1>3
    <2>2. \A x, y \in kept : key[x] = key[y] => x = y
        OBVIOUS
    <2>3. \A x \in kept : key[x] = x
        OBVIOUS
    <2>6. IsFiniteSet(kept)
        BY <1>3
    <2> HIDE DEF kept, key, order, n
    <2>4. /\ n \in Nat
          /\ order \in [1..n -> kept]
          /\ \A i, j \in 1..n : i < j => key[order[i]] < key[order[j]]
          /\ \A x \in kept : \E i \in 1..n : order[i] = x
      <3>1. n \in Nat /\ order \in [1..n -> kept]
          BY <2>1, <2>2, <2>6, InOrderLists DEF order, n
      <3>2. \A i, j \in 1..n : i < j => key[order[i]] < key[order[j]]
          BY <2>1, <2>2, <2>6, InOrderLists DEF order, n
      <3>3. \A x \in kept : \E i \in 1..n : order[i] = x
          BY <2>1, <2>2, <2>6, InOrderLists DEF order, n
      <3> QED
          BY <3>1, <3>2, <3>3
    <2>5. \A i, j \in 1..n : i < j => order[i] < order[j]
        BY <2>3, <2>4
    <2> QED
        BY <2>4, <2>5
  <1>5. t \in Seq(Symbols) /\ Len(t) = n /\ \A i \in 1..n : t[i] = text[order[i]]
    <2> HIDE DEF kept, order, n
    <2>1. ASSUME NEW i \in 1..n PROVE text[order[i]] \in Symbols
      <3>1. order[i] \in 1..Len(text)
          BY <1>3, <1>4
      <3> QED
          BY <3>1
    <2> QED
        BY <1>4, <2>1
  <1>6. ASSUME t # <<>> PROVE t[1] # "blank" /\ t[Len(t)] # "blank"
    <2>1. n >= 1
        BY <1>4, <1>5, <1>6
    <2>2. inner # {}
        BY <1>4, <2>1
    <2>3. PICK a \in 1..Len(text), b \in 1..Len(text) :
              a <= b /\ inner = a..b /\ text[a] # "blank" /\ text[b] # "blank"
        BY <1>1, <2>2
    <2>4. a \in kept /\ b \in kept /\ \A x \in kept : a <= x /\ x <= b
        BY <2>3
    <2> HIDE DEF inner, kept, order, n, t
    <2>5. \A k \in 1..n : order[k] \in Int /\ a <= order[k] /\ order[k] <= b
      <3> TAKE k \in 1..n
      <3>1. order[k] \in kept
          BY <1>4
      <3>2. order[k] \in Int
        <4>1. Len(text) \in Nat
            OBVIOUS
        <4>2. kept \subseteq 1..Len(text)
            BY <1>3
        <4>3. order[k] \in 1..Len(text)
            BY <3>1, <4>2
        <4> QED
            BY <4>1, <4>3
      <3> QED
          BY <2>4, <3>1, <3>2
    <2>6. PICK i \in 1..n : order[i] = a
        BY <1>4, <2>4
    <2>7. PICK j \in 1..n : order[j] = b
        BY <1>4, <2>4
    <2>8. i = 1
      <3>1. 1 \in 1..n /\ ~(1 < i)
          BY <1>4, <2>1, <2>5, <2>6
      <3> QED
          BY <1>4, <3>1
    <2>9. j = n
      <3>1. n \in 1..n /\ ~(j < n)
          BY <1>4, <2>1, <2>5, <2>7
      <3> QED
          BY <1>4, <3>1
    <2> QED
        BY <1>5, <2>1, <2>3, <2>6, <2>7, <2>8, <2>9
  <1>7. ASSUME NEW i \in 1..(n - 1), t[i] = "blank", t[i + 1] = "blank" PROVE FALSE
    <2>1. i \in 1..n /\ i + 1 \in 1..n
        BY <1>4
    <2> DEFINE x == order[i]
               y == order[i + 1]
    <2>2. x \in kept /\ y \in kept /\ x < y /\ text[x] = "blank" /\ text[y] = "blank"
      <3> HIDE DEF kept, order, n, t
      <3> QED
          BY <1>4, <1>5, <1>7, <2>1
    <2>3. x \in inner /\ y \in inner /\ text[y - 1] # "blank"
        BY <2>2
    <2>4. x \in Int /\ y \in Int
        BY <1>3, <2>2
    <2>5. y - 1 # x /\ x < y - 1
        BY <2>2, <2>3, <2>4
    <2>6. y - 1 \in inner
        BY <1>1, <2>3, <2>4, <2>5
    <2>7. y - 1 \in kept
        BY <2>3, <2>6
    <2> HIDE DEF kept, order, n, inner
    <2>8. PICK k \in 1..n : order[k] = y - 1
        BY <1>4, <2>7
    <2>9. ~(k < i) /\ k # i
      <3>1. order[i] = x
          BY DEF x
      <3> HIDE DEF x, y
      <3>2. x < order[k]
          BY <2>4, <2>5, <2>8
      <3>3. k < i => order[k] < x
          BY <1>4, <2>1, <3>1
      <3> QED
          BY <2>4, <2>8, <3>1, <3>2, <3>3
    <2>10. ~(i + 1 < k) /\ k # i + 1
        BY <1>4, <2>1, <2>4, <2>8
    <2> QED
        BY <1>4, <2>1, <2>9, <2>10
  <1>8. Normal(t)
    <2> HIDE DEF t, n
    <2> QED
        BY <1>5, <1>6, <1>7 DEF Normal
  <1> QED
      BY <1>0, <1>8

\* The window that a step of _sliding_windows opens: where it ends, what is left
\* of it without blank edges, and the list that it contributes.
Ending(text, d) == Min({Len(text), d + MaxChars - 1})
Cut(text, d) == Strip(text, d, Ending(text, d))
Opening(text, d) == IF Cut(text, d) = {} THEN <<>> ELSE <<Cut(text, d)>>

\* The windows of text that begin at a position or after it.
WindowsFrom(f, text) ==
    \A d \in Nat :
       f[d] = Opening(text, d) \o IF Ending(text, d) = Len(text) THEN <<>>
                                  ELSE f[d + MaxChars - OverlapChars]

\* Stretches of a text of n characters.
Intervals(n) == {w \in SUBSET (0..n) : \E a, b \in 0..n : a <= b /\ w = a..b}

\* A window ends max_chars behind its start, or with the text.
LEMMA EndingOf ==
    ASSUME NEW text \in Seq(Symbols), NEW d \in Nat
    PROVE  /\ Ending(text, d) \in Int
           /\ Ending(text, d) = IF Len(text) <= d + MaxChars - 1 THEN Len(text)
                                ELSE d + MaxChars - 1
  <1> USE ContextualizationAssumption
  <1>1. Len(text) \in Int /\ d + MaxChars - 1 \in Int
      OBVIOUS
  <1> QED
      BY <1>1, MinMaxOfTwo DEF Ending

\* A window is one stretch of the text.
LEMMA OpeningIsInterval ==
    ASSUME NEW text \in Seq(Symbols), NEW d \in Nat
    PROVE  Opening(text, d) \in Seq(Intervals(Len(text)))
  <1> DEFINE n == Len(text)
  <1>1. n \in Nat /\ Ending(text, d) \in Int /\ Ending(text, d) <= n
    <2>1. n \in Nat
        OBVIOUS
    <2>2. d + MaxChars - 1 \in Int
        BY ContextualizationAssumption
    <2> QED
        BY <2>1, <2>2, EndingOf
  <1>2. CASE Cut(text, d) = {}
      BY <1>2 DEF Opening
  <1>3. CASE Cut(text, d) # {}
    <2>1. PICK a, b \in d..Ending(text, d) : a <= b /\ Cut(text, d) = a..b
        BY <1>1, <1>3, StripToLetters DEF Cut
    <2>2. a \in 0..n /\ b \in 0..n /\ a..b \subseteq 0..n
        BY <1>1
    <2>3. Cut(text, d) \in Intervals(n)
        BY <2>1, <2>2 DEF Intervals
    <2> QED
        BY <1>3, <2>3 DEF Opening
  <1> QED
      BY <1>2, <1>3

\* The loop of _sliding_windows ends: its windows are those of a function that
\* satisfies its recursion.
LEMMA WindowsExist ==
    ASSUME NEW text \in Seq(Symbols), Len(text) > MaxChars
    PROVE  \E f \in [Nat -> Seq(Intervals(Len(text)))] :
              WindowsFrom(f, text) /\ SlidingWindows(text) = f[1]
  <1> USE ContextualizationAssumption
  <1> DEFINE n == Len(text)
             V == Seq(Intervals(n))
             jump(d) == d + MaxChars - OverlapChars
             m == [d \in Nat |-> IF d <= n THEN n + 1 - d ELSE 0]
             last == {d \in Nat : Ending(text, d) = n}
             next == [d \in Nat |-> jump(d)]
             base == [d \in Nat |-> Opening(text, d) \o <<>>]
             step == [d \in Nat |-> [v \in V |-> Opening(text, d) \o v]]
             Body(g) == [d \in Nat |-> Opening(text, d) \o IF Ending(text, d) = n THEN <<>>
                                                           ELSE g[jump(d)]]
  <1>1. n \in Nat
      OBVIOUS
  <1>2. m \in [Nat -> 0..(n + 1)] /\ next \in [Nat -> Nat]
      BY <1>1
  <1>3. \A d \in Nat : Opening(text, d) \in V /\ <<>> \in V
      BY OpeningIsInterval
  <1>4. base \in [Nat -> V] /\ step \in [Nat -> [V -> V]]
    <2>1. \A u, v \in V : u \o v \in V
        BY ConcatProperties
    <2> HIDE DEF V
    <2> QED
        BY <1>3, <2>1
  <1>5. \A d \in Nat : d \in last \/ m[next[d]] < m[d]
    <2> TAKE d \in Nat
    <2> SUFFICES ASSUME Ending(text, d) # n PROVE m[next[d]] < m[d]
        OBVIOUS
    <2>1. d + MaxChars - 1 < n
      <3>1. Ending(text, d) = IF n <= d + MaxChars - 1 THEN n ELSE d + MaxChars - 1
          BY EndingOf
      <3>2. d + MaxChars - 1 \in Int
          OBVIOUS
      <3> HIDE DEF n
      <3> QED
          BY <1>1, <3>1, <3>2
    <2>2. jump(d) \in Nat /\ jump(d) > d /\ d < n
        BY <1>1, <2>1
    <2> QED
        BY <1>1, <2>2
  <1>6. PICK f : Unfolds(f, Nat, V, last, next, base, step)
    <2> HIDE DEF V, last, next, base, step, m, n
    <2>1. n + 1 \in Nat
        BY <1>1
    <2> QED
        BY <1>2, <1>4, <1>5, <2>1, MeasuredRecursion
  <1>7. f \in [Nat -> V]
      BY <1>6 DEF Unfolds
  <1>8. \A d \in Nat : f[d] = Opening(text, d) \o IF Ending(text, d) = n THEN <<>> ELSE f[jump(d)]
    <2> TAKE d \in Nat
    <2>1. f[d] = IF d \in last THEN base[d] ELSE step[d][f[next[d]]]
        BY <1>6 DEF Unfolds
    <2>2. jump(d) \in Nat /\ f[jump(d)] \in V
        BY <1>7
    <2>3. next[d] = jump(d) /\ (d \in last <=> Ending(text, d) = n)
        OBVIOUS
    <2>4. base[d] = Opening(text, d) \o <<>>
          /\ step[d][f[jump(d)]] = Opening(text, d) \o f[jump(d)]
      <3> HIDE DEF V, jump
      <3> QED
          BY <2>2
    <2> HIDE DEF base, step, next, last, jump, V
    <2> QED
        BY <2>1, <2>3, <2>4
  <1>9. f = Body(f)
      BY <1>7, <1>8
  <1> DEFINE g == CHOOSE h : h = Body(h)
  <1>10. g = Body(g)
    <2>1. \E h : h = Body(h)
        BY <1>9
    <2> HIDE DEF Body
    <2> QED
        BY <2>1
  <1>11. SlidingWindows(text) = g[1]
      BY <1>1 DEF SlidingWindows, Opening, Cut, Ending
  <1>12. g = f
    <2> DEFINE P == {d \in Nat : g[d] = f[d]}
    <2>1. \A d \in Nat : g[d] = Opening(text, d) \o IF Ending(text, d) = n THEN <<>> ELSE g[jump(d)]
      <3> HIDE DEF g
      <3> QED
          BY <1>10
    <2>2. ASSUME NEW d \in Nat, \A e \in Nat : m[e] < m[d] => e \in P PROVE d \in P
      <3>1. CASE Ending(text, d) = n
        <4> HIDE DEF g
        <4> QED
            BY <1>8, <2>1, <3>1
      <3>2. CASE Ending(text, d) # n
        <4>1. jump(d) \in Nat /\ m[jump(d)] < m[d]
            BY <1>5, <3>2
        <4>2. g[jump(d)] = f[jump(d)]
            BY <2>2, <4>1
        <4> HIDE DEF g, jump
        <4> QED
            BY <1>8, <2>1, <3>2, <4>2
      <3> QED
          BY <3>1, <3>2
    <2>3. P = Nat
      <3>1. P \in SUBSET Nat /\ n + 1 \in Nat
          BY <1>1
      <3>2. Inductive(Nat, m, P)
          BY <2>2 DEF Inductive
      <3> HIDE DEF P, m, n
      <3> QED
          BY <1>2, <3>1, <3>2, MeasureInduction
    <2>4. g = [d \in Nat |-> g[d]]
      <3> HIDE DEF g
      <3> QED
          BY <1>10
    <2> HIDE DEF g
    <2> QED
        BY <1>7, <2>3, <2>4
  <1> QED
    <2> HIDE DEF g
    <2>1. WindowsFrom(f, text)
        BY <1>8 DEF WindowsFrom
    <2> QED
        BY <1>7, <1>11, <1>12, <2>1

\* The windows of text from position d on: where they are, that no passage is
\* lost, and that each begins and ends behind the one before it.
WindowsOk(text, d, ws) ==
    /\ ws \in Seq(Intervals(Len(text)))
    /\ \A k \in 1..Len(ws) :
          /\ Min(ws[k]) \in d..Len(text) /\ Max(ws[k]) \in d..Len(text)
          /\ Min(ws[k]) <= Max(ws[k])
    /\ \A i, j \in d..Len(text) :
          i <= j /\ j <= i + OverlapChars /\ text[i] # "blank" /\ text[j] # "blank" =>
             \E k \in 1..Len(ws) : Min(ws[k]) <= i /\ j <= Max(ws[k])
    /\ OverlapChars < MaxChars - 1 =>
          /\ \A k \in 1..Len(ws) : Max(ws[k]) = Len(text) \/ Max(ws[k]) >= d + MaxChars - 2
          /\ \A k, l \in 1..Len(ws) :
                k < l => Min(ws[k]) < Min(ws[l]) /\ Max(ws[k]) < Max(ws[l])

\* One window: nothing but blanks is stripped from it, and at most one at each
\* edge, since the text is normalised.
LEMMA CutOk ==
    ASSUME NEW text, Normal(text), NEW d \in 1..Len(text)
    PROVE  LET e == Ending(text, d)
               w == Cut(text, d)
           IN /\ e \in d..Len(text)
              /\ e < Len(text) => e = d + MaxChars - 1
              /\ w # {} => Min(w) \in d..e /\ Max(w) \in d..e /\ Min(w) <= Max(w)
              /\ \A i \in d..e : text[i] # "blank" => w # {} /\ Min(w) <= i /\ i <= Max(w)
              /\ OverlapChars < MaxChars - 1 =>
                    /\ w # {} /\ Min(w) <= d + 1
                    /\ Max(w) = Len(text) \/ Max(w) >= d + MaxChars - 2
                    /\ e = Len(text) => Max(w) = Len(text)
  <1> USE ContextualizationAssumption
  <1> DEFINE n == Len(text)
             e == Ending(text, d)
             w == Cut(text, d)
  <1>1. text \in Seq(Symbols) /\ n \in Nat /\ d \in Nat
      BY DEF Normal
  <1>2. e \in d..n /\ (e < n => e = d + MaxChars - 1) /\ e <= d + MaxChars - 1
    <2>1. e = IF n <= d + MaxChars - 1 THEN n ELSE d + MaxChars - 1
        BY <1>1, EndingOf
    <2> HIDE DEF e, n
    <2> QED
        BY <1>1, <2>1 DEF n
  <1>3. \/ w = {} /\ \A i \in d..e : text[i] = "blank"
        \/ \E a, b \in d..e : /\ a <= b /\ w = a..b
                              /\ \A i \in d..e : text[i] # "blank" => i \in a..b
    <2>1. d \in Int /\ e \in Int
        BY <1>1, <1>2
    <2> QED
        BY <2>1, StripToLetters DEF Cut
  <1> HIDE DEF n, e, w
  <1>4. w # {} => Min(w) \in d..e /\ Max(w) \in d..e /\ Min(w) <= Max(w)
    <2> SUFFICES ASSUME w # {} PROVE Min(w) \in d..e /\ Max(w) \in d..e /\ Min(w) <= Max(w)
        OBVIOUS
    <2>1. PICK a, b \in d..e : a <= b /\ w = a..b
        BY <1>3
    <2>2. Min(w) = a /\ Max(w) = b
        BY <1>1, <1>2, <2>1, IntervalEnds
    <2> QED
        BY <2>1, <2>2
  <1>5. ASSUME NEW i \in d..e, text[i] # "blank" PROVE w # {} /\ Min(w) <= i /\ i <= Max(w)
    <2>1. PICK a, b \in d..e : a <= b /\ w = a..b /\ i \in a..b
        BY <1>3, <1>5
    <2>2. Min(w) = a /\ Max(w) = b /\ w # {}
        BY <1>1, <1>2, <2>1, IntervalEnds
    <2> QED
        BY <1>1, <1>2, <2>1, <2>2
  <1>6. ASSUME OverlapChars < MaxChars - 1
        PROVE  /\ w # {} /\ Min(w) <= d + 1
               /\ Max(w) = n \/ Max(w) >= d + MaxChars - 2
               /\ e = n => Max(w) = n
    <2>1. text[n] # "blank" /\ \A i \in 1..(n - 1) : ~(text[i] = "blank" /\ text[i + 1] = "blank")
        BY DEF Normal, n
    <2>2. CASE e = n
      <3>1. w # {} /\ n <= Max(w)
          BY <1>1, <1>2, <1>5, <2>1, <2>2
      <3>2. Max(w) = n
          BY <1>1, <1>2, <1>4, <2>2, <3>1
      <3>3. Min(w) <= d + 1
        <4>1. CASE d = n
            BY <1>1, <1>2, <1>4, <2>2, <3>1, <4>1
        <4>2. CASE d < n
          <5>1. text[d] # "blank" \/ text[d + 1] # "blank"
              BY <1>1, <2>1, <4>2
          <5>2. d \in d..e /\ d + 1 \in d..e
              BY <1>1, <1>2, <2>2, <4>2
          <5>3. Min(w) <= d \/ Min(w) <= d + 1
              BY <1>5, <5>1, <5>2
          <5> QED
              BY <1>1, <1>2, <1>4, <3>1, <5>3
        <4> QED
            BY <1>1, <1>2, <4>1, <4>2
      <3> QED
          BY <3>1, <3>2, <3>3
    <2>3. CASE e < n
      <3>1. e = d + MaxChars - 1 /\ MaxChars >= 2 /\ d + 1 \in d..e /\ d \in d..e
            /\ e - 1 \in d..e /\ e \in d..e
          BY <1>1, <1>2, <1>6, <2>3
      <3>2. text[d] # "blank" \/ text[d + 1] # "blank"
          BY <1>1, <1>2, <2>1, <2>3, <3>1
      <3>3. w # {} /\ Min(w) <= d + 1
        <4>1. w # {} /\ (Min(w) <= d \/ Min(w) <= d + 1)
            BY <1>5, <3>1, <3>2
        <4> QED
            BY <1>1, <1>2, <1>4, <4>1
      <3>4. text[e - 1] # "blank" \/ text[e] # "blank"
        <4>1. e - 1 \in 1..(n - 1) /\ (e - 1) + 1 = e
            BY <1>1, <1>2, <2>3, <3>1
        <4> QED
            BY <2>1, <4>1
      <3>5. e - 1 <= Max(w) \/ e <= Max(w)
          BY <1>5, <3>1, <3>4
      <3>6. Max(w) >= d + MaxChars - 2
          BY <1>1, <1>2, <1>4, <3>1, <3>3, <3>5
      <3> QED
          BY <2>3, <3>3, <3>6, <1>1, <1>2
    <2> QED
        BY <1>1, <1>2, <2>2, <2>3
  <1> QED
      BY <1>2, <1>4, <1>5, <1>6 DEF n, e, w

\* One more window in front keeps all of that.
LEMMA WindowInFront ==
    ASSUME NEW text, Normal(text), NEW d \in 1..Len(text), NEW r,
           Ending(text, d) = Len(text) => r = <<>>,
           Ending(text, d) # Len(text) =>
              d + MaxChars - OverlapChars <= Len(text)
              /\ WindowsOk(text, d + MaxChars - OverlapChars, r)
    PROVE  WindowsOk(text, d, Opening(text, d) \o r)
  <1> USE ContextualizationAssumption
  <1> DEFINE n == Len(text)
             e == Ending(text, d)
             w == Cut(text, d)
             next == d + MaxChars - OverlapChars
             V == Intervals(n)
             ws == Opening(text, d) \o r
             deep == OverlapChars < MaxChars - 1
  <1>1. text \in Seq(Symbols) /\ n \in Nat /\ d \in Nat /\ next \in Nat /\ next > d
      BY DEF Normal
  <1>2. r \in Seq(V)
    <2>1. CASE e = n
        BY <2>1
    <2>2. CASE e # n
        BY <2>2 DEF WindowsOk
    <2> QED
        BY <2>1, <2>2
  <1>3. /\ e \in d..n
        /\ e < n => e = d + MaxChars - 1
        /\ w # {} => Min(w) \in d..e /\ Max(w) \in d..e /\ Min(w) <= Max(w)
        /\ \A i \in d..e : text[i] # "blank" => w # {} /\ Min(w) <= i /\ i <= Max(w)
        /\ deep => /\ w # {} /\ Min(w) <= d + 1
                   /\ Max(w) = n \/ Max(w) >= d + MaxChars - 2
                   /\ e = n => Max(w) = n
      BY CutOk
  <1>4. Opening(text, d) = IF w = {} THEN <<>> ELSE <<w>>
      BY DEF Opening
  <1>5. w # {} => w \in V
    <2> SUFFICES ASSUME w # {} PROVE w \in V
        OBVIOUS
    <2>1. <<w>> \in Seq(V)
        BY <1>1, <1>4, OpeningIsInterval
    <2> HIDE DEF w, V
    <2> QED
        BY <2>1
  <1> DEFINE Inside == \A k \in 1..Len(r) :
                          /\ Min(r[k]) \in d..n /\ Max(r[k]) \in d..n
                          /\ Min(r[k]) <= Max(r[k])
             Kept == \A i, j \in d..n :
                        /\ i <= j /\ j <= i + OverlapChars /\ j > e
                        /\ text[i] # "blank" /\ text[j] # "blank"
                        => \E k \in 1..Len(r) : Min(r[k]) <= i /\ j <= Max(r[k])
             Behind == \A k \in 1..Len(r) :
                          /\ Max(r[k]) = n \/ Max(r[k]) >= d + MaxChars - 2
                          /\ w # {} => Min(w) < Min(r[k]) /\ Max(w) < Max(r[k])
             Apart == \A k, l \in 1..Len(r) :
                         k < l => Min(r[k]) < Min(r[l]) /\ Max(r[k]) < Max(r[l])
  <1>6. Inside /\ Kept /\ (deep => Behind /\ Apart)
    <2>1. CASE e = n
      <3>1. r = <<>>
          BY <2>1
      <3>2. \A k : k \notin 1..Len(r)
          BY <3>1
      <3>3. \A i, j \in d..n : ~(j > e)
        <4> HIDE DEF n, e
        <4> QED
            BY <1>1, <2>1
      <3> HIDE DEF n, e, w, deep
      <3>4. Inside /\ Behind /\ Apart
          BY <3>2
      <3>5. Kept
          BY <3>3
      <3> HIDE DEF Inside, Behind, Apart, Kept
      <3> QED
          BY <3>4, <3>5
    <2>2. CASE e # n
      <3>0. e < n /\ e = d + MaxChars - 1 /\ next <= n
          BY <1>1, <1>3, <2>2
      <3>1. /\ \A k \in 1..Len(r) :
                  /\ Min(r[k]) \in next..n /\ Max(r[k]) \in next..n
                  /\ Min(r[k]) <= Max(r[k])
            /\ \A i, j \in next..n :
                  i <= j /\ j <= i + OverlapChars /\ text[i] # "blank" /\ text[j] # "blank" =>
                     \E k \in 1..Len(r) : Min(r[k]) <= i /\ j <= Max(r[k])
            /\ deep =>
                  /\ \A k \in 1..Len(r) : Max(r[k]) = n \/ Max(r[k]) >= next + MaxChars - 2
                  /\ \A k, l \in 1..Len(r) :
                        k < l => Min(r[k]) < Min(r[l]) /\ Max(r[k]) < Max(r[l])
          BY <2>2 DEF WindowsOk
      <3>2. MaxChars \in Nat /\ OverlapChars \in Nat /\ OverlapChars <= MaxChars - 1
            /\ next = d + MaxChars - OverlapChars
          OBVIOUS
      <3> HIDE DEF n, e, w, next
      <3>3. \A k \in 1..Len(r) : /\ Min(r[k]) \in d..n /\ Max(r[k]) \in d..n
                                 /\ Min(r[k]) <= Max(r[k])
          BY <1>1, <3>1
      <3>4. ASSUME NEW i \in d..n, NEW j \in d..n, i <= j, j <= i + OverlapChars, j > e,
                   text[i] # "blank", text[j] # "blank"
            PROVE  \E k \in 1..Len(r) : Min(r[k]) <= i /\ j <= Max(r[k])
        <4>1. i \in next..n /\ j \in next..n
            BY <1>1, <3>0, <3>2, <3>4
        <4> QED
            BY <3>1, <3>4, <4>1
      <3>5. ASSUME deep, NEW k \in 1..Len(r)
            PROVE  /\ Max(r[k]) = n \/ Max(r[k]) >= d + MaxChars - 2
                   /\ w # {} => Min(w) < Min(r[k]) /\ Max(w) < Max(r[k])
        <4>1. /\ Min(r[k]) \in next..n /\ Max(r[k]) \in next..n
              /\ Max(r[k]) = n \/ Max(r[k]) >= next + MaxChars - 2
            BY <3>1, <3>5
        <4>2. next >= d + 2
            BY <1>1, <3>2, <3>5
        <4>3. Max(r[k]) = n \/ Max(r[k]) >= d + MaxChars
            BY <1>1, <3>2, <4>1, <4>2
        <4> HIDE DEF deep
        <4>4. w # {} => Min(w) <= d + 1 /\ Min(w) \in Int /\ Max(w) \in Int /\ Max(w) <= e
            BY <1>1, <1>3, <3>5
        <4> QED
            BY <1>1, <3>0, <3>2, <4>1, <4>2, <4>3, <4>4
      <3>6. deep => Apart
          BY <3>1
      <3>7. deep => Behind
        <4> HIDE DEF deep
        <4> QED
            BY <3>5
      <3>8. Inside
          BY <3>3
      <3>9. Kept
          BY <3>4
      <3> HIDE DEF deep, Inside, Kept, Behind, Apart
      <3> QED
          BY <3>6, <3>7, <3>8, <3>9
    <2> QED
        BY <2>1, <2>2
  <1>7. CASE w = {}
    <2>1. ws = r
        BY <1>2, <1>4, <1>7
    <2>2. \A i \in d..e : text[i] = "blank"
        BY <1>3, <1>7
    <2>3. \A i, j \in d..n : i <= j /\ text[i] # "blank" => j > e
      <3> HIDE DEF n, e, w
      <3> QED
          BY <1>1, <1>3, <2>2
    <2>4. \A i, j \in d..n :
             i <= j /\ j <= i + OverlapChars /\ text[i] # "blank" /\ text[j] # "blank" =>
                \E k \in 1..Len(r) : Min(r[k]) <= i /\ j <= Max(r[k])
        BY <1>6, <2>3
    <2>5. WindowsOk(text, d, r)
      <3> HIDE DEF w, e, ws
      <3> QED
          BY <1>2, <1>6, <2>4 DEF WindowsOk
    <2> QED
        BY <2>1, <2>5
  <1>8. CASE w # {}
    <2>1. ws = <<w>> \o r
        BY <1>4, <1>8
    <2>2. /\ ws \in Seq(V) /\ Len(ws) = Len(r) + 1 /\ ws[1] = w
          /\ \A k \in 1..Len(r) : ws[k + 1] = r[k]
          /\ Len(r) \in Nat
      <3> HIDE DEF V, w, ws
      <3> QED
          BY <1>2, <1>5, <1>8, <2>1, Prepend
    <2> HIDE DEF n, e, w, ws, V, deep
    <2>3. ASSUME NEW k \in 1..Len(ws), k # 1
          PROVE  k - 1 \in 1..Len(r) /\ ws[k] = r[k - 1]
      <3>1. k - 1 \in 1..Len(r) /\ (k - 1) + 1 = k
          BY <2>2, <2>3
      <3> QED
          BY <2>2, <3>1
    <2>4. ASSUME NEW k \in 1..Len(ws)
          PROVE  /\ Min(ws[k]) \in d..n /\ Max(ws[k]) \in d..n
                 /\ Min(ws[k]) <= Max(ws[k])
                 /\ deep => Max(ws[k]) = n \/ Max(ws[k]) >= d + MaxChars - 2
      <3>1. CASE k = 1
          BY <1>1, <1>3, <1>8, <2>2, <3>1
      <3>2. CASE k # 1
          BY <1>6, <2>3, <3>2
      <3> QED
          BY <3>1, <3>2
    <2>5. ASSUME NEW i \in d..n, NEW j \in d..n, i <= j, j <= i + OverlapChars,
                 text[i] # "blank", text[j] # "blank"
          PROVE  \E k \in 1..Len(ws) : Min(ws[k]) <= i /\ j <= Max(ws[k])
      <3>1. CASE j <= e
        <4>1. i \in d..e /\ j \in d..e
            BY <1>1, <1>3, <2>5, <3>1
        <4>2. Min(w) <= i /\ j <= Max(w)
            BY <1>3, <2>5, <4>1
        <4> QED
            BY <2>2, <4>2
      <3>2. CASE ~(j <= e)
        <4>1. j > e
            BY <1>1, <1>3, <3>2
        <4>2. PICK k \in 1..Len(r) : Min(r[k]) <= i /\ j <= Max(r[k])
            BY <1>6, <2>5, <4>1
        <4>3. k + 1 \in 1..Len(ws)
            BY <2>2
        <4> QED
            BY <2>2, <4>2, <4>3
      <3> QED
          BY <3>1, <3>2
    <2>6. ASSUME deep, NEW k \in 1..Len(ws), NEW l \in 1..Len(ws), k < l
          PROVE  Min(ws[k]) < Min(ws[l]) /\ Max(ws[k]) < Max(ws[l])
      <3>1. l - 1 \in 1..Len(r) /\ ws[l] = r[l - 1]
          BY <2>2, <2>3, <2>6
      <3>2. CASE k = 1
          BY <1>6, <1>8, <2>2, <2>6, <3>1, <3>2
      <3>3. CASE k # 1
        <4>1. k - 1 \in 1..Len(r) /\ ws[k] = r[k - 1] /\ k - 1 < l - 1
            BY <2>2, <2>3, <2>6, <3>3
        <4> QED
            BY <1>6, <2>6, <3>1, <4>1
      <3> QED
          BY <3>2, <3>3
    <2> QED
        BY <2>2, <2>4, <2>5, <2>6 DEF WindowsOk, n, V, ws, deep
  <1> QED
      BY <1>7, <1>8

\* All windows of a page.
LEMMA SlidingWindowsOk ==
    ASSUME NEW text, Normal(text), text # <<>>
    PROVE  WindowsOk(text, 1, SlidingWindows(text))
  <1> USE ContextualizationAssumption
  <1> DEFINE n == Len(text)
  <1>1. text \in Seq(Symbols) /\ n \in Nat /\ n >= 1
      BY DEF Normal
  <1>2. CASE n <= MaxChars
    <2>1. SlidingWindows(text) = <<1..n>>
        BY <1>2 DEF SlidingWindows
    <2>2. Min(1..n) = 1 /\ Max(1..n) = n
        BY <1>1, IntervalEnds
    <2>3. 1..n \in Intervals(n)
        BY <1>1 DEF Intervals
    <2> DEFINE ws == SlidingWindows(text)
    <2>4. ws \in Seq(Intervals(n)) /\ Len(ws) = 1 /\ ws[1] = 1..n
        BY <2>1, <2>3
    <2> HIDE DEF ws, n
    <2> QED
        BY <1>1, <2>2, <2>4 DEF WindowsOk, n, ws
  <1>3. CASE n > MaxChars
    <2>1. PICK f \in [Nat -> Seq(Intervals(n))] :
             WindowsFrom(f, text) /\ SlidingWindows(text) = f[1]
        BY <1>1, <1>3, WindowsExist
    <2> DEFINE m == [d \in Nat |-> IF d <= n THEN n - d ELSE 0]
               P == {d \in Nat : d \in 1..n => WindowsOk(text, d, f[d])}
               D == Nat
               next(d) == d + MaxChars - OverlapChars
    <2>2. n \in Nat /\ m \in [D -> 0..n] /\ P \in SUBSET D
        BY <1>1
    <2>3. Inductive(D, m, P)
      <3> SUFFICES ASSUME NEW d \in D, \A c \in D : m[c] < m[d] => c \in P, d \in 1..n
                   PROVE  WindowsOk(text, d, f[d])
          BY DEF Inductive
      <3> DEFINE r == IF Ending(text, d) = n THEN <<>> ELSE f[next(d)]
      <3>1. f[d] = Opening(text, d) \o r
          BY <2>1 DEF WindowsFrom
      <3>2. ASSUME Ending(text, d) # n
            PROVE  next(d) <= n /\ WindowsOk(text, next(d), f[next(d)])
        <4>1. d + MaxChars - 1 < n
          <5>1. Ending(text, d) = IF n <= d + MaxChars - 1 THEN n ELSE d + MaxChars - 1
              BY <1>1, EndingOf
          <5>2. d + MaxChars - 1 \in Int
              OBVIOUS
          <5> HIDE DEF n
          <5> QED
              BY <1>1, <3>2, <5>1, <5>2
        <4>2. next(d) \in D /\ next(d) \in 1..n /\ next(d) > d
            BY <1>1, <4>1
        <4>3. m[next(d)] < m[d]
            BY <1>1, <4>2
        <4>4. next(d) \in P
            BY <4>2, <4>3
        <4> HIDE DEF n, next
        <4> QED
            BY <4>2, <4>4, <1>1
      <3>3. Ending(text, d) = n => r = <<>>
          OBVIOUS
      <3>4. Ending(text, d) # n => r = f[next(d)]
          OBVIOUS
      <3> HIDE DEF r
      <3> QED
          BY <3>1, <3>2, <3>3, <3>4, WindowInFront
    <2>4. P = D
      <3> HIDE DEF P, m, n, D
      <3> QED
          BY <2>2, <2>3, MeasureInduction
    <2>5. 1 \in P
        BY <2>4
    <2> QED
        BY <1>1, <2>1, <2>5
  <1> QED
      BY <1>1, <1>2, <1>3

\* A page and the first and last character of a stretch of it.
ChunkRecords == [page : Nat, from : Nat, to : Nat]

\* The chunks of one page, as chunk_document builds them.
PageChunks(texts, p) ==
    IF texts[p] = <<>> THEN <<>>
    ELSE LET windows == SlidingWindows(texts[p])
         IN [i \in DOMAIN windows |-> [page |-> p, from |-> Min(windows[i]),
                                       to |-> Max(windows[i])]]

\* The chunks of the pages in some set: they have text, no passage of these
\* pages is lost, and a page's chunks begin and end one behind the other.
ChunksOk(texts, range, cs) ==
    /\ cs \in Seq(ChunkRecords)
    /\ \A c \in 1..Len(cs) : cs[c].page \in range /\ cs[c].from <= cs[c].to
    /\ \A p \in range : \A i, j \in 1..Len(texts[p]) :
          i <= j /\ j <= i + OverlapChars /\ texts[p][i] # "blank" /\ texts[p][j] # "blank" =>
             \E c \in 1..Len(cs) : cs[c].page = p /\ cs[c].from <= i /\ j <= cs[c].to
    /\ OverlapChars < MaxChars - 1 =>
          \A c, d \in 1..Len(cs) :
             c < d /\ cs[c].page = cs[d].page => cs[c].from < cs[d].from /\ cs[c].to < cs[d].to

\* The chunks of one page are its windows.
LEMMA PageChunksOk ==
    ASSUME NEW texts, NEW p \in Nat, Normal(texts[p])
    PROVE  ChunksOk(texts, {p}, PageChunks(texts, p))
  <1> DEFINE text == texts[p]
             n == Len(text)
             cs == PageChunks(texts, p)
             deep == OverlapChars < MaxChars - 1
  <1>1. text \in Seq(Symbols) /\ n \in Nat
      BY DEF Normal
  <1>2. CASE text = <<>>
    <2>1. cs = <<>> /\ n = 0
        BY <1>2 DEF PageChunks
    <2> HIDE DEF cs, deep
    <2>2. (\A c : c \notin 1..Len(cs)) /\ (\A c : c \notin 1..n) /\ cs \in Seq(ChunkRecords)
        BY <2>1
    <2> QED
        BY <2>2 DEF ChunksOk, cs
  <1>3. CASE text # <<>>
    <2> DEFINE ws == SlidingWindows(text)
    <2>1. WindowsOk(text, 1, ws)
        BY <1>3, SlidingWindowsOk
    <2>2. ws \in Seq(Intervals(n)) /\ Len(ws) \in Nat /\ DOMAIN ws = 1..Len(ws)
        BY <2>1 DEF WindowsOk
    <2>3. cs = [i \in 1..Len(ws) |-> [page |-> p, from |-> Min(ws[i]), to |-> Max(ws[i])]]
        BY <1>3, <2>2 DEF PageChunks
    <2>4. \A k \in 1..Len(ws) :
             /\ Min(ws[k]) \in 1..n /\ Max(ws[k]) \in 1..n
             /\ Min(ws[k]) <= Max(ws[k])
        BY <2>1 DEF WindowsOk
    <2>5. \A i, j \in 1..n :
             i <= j /\ j <= i + OverlapChars /\ text[i] # "blank" /\ text[j] # "blank" =>
                \E k \in 1..Len(ws) : Min(ws[k]) <= i /\ j <= Max(ws[k])
        BY <2>1 DEF WindowsOk
    <2>6. deep => \A k, l \in 1..Len(ws) :
                     k < l => Min(ws[k]) < Min(ws[l]) /\ Max(ws[k]) < Max(ws[l])
        BY <2>1 DEF WindowsOk
    <2> HIDE DEF ws, cs, deep, n
    <2>7. \A k \in 1..Len(ws) : cs[k] = [page |-> p, from |-> Min(ws[k]), to |-> Max(ws[k])]
        BY <2>3
    <2>8. \A k \in 1..Len(ws) : /\ cs[k] \in ChunkRecords
                                /\ cs[k].page = p
                                /\ cs[k].from = Min(ws[k])
                                /\ cs[k].to = Max(ws[k])
      <3> TAKE k \in 1..Len(ws)
      <3>1. Min(ws[k]) \in Nat /\ Max(ws[k]) \in Nat
          BY <1>1, <2>4
      <3>2. cs[k] = [page |-> p, from |-> Min(ws[k]), to |-> Max(ws[k])]
          BY <2>7
      <3> QED
          BY <3>1, <3>2 DEF ChunkRecords
    <2>9. cs \in Seq(ChunkRecords) /\ Len(cs) = Len(ws)
      <3>1. cs = [k \in 1..Len(ws) |-> cs[k]]
          BY <2>3
      <3> QED
          BY <2>2, <2>8, <3>1
    <2>10. \A i, j \in 1..n :
             i <= j /\ j <= i + OverlapChars /\ text[i] # "blank" /\ text[j] # "blank" =>
                \E c \in 1..Len(cs) : cs[c].page = p /\ cs[c].from <= i /\ j <= cs[c].to
        BY <2>5, <2>8, <2>9
    <2>11. deep => \A c, d \in 1..Len(cs) :
                      c < d => cs[c].from < cs[d].from /\ cs[c].to < cs[d].to
        BY <2>6, <2>8, <2>9
    <2>12. \A c \in 1..Len(cs) : cs[c].page \in {p} /\ cs[c].from <= cs[c].to
        BY <2>4, <2>8, <2>9
    <2> QED
        BY <2>9, <2>10, <2>11, <2>12 DEF ChunksOk, cs, deep, n
  <1> QED
      BY <1>2, <1>3

\* The chunks of other, later pages behind those of some pages.
LEMMA ChunksJoined ==
    ASSUME NEW texts, NEW p \in Nat, NEW cs, NEW ds,
           ChunksOk(texts, 1..p, cs), ChunksOk(texts, {p + 1}, ds)
    PROVE  ChunksOk(texts, 1..(p + 1), cs \o ds)
  <1> DEFINE es == cs \o ds
             deep == OverlapChars < MaxChars - 1
             lc == Len(cs)
             ld == Len(ds)
  <1>1. cs \in Seq(ChunkRecords) /\ ds \in Seq(ChunkRecords) /\ lc \in Nat /\ ld \in Nat
      BY DEF ChunksOk
  <1>2. /\ es \in Seq(ChunkRecords)
        /\ Len(es) = lc + ld
        /\ \A i \in 1..(lc + ld) : es[i] = IF i <= lc THEN cs[i] ELSE ds[i - lc]
      BY <1>1, ConcatProperties
  <1>3. \A c \in 1..lc : cs[c].page \in 1..p /\ cs[c].from <= cs[c].to
      BY DEF ChunksOk
  <1>4. \A c \in 1..ld : ds[c].page = p + 1 /\ ds[c].from <= ds[c].to
      BY DEF ChunksOk
  <1>5. deep => \A c, d \in 1..lc :
                   c < d /\ cs[c].page = cs[d].page =>
                      cs[c].from < cs[d].from /\ cs[c].to < cs[d].to
      BY DEF ChunksOk
  <1>6. deep => \A c, d \in 1..ld :
                   c < d /\ ds[c].page = ds[d].page =>
                      ds[c].from < ds[d].from /\ ds[c].to < ds[d].to
      BY DEF ChunksOk
  <1> HIDE DEF es, deep, lc, ld
  <1>7. \A i \in 1..lc : i \in 1..Len(es) /\ es[i] = cs[i]
      BY <1>1, <1>2
  <1>8. ASSUME NEW i \in 1..ld PROVE lc + i \in 1..Len(es) /\ es[lc + i] = ds[i]
    <2>1. lc + i \in 1..(lc + ld) /\ ~(lc + i <= lc) /\ (lc + i) - lc = i
        BY <1>1
    <2> QED
        BY <1>2, <2>1
  <1>9. ASSUME NEW i \in 1..Len(es)
        PROVE  \/ i \in 1..lc /\ es[i] = cs[i]
               \/ i > lc /\ i - lc \in 1..ld /\ es[i] = ds[i - lc]
      BY <1>1, <1>2
  <1>10. \A c \in 1..Len(es) : es[c].page \in 1..(p + 1) /\ es[c].from <= es[c].to
      BY <1>3, <1>4, <1>9
  <1>11. ASSUME NEW q \in 1..(p + 1), NEW i \in 1..Len(texts[q]), NEW j \in 1..Len(texts[q]),
                i <= j, j <= i + OverlapChars, texts[q][i] # "blank", texts[q][j] # "blank"
         PROVE  \E c \in 1..Len(es) : es[c].page = q /\ es[c].from <= i /\ j <= es[c].to
    <2>1. CASE q \in 1..p
      <3>1. PICK c \in 1..lc : cs[c].page = q /\ cs[c].from <= i /\ j <= cs[c].to
          BY <1>11, <2>1 DEF ChunksOk, lc
      <3> QED
          BY <1>7, <3>1
    <2>2. CASE q = p + 1
      <3>1. PICK c \in 1..ld : ds[c].page = q /\ ds[c].from <= i /\ j <= ds[c].to
          BY <1>11, <2>2 DEF ChunksOk, ld
      <3> QED
          BY <1>8, <3>1
    <2> QED
        BY <2>1, <2>2
  <1>12. ASSUME deep, NEW c \in 1..Len(es), NEW d \in 1..Len(es), c < d, es[c].page = es[d].page
         PROVE  es[c].from < es[d].from /\ es[c].to < es[d].to
    <2>1. CASE c \in 1..lc /\ d \in 1..lc
        BY <1>5, <1>7, <1>12, <2>1
    <2>2. CASE c > lc
      <3>1. c - lc \in 1..ld /\ es[c] = ds[c - lc] /\ d - lc \in 1..ld /\ es[d] = ds[d - lc]
          BY <1>1, <1>9, <1>12, <2>2
      <3>2. c - lc < d - lc
          BY <1>1, <1>12
      <3> QED
          BY <1>6, <1>12, <3>1, <3>2
    <2>3. CASE c \in 1..lc /\ d > lc
      <3>1. es[c].page \in 1..p /\ es[d].page = p + 1
          BY <1>1, <1>3, <1>4, <1>7, <1>9, <2>3
      <3> QED
          BY <1>12, <3>1
    <2> QED
        BY <1>1, <1>9, <2>1, <2>2, <2>3
  <1>13. deep => \A c, d \in 1..Len(es) :
            c < d /\ es[c].page = es[d].page => es[c].from < es[d].from /\ es[c].to < es[d].to
      BY <1>12
  <1>14. \A q \in 1..(p + 1) : \A i, j \in 1..Len(texts[q]) :
            i <= j /\ j <= i + OverlapChars /\ texts[q][i] # "blank" /\ texts[q][j] # "blank" =>
               \E c \in 1..Len(es) : es[c].page = q /\ es[c].from <= i /\ j <= es[c].to
      BY <1>11
  <1> QED
      BY <1>2, <1>10, <1>13, <1>14 DEF ChunksOk, es, deep

\* All chunks of a document.
LEMMA ChunkDocumentOk ==
    ASSUME NEW n \in Nat, NEW texts, Len(texts) = n, \A p \in 1..n : Normal(texts[p])
    PROVE  ChunksOk(texts, 1..n, ChunkDocument(texts))
  <1> DEFINE D == 0..n
             V == Seq(ChunkRecords)
             m == [d \in D |-> d]
             last == {0}
             next == [d \in D |-> IF d = 0 THEN 0 ELSE d - 1]
             base == [d \in D |-> <<>>]
             step == [d \in D |-> [v \in V |-> IF d = 0 THEN v ELSE v \o PageChunks(texts, d)]]
             Body(g) == [d \in D |-> IF d = 0 THEN <<>> ELSE g[d - 1] \o PageChunks(texts, d)]
  <1>1. m \in [D -> 0..n] /\ next \in [D -> D] /\ base \in [D -> V]
      OBVIOUS
  <1>2. \A d \in 1..n : PageChunks(texts, d) \in V
      BY PageChunksOk DEF ChunksOk
  <1>3. step \in [D -> [V -> V]]
    <2>1. \A u, v \in V : u \o v \in V
        BY ConcatProperties
    <2>2. \A d \in D : d = 0 \/ d \in 1..n
        OBVIOUS
    <2> HIDE DEF V, D
    <2> QED
        BY <1>2, <2>1, <2>2
  <1>4. \A d \in D : d \in last \/ m[next[d]] < m[d]
      OBVIOUS
  <1>5. PICK f : Unfolds(f, D, V, last, next, base, step)
    <2> HIDE DEF V, D, last, next, base, step, m
    <2> QED
        BY <1>1, <1>3, <1>4, MeasuredRecursion
  <1>6. f \in [D -> V]
      BY <1>5 DEF Unfolds
  <1>7. ASSUME NEW d \in D
        PROVE  f[d] = IF d = 0 THEN <<>> ELSE f[d - 1] \o PageChunks(texts, d)
    <2>1. f[d] = IF d \in last THEN base[d] ELSE step[d][f[next[d]]]
        BY <1>5 DEF Unfolds
    <2>2. CASE d = 0
        BY <2>1, <2>2
    <2>3. CASE d # 0
      <3>1. d - 1 \in D /\ next[d] = d - 1
          BY <2>3
      <3>2. f[d - 1] \in V
          BY <1>6, <3>1
      <3>3. step[d][f[d - 1]] = f[d - 1] \o PageChunks(texts, d)
        <4> HIDE DEF V
        <4> QED
            BY <2>3, <3>2
      <3> HIDE DEF step, next
      <3> QED
          BY <2>1, <2>3, <3>1, <3>3
    <2> QED
        BY <2>2, <2>3
  <1>8. f = Body(f)
      BY <1>6, <1>7
  <1> DEFINE g == CHOOSE h : h = Body(h)
  <1>9. g = Body(g)
    <2>1. \E h : h = Body(h)
        BY <1>8
    <2> HIDE DEF Body
    <2> QED
        BY <2>1
  <1>10. ChunkDocument(texts) = g[n]
      BY DEF ChunkDocument, PageChunks
  <1> HIDE DEF g
  <1>11. g[0] = <<>>
      BY <1>9
  <1>12. ASSUME NEW d \in 1..n PROVE g[d] = g[d - 1] \o PageChunks(texts, d)
    <2>1. d \in D /\ d # 0
        OBVIOUS
    <2> QED
        BY <1>9, <2>1
  <1> DEFINE P == {d \in D : ChunksOk(texts, 1..d, g[d])}
  <1>13. Inductive(D, m, P)
    <2> SUFFICES ASSUME NEW d \in D, \A e \in D : m[e] < m[d] => e \in P PROVE d \in P
        BY DEF Inductive
    <2>1. CASE d = 0
      <3>1. (\A c : c \notin 1..Len(<<>>)) /\ (\A c : c \notin 1..0) /\ <<>> \in Seq(ChunkRecords)
          OBVIOUS
      <3>2. ChunksOk(texts, 1..0, <<>>)
          BY <3>1 DEF ChunksOk
      <3> QED
          BY <1>11, <2>1, <3>2
    <2>2. CASE d # 0
      <3>1. d - 1 \in D /\ d - 1 \in Nat /\ d \in 1..n /\ (d - 1) + 1 = d /\ m[d - 1] < m[d]
          BY <2>2
      <3>2. ChunksOk(texts, 1..(d - 1), g[d - 1])
          BY <3>1
      <3>3. ChunksOk(texts, {(d - 1) + 1}, PageChunks(texts, d))
          BY <3>1, PageChunksOk
      <3>4. ChunksOk(texts, 1..((d - 1) + 1), g[d - 1] \o PageChunks(texts, d))
          BY <3>1, <3>2, <3>3, ChunksJoined
      <3> QED
          BY <1>12, <3>1, <3>4
    <2> QED
        BY <2>1, <2>2
  <1>14. P = D
    <2>1. P \in SUBSET D
        OBVIOUS
    <2> HIDE DEF P, m, D
    <2> QED
        BY <1>1, <1>13, <2>1, MeasureInduction
  <1>15. n \in P
      BY <1>14
  <1> QED
      BY <1>10, <1>15
-----------------------------------------------------------------------------
(* Groups: cluster_chunk_embeddings.                                       *)

\* CeilDiv rounds up.
LEMMA CeilDivOf ==
    ASSUME NEW a \in Nat, NEW e \in Nat \ {0}
    PROVE  /\ CeilDiv(a, e) \in Nat
           /\ a <= e * CeilDiv(a, e)
           /\ e * CeilDiv(a, e) < a + e
           /\ e * CeilDiv(a, e) \in Nat
  <1> DEFINE b == a + e - 1
             q == b \div e
  <1>1. b \in Nat
      OBVIOUS
  <1>2. q \in Nat /\ e * q <= b /\ b < e * q + e
    <2> HIDE DEF b
    <2> QED
        BY <1>1, Quotient
  <1>3. CeilDiv(a, e) = q
      BY DEF CeilDiv
  <1> HIDE DEF q
  <1>4. e * q \in Nat
      BY <1>2
  <1> QED
      BY <1>1, <1>2, <1>3, <1>4

\* No other number is the quotient rounded up.
LEMMA CeilDivIs ==
    ASSUME NEW a \in Nat, NEW e \in Nat \ {0}, NEW q \in Nat, a <= e * q, e * q < a + e
    PROVE  CeilDiv(a, e) = q
  <1> DEFINE b == a + e - 1
             p == e * q
  <1>1. b \in Nat /\ p \in Nat
      OBVIOUS
  <1>2. p <= b /\ b < p + e
    <2> HIDE DEF p
    <2> QED
        BY <1>1 DEF p
  <1>3. b \div e = q
    <2> HIDE DEF b
    <2> QED
        BY <1>1, <1>2, QuotientIs
  <1> QED
      BY <1>3 DEF CeilDiv

\* Groups of e out of n, one after the other.
LEMMA CeilDivSteps ==
    ASSUME NEW n \in Nat \ {0}, NEW e \in Nat \ {0}
    PROVE  /\ CeilDiv(0, e) = 0
           /\ n <= e => CeilDiv(n, e) = 1
           /\ n > e => CeilDiv(n, e) = CeilDiv(n - e, e) + 1
  <1>1. CeilDiv(0, e) = 0
      BY CeilDivIs
  <1>2. n <= e => CeilDiv(n, e) = 1
      BY CeilDivIs
  <1>3. ASSUME n > e PROVE CeilDiv(n, e) = CeilDiv(n - e, e) + 1
    <2> DEFINE q == CeilDiv(n - e, e)
    <2>1. n - e \in Nat
        BY <1>3
    <2>2. q \in Nat /\ n - e <= e * q /\ e * q < n - e + e /\ e * q \in Nat
        BY <2>1, CeilDivOf
    <2> HIDE DEF q
    <2>3. e * (q + 1) = e * q + e
        BY <2>2
    <2>4. n <= e * (q + 1) /\ e * (q + 1) < n + e
        BY <2>1, <2>2, <2>3
    <2>5. q + 1 \in Nat
        BY <2>2
    <2> QED
        BY <2>4, <2>5, CeilDivIs DEF q
  <1> QED
      BY <1>1, <1>2, <1>3

\* Groups that are large enough are few enough.
LEMMA CeilDivBounded ==
    ASSUME NEW n \in Nat, NEW e \in Nat \ {0}, NEW c \in Nat \ {0}
    PROVE  /\ CeilDiv(n, c) <= e => CeilDiv(n, e) <= c
           /\ CeilDiv(n, e) <= n
  <1> DEFINE q == CeilDiv(n, e)
             d == CeilDiv(n, c)
  <1>1. q \in Nat /\ n <= e * q /\ e * q < n + e /\ e * q \in Nat
      BY CeilDivOf
  <1>2. d \in Nat /\ n <= c * d /\ c * d < n + c /\ c * d \in Nat
      BY CeilDivOf
  <1> HIDE DEF q, d
  <1>3. ASSUME d <= e, ~(q <= c) PROVE FALSE
    <2>1. c * d <= c * e /\ c * e \in Nat
        BY <1>2, <1>3, ProductsGrow
    <2>2. c + 1 \in Nat /\ c + 1 <= q
        BY <1>1, <1>3
    <2>3. e * (c + 1) <= e * q
        BY <1>1, <2>2, ProductsGrow
    <2>4. e * (c + 1) = c * e + e
        OBVIOUS
    <2> QED
        BY <1>1, <1>2, <2>1, <2>3, <2>4
  <1>4. ASSUME ~(q <= n) PROVE FALSE
    <2>1. n + 1 \in Nat /\ n + 1 <= q
        BY <1>1, <1>4
    <2>2. e * (n + 1) <= e * q
        BY <1>1, <2>1, ProductsGrow
    <2>3. e * (n + 1) = n * e + e
        OBVIOUS
    <2>4. n * 1 <= n * e /\ n * e \in Nat
        BY ProductsGrow
    <2>5. n * 1 = n
        OBVIOUS
    <2> QED
        BY <1>1, <2>2, <2>3, <2>4, <2>5
  <1> QED
      BY <1>1, <1>3, <1>4 DEF q, d

\* Groups are large enough for max_clusters of them to take all chunks.
LEMMA EffectiveSizeOf ==
    ASSUME NEW n \in Nat
    PROVE  /\ EffectiveClusterSize(n) \in Nat \ {0}
           /\ CeilDiv(n, MaxClusters) <= EffectiveClusterSize(n)
  <1> USE ContextualizationAssumption
  <1> DEFINE c == CeilDiv(n, MaxClusters)
  <1>1. c \in Nat
      BY CeilDivOf
  <1> HIDE DEF c
  <1>2. Max({TargetClusterSize, c}) = IF TargetClusterSize >= c THEN TargetClusterSize ELSE c
    <2>1. TargetClusterSize \in Int /\ c \in Int
        BY <1>1
    <2> QED
        BY <2>1, MinMaxOfTwo
  <1> QED
      BY <1>1, <1>2 DEF EffectiveClusterSize, c

\* What one group takes of the rest, whichever chunk it is grown from.
NearestTo(n, near, s, rest) ==
    LET from == [i \in 1..n |-> IF s = i \/ {s, i} \in near THEN i ELSE n + i]
    IN {i \in rest : Cardinality({j \in rest : from[j] < from[i]}) < EffectiveClusterSize(n)}

\* A group is full, or it is all that was left.
LEMMA GroupsAreFull ==
    ASSUME NEW n \in Nat, NEW near, NEW s, NEW rest \in SUBSET (1..n)
    PROVE  LET g == NearestTo(n, near, s, rest)
               e == EffectiveClusterSize(n)
           IN /\ g \subseteq rest
              /\ IsFiniteSet(rest) /\ Cardinality(rest) \in Nat
              /\ Cardinality(g) = IF Cardinality(rest) <= e THEN Cardinality(rest) ELSE e
              /\ Cardinality(rest \ g) = Cardinality(rest) - Cardinality(g)
  <1> DEFINE from == [i \in 1..n |-> IF s = i \/ {s, i} \in near THEN i ELSE n + i]
             g == NearestTo(n, near, s, rest)
             e == EffectiveClusterSize(n)
  <1>1. IsFiniteSet(rest) /\ Cardinality(rest) \in Nat
    <2>1. IsFiniteSet(1..n)
        BY FS_Interval
    <2>2. IsFiniteSet(rest)
        BY <2>1, FS_Subset
    <2> QED
        BY <2>2, FS_CardinalityType
  <1>2. \A i \in rest : from[i] \in Int
      OBVIOUS
  <1>3. \A i, j \in rest : from[i] = from[j] => i = j
      OBVIOUS
  <1>4. e \in Nat
      BY EffectiveSizeOf
  <1>5. g = Lowest(rest, from, e)
      BY DEF NearestTo, RankOf, Lowest
  <1>6. Cardinality(g) = IF Cardinality(rest) <= e THEN Cardinality(rest) ELSE e
    <2> HIDE DEF from, g, e
    <2> QED
        BY <1>1, <1>2, <1>3, <1>4, <1>5, LowestRanks
  <1>7. g \subseteq rest
      BY <1>5 DEF Lowest
  <1>8. Cardinality(rest \ g) = Cardinality(rest) - Cardinality(g)
    <2> HIDE DEF g
    <2>1. rest \cap g = g
        BY <1>7
    <2>2. Cardinality(rest \ g) = Cardinality(rest) - Cardinality(rest \cap g)
        BY <1>1, FS_Difference
    <2> QED
        BY <2>1, <2>2
  <1> QED
      BY <1>1, <1>6, <1>7, <1>8

\* A set of groups that divides d: no member is missing, none is in two.
Divides(gs, d, n) ==
    /\ gs \subseteq SUBSET d
    /\ IsFiniteSet(gs)
    /\ {} \notin gs
    /\ UNION gs = d
    /\ \A g, h \in gs : g # h => g \cap h = {}
    /\ Cardinality(gs) = CeilDiv(Cardinality(d), EffectiveClusterSize(n))

\* A group next to a division of what it left divides the whole, and takes as
\* few groups as their size allows.
LEMMA OneMoreGroup ==
    ASSUME NEW n \in Nat, NEW near, NEW s, NEW d \in SUBSET (1..n), d # {}, NEW gs,
           Divides(gs, d \ NearestTo(n, near, s, d), n)
    PROVE  /\ Divides({NearestTo(n, near, s, d)} \cup gs, d, n)
           /\ Cardinality(d \ NearestTo(n, near, s, d)) < Cardinality(d)
  <1> DEFINE g == NearestTo(n, near, s, d)
             e == EffectiveClusterSize(n)
             k == Cardinality(d)
  <1>1. /\ g \subseteq d
        /\ IsFiniteSet(d) /\ k \in Nat
        /\ Cardinality(g) = IF k <= e THEN k ELSE e
        /\ Cardinality(d \ g) = k - Cardinality(g)
      BY GroupsAreFull
  <1>2. e \in Nat \ {0} /\ k # 0
      BY <1>1, EffectiveSizeOf, FS_EmptySet
  <1>3. g # {}
    <2>1. Cardinality(g) # 0
      <3> HIDE DEF g, e, k
      <3> QED
          BY <1>1, <1>2
    <2> QED
        BY <2>1, FS_EmptySet
  <1> HIDE DEF g, e, k
  <1>4. g \notin gs
      BY <1>3 DEF Divides, g
  <1>5. IsFiniteSet(gs) /\ Cardinality(gs) = CeilDiv(Cardinality(d \ g), e)
      BY DEF Divides, g, e
  <1>6. IsFiniteSet({g} \cup gs) /\ Cardinality({g} \cup gs) = Cardinality(gs) + 1
    <2>1. IsFiniteSet(gs \cup {g}) /\ Cardinality(gs \cup {g}) = Cardinality(gs) + 1
        BY <1>4, <1>5, FS_AddElement
    <2>2. gs \cup {g} = {g} \cup gs
        OBVIOUS
    <2> QED
        BY <2>1, <2>2
  <1>7. Cardinality({g} \cup gs) = CeilDiv(k, e)
    <2>1. k \in Nat \ {0}
        BY <1>1, <1>2
    <2>2. CASE k <= e
      <3>1. Cardinality(d \ g) = 0
          BY <1>1, <2>2
      <3> QED
          BY <1>2, <1>5, <1>6, <2>1, <2>2, <3>1, CeilDivSteps
    <2>3. CASE k > e
      <3>1. Cardinality(d \ g) = k - e
          BY <1>1, <1>2, <2>3
      <3> QED
          BY <1>2, <1>5, <1>6, <2>1, <2>3, <3>1, CeilDivSteps
    <2> QED
        BY <1>1, <1>2, <2>2, <2>3
  <1>8. /\ {g} \cup gs \subseteq SUBSET d
        /\ {} \notin {g} \cup gs
        /\ UNION ({g} \cup gs) = d
        /\ \A h, i \in {g} \cup gs : h # i => h \cap i = {}
    <2>1. /\ gs \subseteq SUBSET (d \ g)
          /\ {} \notin gs
          /\ UNION gs = d \ g
          /\ \A h, i \in gs : h # i => h \cap i = {}
        BY DEF Divides, g
    <2>2. UNION ({g} \cup gs) = g \cup UNION gs
        OBVIOUS
    <2>3. \A h \in gs : g \cap h = {}
        BY <2>1
    <2>4. ASSUME NEW h \in {g} \cup gs, NEW i \in {g} \cup gs, h # i PROVE h \cap i = {}
      <3>1. CASE h = g
          BY <2>3, <2>4, <3>1
      <3>2. CASE i = g
          BY <2>3, <2>4, <3>2
      <3>3. CASE h \in gs /\ i \in gs
          BY <2>1, <2>4, <3>3
      <3> QED
          BY <3>1, <3>2, <3>3
    <2> QED
        BY <1>1, <1>3, <2>1, <2>2, <2>4
  <1>9. Cardinality(d \ g) < k
    <2>1. Cardinality(g) \in Nat /\ Cardinality(g) > 0
        BY <1>1, <1>2
    <2> QED
        BY <1>1, <2>1
  <1> QED
      BY <1>6, <1>7, <1>8, <1>9 DEF Divides, g, e, k

\* The groups of all chunks, however similar these are.
LEMMA ClusterChunkEmbeddingsOk ==
    ASSUME NEW n \in Nat, NEW near
    PROVE  \E gs : /\ Divides(gs, 1..n, n)
                   /\ ClusterChunkEmbeddings(n, near) = InOrder(gs, [g \in gs |-> Min(g)])
  <1> DEFINE similar(i, j) == i = j \/ {i, j} \in near
             cohesion(i) == Cardinality({j \in 1..n : j # i /\ similar(i, j)})
             seed(rest) == CHOOSE i \in rest : \A j \in rest \ {i} :
                               \/ cohesion(i) < cohesion(j)
                               \/ cohesion(i) = cohesion(j) /\ i < j
             group(rest) == NearestTo(n, near, seed(rest), rest)
             D == SUBSET (1..n)
             V == SUBSET (SUBSET (1..n))
             m == [d \in D |-> Cardinality(d)]
             last == {{}}
             next == [d \in D |-> d \ group(d)]
             base == [d \in D |-> {}]
             step == [d \in D |-> [v \in V |-> {group(d)} \cup v]]
             Body(h) == [d \in D |-> IF d = {} THEN {} ELSE {group(d)} \cup h[d \ group(d)]]
  <1>1. m \in [D -> 0..n]
    <2>1. Cardinality(1..n) = n /\ IsFiniteSet(1..n)
        BY FS_Interval
    <2>2. \A d \in D : Cardinality(d) \in Nat /\ Cardinality(d) <= n
        BY <2>1, FS_Subset, FS_CardinalityType
    <2> QED
        BY <2>2
  <1>2. \A d \in D : group(d) \subseteq d
    <2> TAKE d \in D
    <2> DEFINE s == seed(d)
    <2> HIDE DEF s
    <2>1. NearestTo(n, near, s, d) \subseteq d
        BY GroupsAreFull
    <2> QED
        BY <2>1 DEF s
  <1> HIDE DEF seed
  <1>3. next \in [D -> D] /\ base \in [D -> V]
      BY <1>2
  <1>4. step \in [D -> [V -> V]]
    <2> HIDE DEF group
    <2> QED
        BY <1>2
  <1>5. ASSUME NEW d \in D, d # {} PROVE d \ group(d) \in D /\ m[d \ group(d)] < m[d]
    <2>1. d \ group(d) \in D
        BY <1>2
    <2>2. Cardinality(d \ group(d)) < Cardinality(d)
      <3> DEFINE e == EffectiveClusterSize(n)
                 k == Cardinality(d)
      <3>1. /\ k \in Nat
            /\ Cardinality(group(d)) = IF k <= e THEN k ELSE e
            /\ Cardinality(d \ group(d)) = k - Cardinality(group(d))
            /\ IsFiniteSet(d)
          BY GroupsAreFull
      <3>2. e \in Nat \ {0} /\ k # 0
          BY <1>5, <3>1, EffectiveSizeOf, FS_EmptySet
      <3> HIDE DEF e, k, group
      <3> QED
          BY <3>1, <3>2 DEF k
    <2> HIDE DEF group
    <2> QED
        BY <2>1, <2>2
  <1> HIDE DEF group
  <1>6. \A d \in D : d \in last \/ m[next[d]] < m[d]
      BY <1>5
  <1>7. PICK f : Unfolds(f, D, V, last, next, base, step)
    <2> HIDE DEF V, D, last, next, base, step, m
    <2> QED
        BY <1>1, <1>3, <1>4, <1>6, MeasuredRecursion
  <1>8. f \in [D -> V]
      BY <1>7 DEF Unfolds
  <1>9. f = Body(f)
    <2>1. ASSUME NEW d \in D PROVE f[d] = IF d = {} THEN {} ELSE {group(d)} \cup f[d \ group(d)]
      <3>1. f[d] = IF d \in last THEN base[d] ELSE step[d][f[next[d]]]
          BY <1>7 DEF Unfolds
      <3>2. d \ group(d) \in D /\ next[d] = d \ group(d)
          BY <1>2
      <3>3. f[d \ group(d)] \in V
          BY <1>8, <3>2
      <3> HIDE DEF V
      <3>4. step[d][f[d \ group(d)]] = {group(d)} \cup f[d \ group(d)]
          BY <3>3
      <3> QED
          BY <3>1, <3>2, <3>4
    <2> QED
        BY <1>8, <2>1
  <1> DEFINE h == CHOOSE q : q = Body(q)
  <1>10. h = Body(h)
    <2>1. \E q : q = Body(q)
        BY <1>9
    <2> HIDE DEF Body
    <2> QED
        BY <2>1
  <1>11. ClusterChunkEmbeddings(n, near) = InOrder(h[1..n], [g \in h[1..n] |-> Min(g)])
      BY DEF ClusterChunkEmbeddings, NearestTo, group, seed
  <1> HIDE DEF h
  <1> DEFINE P == {d \in D : Divides(h[d], d, n)}
  <1>12. Inductive(D, m, P)
    <2> SUFFICES ASSUME NEW d \in D, \A e \in D : m[e] < m[d] => e \in P PROVE d \in P
        BY DEF Inductive
    <2>1. CASE d = {}
      <3>1. h[d] = {}
          BY <1>10, <2>1
      <3>2. Cardinality({}) = 0 /\ IsFiniteSet({}) /\ CeilDiv(0, EffectiveClusterSize(n)) = 0
        <4>1. EffectiveClusterSize(n) \in Nat \ {0}
            BY EffectiveSizeOf
        <4>2. 1 \in Nat \ {0}
            OBVIOUS
        <4> QED
            BY <4>1, <4>2, FS_EmptySet, CeilDivSteps
      <3>3. Divides({}, {}, n)
          BY <3>2 DEF Divides
      <3> QED
          BY <2>1, <3>1, <3>3
    <2>2. CASE d # {}
      <3>1. h[d] = {group(d)} \cup h[d \ group(d)]
          BY <1>10, <2>2
      <3>2. Divides(h[d \ group(d)], d \ group(d), n)
          BY <1>5, <2>2
      <3>3. Divides({group(d)} \cup h[d \ group(d)], d, n)
          BY <2>2, <3>2, OneMoreGroup DEF group
      <3> QED
          BY <3>1, <3>3
    <2> QED
        BY <2>1, <2>2
  <1>13. P = D
    <2>1. P \in SUBSET D
        OBVIOUS
    <2> HIDE DEF P, m, D
    <2> QED
        BY <1>1, <1>12, <2>1, MeasureInduction
  <1>14. Divides(h[1..n], 1..n, n)
      BY <1>13
  <1> QED
      BY <1>11, <1>14
-----------------------------------------------------------------------------
(* Neighbours: _select_bounded_neighbors.                                  *)

\* The smaller of two numbers, as a prompt's budget is spent.
Lesser(x, y) == IF x <= y THEN x ELSE y

\* How much a side shows of its candidates, whose lengths are given.
Fits(lengths, k, side, budget) ==
    /\ side \in [1..k -> Nat]
    /\ Shown(side) = IF SumFunctionOnSet(lengths, 1..k) <= budget
                     THEN SumFunctionOnSet(lengths, 1..k) ELSE budget
    /\ SumFunctionOnSet(lengths, 1..k) \in Nat
    /\ SumFunctionOnSet(lengths, 1..k) <= budget => \A i \in 1..k : side[i] = lengths[i]
    /\ \A i \in 2..k : side[i] > 0 => side[i - 1] = lengths[i - 1]

\* One side of a prompt: it spends what it needs or all that it may, on the
\* nearest first (_select_neighbor_side).
LEMMA SideFits ==
    ASSUME NEW k \in Nat, NEW candidates, DOMAIN candidates = 1..k,
           \A i \in 1..k : Length(candidates[i]) \in Nat, NEW budget \in Nat
    PROVE  Fits([i \in 1..k |-> Length(candidates[i])], k,
                SelectNeighborSide(candidates, budget), budget)
  <1> DEFINE lengths == [i \in 1..k |-> Length(candidates[i])]
             side == SelectNeighborSide(candidates, budget)
             total(j) == SumFunctionOnSet(lengths, 1..j)
             shown(j) == SumFunctionOnSet(side, 1..j)
             least(a, b) == IF a <= b THEN a ELSE b
  <1>1. \A i \in 1..k : lengths[i] \in Nat
      OBVIOUS
  <1>2. /\ total(0) = 0
        /\ \A j \in 0..k : total(j) \in Nat
        /\ \A j \in 1..k : total(j) = lengths[j] + total(j - 1)
        /\ \A i, j \in 0..k : i <= j => total(i) <= total(j)
    <2> HIDE DEF lengths
    <2> QED
        BY <1>1, SumOfFirst
  <1>3. side = [i \in 1..k |-> Max({0, Min({lengths[i], budget - total(i - 1)})})]
      BY DEF SelectNeighborSide
  <1> HIDE DEF lengths, total
  <1>4. ASSUME NEW i \in 1..k
        PROVE  /\ side[i] = IF total(i - 1) >= budget THEN 0
                            ELSE least(lengths[i], budget - total(i - 1))
               /\ side[i] \in Nat
    <2> DEFINE left == budget - total(i - 1)
               l == lengths[i]
    <2>1. total(i - 1) \in Nat /\ left \in Int /\ l \in Nat
        BY <1>1, <1>2
    <2>2. side[i] = Max({0, Min({l, left})})
        BY <1>3
    <2> DEFINE x == Min({l, left})
    <2>3. x = least(l, left) /\ x \in Int
      <3> HIDE DEF left, l
      <3> QED
          BY <2>1, MinMaxOfTwo
    <2> HIDE DEF x
    <2>4. Max({0, x}) = IF 0 >= x THEN 0 ELSE x
      <3>1. 0 \in Int /\ x \in Int
          BY <2>3
      <3> HIDE DEF side, left, l, least
      <3> QED
          BY ONLY <3>1, MinMaxOfTwo
    <2>5. side[i] = IF 0 >= x THEN 0 ELSE x
        BY <2>2, <2>4 DEF x
    <2> HIDE DEF side
    <2> QED
        BY <2>1, <2>3, <2>5
  <1>5. side \in [1..k -> Nat]
    <2>1. side = [i \in 1..k |-> side[i]]
        BY <1>3
    <2> HIDE DEF side
    <2> QED
        BY <1>4, <2>1
  <1> HIDE DEF side
  <1>6. /\ shown(0) = 0
        /\ \A j \in 0..k : shown(j) \in Nat
        /\ \A j \in 1..k : shown(j) = side[j] + shown(j - 1)
    <2>1. \A i \in 1..k : side[i] \in Nat
        BY <1>5
    <2> QED
        BY <2>1, SumOfFirst
  <1> HIDE DEF shown
  <1>7. ASSUME NEW j \in 0..k PROVE shown(j) = least(total(j), budget)
    <2> DEFINE P == {i \in Nat : i <= k => shown(i) = least(total(i), budget)}
    <2>1. 0 \in P
        BY <1>2, <1>6
    <2>2. ASSUME NEW i \in P PROVE i + 1 \in P
      <3> SUFFICES ASSUME i + 1 <= k PROVE shown(i + 1) = least(total(i + 1), budget)
          OBVIOUS
      <3>1. i \in 0..k /\ i + 1 \in 1..k /\ (i + 1) - 1 = i
          OBVIOUS
      <3>2. shown(i) = least(total(i), budget)
          BY <3>1
      <3>3. shown(i + 1) = side[i + 1] + shown(i) /\ total(i + 1) = lengths[i + 1] + total(i)
          BY <1>2, <1>6, <3>1
      <3>4. side[i + 1] = IF total(i) >= budget THEN 0
                          ELSE least(lengths[i + 1], budget - total(i))
          BY <1>4, <3>1
      <3>5. lengths[i + 1] \in Nat /\ total(i) \in Nat
          BY <1>1, <1>2, <3>1
      <3> QED
          BY <3>2, <3>3, <3>4, <3>5
    <2>3. P = Nat
      <3>1. P \in SUBSET Nat
          OBVIOUS
      <3> HIDE DEF P
      <3> QED
          BY <2>1, <2>2, <3>1, NatSetInduction
    <2>4. j \in P
        BY <2>3
    <2> QED
        BY <2>4
  <1>8. Shown(side) = least(total(k), budget) /\ total(k) \in Nat
    <2>1. DOMAIN side = 1..k
        BY <1>5
    <2>2. Shown(side) = shown(k)
        BY <2>1 DEF Shown, SumFunction, shown
    <2>3. k \in 0..k
        OBVIOUS
    <2> QED
        BY <1>2, <1>7, <2>2, <2>3
  <1>9. ASSUME total(k) <= budget, NEW i \in 1..k PROVE side[i] = lengths[i]
    <2>1. /\ total(i) <= total(k) /\ total(i) = lengths[i] + total(i - 1)
          /\ total(i - 1) \in Nat /\ lengths[i] \in Nat /\ total(k) \in Nat
        BY <1>1, <1>2
    <2> QED
        BY <1>4, <1>9, <2>1
  <1>10. ASSUME NEW i \in 2..k, side[i] > 0 PROVE side[i - 1] = lengths[i - 1]
    <2>1. i \in 1..k /\ i - 1 \in 1..k /\ i - 2 \in 0..k /\ (i - 1) - 1 = i - 2
        OBVIOUS
    <2>2. total(i - 1) < budget /\ total(i - 1) \in Nat
      <3>1. total(i - 1) \in Nat
          BY <1>2, <2>1
      <3>2. side[i] = IF total(i - 1) >= budget THEN 0
                      ELSE least(lengths[i], budget - total(i - 1))
          BY <1>4, <2>1
      <3>3. ~(total(i - 1) >= budget)
          BY <1>10, <3>2
      <3> QED
          BY <3>1, <3>3
    <2>3. total(i - 1) = lengths[i - 1] + total(i - 2) /\ total(i - 2) \in Nat
          /\ lengths[i - 1] \in Nat
        BY <1>1, <1>2, <2>1
    <2>4. side[i - 1] = IF total(i - 2) >= budget THEN 0
                        ELSE least(lengths[i - 1], budget - total(i - 2))
        BY <1>4, <2>1
    <2> QED
        BY <2>2, <2>3, <2>4
  <1> QED
      BY <1>5, <1>8, <1>9, <1>10 DEF Fits, lengths, side, total

\* How the two sides of a prompt share its budget.
LEMMA BudgetIsShared ==
    ASSUME NEW m \in Nat, NEW b \in Nat, b <= m, NEW t \in Nat, NEW u \in Nat
    PROVE  LET c == m - b
               leftOfT == b - Lesser(t, b)
               leftOfU == c - Lesser(u, c)
               shownT == Lesser(t, b + leftOfU)
               shownU == Lesser(u, c + leftOfT)
           IN /\ leftOfT \in Nat /\ leftOfU \in Nat /\ c \in Nat
              /\ shownT + shownU <= m
              /\ shownT + shownU < m => t <= b + leftOfU /\ u <= c + leftOfT
              /\ shownT < b => t <= b + leftOfU
              /\ shownU < c => u <= c + leftOfT
  BY DEF Lesser

\* All that the neighbours depend on.
ChunksTyped ==
    /\ chunks \in Seq(ChunkRecords)
    /\ \A c \in 1..Len(chunks) : chunks[c].from <= chunks[c].to

\* The neighbours on one side of a chunk are chunks.
LEMMA NearestNeighbors ==
    ASSUME ChunksTyped, NEW p \in 1..Len(chunks), NEW step \in {-1, 1}
    PROVE  \E k \in Nat :
              /\ DOMAIN Nearest(p, step) = 1..k
              /\ \A i \in 1..k : Length(Nearest(p, step)[i]) \in Nat
              /\ k > 0 => Nearest(p, step) # <<>>
  <1> DEFINE n == Len(chunks)
             side == IF step < 0 THEN p - 1 ELSE n - p
             k == Min({NeighborChunkCount, side})
  <1>1. n \in Nat /\ side \in Nat /\ NeighborChunkCount \in Nat
      BY ContextualizationAssumption DEF ChunksTyped
  <1>2. k \in Nat /\ k <= side
    <2>1. NeighborChunkCount \in Int /\ side \in Int
        BY <1>1
    <2>2. k = IF NeighborChunkCount <= side THEN NeighborChunkCount ELSE side
      <3> HIDE DEF side
      <3> QED
          BY <2>1, MinMaxOfTwo
    <2> HIDE DEF side, k
    <2> QED
        BY <1>1, <2>2
  <1> DEFINE near == Nearest(p, step)
  <1>3. near = [i \in 1..k |-> p + step * i]
      BY DEF Nearest
  <1> HIDE DEF k, near
  <1>4. DOMAIN near = 1..k
      BY <1>3
  <1>5. ASSUME NEW i \in 1..k PROVE Length(near[i]) \in Nat
    <2>1. near[i] \in 1..n
      <3>1. near[i] = p + step * i
          BY <1>3
      <3>2. CASE step = -1
        <4>1. near[i] = p - i /\ i <= p - 1
            BY <1>1, <1>2, <3>1, <3>2
        <4> QED
            BY <1>1, <1>2, <4>1
      <3>3. CASE step = 1
        <4>1. near[i] = p + i /\ i <= n - p
            BY <1>1, <1>2, <3>1, <3>3
        <4> QED
            BY <1>1, <1>2, <4>1
      <3> QED
          BY <3>2, <3>3
    <2>2. chunks[near[i]] \in ChunkRecords /\ chunks[near[i]].from <= chunks[near[i]].to
        BY <2>1 DEF ChunksTyped
    <2> QED
        BY <2>2 DEF Length, ChunkRecords
  <1>6. k > 0 => near # <<>>
    <2>1. k > 0 => 1 \in DOMAIN near
        BY <1>2, <1>4
    <2> QED
        BY <2>1
  <1> QED
      BY <1>2, <1>4, <1>5, <1>6 DEF near

\* The two sides together, for every chunk.
LEMMA WindowFillsBudget ==
    ASSUME ChunksTyped
    PROVE  NeighborsFillTheirBudget
  <1> SUFFICES
        ASSUME NEW p \in DOMAIN chunks
        PROVE  LET w == Window(p)
                   Whole(side, step) ==
                       \A i \in DOMAIN side : side[i] = Length(Nearest(p, step)[i])
                   NearestFirst(side, step) ==
                       \A i \in DOMAIN side : i > 1 /\ side[i] > 0 =>
                           side[i - 1] = Length(Nearest(p, step)[i - 1])
                   total == Shown(w.previous) + Shown(w.next)
               IN /\ total <= MaxNeighborChars
                  /\ total < MaxNeighborChars => Whole(w.previous, -1) /\ Whole(w.next, 1)
                  /\ NearestFirst(w.previous, -1) /\ NearestFirst(w.next, 1)
                  /\ Shown(w.previous) < MaxNeighborChars \div 2 => Whole(w.previous, -1)
                  /\ Shown(w.next) < MaxNeighborChars \div 2 => Whole(w.next, 1)
      BY DEF NeighborsFillTheirBudget
  <1> DEFINE before == Nearest(p, -1)
             after == Nearest(p, 1)
             m == MaxNeighborChars
             half == m \div 2
             b == IF before = <<>> THEN 0 ELSE IF after = <<>> THEN m ELSE half
             c == m - b
             leftBefore == b - Shown(SelectNeighborSide(before, b))
             leftAfter == c - Shown(SelectNeighborSide(after, c))
             previous == SelectNeighborSide(before, b + leftAfter)
             next == SelectNeighborSide(after, c + leftBefore)
  <1>1. Window(p) = [previous |-> previous, next |-> next]
      BY DEF Window
  <1>2. p \in 1..Len(chunks)
      BY DEF ChunksTyped
  <1>3. PICK k \in Nat : /\ DOMAIN before = 1..k
                         /\ \A i \in 1..k : Length(before[i]) \in Nat
                         /\ k > 0 => before # <<>>
      BY <1>2, NearestNeighbors
  <1>4. PICK l \in Nat : /\ DOMAIN after = 1..l
                         /\ \A i \in 1..l : Length(after[i]) \in Nat
                         /\ l > 0 => after # <<>>
      BY <1>2, NearestNeighbors
  <1> DEFINE beforeLengths == [i \in 1..k |-> Length(before[i])]
             afterLengths == [i \in 1..l |-> Length(after[i])]
             t == SumFunctionOnSet(beforeLengths, 1..k)
             u == SumFunctionOnSet(afterLengths, 1..l)
  <1>5. /\ m \in Nat /\ half \in Nat /\ b \in Nat /\ b <= m /\ c \in Nat
        /\ k > 0 => b >= half
        /\ l > 0 => c >= half
    <2>1. m \in Nat
        BY ContextualizationAssumption
    <2>2. half \in Nat /\ half + half <= m
        BY <2>1
    <2> HIDE DEF half, before, after
    <2> QED
        BY <1>3, <1>4, <2>1, <2>2
  <1> HIDE DEF half, b
  <1>6. ASSUME NEW budget \in Nat
        PROVE  /\ Fits(beforeLengths, k, SelectNeighborSide(before, budget), budget)
               /\ Fits(afterLengths, l, SelectNeighborSide(after, budget), budget)
    <2> HIDE DEF before, after
    <2> QED
        BY <1>3, <1>4, SideFits
  <1>7. t \in Nat /\ u \in Nat
      BY <1>5, <1>6 DEF Fits
  <1> HIDE DEF c, beforeLengths, afterLengths, before, after
  <1>8. leftBefore = b - Lesser(t, b) /\ leftAfter = c - Lesser(u, c)
      BY <1>5, <1>6 DEF Fits, Lesser
  <1> HIDE DEF leftBefore, leftAfter
  <1> DEFINE all == Lesser(t, b + leftAfter)
             others == Lesser(u, c + leftBefore)
  <1>9. /\ leftBefore \in Nat /\ leftAfter \in Nat
        /\ all + others <= m
        /\ all + others < m => t <= b + leftAfter /\ u <= c + leftBefore
        /\ all < b => t <= b + leftAfter
        /\ others < c => u <= c + leftBefore
    <2> HIDE DEF t, u, all, others
    <2>1. c = m - b
        BY DEF c
    <2> QED
        BY <1>5, <1>7, <1>8, <2>1, BudgetIsShared DEF all, others
  <1>10. b + leftAfter \in Nat /\ c + leftBefore \in Nat
      BY <1>5, <1>9
  <1>11. /\ Fits(beforeLengths, k, previous, b + leftAfter)
         /\ Fits(afterLengths, l, next, c + leftBefore)
      BY <1>6, <1>10
  <1> HIDE DEF previous, next
  <1>12. /\ Shown(previous) = all /\ Shown(next) = others
         /\ DOMAIN previous = 1..k /\ DOMAIN next = 1..l
      BY <1>11 DEF Fits, Lesser
  <1> DEFINE whole(side, lengths) == \A i \in DOMAIN side : side[i] = lengths[i]
             first(side, lengths) ==
                \A i \in DOMAIN side : i > 1 /\ side[i] > 0 => side[i - 1] = lengths[i - 1]
  <1>13. /\ t <= b + leftAfter => whole(previous, beforeLengths)
         /\ u <= c + leftBefore => whole(next, afterLengths)
      BY <1>11, <1>12 DEF Fits
  <1>14. first(previous, beforeLengths) /\ first(next, afterLengths)
    <2>1. \A i \in 1..k : i > 1 => i \in 2..k
        OBVIOUS
    <2>2. \A i \in 1..l : i > 1 => i \in 2..l
        OBVIOUS
    <2> QED
        BY <1>11, <1>12, <2>1, <2>2 DEF Fits
  <1>15. /\ \A i \in DOMAIN previous : beforeLengths[i] = Length(Nearest(p, -1)[i])
         /\ \A i \in DOMAIN previous : i > 1 => beforeLengths[i - 1] = Length(Nearest(p, -1)[i - 1])
      BY <1>12 DEF beforeLengths, before
  <1>16. /\ \A i \in DOMAIN next : afterLengths[i] = Length(Nearest(p, 1)[i])
         /\ \A i \in DOMAIN next : i > 1 => afterLengths[i - 1] = Length(Nearest(p, 1)[i - 1])
      BY <1>12 DEF afterLengths, after
  <1>17. /\ all < half => whole(previous, beforeLengths)
         /\ others < half => whole(next, afterLengths)
    <2>1. all \in Nat /\ others \in Nat
        BY <1>7, <1>10 DEF Lesser
    <2>2. k = 0 => whole(previous, beforeLengths)
        BY <1>12
    <2>3. l = 0 => whole(next, afterLengths)
        BY <1>12
    <2> HIDE DEF all, others, whole, t, u
    <2> QED
        BY <1>5, <1>9, <1>13, <2>1, <2>2, <2>3
  <1>18. /\ all + others <= m
         /\ all + others < m => whole(previous, beforeLengths) /\ whole(next, afterLengths)
    <2> HIDE DEF all, others, whole, t, u
    <2> QED
        BY <1>9, <1>13
  <1> HIDE DEF all, others, t, u
  <1> QED
      BY <1>1, <1>12, <1>14, <1>15, <1>16, <1>17, <1>18 DEF half, m
-----------------------------------------------------------------------------
(* The document of an upload.                                              *)

\* The document of an upload: its pages are normalised, its chunks are those
\* of its pages, and its groups are those of its chunks, whatever is similar.
DocumentInv ==
    /\ Len(pages) \in Nat
    /\ DOMAIN pages = 1..Len(pages)
    /\ \A p \in 1..Len(pages) : Normal(pages[p])
    /\ chunks = ChunkDocument(pages)
    /\ \E near : groups = ClusterChunkEmbeddings(Len(chunks), near)

\* The chunks of the invariant's pages.
LEMMA DocumentInvChunks ==
    ASSUME DocumentInv
    PROVE  ChunksOk(pages, 1..Len(pages), chunks)
  BY ChunkDocumentOk DEF DocumentInv

\* The chunks cover the pages and are not redundant.
LEMMA PassagesAreWhole ==
    ASSUME DocumentInv
    PROVE  PassagesStayWhole
  <1>1. ChunksOk(pages, 1..Len(pages), chunks)
      BY DocumentInvChunks
  <1>2. Len(chunks) \in Nat /\ DOMAIN chunks = 1..Len(chunks)
      BY <1>1 DEF ChunksOk
  <1>3. ASSUME NEW p \in DOMAIN pages, NEW i \in DOMAIN pages[p], NEW j \in DOMAIN pages[p],
               i <= j, j <= i + OverlapChars, pages[p][i] # "blank", pages[p][j] # "blank"
        PROVE  \E c \in Range(chunks) : c.page = p /\ c.from <= i /\ j <= c.to
    <2>1. p \in 1..Len(pages) /\ Normal(pages[p])
        BY DEF DocumentInv
    <2>2. DOMAIN pages[p] = 1..Len(pages[p])
        BY <2>1 DEF Normal
    <2>3. PICK c \in 1..Len(chunks) : chunks[c].page = p /\ chunks[c].from <= i /\ j <= chunks[c].to
        BY <1>1, <1>3, <2>1, <2>2 DEF ChunksOk
    <2>4. chunks[c] \in Range(chunks)
        BY <1>2 DEF Range
    <2> QED
        BY <2>3, <2>4
  <1>4. ASSUME OverlapChars < MaxChars - 1, NEW c \in DOMAIN chunks, NEW d \in DOMAIN chunks,
               c # d, chunks[c].page = chunks[d].page
        PROVE  ~(chunks[c].from >= chunks[d].from /\ chunks[c].to <= chunks[d].to)
    <2>1. /\ c < d => chunks[c].from < chunks[d].from /\ chunks[c].to < chunks[d].to
          /\ d < c => chunks[d].from < chunks[c].from /\ chunks[d].to < chunks[c].to
        BY <1>1, <1>2, <1>4 DEF ChunksOk
    <2>2. c < d \/ d < c
        BY <1>2, <1>4
    <2>3. /\ chunks[c].from \in Nat /\ chunks[c].to \in Nat
          /\ chunks[d].from \in Nat /\ chunks[d].to \in Nat
      <3>1. chunks[c] \in ChunkRecords /\ chunks[d] \in ChunkRecords
          BY <1>1, <1>2 DEF ChunksOk
      <3> QED
          BY <3>1 DEF ChunkRecords
    <2> QED
        BY <2>1, <2>2, <2>3
  <1> QED
      BY <1>3, <1>4 DEF PassagesStayWhole

\* The groups divide the chunks, in no more groups than max_clusters.
LEMMA GroupsAreDivided ==
    ASSUME DocumentInv
    PROVE  ChunksAreGroupedOnce /\ Len(groups) \in Nat /\ Len(groups) <= Len(chunks)
  <1> DEFINE n == Len(chunks)
  <1>1. n \in Nat
      BY DocumentInvChunks DEF ChunksOk
  <1>2. PICK near : groups = ClusterChunkEmbeddings(n, near)
      BY DEF DocumentInv
  <1> HIDE DEF n
  <1>3. PICK gs : /\ Divides(gs, 1..n, n)
                  /\ groups = InOrder(gs, [g \in gs |-> Min(g)])
      BY <1>1, <1>2, ClusterChunkEmbeddingsOk
  <1> DEFINE key == [g \in gs |-> Min(g)]
             k == Cardinality(gs)
             e == EffectiveClusterSize(n)
  <1>4. \A g \in gs : key[g] \in g /\ key[g] \in Int
    <2> TAKE g \in gs
    <2>1. g # {} /\ g \subseteq 1..n
        BY <1>3 DEF Divides
    <2>2. IsFiniteSet(1..n)
        BY <1>1, FS_Interval
    <2>3. IsFiniteSet(g)
        BY <2>1, <2>2, FS_Subset
    <2>4. g \subseteq Int
        BY <1>1, <2>1
    <2> QED
        BY <2>1, <2>3, <2>4, MinOf
  <1>5. \A g, h \in gs : key[g] = key[h] => g = h
    <2> TAKE g, h \in gs
    <2> HAVE key[g] = key[h]
    <2>1. key[g] \in g \cap h
        BY <1>4
    <2> HIDE DEF key
    <2> QED
        BY <1>3, <2>1 DEF Divides
  <1> HIDE DEF key
  <1>6. /\ k \in Nat
        /\ groups \in [1..k -> gs]
        /\ \A i, j \in 1..k : i < j => key[groups[i]] < key[groups[j]]
        /\ \A g \in gs : \E i \in 1..k : groups[i] = g
    <2>1. IsFiniteSet(gs)
        BY <1>3 DEF Divides
    <2>2. groups = InOrder(gs, key)
        BY <1>3 DEF key
    <2> QED
        BY <1>4, <1>5, <2>1, <2>2, InOrderLists
  <1>7. Len(groups) = k /\ DOMAIN groups = 1..k
    <2> HIDE DEF k
    <2>1. groups \in Seq(gs)
        BY <1>6
    <2> QED
        BY <1>6, <2>1
  <1>8. UNION Range(groups) = 1..n
    <2>1. Range(groups) = gs
        BY <1>6, <1>7 DEF Range
    <2> QED
        BY <1>3, <2>1 DEF Divides
  <1>9. ASSUME NEW i \in 1..k, NEW j \in 1..k, i < j PROVE groups[i] \cap groups[j] = {}
    <2>1. groups[i] \in gs /\ groups[j] \in gs /\ key[groups[i]] < key[groups[j]]
        BY <1>6, <1>9
    <2>2. key[groups[i]] \in Int
        BY <1>4, <2>1
    <2>3. groups[i] # groups[j]
        BY <2>1, <2>2
    <2> QED
        BY <1>3, <2>1, <2>3 DEF Divides
  <1>10. k = CeilDiv(n, e)
    <2>1. Cardinality(1..n) = n
        BY <1>1, FS_Interval
    <2> QED
        BY <1>3, <2>1 DEF Divides
  <1>11. k <= MaxClusters /\ k <= n
    <2>1. e \in Nat \ {0} /\ CeilDiv(n, MaxClusters) <= e
        BY <1>1, EffectiveSizeOf
    <2>2. MaxClusters \in Nat \ {0}
        BY ContextualizationAssumption
    <2> HIDE DEF e, k
    <2> QED
        BY <1>1, <1>10, <2>1, <2>2, CeilDivBounded
  <1> HIDE DEF k
  <1>12. ChunksAreGroupedOnce
    <2>1. \A i, j \in DOMAIN groups : i < j => groups[i] \cap groups[j] = {}
        BY <1>7, <1>9
    <2> QED
        BY <1>7, <1>8, <1>10, <1>11, <2>1 DEF ChunksAreGroupedOnce, n
  <1> QED
      BY <1>6, <1>7, <1>11, <1>12 DEF n

\* What the document of an upload is makes it covered, and its prompts full.
LEMMA DocumentInvSuffices ==
    DocumentInv => DocumentIsCovered /\ NeighborsFillTheirBudget
  <1> SUFFICES ASSUME DocumentInv PROVE DocumentIsCovered /\ NeighborsFillTheirBudget
      OBVIOUS
  <1>1. DocumentIsCovered
      BY PassagesAreWhole, GroupsAreDivided DEF DocumentIsCovered
  <1>2. ChunksTyped
      BY DocumentInvChunks DEF ChunksOk, ChunksTyped
  <1>3. NeighborsFillTheirBudget
      BY <1>2, WindowFillsBudget
  <1> QED
      BY <1>1, <1>3

\* An upload starts with its pages parsed, chunked and grouped.
LEMMA DocumentInvInitially == Init => DocumentInv
  <1> SUFFICES ASSUME Init PROVE DocumentInv
      OBVIOUS
  <1>1. PICK n \in 1..MaxPages : \E texts \in [1..n -> Texts] :
            pages = [p \in 1..n |-> NormalizeText(texts[p])]
      BY DEF Init
  <1>2. PICK texts \in [1..n -> Texts] : pages = [p \in 1..n |-> NormalizeText(texts[p])]
      BY <1>1
  <1>3. n \in Nat
      BY ContextualizationAssumption
  <1>4. \A p \in 1..n : Normal(pages[p])
    <2> TAKE p \in 1..n
    <2>1. texts[p] \in Seq(Symbols)
        BY ContextualizationAssumption DEF Symbols
    <2> QED
        BY <1>2, <2>1, NormalizeTextIsNormal
  <1>5. DOMAIN pages = 1..n /\ Len(pages) = n
    <2>1. pages \in Seq({NormalizeText(texts[p]) : p \in 1..n})
        BY <1>2, <1>3
    <2> QED
        BY <1>2, <1>3, <2>1
  <1>6. chunks = ChunkDocument(pages)
      BY DEF Init
  <1>7. \E near : groups = ClusterChunkEmbeddings(Len(chunks), near)
      BY DEF Init
  <1> QED
      BY <1>3, <1>4, <1>5, <1>6, <1>7 DEF DocumentInv

\* Nothing that happens afterwards changes any of that.
LEMMA DocumentIsFinal == [Next]_vars => UNCHANGED <<config, pages, chunks, groups>>
  BY DEF Next, Acquire, TaskReturns, Answer, FailContexts, FailAbandoned, FailBuild, Upload,
         StartHierarchy, FinishBuild, FinishRebuild, FinishContexts, FailBuildSummary,
         FailRebuildSummary, SummariseDocument, IndexChunks, FailChunks, IndexSummaries,
         FailSummaries, vars

\* So every step keeps DocumentInv.
LEMMA DocumentInvPreserved == DocumentInv /\ [Next]_vars => DocumentInv'
  BY DocumentIsFinal DEF DocumentInv

\* Of documents of any length, with any max_chars, overlap and cluster sizes: no
\* passage up to the overlap is cut apart, no chunk is a part of another one, and
\* every chunk is in exactly one of at most max_clusters sections, however the
\* embeddings resemble each other.
THEOREM DocumentCovered == Spec => []DocumentIsCovered
  <1>1. DocumentInv => DocumentIsCovered
      BY DocumentInvSuffices
  <1> QED
      BY DocumentInvInitially, DocumentInvPreserved, <1>1, PTL DEF Spec

\* With any max_neighbor_chars and neighbor_chunk_count: the neighbours shown with a
\* chunk keep to the budget, waste none of it and are cut from the far end.
THEOREM NeighborsFill == Spec => []NeighborsFillTheirBudget
  <1>1. DocumentInv => NeighborsFillTheirBudget
      BY DocumentInvSuffices
  <1> QED
      BY DocumentInvInitially, DocumentInvPreserved, <1>1, PTL DEF Spec
-----------------------------------------------------------------------------
(* Types.                                                                  *)

\* The types, and that there are no more groups than chunks.
TypeInv == TypeOK /\ Len(groups) \in 0..MaxChunks

\* A gather that starts, with a task per group or per chunk.
LEMMA StartTyped ==
    ASSUME TypeInv, NEW g \in Gathers, NEW n \in 0..MaxChunks
    PROVE  [tasks EXCEPT ![g] = Gather(n)] \in
               [Gathers -> [waiting : 0..MaxChunks, calling : 0..MaxConcurrency]]
  <1>1. tasks \in [Gathers -> [waiting : 0..MaxChunks, calling : 0..MaxConcurrency]]
      BY DEF TypeInv, TypeOK
  <1>2. 0 \in 0..MaxConcurrency
      BY ContextualizationAssumption
  <1> QED
      BY <1>1, <1>2 DEF Gather

\* A call that returns.
LEMMA ReturnTyped ==
    ASSUME TypeInv, NEW g \in Gathers, tasks[g].calling > 0
    PROVE  [tasks EXCEPT ![g].calling = @ - 1]
               \in [Gathers -> [waiting : 0..MaxChunks, calling : 0..MaxConcurrency]]
  <1> DEFINE R == [waiting : 0..MaxChunks, calling : 0..MaxConcurrency]
             w == tasks[g].waiting
             c == tasks[g].calling
  <1>1. tasks \in [Gathers -> R]
      BY DEF TypeInv, TypeOK
  <1>2. MaxConcurrency \in Nat
      BY ContextualizationAssumption
  <1>3. tasks[g] = [waiting |-> w, calling |-> c] /\ w \in 0..MaxChunks /\ c \in 0..MaxConcurrency
      BY <1>1
  <1>4. [tasks[g] EXCEPT !.calling = @ - 1] = [waiting |-> w, calling |-> c - 1]
      BY <1>3
  <1>5. [tasks EXCEPT ![g].calling = @ - 1]
            = [tasks EXCEPT ![g] = [waiting |-> w, calling |-> c - 1]]
      BY <1>4
  <1>6. [waiting |-> w, calling |-> c - 1] \in R
    <2> HIDE DEF w, c
    <2> QED
        BY <1>2, <1>3
  <1>7. \A r \in R : [tasks EXCEPT ![g] = r] \in [Gathers -> R]
    <2> HIDE DEF R
    <2> QED
        BY <1>1
  <1> QED
      BY <1>5, <1>6, <1>7

\* A task of a gather that starts calling, or comes back.
LEMMA TaskTyped ==
    ASSUME TypeInv, NEW g \in Gathers, Acquire(g) \/ TaskReturns(g)
    PROVE  tasks' \in [Gathers -> [waiting : 0..MaxChunks, calling : 0..MaxConcurrency]]
  <1> DEFINE R == [waiting : 0..MaxChunks, calling : 0..MaxConcurrency]
             w == tasks[g].waiting
             c == tasks[g].calling
  <1>1. tasks \in [Gathers -> R]
      BY DEF TypeInv, TypeOK
  <1>2. MaxConcurrency \in Nat /\ MaxChunks \in Nat
      BY ContextualizationAssumption
  <1>3. tasks[g] = [waiting |-> w, calling |-> c] /\ w \in 0..MaxChunks /\ c \in 0..MaxConcurrency
      BY <1>1
  <1>4. \A r \in R : [tasks EXCEPT ![g] = r] \in [Gathers -> R]
    <2> HIDE DEF R
    <2> QED
        BY <1>1
  <1>5. CASE Acquire(g)
    <2>1. tasks' = [tasks EXCEPT ![g] = [waiting |-> w - 1, calling |-> c + 1]]
      <3>1. \A h \in Gathers :
               /\ tasks[h] = [waiting |-> tasks[h].waiting, calling |-> tasks[h].calling]
               /\ tasks[h].calling \in 0..MaxConcurrency
          BY <1>1
      <3>2. TasksShaped
          BY <1>1, <3>1 DEF TasksShaped
      <3> QED
          BY <1>5, <3>2, AcquireIs
    <2>2. w > 0 /\ c < MaxConcurrency
        BY <1>5 DEF Acquire
    <2>3. [waiting |-> w - 1, calling |-> c + 1] \in R
      <3> HIDE DEF w, c
      <3> QED
          BY <1>2, <1>3, <2>2
    <2> QED
        BY <1>4, <2>1, <2>3
  <1>6. CASE TaskReturns(g)
    <2>1. tasks[g].calling > 0 /\ tasks' = [tasks EXCEPT ![g].calling = @ - 1]
        BY <1>6 DEF TaskReturns, Answer, FailContexts, FailAbandoned, Returns
    <2> QED
        BY <2>1, ReturnTyped
  <1> QED
      BY <1>5, <1>6

\* Groups are not empty: there are at most as many as chunks.
LEMMA TypeInvInitially == Init => TypeInv
  <1> SUFFICES ASSUME Init PROVE TypeInv
      OBVIOUS
  <1>1. Len(groups) \in 0..MaxChunks
    <2>1. DocumentInv
        BY DocumentInvInitially
    <2>2. Len(groups) \in Nat /\ Len(groups) <= Len(chunks)
        BY <2>1, GroupsAreDivided
    <2>3. Len(chunks) \in 1..MaxChunks
        BY DEF Init
    <2> QED
        BY <2>2, <2>3, ContextualizationAssumption
  <1>2. tasks \in [Gathers -> [waiting : 0..MaxChunks, calling : 0..MaxConcurrency]]
      BY ContextualizationAssumption DEF Init, Idle
  <1> QED
      BY <1>1, <1>2 DEF Init, TypeInv, TypeOK

\* Every step keeps the types: one case per action that starts a gather or moves
\* a task.
LEMMA TypeInvPreserved == TypeInv /\ [Next]_vars => TypeInv'
  <1> SUFFICES ASSUME TypeInv, [Next]_vars PROVE TypeInv'
      OBVIOUS
  <1> DEFINE T == [Gathers -> [waiting : 0..MaxChunks, calling : 0..MaxConcurrency]]
  <1>1. UNCHANGED <<config, pages, chunks, groups>>
      BY DocumentIsFinal
  <1>2. tasks \in T
      BY DEF TypeInv, TypeOK
  <1>3. Len(chunks) \in 0..MaxChunks /\ Len(groups) \in 0..MaxChunks
      BY ContextualizationAssumption DEF TypeInv, TypeOK
  <1>4. tasks' \in T
    <2>1. ASSUME NEW g \in Gathers, Acquire(g) \/ TaskReturns(g) PROVE tasks' \in T
        BY <2>1, TaskTyped
    <2>2. ASSUME NEW after \in T, BuildRaised(after) PROVE tasks' \in T
      <3>1. [after EXCEPT !["rebuild"] = Gather(Len(groups))] \in T
        <4> DEFINE R == [waiting : 0..MaxChunks, calling : 0..MaxConcurrency]
        <4>1. 0 \in 0..MaxConcurrency
            BY ContextualizationAssumption
        <4>2. Gather(Len(groups)) \in R
            BY <1>3, <4>1 DEF Gather
        <4>3. after \in [Gathers -> R]
            BY <2>2
        <4> HIDE DEF R
        <4>4. [after EXCEPT !["rebuild"] = Gather(Len(groups))] \in [Gathers -> R]
            BY <4>2, <4>3
        <4> QED
            BY <4>4 DEF R
      <3> HIDE DEF T
      <3> QED
          BY <2>2, <3>1 DEF BuildRaised
    <2>3. FailBuild => tasks' \in T
      <3> SUFFICES ASSUME FailBuild PROVE tasks' \in T
          OBVIOUS
      <3>1. "build" \in Gathers
          BY DEF Gathers, Builds
      <3>2. [tasks EXCEPT !["build"].calling = @ - 1] \in T
          BY <3>1, ReturnTyped DEF FailBuild
      <3> HIDE DEF T
      <3> QED
          BY <2>2, <3>2 DEF FailBuild
    <2>4. FailBuildSummary => tasks' \in T
      <3> HIDE DEF T
      <3> QED
          BY <1>2, <2>2 DEF FailBuildSummary
    <2>5. \A g \in Gathers, n \in 0..MaxChunks : Start(g, n) => tasks' \in T
        BY StartTyped DEF Start
    <2> HIDE DEF T
    <2>6. Contextualize => tasks' \in T
        BY <1>2, <1>3, <2>5 DEF Contextualize, Gathers, Builds
    <2>7. StartHierarchy \/ FinishBuild \/ FinishRebuild => tasks' \in T
        BY <1>3, <2>5, <2>6 DEF StartHierarchy, FinishBuild, FinishRebuild, Gathers, Builds
    <2>8. CASE UNCHANGED tasks
        BY <1>2, <2>8
    <2> QED
        BY <2>1, <2>3, <2>4, <2>7, <2>8 DEF Next, Upload, SummariseDocument, FailRebuildSummary,
           FinishContexts, IndexChunks, FailChunks, IndexSummaries, FailSummaries, vars
  <1> HIDE DEF T
  <1>5. /\ config \in [contextualization : Modes, hierarchy : Modes]
        /\ pc \in {"parsed", "chunks", "summaries"} \cup Gathers \cup Summaries \cup Ended
        /\ hierarchy \in {"none", "built", "rebuilt"}
        /\ contexts \in {"disabled", "ready", "failed_open"}
        /\ points \in [contextual : BOOLEAN, routed : BOOLEAN, summaries : BOOLEAN]
      BY DEF TypeInv, TypeOK
  <1> DEFINE Labels == {"parsed", "chunks", "summaries"} \cup Gathers \cup Summaries \cup Ended
  <1>6. pc' \in Labels
      BY <1>5 DEF Next, Acquire, TaskReturns, Answer, FailContexts, FailAbandoned, FailBuild, Upload,
         StartHierarchy, FinishBuild, FinishRebuild, FinishContexts, FailBuildSummary,
         FailRebuildSummary, SummariseDocument, IndexChunks, FailChunks, IndexSummaries,
         FailSummaries, vars, ContextsRaised, BuildRaised, Contextualize, Start, To, Gathers, Builds,
         Summaries, SummaryOf, Ended
  <1>7. /\ hierarchy' \in {"none", "built", "rebuilt"}
        /\ contexts' \in {"disabled", "ready", "failed_open"}
      BY <1>5 DEF Next, Acquire, TaskReturns, Answer, FailContexts, FailAbandoned, FailBuild, Upload,
         StartHierarchy, FinishBuild, FinishRebuild, FinishContexts, FailBuildSummary,
         FailRebuildSummary, SummariseDocument, IndexChunks, FailChunks, IndexSummaries,
         FailSummaries, vars, ContextsRaised
  <1>8. points' \in [contextual : BOOLEAN, routed : BOOLEAN, summaries : BOOLEAN]
    <2> DEFINE Points == [contextual : BOOLEAN, routed : BOOLEAN, summaries : BOOLEAN]
    <2>1. (contexts = "ready") \in BOOLEAN /\ HierarchyIndexed \in BOOLEAN
        BY DEF HierarchyIndexed
    <2>2. IndexChunks => points' \in Points
        BY <1>5, <2>1 DEF IndexChunks
    <2>3. IndexSummaries => points' \in Points
        BY <1>5, <2>1 DEF IndexSummaries
    <2> QED
      BY <1>5, <2>2, <2>3 DEF Next, Acquire, TaskReturns, Answer, FailContexts, FailAbandoned, FailBuild,
         Upload, StartHierarchy, FinishBuild, FinishRebuild, FinishContexts, FailBuildSummary,
         FailRebuildSummary, SummariseDocument, FailChunks, FailSummaries, vars
  <1> QED
      BY <1>1, <1>3, <1>4, <1>5, <1>6, <1>7, <1>8 DEF TypeInv, TypeOK, T

\* No gather ever has more tasks than the document has chunks, or more calls than
\* max_concurrency.
THEOREM ContextualizationTyped == Spec => []TypeOK
  <1>1. TypeInv => TypeOK
      BY DEF TypeInv
  <1> QED
      BY TypeInvInitially, TypeInvPreserved, <1>1, PTL DEF Spec
=============================================================================
