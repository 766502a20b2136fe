-------------------------- MODULE Contextualization --------------------------
(***************************************************************************)
(* What one upload's chunks are sent to the language model for, between    *)
(* parsing and activation (contextualize_document, index_document).  The   *)
(* hierarchy builder groups the chunks by the similarity of their          *)
(* embeddings and summarises every group and the document; the             *)
(* contextualizer describes every chunk, given its group, the document and *)
(* its neighbours.  Both send their requests with asyncio.gather behind a  *)
(* semaphore of their own, and each may be allowed to fail open.           *)
(*                                                                         *)
(* gather passes the first exception on and cancels nothing: the other     *)
(* requests of that gather are still sent and answered while the upload    *)
(* goes on, or is over.                                                    *)
(*                                                                         *)
(* Parsing and chunking are done when a behaviour starts.  A text is a     *)
(* sequence of letters and blanks, the length of which is what the         *)
(* prompts' budgets are spent on; similarities are 0 or 1, 1 with oneself. *)
(***************************************************************************)
EXTENDS Integers, Sequences, FiniteSets, FiniteSetsExt, SequencesExt

CONSTANTS
    Texts,              \* what a page may read: sequences of letters and blanks
    MaxPages,
    MaxChunks,          \* chunks of the largest document
    MaxChars,           \* ChunkingConfig
    OverlapChars,
    TargetClusterSize,  \* ContextHierarchyConfig
    MaxClusters,
    NeighborChunkCount, \* ContextualizationConfig
    MaxNeighborChars,
    MaxConcurrency      \* of both configurations: one setting gives both

ASSUME ContextualizationAssumption ==
    /\ Texts \subseteq Seq({"letter", "blank"})
    /\ MaxPages \in Nat \ {0} /\ MaxChunks \in Nat \ {0}
    /\ MaxChars \in Nat \ {0}
    /\ OverlapChars \in 0..(MaxChars - 1)
    /\ TargetClusterSize \in Nat \ {0}
    /\ MaxClusters \in Nat \ {0}
    /\ NeighborChunkCount \in Nat
    /\ MaxNeighborChars \in Nat \ {0}
    /\ MaxConcurrency \in Nat \ {0}

VARIABLES
    config,     \* whether each feature is off, required or may fail open
    pages,      \* the normalised text of every page of the parsed document
    chunks,     \* the page of every chunk, and its first and last character
    groups,     \* grouped_positions
    pc,         \* what the upload awaits
    tasks,      \* of each gather: tasks waiting for its semaphore, and calling
    hierarchy,  \* none, or which builder call produced it
    contexts,   \* the status of the contextual representation
    points      \* what the upload's points in Qdrant have

vars == <<config, pages, chunks, groups, pc, tasks, hierarchy, contexts, points>>

Modes == {"off", "required", "failOpen"}
Builds == {"build", "rebuild"}
Gathers == Builds \cup {"contexts"}
Summaries == {"buildSummary", "rebuildSummary"}
SummaryOf == [build |-> "buildSummary", rebuild |-> "rebuildSummary"]
Ended == {"indexed", "aborted"}

-----------------------------------------------------------------------------
(* chunk_document: a character window with overlap over every page.        *)

\* A finite set in the order of its members' keys, which differ.
InOrder(S, key) ==
    [i \in 1..Cardinality(S) |->
        CHOOSE x \in S : Cardinality({y \in S : key[y] < key[x]}) = i - 1]

\* The characters of text from one position to another, without blank edges.
Strip(text, from, to) ==
    LET letters == {i \in from..to : text[i] # "blank"}
    IN IF letters = {} THEN {} ELSE Min(letters)..Max(letters)

\* Runs of blanks count as one, and the edges of the text are stripped.
NormalizeText(text) ==
    LET inner == Strip(text, 1, Len(text))
        kept == {i \in inner : ~(text[i] = "blank" /\ text[i - 1] = "blank")}
        order == InOrder(kept, [i \in kept |-> i])
    IN [i \in DOMAIN order |-> text[order[i]]]

\* Mutant: the loop goes on after a window that reached the end.
WindowsToTheLastStep(text) ==
    LET from[start \in Nat] ==
            IF start > Len(text) THEN <<>>
            ELSE LET window == Strip(text, start, Min({Len(text), start + MaxChars - 1}))
                 IN (IF window = {} THEN <<>> ELSE <<window>>)
                    \o from[start + MaxChars - OverlapChars]
    IN IF Len(text) <= MaxChars THEN <<1..Len(text)>> ELSE from[1]

SlidingWindows(text) ==
    LET from[start \in Nat] ==
            LET end == Min({Len(text), start + MaxChars - 1})
                window == Strip(text, start, end)
            IN (IF window = {} THEN <<>> ELSE <<window>>)
               \o IF end = Len(text) THEN <<>> ELSE from[start + MaxChars - OverlapChars]
    IN IF Len(text) <= MaxChars THEN <<1..Len(text)>> ELSE from[1]

\* A page without text has no chunks; the chunks are numbered through.
ChunkDocument(texts) ==
    LET chunked[p \in 0..Len(texts)] ==
            IF p = 0 THEN <<>>
            ELSE chunked[p - 1] \o
                 IF texts[p] = <<>> THEN <<>>
                 ELSE LET windows == SlidingWindows(texts[p])
                      IN [i \in DOMAIN windows |-> [page |-> p, from |-> Min(windows[i]),
                                                   to |-> Max(windows[i])]]
    IN chunked[Len(texts)]

\* The length of a chunk's text.
Length(i) == chunks[i].to - chunks[i].from + 1

-----------------------------------------------------------------------------
(* cluster_chunk_embeddings.                                               *)

CeilDiv(a, b) == (a + b - 1) \div b

\* Mutant: the group size is rounded down.
RoundedDownClusterSize(n) == Max({TargetClusterSize, n \div MaxClusters})

EffectiveClusterSize(n) == Max({TargetClusterSize, CeilDiv(n, MaxClusters)})

\* The groups of n chunks of which those in near are pairwise similar.  The
\* seed is the outlier; a group takes the seed's nearest among the rest,
\* smaller positions first, so that the seed itself may have to wait.
ClusterChunkEmbeddings(n, near) ==
    LET similar(i, j) == i = j \/ {i, j} \in near
        cohesion(i) == Cardinality({j \in 1..n : j # i /\ similar(i, j)})
        seed(rest) == CHOOSE i \in rest : \A j \in rest \ {i} :
                          \/ cohesion(i) < cohesion(j)
                          \/ cohesion(i) = cohesion(j) /\ i < j
        distance(s) == [i \in 1..n |-> IF similar(s, i) THEN i ELSE n + i]
        group(rest) ==
            LET from == distance(seed(rest))
            IN {i \in rest : Cardinality({j \in rest : from[j] < from[i]})
                                 < EffectiveClusterSize(n)}
        grouped[rest \in SUBSET (1..n)] ==
            IF rest = {} THEN {} ELSE {group(rest)} \cup grouped[rest \ group(rest)]
    IN InOrder(grouped[1..n], [g \in grouped[1..n] |-> Min(g)])

-----------------------------------------------------------------------------
(* _select_bounded_neighbors: how much of which neighbour a prompt shows.  *)

Nearest(p, step) ==
    LET last == Min({NeighborChunkCount, IF step < 0 THEN p - 1 ELSE Len(chunks) - p})
    IN [i \in 1..last |-> p + step * i]

\* A text that does not fit is cut to what is left, its marker included.
SelectNeighborSide(candidates, budget) ==
    LET lengths == [i \in DOMAIN candidates |-> Length(candidates[i])]
    IN [i \in DOMAIN candidates |->
           LET taken == SumFunctionOnSet(lengths, 1..(i - 1))
           IN Max({0, Min({lengths[i], budget - taken})})]

Shown(side) == SumFunction(side)

\* Mutant: what a side leaves unused is given away without being kept off it.
WindowOfBoth(p) ==
    [previous |-> SelectNeighborSide(Nearest(p, -1), MaxNeighborChars),
     next |-> SelectNeighborSide(Nearest(p, 1), MaxNeighborChars)]

\* Each side has half the budget and what the other leaves of its half.
Window(p) ==
    LET before == Nearest(p, -1)
        after == Nearest(p, 1)
        previousBudget == IF before = <<>> THEN 0
                          ELSE IF after = <<>> THEN MaxNeighborChars
                          ELSE MaxNeighborChars \div 2
        nextBudget == MaxNeighborChars - previousBudget
        unusedPrevious == previousBudget - Shown(SelectNeighborSide(before, previousBudget))
        unusedNext == nextBudget - Shown(SelectNeighborSide(after, nextBudget))
    IN [previous |-> SelectNeighborSide(before, previousBudget + unusedNext),
        next |-> SelectNeighborSide(after, nextBudget + unusedPrevious)]


-----------------------------------------------------------------------------
Idle == [waiting |-> 0, calling |-> 0]
Gather(n) == [waiting |-> n, calling |-> 0]

\* A document is not ingested unless some page of it has text
\* (parse_document_content); every chunk has an embedding of its own.
Init ==
    /\ config \in [contextualization : Modes, hierarchy : Modes]
    /\ \E n \in 1..MaxPages : \E texts \in [1..n -> Texts] :
          pages = [p \in 1..n |-> NormalizeText(texts[p])]
    /\ chunks = ChunkDocument(pages)
    /\ Len(chunks) \in 1..MaxChunks
    /\ \E near \in SUBSET kSubset(2, DOMAIN chunks) :
          groups = ClusterChunkEmbeddings(Len(chunks), near)
    /\ pc = "parsed"
    /\ tasks = [g \in Gathers |-> Idle]
    /\ hierarchy = "none"
    /\ contexts = "disabled"
    /\ points = [contextual |-> FALSE, routed |-> FALSE, summaries |-> FALSE]

To(label) == pc' = label

Start(g, n) ==
    /\ To(g)
    /\ tasks' = [tasks EXCEPT ![g] = Gather(n)]

Contextualize ==
    IF config.contextualization = "off"
    THEN To("chunks") /\ UNCHANGED tasks
    ELSE Start("contexts", Len(chunks))

\* _build_context_hierarchy: both features need the hierarchy, and whichever
\* is on has a builder.
StartHierarchy ==
    /\ pc = "parsed"
    /\ IF config.hierarchy = "off" /\ config.contextualization = "off"
       THEN Contextualize
       ELSE Start("build", Len(groups))
    /\ UNCHANGED <<config, pages, chunks, groups, hierarchy, contexts, points>>

-----------------------------------------------------------------------------
(* The tasks of a gather, awaited or abandoned.                            *)

Calling == tasks["build"].calling + tasks["rebuild"].calling + tasks["contexts"].calling
           + IF pc \in Summaries THEN 1 ELSE 0

\* Mutant: the tasks of an abandoned gather never get the semaphore.
AcquireIfAwaited(g) ==
    /\ pc = g
    /\ tasks[g].waiting > 0
    /\ tasks[g].calling < MaxConcurrency
    /\ tasks' = [tasks EXCEPT ![g].waiting = @ - 1, ![g].calling = @ + 1]
    /\ UNCHANGED <<config, pages, chunks, groups, pc, hierarchy, contexts, points>>

Acquire(g) ==
    /\ tasks[g].waiting > 0
    /\ tasks[g].calling < MaxConcurrency
    /\ tasks' = [tasks EXCEPT ![g].waiting = @ - 1, ![g].calling = @ + 1]
    /\ UNCHANGED <<config, pages, chunks, groups, pc, hierarchy, contexts, points>>

Returns(g) ==
    /\ tasks[g].calling > 0
    /\ tasks' = [tasks EXCEPT ![g].calling = @ - 1]

\* A usable answer.
Answer(g) ==
    /\ Returns(g)
    /\ UNCHANGED <<config, pages, chunks, groups, pc, hierarchy, contexts, points>>

\* _contextualize_chunks' except branch: the hierarchy it was given survives,
\* one that it built itself does not.
ContextsRaised ==
    IF config.contextualization = "failOpen"
    THEN To("chunks") /\ contexts' = "failed_open"
    ELSE To("aborted") /\ UNCHANGED contexts

\* An error of the provider, or an answer that is empty once normalised, in a
\* gather whose first failure raises in the rebuild or the contextualization.
FailContexts(g) ==
    /\ pc = g /\ g \in {"rebuild", "contexts"}
    /\ Returns(g)
    /\ ContextsRaised
    /\ UNCHANGED <<config, pages, chunks, groups, hierarchy, points>>

\* Mutant: a feature that is off does not count as failing open.
HierarchyMayFailOpenIfSet ==
    config.hierarchy = "failOpen" /\ config.contextualization = "failOpen"

\* Mutant: one of the two features may fail open.
HierarchyMayFailOpenIfEither ==
    config.hierarchy # "required" \/ config.contextualization # "required"

HierarchyMayFailOpen ==
    config.hierarchy # "required" /\ config.contextualization # "required"

\* The first failure of the document's hierarchy: without one, the
\* contextualizer builds its own.
BuildRaised(afterReturn) ==
    IF ~HierarchyMayFailOpen THEN To("aborted") /\ tasks' = afterReturn
    ELSE IF config.contextualization = "off" THEN To("chunks") /\ tasks' = afterReturn
    ELSE To("rebuild") /\ tasks' = [afterReturn EXCEPT !["rebuild"] = Gather(Len(groups))]

FailBuild ==
    /\ pc = "build"
    /\ tasks["build"].calling > 0
    /\ BuildRaised([tasks EXCEPT !["build"].calling = @ - 1])
    /\ UNCHANGED <<config, pages, chunks, groups, hierarchy, contexts, points>>

\* A failure in a gather that nobody awaits any more.
FailAbandoned(g) ==
    /\ pc # g
    /\ Returns(g)
    /\ UNCHANGED <<config, pages, chunks, groups, pc, hierarchy, contexts, points>>

Gathered(g) == pc = g /\ tasks[g] = Idle

-----------------------------------------------------------------------------
(* The upload.                                                             *)

SummariseDocument(b) ==
    /\ Gathered(b)
    /\ To(SummaryOf[b])
    /\ UNCHANGED <<config, pages, chunks, groups, tasks, hierarchy, contexts, points>>

FinishBuild ==
    /\ pc = "buildSummary"
    /\ hierarchy' = "built"
    /\ Contextualize
    /\ UNCHANGED <<config, pages, chunks, groups, contexts, points>>

FinishRebuild ==
    /\ pc = "rebuildSummary"
    /\ Start("contexts", Len(chunks))
    /\ UNCHANGED <<config, pages, chunks, groups, hierarchy, contexts, points>>

FailBuildSummary ==
    /\ pc = "buildSummary"
    /\ BuildRaised(tasks)
    /\ UNCHANGED <<config, pages, chunks, groups, hierarchy, contexts, points>>

FailRebuildSummary ==
    /\ pc = "rebuildSummary"
    /\ ContextsRaised
    /\ UNCHANGED <<config, pages, chunks, groups, tasks, hierarchy, points>>

FinishContexts ==
    /\ Gathered("contexts")
    /\ contexts' = "ready"
    /\ hierarchy' = IF hierarchy = "none" THEN "rebuilt" ELSE hierarchy
    /\ To("chunks")
    /\ UNCHANGED <<config, pages, chunks, groups, tasks, points>>

HierarchyIndexed == config.hierarchy # "off" /\ hierarchy # "none"

\* index_document_chunks: one point per chunk, with a contextual vector if
\* there is one, and routed to its section if the hierarchy is to be indexed.
IndexChunks ==
    /\ pc = "chunks"
    /\ points' = [points EXCEPT !.contextual = (contexts = "ready"),
                                !.routed = HierarchyIndexed]
    /\ To("summaries")
    /\ UNCHANGED <<config, pages, chunks, groups, tasks, hierarchy, contexts>>

\* The embeddings of the contexts, the flush or the upsert: nothing fails open.
FailChunks ==
    /\ pc = "chunks"
    /\ To("aborted")
    /\ UNCHANGED <<config, pages, chunks, groups, tasks, hierarchy, contexts, points>>

\* _index_hierarchy.
IndexSummaries ==
    /\ pc = "summaries"
    /\ config.hierarchy = "off" \/ hierarchy # "none"
    /\ points' = [points EXCEPT !.summaries = HierarchyIndexed]
    /\ To("indexed")
    /\ UNCHANGED <<config, pages, chunks, groups, tasks, hierarchy, contexts>>

\* Mutant: the hierarchy's index always fails open.
FailSummariesOpen ==
    /\ pc = "summaries"
    /\ config.hierarchy # "off"
    /\ To("indexed")
    /\ UNCHANGED <<config, pages, chunks, groups, tasks, hierarchy, contexts, points>>

\* No hierarchy was produced, or its points could not be written.
FailSummaries ==
    /\ pc = "summaries"
    /\ config.hierarchy # "off"
    /\ To(IF config.hierarchy = "failOpen" THEN "indexed" ELSE "aborted")
    /\ UNCHANGED <<config, pages, chunks, groups, tasks, hierarchy, contexts, points>>

TaskReturns(g) == Answer(g) \/ FailContexts(g) \/ FailAbandoned(g)

Upload ==
    \/ StartHierarchy \/ FinishBuild \/ FinishRebuild \/ FinishContexts
    \/ FailBuildSummary \/ FailRebuildSummary
    \/ \E b \in Builds : SummariseDocument(b)
    \/ IndexChunks \/ FailChunks \/ IndexSummaries \/ FailSummaries

Next ==
    \/ \E g \in Gathers : Acquire(g) \/ TaskReturns(g)
    \/ FailBuild
    \/ Upload

\* The event loop resumes whatever can run, and the provider's client times out.
Fairness ==
    /\ \A g \in Gathers : WF_vars(Acquire(g)) /\ WF_vars(TaskReturns(g))
    /\ WF_vars(Upload)

Spec == Init /\ [][Next]_vars /\ Fairness

-----------------------------------------------------------------------------
(* Properties.                                                             *)

TypeOK ==
    /\ config \in [contextualization : Modes, hierarchy : Modes]
    /\ Len(chunks) \in 1..MaxChunks
    /\ pc \in {"parsed", "chunks", "summaries"} \cup Gathers \cup Summaries \cup Ended
    /\ tasks \in [Gathers -> [waiting : 0..MaxChunks, calling : 0..MaxConcurrency]]
    /\ hierarchy \in {"none", "built", "rebuilt"}
    /\ contexts \in {"disabled", "ready", "failed_open"}
    /\ points \in [contextual : BOOLEAN, routed : BOOLEAN, summaries : BOOLEAN]

\* The chunks of a document leave nothing out and are not redundant: every
\* passage of up to one character more than the overlap is whole in some chunk
\* of its page, and no chunk is a part of another one (_sliding_windows).
\* Windows that advance by a single character may differ in a blank only.
PassagesStayWhole ==
    /\ \A p \in DOMAIN pages : \A i, j \in DOMAIN pages[p] :
          /\ i <= j /\ j <= i + OverlapChars
          /\ pages[p][i] # "blank" /\ pages[p][j] # "blank"
          => \E c \in Range(chunks) : c.page = p /\ c.from <= i /\ j <= c.to
    /\ OverlapChars < MaxChars - 1 =>
          \A c, d \in DOMAIN chunks :
             /\ c # d /\ chunks[c].page = chunks[d].page
             => ~(chunks[c].from >= chunks[d].from /\ chunks[c].to <= chunks[d].to)

\* Every chunk is summarised in exactly one group, so that
\* cluster_for_ordinal finds it, in as few groups as the sizes allow and never
\* more than max_clusters (cluster_chunk_embeddings).
ChunksAreGroupedOnce ==
    LET n == Len(chunks) IN
    /\ UNION Range(groups) = 1..n
    /\ \A i, j \in DOMAIN groups : i < j => groups[i] \cap groups[j] = {}
    /\ Len(groups) = CeilDiv(n, EffectiveClusterSize(n))
    /\ Len(groups) <= MaxClusters

\* What a document says is in its chunks, and all of them are in its sections.
DocumentIsCovered == PassagesStayWhole /\ ChunksAreGroupedOnce

\* The neighbours in a prompt keep to max_neighbor_chars and waste none of it:
\* a text is cut only if the budget is used up, a farther neighbour is shown
\* only behind a whole nearer one, and a side with less than its half is whole
\* (_select_bounded_neighbors).
NeighborsFillTheirBudget ==
    \A p \in DOMAIN chunks :
        LET w == Window(p)
            Whole(side, step) ==
                \A i \in DOMAIN side : side[i] = Length(Nearest(p, step)[i])
            NearestFirst(side, step) ==
                \A i \in DOMAIN side : i > 1 /\ side[i] > 0 =>
                    side[i - 1] = Length(Nearest(p, step)[i - 1])
            total == Shown(w.previous) + Shown(w.next)
        IN /\ total <= MaxNeighborChars
           /\ total < MaxNeighborChars => Whole(w.previous, -1) /\ Whole(w.next, 1)
           /\ NearestFirst(w.previous, -1) /\ NearestFirst(w.next, 1)
           /\ Shown(w.previous) < MaxNeighborChars \div 2 => Whole(w.previous, -1)
           /\ Shown(w.next) < MaxNeighborChars \div 2 => Whole(w.next, 1)

\* One upload has at most twice max_concurrency requests at the model, and
\* more than max_concurrency only after a hierarchy was abandoned and rebuilt.
RequestsBounded ==
    /\ Calling <= 2 * MaxConcurrency
    /\ Calling > MaxConcurrency =>
          config.contextualization = "failOpen" /\ hierarchy # "built"

\* What a finished upload has: everything that is required, a hierarchy
\* that was built even if the contexts failed after it, summaries only of
\* sections that chunks are routed to, and nothing that is switched off.
FailuresStayLocal ==
    pc = "indexed" =>
        /\ config.contextualization = "required" => points.contextual
        /\ config.hierarchy = "required" => points.summaries
        /\ hierarchy = "built" /\ config.hierarchy # "off" => points.routed
        /\ points.summaries => points.routed
        /\ config.contextualization = "off" => ~points.contextual
        /\ config.hierarchy = "off" => ~points.routed

\* "an unavailable contextualization model does not block normal ingestion"
\* (README.md): if nothing is required, only the index itself aborts.
FailOpenNeverBlocks ==
    [][(pc' = "aborted" /\ pc # "aborted" /\ "required" \notin Range(config)) => pc = "chunks"]_vars

\* Every upload ends, and no request of it is left at the model or waiting for
\* its semaphore for ever, although nobody awaits it.
RequestsComeToAnEnd == <>[](pc \in Ended /\ \A g \in Gathers : tasks[g] = Idle)

\* "CONTEXTUALIZATION_MAX_CONCURRENCY bounds simultaneous local Ollama
\* requests" (README.md).  Refuted: the requests of an abandoned hierarchy and
\* those of its rebuild have a semaphore each.
RequestsWithinConcurrency == Calling <= MaxConcurrency
=============================================================================
