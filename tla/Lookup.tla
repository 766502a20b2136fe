------------------------------- MODULE Lookup -------------------------------
(***************************************************************************)
(* One lookup, of a fixed pipeline or of the agentic plan executor: query  *)
(* variants, searches of Qdrant and of the keyword index under a           *)
(* question's constraints, reciprocal-rank fusion, selection of versions,  *)
(* reranking, balancing of documents and the validation that follows.      *)
(*                                                                         *)
(* The searches of a lookup are separate requests.  Meanwhile an ingestion *)
(* may stage and activate a new version of one document, so they may see   *)
(* different points and latest flags.  Similarities, term scores and the   *)
(* scores of a reranker are abstracted to the order they give.             *)
(***************************************************************************)
EXTENDS Naturals, Sequences, FiniteSets, SequencesExt, FiniteSetsExt

CONSTANTS
    Requests,       \* lookups to check; see RequestOK
    Newest,         \* per document, its newest version in the index
    Growing,        \* the document whose newest version is being ingested
    Key,            \* order of the evidence keys that break ties in a fusion
    RRFK,           \* rrf_k
    Weight,         \* per source, its weight in a fusion
    FailOpen,       \* MULTI_QUERY_FAIL_OPEN
    RerankFallback, \* OLLAMA_RERANK_FALLBACK_TO_ORIGINAL_RANK
    Pool,           \* widening of top_k for reranking or balancing: [factor, limit]
    Wide,           \* ... by the version-aware retriever
    Deep,           \* ... by the fusing retrievers
    Documents,      \* document_candidates and
    Sections,       \* section_candidates of the hierarchical retriever
    Shares          \* shares of the document balancing, in tenths

Modes == {"all", "all_versions", "latest", "oldest", "specific", "previous",
          "all_except_latest", "latest_and_previous", "oldest_and_latest"}
Docs == DOMAIN Newest
Points == [doc: Docs, version: Nat \ {0}, part: Nat]

\* What a lookup is asked for, and the chunks of the index it meets.
RequestOK(r) ==
    /\ r.strategy \in {"baseline", "hybrid", "contextual", "multi_query",
                       "hierarchical", "rerank", "llm_rerank"}
    /\ r.fixed \in BOOLEAN         \* a fixed pipeline, not the executor
    /\ r.strategy = "llm_rerank" => r.fixed
    /\ r.fixed => r.preferred = {}
    /\ r.mode \in Modes
    /\ r.numbers \subseteq Nat      \* of a specific mode
    /\ r.dated \in BOOLEAN          \* a date range is asked for, and
    /\ r.range \subseteq Nat        \* these versions fall into it
    /\ r.named \subseteq Docs       \* documents asked for; none if empty
    /\ r.topK \in Nat \ {0}
    /\ r.preferred \in {{}} \cup {{d} : d \in Docs}  \* the primary document, if any
    /\ r.points \subseteq Points /\ IsFiniteSet(r.points)
    /\ \A p, q \in r.points : p.version <= Newest[p.doc] /\ (Key[p] = Key[q] => p = q)
    /\ r.plain \subseteq r.points   \* chunks without a contextual vector
    /\ r.flat \subseteq r.points    \* chunks of versions without summaries

ASSUME LookupAssumption ==
    /\ \A r \in Requests : RequestOK(r)
    /\ Newest \in [Docs -> Nat \ {0}] /\ Growing \in Docs
    /\ \A r \in Requests : \A p \in r.points : Key[p] \in Nat
    /\ RRFK \in Nat \ {0}
    \* A source of weight 0 would not take part in a fusion.
    /\ Weight \in [{"vector", "keyword", "original", "variant"} -> Nat \ {0}]
    /\ {Pool, Wide, Deep} \subseteq [factor: Nat \ {0}, limit: Nat \ {0}]
    /\ Documents \in Nat /\ Sections \in Nat
    /\ Shares \in [primaryMin: 1..10, primaryMax: 1..10, secondary: 1..10, unpreferred: 1..10]
    /\ FailOpen \in BOOLEAN /\ RerankFallback \in BOOLEAN

VARIABLES
    request,
    phase,          \* of the ingestion: before, staged, active
    raced,          \* the index changed during the lookup
    pc,
    scanning,       \* the fallback scan without the document filter is running
    within,         \* chunks the hierarchical retriever has narrowed down to
    found,          \* per source, what its search returned
    candidates,     \* after fusion
    selected,       \* after version selection, reranking and balancing
    result          \* after validation

vars == <<request, phase, raced, pc, scanning, within, found, candidates,
          selected, result>>

-----------------------------------------------------------------------------
\* The entries of a sequence at some of its positions, in their order.
EntriesAt(s, I) ==
    [i \in 1..Cardinality(I) |->
        s[CHOOSE j \in I : Cardinality({k \in I : k < j}) = i - 1]]

-----------------------------------------------------------------------------
(* The index.                                                              *)

Lower(a, b) == IF a <= b THEN a ELSE b
Higher(a, b) == IF a >= b THEN a ELSE b

IsNew(p) == p.doc = Growing /\ p.version = Newest[Growing]
Present == {p \in request.points : IsNew(p) => phase # "before"}

\* is_latest_version: written as true with the chunk, cleared from the other
\* versions when a version is activated.
Latest(p) ==
    LET top == Newest[p.doc] IN
    IF p.doc # Growing \/ phase = "active" THEN p.version = top
    ELSE p.version \in {top - 1, top}

Hit(p) == [point |-> p, latest |-> Latest(p)]

\* The filter both stores apply to a lookup's version constraint.  Relative
\* versions are resolved inside a date range, not by stored flags.
CoarseMatch(p, latest) ==
    CASE request.mode = "specific" -> p.version \in request.numbers
      [] request.mode = "latest" /\ ~request.dated -> latest
      [] request.mode = "oldest" /\ ~request.dated -> p.version = 1
      [] request.mode \in {"previous", "all_except_latest"} /\ ~request.dated -> ~latest
      [] request.mode = "oldest_and_latest" /\ ~request.dated -> p.version = 1 \/ latest
      [] OTHER -> TRUE

InRange(p) == request.dated => p.version \in request.range
Named(p) == request.named # {} => p.doc \in request.named

Matching ==
    {p \in Present \cap within :
        /\ CoarseMatch(p, Latest(p))
        /\ InRange(p)
        /\ Named(p) \/ scanning}

\* The rankings of n points: a search returns its best n in any order.
Rankings(S, n) ==
    {s \in [1..Lower(n, Cardinality(S)) -> S] : IsInjective(s)}

-----------------------------------------------------------------------------
(* How many candidates each layer asks for.                                *)

Widened(k, w) == Higher(k, Lower(k * w.factor, w.limit))

Constrained ==
    request.mode # "all" \/ request.dated \/ request.named # {}

Reranking == request.strategy \in {"rerank", "llm_rerank"}

PoolSize == IF request.fixed /\ ~Reranking THEN request.topK
            ELSE Widened(request.topK, Pool)
SelectionSize == IF Constrained THEN Widened(PoolSize, Wide) ELSE PoolSize
SearchSize ==
    CASE request.strategy = "baseline" -> SelectionSize
      [] request.strategy = "hierarchical" ->
            Lower(Deep.limit, SelectionSize * Deep.factor)
      [] OTHER -> Widened(SelectionSize, Deep)

-----------------------------------------------------------------------------
(* Searches.                                                               *)

Pending == [is |-> "pending", hits |-> <<>>]
Failed == [is |-> "failed", hits |-> <<>>]
Returned(hits) == [is |-> "returned", hits |-> hits]

Unanswered(sources) == [s \in sources |-> Pending]

\* What is searched: a hybrid search asks both stores; a multi-query search
\* adds its queries when the model has answered.
FirstSources ==
    CASE request.strategy \in {"baseline", "hierarchical"} -> {"vector"}
      [] request.strategy = "multi_query" -> {}
      [] OTHER -> {"vector", "keyword"}

FirstStep ==
    CASE request.strategy = "hierarchical" -> "documents"
      [] request.strategy = "multi_query" -> "expand"
      [] OTHER -> "search"

Sources == DOMAIN found

Start ==
    /\ pc' = FirstStep
    /\ within' = request.points
    /\ found' = Unanswered(FirstSources)

Init ==
    /\ request \in Requests
    /\ phase \in {"before", "staged", "active"}
    /\ raced = FALSE
    /\ pc = FirstStep
    /\ scanning = FALSE
    /\ within = request.points
    /\ found = Unanswered(FirstSources)
    /\ candidates = <<>> /\ selected = <<>> /\ result = <<>>

Narrow(next, S) ==
    /\ within' = S
    /\ pc' = IF S = {} THEN "scan" ELSE next
    /\ UNCHANGED <<request, phase, raced, scanning, found, candidates, selected, result>>

\* Document summaries select versions; a version has one summary.
SearchDocuments ==
    /\ pc = "documents"
    /\ LET summaries == {<<p.doc, p.version>> : p \in Matching \ request.flat}
           size == Lower(Documents, Cardinality(summaries))
       IN \E S \in kSubset(size, summaries) :
             Narrow("sections", {p \in within : <<p.doc, p.version>> \in S})

\* Section summaries select sections; each chunk here is a section.
SearchSections ==
    /\ pc = "sections"
    /\ LET sections == Matching \ request.flat
           size == Lower(Sections, Cardinality(sections))
       IN \E S \in kSubset(size, sections) : Narrow("search", S)

\* The model writes a query that differs from the question.
Expand ==
    /\ pc = "expand"
    /\ found' = Unanswered({"original", "variant"})
    /\ pc' = "search"
    /\ UNCHANGED <<request, phase, raced, scanning, within, candidates, selected, result>>

\* It fails, or what it writes is invalid or no new query, even when asked to
\* repair it: the question alone is searched for.
ExpandFails ==
    /\ pc = "expand"
    /\ FailOpen
    /\ found' = Unanswered({"original"})
    /\ pc' = "search"
    /\ UNCHANGED <<request, phase, raced, scanning, within, candidates, selected, result>>

\* The points a source may return.  A keyword search returns those that share
\* a term with the query.  Both stores know contextual texts and vectors only
\* of chunks that have one; the hierarchical retriever searches the others if
\* it finds none of these.
Findable(source) ==
    IF request.strategy = "contextual"
    THEN IF source = "keyword" THEN SUBSET (Matching \ request.plain)
         ELSE {Matching \ request.plain}
    ELSE IF source = "keyword" THEN SUBSET Matching
    ELSE IF request.strategy = "hierarchical" /\ Matching \ request.plain # {}
    THEN {Matching \ request.plain}
    ELSE {Matching}

Search(source) ==
    /\ pc = "search"
    /\ found[source] = Pending
    /\ \E S \in Findable(source) : \E ranking \in Rankings(S, SearchSize) :
          found' = [found EXCEPT ![source] =
                       Returned([i \in DOMAIN ranking |-> Hit(ranking[i])])]
    /\ UNCHANGED <<request, phase, raced, pc, scanning, within, candidates,
                   selected, result>>

SearchFails(source) ==
    /\ pc = "search"
    /\ found[source] = Pending
    /\ found' = [found EXCEPT ![source] = Failed]
    /\ UNCHANGED <<request, phase, raced, pc, scanning, within, candidates,
                   selected, result>>

-----------------------------------------------------------------------------
(* Fusion.                                                                 *)

Answered == {s \in Sources : found[s].is = "returned"}

HitsOf(s) == found[s].hits
FoundPoints(s) == {HitsOf(s)[i].point : i \in DOMAIN HitsOf(s)}
RankIn(s, p) == CHOOSE i \in DOMAIN HitsOf(s) : HitsOf(s)[i].point = p

\* Reciprocal ranks over their common denominator.
Common ==
    LET upTo[n \in 0..Cardinality(request.points)] ==
            IF n = 0 THEN 1 ELSE upTo[n - 1] * (RRFK + n)
    IN upTo[Cardinality(request.points)]

\* The sources that found a chunk.
Finders(p) == {s \in Answered : p \in FoundPoints(s)}

\* Mutant: ranks are taken from the end of a source's list.
FusedScoreReversed(p) ==
    SumFunctionOnSet(
        [s \in Finders(p) |->
            Weight[s] * (Common \div (RRFK + 1 + Len(HitsOf(s)) - RankIn(s, p)))],
        Finders(p))

FusedScore(p) ==
    SumFunctionOnSet([s \in Finders(p) |-> Weight[s] * (Common \div (RRFK + RankIn(s, p)))],
                     Finders(p))

\* The first source to contribute a chunk keeps its metadata.
FusedHit(p) ==
    LET first == IF \E s \in Answered \cap {"vector", "original"} : p \in FoundPoints(s)
                 THEN CHOOSE s \in Answered \cap {"vector", "original"} : TRUE
                 ELSE CHOOSE s \in Answered : p \in FoundPoints(s)
    IN HitsOf(first)[RankIn(first, p)]

Fused ==
    LET pool == {[point |-> p, score |-> FusedScore(p)] :
                    p \in UNION {FoundPoints(s) : s \in Answered}}
        before(c) == {b \in pool : \/ b.score > c.score
                                   \/ b.score = c.score /\ Key[b.point] < Key[c.point]}
        ranked(i) == CHOOSE c \in pool : Cardinality(before(c)) = i - 1
    IN [i \in 1..Cardinality(pool) |-> FusedHit(ranked(i).point)]

FirstOf(s, n) == SubSeq(s, 1, Lower(n, Len(s)))

Fuse ==
    /\ pc = "search"
    /\ \A s \in Sources : found[s] # Pending
    /\ Answered = Sources \/ (request.strategy = "multi_query" /\ FailOpen /\ Answered # {})
    /\ candidates' = FirstOf(IF Sources = {"vector"} THEN HitsOf("vector") ELSE Fused,
                             SelectionSize)
    /\ pc' = "scan"
    /\ UNCHANGED <<request, phase, raced, scanning, within, found, selected, result>>

Raise ==
    /\ \/ /\ pc = "search"
          /\ \E s \in Sources : found[s] = Failed
          /\ ~(request.strategy = "multi_query" /\ FailOpen)
       \/ /\ pc = "search"
          /\ \A s \in Sources : found[s] = Failed
       \/ pc = "expand" /\ ~FailOpen
       \/ pc \in {"documents", "sections"}
    /\ pc' = "raised"
    /\ UNCHANGED <<request, phase, raced, scanning, within, found, candidates,
                   selected, result>>

-----------------------------------------------------------------------------
(* Version selection.                                                      *)

\* Nothing was found under the document's name: search again without it.
Scan ==
    /\ pc = "scan"
    /\ candidates = <<>> /\ request.named # {} /\ ~scanning
    /\ scanning' = TRUE
    /\ Start
    /\ UNCHANGED <<request, phase, raced, candidates, selected, result>>

Newer(n, N) == {m \in N : m > n}

\* Mutant: version selection is left to the stores' filters.
KeptByStores(n, N) == TRUE

\* Which of a document's version numbers among the candidates are kept.
Kept(n, N) ==
    CASE request.mode = "specific" -> n \in request.numbers
      [] request.mode = "latest" -> Newer(n, N) = {}
      [] request.mode = "oldest" -> \A m \in N : n <= m
      [] request.mode = "previous" -> Cardinality(Newer(n, N)) = 1
      [] request.mode = "all_except_latest" -> Newer(n, N) # {}
      [] request.mode = "latest_and_previous" -> Cardinality(Newer(n, N)) <= 1
      [] request.mode = "oldest_and_latest" -> Newer(n, N) = {} \/ \A m \in N : n <= m
      [] OTHER -> TRUE

SelectVersions(hits) ==
    LET scoped == {i \in DOMAIN hits : Named(hits[i].point) /\ InRange(hits[i].point)}
        numbers(d) == {hits[i].point.version : i \in {j \in scoped : hits[j].point.doc = d}}
    IN EntriesAt(hits, {i \in scoped :
                           Kept(hits[i].point.version, numbers(hits[i].point.doc))})

Select ==
    /\ pc = "scan"
    /\ candidates # <<>> \/ request.named = {} \/ scanning
    /\ selected' = FirstOf(SelectVersions(candidates), PoolSize)
    /\ pc' = IF Reranking /\ selected' # <<>> THEN "rerank"
             ELSE IF request.fixed THEN "validate" ELSE "balance"
    /\ UNCHANGED <<request, phase, raced, scanning, within, found, candidates, result>>

\* The scores of the candidates in S may put these in any order; those without
\* a score keep theirs and come last.
Reordered(S) ==
    {[i \in DOMAIN order |-> selected[order[i]]] \o EntriesAt(selected, DOMAIN selected \ S)
        : order \in Rankings(S, Cardinality(S))}

\* A fixed pipeline takes top_k of them, the executor balances all.
Reorder(S) ==
    /\ pc = "rerank"
    /\ \E pool \in Reordered(S) :
          selected' = IF request.fixed THEN FirstOf(pool, request.topK) ELSE pool
    /\ pc' = IF request.fixed THEN "validate" ELSE "balance"
    /\ UNCHANGED <<request, phase, raced, scanning, within, found, candidates, result>>

\* The candidates that the language model gives a score: it is asked for
\* batches, then for each candidate it left out, max_attempts times in all.
Scored == IF RerankFallback THEN SUBSET DOMAIN selected ELSE {DOMAIN selected}

RerankByModel ==
    /\ request.strategy = "llm_rerank"
    /\ \E S \in Scored : Reorder(S)

\* A cross-encoder scores every candidate.
RerankByCrossEncoder ==
    /\ request.strategy = "rerank"
    /\ Reorder(DOMAIN selected)

RerankFails ==
    /\ pc = "rerank"
    /\ ~(request.strategy = "llm_rerank" /\ RerankFallback)
    /\ pc' = "raised"
    /\ UNCHANGED <<request, phase, raced, scanning, within, found, candidates,
                   selected, result>>

-----------------------------------------------------------------------------
(* Document balancing.                                                     *)

\* A share of top_k, rounded up.
Share(tenths) == (request.topK * tenths + 9) \div 10

PrimaryMin == Lower(request.topK, Share(Shares.primaryMin))
PrimaryMax == Lower(request.topK, Higher(PrimaryMin, Share(Shares.primaryMax)))

Quota(d) ==
    IF request.preferred = {} THEN Share(Shares.unpreferred)
    ELSE IF d \in request.preferred THEN PrimaryMax ELSE Share(Shares.secondary)

CountOf(hits, d) == Cardinality({i \in DOMAIN hits : hits[i].point.doc = d})

\* Appends to chosen the hits whose document is below its quota, up to limit.
Take(chosen, hits, limit, quota) ==
    LET append(acc, h) ==
            IF /\ Len(acc) < limit
               /\ ~Contains(acc, h)
               /\ CountOf(acc, h.point.doc) < quota[h.point.doc]
            THEN Append(acc, h) ELSE acc
        taken[i \in 0..Len(hits)] ==
            IF i = 0 THEN chosen ELSE append(taken[i - 1], hits[i])
    IN taken[Len(hits)]

\* The selection within the quotas: the primary document's share, then the
\* others, then what remains of the primary document.
WithinQuotas(hits) ==
    LET preferred == {i \in DOMAIN hits : hits[i].point.doc \in request.preferred}
        primary == EntriesAt(hits, preferred)
        others == EntriesAt(hits, DOMAIN hits \ preferred)
        quota == [d \in Docs |-> Quota(d)]
        reserved == Take(<<>>, primary, PrimaryMin, quota)
    IN Take(Take(reserved, others, request.topK, quota), primary, request.topK, quota)

\* Quotas are relaxed when they leave top_k unfilled.
Balanced(hits) ==
    Take(WithinQuotas(hits), hits, request.topK, [d \in Docs |-> request.topK])

Balance ==
    /\ pc = "balance"
    /\ candidates' = selected
    /\ selected' = Balanced(selected)
    /\ pc' = "validate"
    /\ UNCHANGED <<request, phase, raced, scanning, within, found, result>>

-----------------------------------------------------------------------------
(* Validation.                                                             *)

\* Mutant: flags are consulted although the versions are relative to a range.
ValidatesByFlag(h) ==
    /\ Named(h.point) /\ InRange(h.point)
    /\ CASE request.mode = "specific" -> h.point.version \in request.numbers
         [] request.mode = "latest" -> h.latest
         [] request.mode \in {"previous", "all_except_latest"} -> ~h.latest
         [] OTHER -> TRUE

Validates(h) ==
    /\ Named(h.point) /\ InRange(h.point)
    /\ CASE request.mode = "specific" -> h.point.version \in request.numbers
         [] request.mode = "latest" -> request.dated \/ h.latest
         [] request.mode = "oldest" -> request.dated \/ h.point.version = 1
         [] request.mode \in {"previous", "all_except_latest"} -> request.dated \/ ~h.latest
         [] request.mode = "oldest_and_latest" ->
               request.dated \/ h.point.version = 1 \/ h.latest
         [] OTHER -> TRUE

Validate ==
    /\ pc = "validate"
    /\ result' = EntriesAt(selected, {i \in DOMAIN selected : Validates(selected[i])})
    /\ pc' = "done"
    /\ UNCHANGED <<request, phase, raced, scanning, within, found, candidates, selected>>

-----------------------------------------------------------------------------
(* The ingestion that runs meanwhile.                                      *)

Ends == {"done", "raised"}

Ingest ==
    /\ pc \notin Ends
    /\ \/ phase = "before" /\ phase' = "staged"
       \/ phase = "staged" /\ phase' = "active"
    /\ raced' = TRUE
    /\ UNCHANGED <<request, pc, scanning, within, found, candidates, selected, result>>

Next ==
    \/ Expand \/ ExpandFails
    \/ SearchDocuments \/ SearchSections
    \/ \E s \in Sources : Search(s) \/ SearchFails(s)
    \/ Fuse \/ Raise \/ Scan \/ Select \/ Balance \/ Validate
    \/ RerankByModel \/ RerankByCrossEncoder \/ RerankFails
    \/ Ingest

Spec == Init /\ [][Next]_vars

-----------------------------------------------------------------------------
(* Properties.                                                             *)

HitsOver(s) ==
    /\ \A i \in DOMAIN s : s[i] = Hit(s[i].point) \/ raced
    /\ \A i, j \in DOMAIN s : s[i].point = s[j].point => i = j

TypeOK ==
    /\ request \in Requests
    /\ phase \in {"before", "staged", "active"} /\ raced \in BOOLEAN
    /\ pc \in {"expand", "documents", "sections", "search", "scan", "rerank", "balance",
               "validate"} \cup Ends
    /\ within \subseteq request.points
    /\ \A s \in Answered : HitsOver(HitsOf(s))
    /\ HitsOver(candidates) /\ HitsOver(selected) /\ HitsOver(result)

\* The versions of a document a lookup is about: those in the date range.
Scoped(d) == {p.version : p \in {q \in Present : q.doc = d /\ InRange(q)}}

Asked(n, N) ==
    CASE request.mode = "latest" -> n = Max(N)
      [] request.mode = "oldest" -> n = Min(N)
      [] request.mode = "specific" -> n \in request.numbers
      [] request.mode = "previous" -> n < Max(N) /\ n = Max(N \ {Max(N)})
      [] request.mode = "all_except_latest" -> n < Max(N)
      [] request.mode = "latest_and_previous" -> n \in {Max(N), Max((N \ {Max(N)}) \cup {Min(N)})}
      [] request.mode = "oldest_and_latest" -> n \in {Min(N), Max(N)}
      [] OTHER -> TRUE

\* No search cut a candidate off or left out chunks without a contextual vector.
Exhaustive ==
    /\ SelectionSize >= Cardinality(request.points)
    /\ request.strategy # "hierarchical"
    /\ request.strategy = "contextual" => request.plain = {}

\* Modes that the stored flags and numbers decide before anything is cut off.
DecidedByStores ==
    ~request.dated /\ request.mode \in {"all", "all_versions", "latest", "oldest",
                                       "specific", "oldest_and_latest"}

\* The selectors that look for what precedes the latest version.
Historical == request.mode \in {"previous", "all_except_latest"}

Undisturbed == pc = "done" /\ ~raced /\ phase # "staged"

\* A lookup that no ingestion disturbs returns only versions that were asked
\* for, in the named documents and the date range: always where the stores
\* decide, and wherever no candidate was cut off otherwise (README "resolves
\* latest and previous semantics"; see HistoryAsAsked for the exception).  A
\* lookup of one version never mixes two of a document, whatever happens.
VersionsAsAsked ==
    /\ (Undisturbed /\ (DecidedByStores \/ Exhaustive) /\ ~(Historical /\ ~request.dated)) =>
          \A i \in DOMAIN result :
             LET p == result[i].point IN
             Asked(p.version, Scoped(p.doc)) /\ InRange(p) /\ Named(p)
    /\ request.mode \in {"latest", "oldest", "previous"} =>
          \A i, j \in DOMAIN result :
             result[i].point.doc = result[j].point.doc =>
                 result[i].point.version = result[j].point.version

\* The stores, the selection and the validation read a constraint alike: the
\* validation before grading never takes away what a lookup selected, even if
\* the flags changed between its searches (constraint_validation.py).
NothingRejected == pc = "done" => result = selected

\* A chunk that every search ranked at least as high as another one precedes
\* it in the fusion, whatever sources failed or did not find it.
FusionRespectsRanks ==
    pc = "scan" /\ Cardinality(Sources) = 2 =>
        \A i, j \in DOMAIN candidates : i < j =>
            LET p == candidates[i].point  q == candidates[j].point
            IN \E s \in Answered :
                  /\ p \in FoundPoints(s)
                  /\ q \in FoundPoints(s) => RankIn(s, p) < RankIn(s, q)

\* Balancing fills top_k whenever the pool allows, reserves the primary
\* document's share, and lets a document exceed its quota only if all other
\* documents have nothing more to give or exhausted theirs.
BalancedFairly ==
    pc \in {"validate", "done"} /\ ~request.fixed =>
        LET given(d) == CountOf(selected, d)
            offered(d) == CountOf(candidates, d)
        IN /\ Len(selected) = Lower(request.topK, Len(candidates))
           /\ \A d \in request.preferred : given(d) >= Lower(PrimaryMin, offered(d))
           /\ \A d, e \in Docs :
                 given(d) > Quota(d) => given(e) = offered(e) \/ given(e) >= Quota(e)

\* A lookup for the previous version returns the version that immediately
\* precedes the latest one.  Refuted: the stores leave out the latest version,
\* and the selection then takes the newest remaining one for it.
HistoryAsAsked ==
    Undisturbed /\ Exhaustive /\ Historical =>
        \A i \in DOMAIN result :
           Asked(result[i].point.version, Scoped(result[i].point.doc))
=============================================================================
