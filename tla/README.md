# Formal models of indexer-core

TLA+ models of the indexer-core repository: document ingestion, the keyword
cache, contextualization, and the way a query takes from its classification over
planned lookups and grading to an answer and its record. `tlc` checks small
instances, `tlapm` proves theorems for every value of the constants. Paths are
relative to the repository, `src/packages/` unless they start with `apps/` or
name the repository's own `README.md`.

## 1. The system

| Component | State | Operations | What is hard |
|---|---|---|---|
| **Ingestion** (`indexer_application/services/ingestion`) | one PostgreSQL transaction per upload; points in Qdrant | store, resolve document, create version, parse, contextualize, stage rows, upsert, summarise, activate, commit; mark failed | two stores and no common transaction; failures and lost replies between the steps; concurrent uploads of one document |
| **Document repository** (`indexer_infrastructure/postgres`) | `documents`, `document_versions`, `qdrant_chunk_indexes` rows | version candidate, `max + 1` under `FOR UPDATE`, mark ready / failed | row lock held across model calls; reads without a lock |
| **Vector store** (`indexer_infrastructure/qdrant`) | points with an `is_latest_version` payload | upsert (waits), activate (does not wait), search, bootstrap | flags are not transactional |
| **Keyword store** (`indexer_infrastructure/bm25`, `qdrant/keyword_corpus.py`) | cached corpus, its time stamp, a lock | search, invalidate, paged scroll | invalidation during a scroll; TTL; failing scrolls |
| **Parsing, chunking, contextualization** (`rag_core/documents`, `rag_core/ingestion`) | chunks, groups, requests at the model | windows, clusters, neighbours, contexts, fail open | abandoned `gather`s; text budgets |
| **Query understanding** (`rag_core/query_understanding`) | none; reads the clock | classify, decompose, resolve dates, detect names and versions | calendar arithmetic; resolved again for each need |
| **Planner, retry policy** (`query_understanding/planning`, `retrieval/retry`) | history of plans | next strategy, query and top-k | must not repeat itself, must end |
| **Information-need graph** (`rag_core/agents/information_need_graph`) | queue, per-need execution, shared evidence index, budgets, learned document preference | one graph node each: select, classify, plan, execute, validate, grade, decide, detect, complete | three cycles, four budgets, evidence shared and pruned between needs |
| **Retrievers, fusion, version selection, balancing** (`rag_core/retrieval`) | none | search, fuse, filter, rerank, balance, validate | one constraint read in three places; searches that see different flags |
| **Graders, arbitration, structured output, generation** | grading reports | model call, validation, repair, fallback; aggregate, arbitrate, answer | partial and invalid answers; grades given at different times |
| **Query execution** (`indexer_application/commands/execute_query.py`, `postgres/repositories/query_runs.py`) | `query_runs`, evidence, traces | run a pipeline in a transaction, persist its result | foreign keys into rows that ingestion has not committed; row locks and pooled connections |
| Object stores, model clients, HTTP API, evaluation, scripts, web client | | | I/O, mapping, text |

How they interact: an upload runs `IngestionCoordinator.ingest` in the request's
own session. It writes points to Qdrant while its rows are uncommitted, drops the
process's keyword caches, tells Qdrant which version is current and commits.
Queries read Qdrant directly and through the keyword cache, concurrently and
without looking at PostgreSQL, and write their evidence with references to the
ingested rows. Inside a query, one coroutine runs the graph: each need is
classified, planned, looked up, validated, graded and perhaps planned again; the
grades of all needs are then aggregated and arbitrated, and an answer is generated.

`PROJECT.json` lists the components with what is left out of each, every hazard at
its line with the properties that cover it, and the source lines of every
definition.

## 2. Modules

| Module | Models | Extends / uses |
|---|---|---|
| `Ingestion` | concurrent uploads, PostgreSQL and Qdrant | |
| `QueryRun` | queries and their records next to uploads, connection pool, row locks | extends `Ingestion` |
| `KeywordCache` | searches, ingestion and time around one cached corpus | |
| `Contextualization` | what an upload sends to the model between parsing and indexing | |
| `BoundedWorkQueue` | what the information-need graph promises: an abstract specification | |
| `InformationNeedGraph` | the graph, its evidence index, the aggregation | implements `BoundedWorkQueue` |
| `RetrievalPlanning` | the contents of one need's plans | the `plan` and `decide` nodes of the graph in detail |
| `Lookup` | one lookup: variants, searches, fusion, selection, reranking, balancing, validation | the `execute` and `validate` nodes in detail |
| `Answering` | structured calls, grading, arbitration, generation | the `grade` node and what follows the graph |
| `QuestionScope` | the dates a question asks for, from its words to its evidence | |
| `*Proofs` | inductive invariants and theorems, section 5 | the module they are about; `QueryRunProofs` also has those about `Ingestion`, `PlanningAndScopeProofs` is about `RetrievalPlanning` and `QuestionScope` |
| `DataTheorems` | lemmas about sums, ranks, recursion and division | used by `InformationNeedGraphProofs`, `ContextualizationProofs`, `LookupProofs`, `PlanningAndScopeProofs` |
| `MC*` | the finite instances TLC checks | |

A definition whose comment starts with "Mutant:" is a plausible mistake. It is
not part of a specification: it is substituted for the definition it varies, to
see that a property notices.

### Ingestion

`pc[u]` is where upload `u`'s coroutine stands in `ingest`; `txn[u]` is what its
transaction resolved and flushed, which nobody else sees; `docStatus`,
`docCurrent`, `versionStatus` are the committed rows. One action stands for the
code between two points where another party can intervene: `Save`, `Resolve*`,
`CreateVersion` (lock and `max + 1`), `StageRows` (parsing up to the flush of the
chunk rows), `UpsertBatch`, `InvalidateKeywordCache`, `IndexHierarchy`,
`Activate`, `Commit`. `Fail` is an exception from a provider (`"external"`) or
from a Qdrant call that took effect although it timed out (`"timeout"`);
`MarkFailed` is the except clause with its commit. `Lose` and
`CommitUnacknowledged` (`"database"`) are a crash, a cancelled request or a failed
flush or commit; the session is then unusable, so `mark_failed` raises too and the
transaction is rolled back.

Qdrant writes take effect at once and stay. `upsert_points` waits for its
application. `mark_document_version_current` does not, so `Activate` only sends
(`flagsSent`) and `ApplyActivation` applies later; Qdrant applies updates in
order, so an upsert applies what was sent before it.

Assumptions: READ COMMITTED; a Qdrant call that times out takes effect before the
client gives up or never; one upload creates one version and at most one document,
so the upload names both. A stale row in the session's identity map does no harm:
`mark_ready` overwrites the keys of `latest_version_*` and statuses are compared
with what a fresh count says, which is why the model has no such copy.

### QueryRun

Adds to `Ingestion` the requests of `ExecuteQueryHandler`. A query opens its
transaction (`CreateRunning`), looks up versions whose points are in Qdrant,
committed or not (`LookUp`), answers (`Generate`) or fails in a node
(`NodeFails`, which leaves the failed step and, in the agentic pipeline, the failed
graph step in the trace), inserts its evidence rows one by one (`InsertEvidence`),
commits and reloads. A row's foreign keys want the document, version and chunk rows
to be visible; `ForeignKeyViolated` is the failing flush, which is outside the
handler's try block. The check of the foreign key locks the documents row
`FOR KEY SHARE`: it waits for the `FOR UPDATE` of an upload, and an upload waits for
it. Every open transaction holds one of `Connections`. The composition restricts
`Ingestion`'s steps by these two waits and changes none of them, which is a
theorem. One chunk stands for all the chunks of a version.

### KeywordCache

One event loop: the code between two awaits is a step. `waiters` is the
`asyncio.Lock` (its holder first, then the queue), `cached`/`cachedAt` the cache,
`search[s]` a search's locals. The corpus is, for each scroll page, the set of
writes its points reflect; a scroll reads the pages one at a time. An ingestion
is cut down to its upsert, the invalidation and the activation, in the code's
order, and may fail in between. `wroteAt` and `owed` are history variables of
properties.

### Contextualization

A behaviour starts with a parsed and chunked document (`pages`, `chunks`,
`groups` are what `_sliding_windows` and `cluster_chunk_embeddings` compute from a
text) and a configuration: contextualization and hierarchy are each off, required
or allowed to fail open. `tasks[g]` counts the tasks of an `asyncio.gather` that
wait for its semaphore and those that are at the model. `Acquire` and
`TaskReturns` go on after the gather was given up, because `gather` cancels
nothing; `FailBuild`, `FailContexts` and `FailSummaries` are the first exception
of a gather with everything the except clauses do about it. A text is a sequence
of letters and blanks, since windows, stripping and prompt budgets only count
characters and look at blanks.

### InformationNeedGraph

`node` is the node that runs next, or how the query ended; `steps` counts nodes
as the runner does. Each action is one node with everything it changes.
`need[n]` is the `InformationNeedExecution`; `rank` is `evidence_by_key` (a
chunk's aggregate rank, 0 if absent), `preference` the learned primary document
with its score. Free choices: the classifier's confidence, whether the planner
has an untried plan, the lookup's results in order and their scores, which
evidence is in scope, and any grade that `EvidenceGradingReport` and both graders
can produce. An internal `RuntimeError` or `ValueError` of a node is `"raised"`, an
exception of a provider `"failed"`, the runner's limit `"exceeded"`.

`Queue == INSTANCE BoundedWorkQueue WITH ...` maps need statuses, graded attempts
and the outcome; an abstract attempt is the concrete `Grade`. Lookups return a
chunk at most once; rationales and trace metadata are left out.

### RetrievalPlanning

`setup` is what does not change while a need is processed: the pipelines the
executor offers, the two features that must have been indexed for, thresholds, the
scopes found in the need's and the question's texts, and how many lookups earlier
needs used up. `Classify` merges any answer of the model, or the fallback rules,
with what the detectors find. `Plan`, `StopNoFallback` and `StopGlobalBudget` are
`build_plan`/`_next_untried_strategy` with the node's budget checks; `Candidate`
is the plan they try and `SameLookup` the execution signature they compare. A
query is the need's own or the expanded one, which `rewrites` may make equal.

### Lookup

`request` is a need's or a fixed pipeline's retrieval with its constraints; `phase`
is how far an ingestion has come with a new version of one document, and may change
between two searches of the lookup (`raced`). A search may return any ranking of the
points its filter lets through, cut to its size: `Findable`, `Matching` and
`Kept` say which filter each store applies to which flags. `Fuse` computes
reciprocal ranks over a common denominator and breaks ties by evidence key,
`SelectVersions` is `version_aware.py`, `Rerank*` both rerankers with their
unscored candidates, `Balanced` the document balancing with its relaxation rounds,
`Validates` the validation that follows. A multi-query variant is one search here,
though it may be a hybrid lookup of its own; the hierarchical lookup's second request,
when its first chunk vector finds nothing, belongs to the same step; and its searches for
documents and sections are not widened by `top_k`, which would select more of both.

### Answering

`call` is one structured call: primary, repair or fallback, with the failure's code.
`ParsedReports` is what the graders' and the arbiter's parsers accept, after their
normalisation; `HeuristicReports` what the lexical grader can say. `Aggregated`,
`Constrain` and `Generate` are the aggregation, what arbitration may take away,
and the answer with the evidence it is given. `AnswersRestOnGrades` follows an answer
back through all of these to the graders of the single needs: none of its chunks, and
nothing of its being complete, comes from anywhere else. `Prepare` filters with the question's own
constraints after the grades were given. The loop between grading and planning is
left to the two modules above: each need shows its grader some evidence once.

### QuestionScope

A text is its reading: which date expressions, connectors and field cues the
patterns of `temporal/` find in it. `ResolveRelative`, `ResolveAbsolute` and `AddMonths`
turn them into half-open ranges in a calendar of half days. The clock ticks while a
query runs; a need's ranges are resolved at each (re)classification, the
question's once. `LookUp` adds what the stores return in the plan's ranges to the
evidence of earlier attempts, `Validate` keeps of all of it what is in the ranges of
the current plan (`nodes/validate_constraints.py`), `Retry` goes back with or without a
reclassification, and `PrepareContext` filters with the question's ranges. `searched`
and `planned` are kept for the properties: what searches would have found without dates,
and when the current plan's ranges were resolved. The calendar ends like `datetime`'s, at
`FirstYear` and `LastYear`: what needs a date outside it (`Reaches`), or one that does
not exist (`Exists`), raises in the resolver and is no constraint.

What a text names (`Names`) is stated without ranges, by comparing days, months and
years, and with every connector, also next to a relative expression. The resolver reads
less than that. It returns a relative expression before it has looked for a connector or
for further dates, so that "before yesterday" is yesterday and "since last month" the
month alone; of several dates it takes the first, or the first two after "between". The
model does the same, and the properties say for which texts they hold: `ReadWhole` are
those of which nothing is left out, `ReadInPart` those that name no less than what the
resolver takes ("since last month", two dates without a connector).
`AnswersKeepToTheDates` is claimed for both, `NothingNamedIsLost` for the first;
`ConnectorsAreRead`, without the restriction, is refuted (section 4). A connector is
taken to belong to the date. Evidence has to be in the need's ranges and in the
question's. `ScopeInit`, `ScopeNext` and `ScopeSpec` carry a
prefix because one module of proofs is about this module and `RetrievalPlanning`.

## 3. Runs

| Run | Instance | States | Shows |
|---|---|---|---|
| `ingest_faults` | 3 uploads of one title (two detect, one names its document), 2 batches, hierarchy fails closed, all faults, fair | 51 k | seven safety properties of the two stores; uploads end and flags settle |
| `query_run` | 2 queries of up to 2 lookups, 2 uploads, 2 connections | 1.5 M | records, lost records, absence of circular waits |
| `cache_safety` | 2 searches, 1 ingestion, 2 pages, TTL 2, time 3, fair | 432 k | staleness bound, no regress, the lock reaches every search |
| `needs_evidence` | 2 needs, 3 chunks of 3 documents, index of 2, 3 lookups, 1 reclassification | 962 k | budgets, evidence index, document preference, finality, report |
| `needs_queue` | 6 needs, 1 chunk, 2 lookups, fair | 24 k | implements the work queue and ends; step accounting, up to the limit |
| `planning` | all strategies or only three, 6 attempts, 8 lookups in all, 3 scopes | 1.9 M | plans are executable, do not repeat, are given up last, stay in scope |
| `answers` | 2 needs, 2 chunks, repairs, classification fails closed | 80 k | statuses, what answers rest on, arbitration |
| `lookup` | documents of 3 and 2 versions, all strategies and selectors, a version activated in between | 910 k | versions, validation, fusion, balancing |
| `scope` | 326 pairs of texts, 7 instants, 2 ticks, 42 documents, 2 searches, 1 retry | 244 k | answers keep to the dates and lose none, also after a reclassification |
| `contextualize` | 1 or 2 pages of 6 texts, at most 4 chunks, 9 configurations, fair | 36 k | coverage, budgets, concurrency, locality of failures, termination |
| `lookup_history`, `scope_ignored` | one property each | | end in a counterexample, section 4 |

Why these bounds are enough. Three uploads give a READY version, a competitor
that waits for its lock and a third that overtakes on another document or fails
in between; two batches make a partly written version possible. Two connections
are fewer than the four requests of `query_run`, so the pool runs dry, and two
lookups make a query hold one row lock while it waits for another. Two pages make a
torn scroll possible and a clock beyond the TTL lets a cache expire after it was
filled by a slow scroll. Three chunks over an index of two make "full", "shared" and
"pruned and returned under a new rank" all happen; two needs suffice for sharing. Six
attempts are as many as there are strategies, and a `MaxTopK` of 6 is below one of
the starting values. Three versions of a document are the fewest for which "previous"
and "before the previous" differ. The instants of `scope` are the ends of months, a
leap day and the turn of a year; its two searches find different documents, and with
one retry evidence found before a midnight is validated with dates resolved after it. The texts of `contextualize` fill a window exactly,
exceed it by one, and have blanks at window edges.

Uploads, queries, needs and lookups end, so those runs do not check deadlock;
`KeywordCache` never stops, and there it is checked.

Fairness. Uploads: the coroutine's own progress, `Progress`, since every call it
makes is bounded by a client timeout except the wait for a row lock; and Qdrant's
application of what it acknowledged. Nothing forces a request to arrive or a
failure to happen: termination holds because every holder of a lock goes on or
fails, not because something fails. Searches: each search that has begun; the
scroll has a timeout and `asyncio.Lock` is first come, first served; nothing about
ingestion, time or new searches. Graph: the coroutine goes on, `WF(Next)`.
Contextualization: every request returns (client timeout), every semaphore hands
on, the upload goes on.

## 4. Disagreements with the documentation

Two of them are runs of the project, and listed as findings:

- `lookup_history` (`qdrant/vector_store.py:268`, `bm25/keyword_store.py:198-201`): for
  "the previous version" both stores leave out the latest version, and
  `version_aware.py:143` then takes the second newest of the rest: the version before
  the previous one, or nothing. `README.md:211-213` promises the immediately previous
  version. With a date range the stores do not filter on the flag and the answer is
  right.
- `scope_ignored` (`query_understanding/temporal/detector.py:58`): a range that cannot be
  built drops the constraint. "Uploaded between January and March 2024", asked in
  January 2025, resolves the bare month to 2025, which is after March 2024, and is
  answered from documents of any date. `README.md:217` says metadata constraints are
  fail-closed.

For other claims, the property and a configuration that refutes it are kept
next to the modules:

| Configuration | Claim | What the code does |
|---|---|---|
| `ingest_failed_latest` | `index.py:41`: indexes are written "without activating the version" | points are written as latest (`chunk_indexing.py:133`); a failed version keeps them |
| `ingest_lost_latest` | `models/documents.py:26`: PostgreSQL is the source of truth for the version history | activation precedes the commit; if that fails, the READY version stays demoted |
| `ingest_twins` | `README.md:69`: a matching title becomes the next version | concurrent first uploads both create a document |
| `cache_after_ingestion` | `README.md:150`: caches are invalidated after ingestion | invalidated before activation, and lost during a scroll; the TTL bounds the damage |
| `needs_step_limit` | `README.md:332`: with the budget spent, pending needs are completed and aggregation finishes | 6 needs, `MAX_TOTAL_ATTEMPTS=2`, `MAX_RETRIES=1`: 35 steps, limit 32; the query fails |
| `needs_unsupported` | `README.md:334`: evidence for supported items | evidence approved for unresolved needs is included |
| `answers_unbacked` | README: the model answers the supported subset | the question's constraints remove evidence after it was graded; an answer can be "complete" without evidence for a need |
| `scope_connectors` | `prompts/classify_query.md:21`: a date range is any "before/after constraint" | a relative expression is returned before its connector is read (`temporal/resolver.py:63-65`): "before yesterday" is answered from yesterday's documents |
| `query_unrecorded` | README: answer, evidence and trace are persisted | a search that meets a new document's uncommitted chunks costs the run its record |
| `contextualize_overload` | README: `CONTEXTUALIZATION_MAX_CONCURRENCY` bounds simultaneous requests | an abandoned hierarchy and its rebuild have a semaphore each: up to twice as many |

`StepsAccounted` explains the step limit: a query costs
`4 * needs + 5 * lookups + reclassifications + 1` nodes, the limit is
`max(32, 8 * budget + 16)`. The defaults (6 needs, 20 lookups) stay below it.

## 5. Proofs

All theorems hold for every value of the constants under the named assumption of
their module (`IngestionAssumption`, `QueryRunAssumption`, ...), which TLC evaluates
in the runs.

| Module | Theorem | Property |
|---|---|---|
| `QueryRunProofs`, uploads | `TypeCorrect`, `NumbersSequential`, `StatusAgrees`, `CurrentIsNewest` | types; `VersionNumbersSequential`, `DocumentStatusAgrees`, `CurrentIsLatestReady` |
| | `PublishedIsIndexed`, `ActivationsOrdered`, `FlagsFollow` | `ReadyIsIndexed`, `ActivationsInVersionOrder`, `FlagsFollowHistory` |
| `QueryRunProofs`, queries | `UploadsAsBefore` (`QSpec => Spec`), `RecordsComplete`, `OnlyUncommittedLose`, `NobodyWaits` | `RecordsAreComplete`, `OnlyUncommittedDocumentsLoseQueries`, `NobodyWaitsForEver` |
| `KeywordCacheProofs` | `LockIsConsistent`, `StalenessIsBounded`, `NoSearchRegresses` | types and lock; `StalenessBounded`, `SearchesNeverRegress` |
| `ContextualizationProofs` | `ContextualizationTyped`, `CallsBounded` | types; `RequestsBounded` |
| | `FailuresContained`, `NothingRequiredNeverBlocks` | `FailuresStayLocal`, `FailOpenNeverBlocks` |
| | `DocumentCovered`, `NeighborsFill` | `DocumentIsCovered`, `NeighborsFillTheirBudget` |
| `InformationNeedGraphProofs` | `GraphTyped`, `EvidenceIsAccounted`, `BudgetsAreRespected`, `StepsAreAccounted` | types; `EvidenceAccounted`, `BudgetsRespected`, `StepsAccounted` |
| | `ResolvedStaysFinal`, `PreferenceBacked`, `ReportSound` | `ResolvedIsFinal`, `PreferenceIsBacked`, `ReportIsSound` |
| | `GraphIsAQueue` (`Spec => Queue!Spec`) | the safety half of `ImplementsQueue` |
| `PlanningAndScopeProofs`, plans | `EveryPlanExecutable`, `NothingLeftUntried`, `GivesUpLast`, `ScopeStays` | all four properties of `planning` |
| `PlanningAndScopeProofs`, dates | `AnswersKeep`, `NothingLost` | both properties of `scope` |
| `LookupProofs` | `TypesHold`, `VersionsAreAsAsked`, `NothingIsRejected`, `FusionRespectsItsRanks`, `BalancesFairly` | types; all four properties of `lookup` |
| `AnsweringProofs` | `ReportBacked`, `NothingRevived`, `AnswersTraced` | all three properties of `answers` |

None of the properties is inductive as it stands. What has to be added:

- **Ingestion.** `IInv` adds to the types that a transaction's program point, its
  resolved document and its number go together (`TxnInv`), that an upload between
  `created` and the end holds its document's lock and nobody else does (`LockInv`),
  and that committed numbers are exactly `1..max` with a holder's number being
  `max + 1` (`NumberInv`). Nothing in the property says that only one upload can be
  about to publish `max + 1`. `StatusInv` adds that no row is left in PROCESSING and
  that `docCurrent` is the newest READY version. `StepKinds` sorts the actions into
  a handful of kinds, so that an invariant has one case per kind.
- **Indexing.** `PointsInv` ties the points of an upload to its progress.
  `SentInv`: an activation was sent by an upload that is past indexing, and a lock
  holder's number is above all numbers already sent. `FlagsInv` says of each version
  which activations may still be pending after it wrote its points, that only an
  applied activation of a later version made it old, and that an applied activation
  has demoted all older ones: the three facts the two halves of `FlagsFollowHistory`
  need of each other when an activation is applied late.
- **QueryRun.** `QSpec => Spec` comes first: steps of queries stutter in `Ingestion`, so
  all of its invariants carry over. `QInv` says what a query has in hand: chunks a search
  can return, which stay found; rows for the first of them, which stay committed; a
  trace that shows failures only at its end. For `NobodyWaits` every waiting request is
  ranked: a request that waits for a connection waits for holders; a query that
  persists waits for an upload that works; an upload that waits for the lock waits for
  a working upload or a persisting query; a working upload waits for nobody. A set
  closed under waiting would have no member of lowest rank.
- **KeywordCache.** `CacheInv` adds that writes are no younger than the clock, that
  pages are read in order, and for the cache, for a running scroll and for a search the
  age of what they lack (`AgeInv`). `SearchesNeverRegress` rests on an invariant that
  orders everything a search could still get, among cache, scroll and waiting searches.
- **Contextualization.** That two of the three gathers may overlap but never all of
  them follows from which of them a phase has seen begin and end, which `CallsInv`
  records; how many tasks a gather has does not matter. `FailuresInv` says for each
  phase what may have been produced (`ProducedInv`) and that the points say what was
  produced when they were written (`PointsInv`): a hierarchy that was built is still
  there when the contexts fail after it, because no phase that may fail drops it.
  `DocumentIsCovered` and `NeighborsFillTheirBudget` are about what a behaviour starts
  with, and are results about algorithms. For the windows, `WindowsOk` is the statement
  that survives putting one more window in front (`WindowInFront`): a passage up to the
  overlap that crosses a window's end begins late enough to be in the rest, and
  since a normalised page has no two blanks in a row, stripping moves an edge by at
  most one character. For the groups, `Divides` survives one more group
  (`OneMoreGroup`): each is full or the last, so that there are as many as
  `CeilDiv` says, and `EffectiveClusterSize` is large enough for that to be at most
  `max_clusters`. For the neighbours, `SideFits` says what one side shows of a
  budget, and `BudgetIsShared` is the arithmetic of the two halves.
- **InformationNeedGraph.** `GraphInv` adds to the types which needs are resolved, active
  and untouched at each node and what is left of the active one's budgets (`ControlInv`),
  and that no rank is given twice and what a need's grade approves is still indexed
  (`IndexInv`); `EvidenceAccounted` is a part of it. `Accounts` is both accounts of a
  query's cost, which are sums over the needs: `AccountsStep` shows that every node
  pays for itself. `PreferenceIsBacked` and `ResolvedIsFinal` need no more than
  `GraphInv`: pruning keeps what a resolved need refers to, because the index holds the
  union of all needs' chunks. `SupportInv` says of each need that has been completed
  that it is supported exactly if its last grade is, and of the active one what each
  node has established. `GraphIsAQueue` maps each node to an abstract step or to a
  stutter (`QueueStep`), given `GraphInv`.
- **RetrievalPlanning.** `PInv` adds how the numbers of plans and of grades go together
  at each node, that top-k never shrinks, and that every plan but the first has the
  final query; without these a repeated lookup could be an early one that differs
  from the last. That each row of the fallback table lists all the other strategies is
  a lemma (`RowsComplete`).
- **Lookup.** `IInv` describes how far a lookup has come (`Shape`) and what its lists hold
  (`Lists`): chunks of the index that no list has twice, each of which passed the filter
  of the store that returned it (`Fits`), with the flag it had if the index has not
  changed since. That is why `NothingRejected` survives an ingestion in the middle of a
  lookup: the flag is validated as it was found, not as it is (`FitsIsValid`). `Whole` says that a
  lookup that cuts nothing off finds all there is, without which what a selection by
  version ranks need not be the document's versions. `Proper` is then what the selection
  guarantees, of any list whose entries are among those selected; reranking and balancing only
  reorder and drop (`ReorderedPicks`, `BalancedFacts`). `OneIsKept`, that of one document
  one version survives, needs no such assumption. In the fusion, `ScoresFollowRanks`
  compares two sums of reciprocal ranks source by source; `Common` is divisible by every
  one of the denominators, so that dividing preserves their order. In the balancing,
  `TakeUnfolds` is the recursion of `Take`, and `TakeFacts` what one pass guarantees: it
  appends, respects its limit and quotas, and passes over an entry only if the list or
  its document's quota was full. `BalancedFacts` composes the four passes.
- **QuestionScope.** Most of the work is in one lemma that is not about behaviours:
  `Resolves`, that the range of any expression whose dates exist and are in order holds
  exactly the instants the words name, where the words are understood without ranges. It
  rests on the calendar: `MonthStart` is a recursive function that grows with the months
  (`StartsGrow`), so that every day has exactly one month (`MonthsOfDays`), an instant is
  before a month's first midnight exactly if its month is earlier, and years are twelve
  months. Then each kind of expression: days, months and years (`RelativeDays`,
  `RelativeMonths`), counts of them, with the last days of shorter months and 29 February
  (`RelativeCounts`), and values (`Values`). `Resolves`
  is about what the resolver takes of a text (`Taken`); `MatchesAreNamed` and
  `NamedFitsPlan` carry it over to what the text names, for the texts the properties
  speak of. `ScopeInv` adds to the properties what a query knows at each stage: the
  question's constraints are those of the instant at which it was asked, a plan's those of
  the instant `planned`, or the question's; when a need is graded, and when it ends,
  all of its evidence is in the current plan's ranges, however old it is; and what was named
  throughout passed every search and every validation, so that nothing of `searched` that
  was named is missing from `found`.
- **Answering.** The question's report is computed when all needs have been graded, so
  `AInv` carries what `graders/models.py` demands of a report for every grading given so
  far, and that a need's grading supports no other need; then aggregation keeps the
  demand, and arbitration does because both of its inputs satisfy it. For
  `AnswersRestOnGrades` it also carries that the report claims nothing the gradings do not
  (`Traced`): every support of an approved chunk is one that the need's own grader gave,
  and a need is supported only if its grader found it so. Aggregation establishes it,
  and a report within a traced one is traced (`NarrowerTraced`), whether the arbiter's
  answer was constrained, repaired or replaced.

What is defined by recursion or as a fold (the sums of `InformationNeedGraph`, the
windows, chunks and groups of `Contextualization`, fusion and balancing in `Lookup`, the
months of `QuestionScope`) is reasoned about with
`DataTheorems`. The library's induction theorems take the induced predicate as an
operator, which the provers cannot instantiate. There, what is induced over is a set,
the numbers, subsets or points of a measured domain that a fact holds for; the set
is shown to be everything with `NatSetInduction`, `FiniteSetInduction` or
`MeasureInduction`. That a recursive function has the values its equation gives is
`RecursionExists` or, for recursion on a text that gets shorter or a set that gets smaller,
`MeasuredRecursion`. The provers have no definitions for `SelectSeq`, `SortSeq` and
`SetToSortSeq`, so `Contextualization` lists a set in the order of a key with
`InOrder`, and drops an empty window where it arises; `Lookup` takes the entries of a list at
a set of positions (`EntriesAt`) and ranks what it fuses by counting what comes before.

The proofs corrected two properties and a model. `BudgetsRespected` used to say that the attempts in the
needs add up to the total in every state. When the step limit strikes between a lookup
and its grade, the total has counted a lookup that no need has: with 21 needs, a total
budget of 21 and one attempt each, the limit of 184 steps is exceeded at the
validation of the last lookup. The sum is now claimed for queries that have not failed.
`VersionsAsAsked` claimed too much as well. A contextual lookup does not find chunks that have
no contextual vector; if a document's newest version in the date range has only such
chunks, the latest of what was found is an older one. `Exhaustive`
now excludes lookups whose index has such chunks; the `lookup` run has them.
`QuestionScope` had no end of its calendar: the resolver raises when an expression leaves
it, which drops the constraint, and the model had a range instead. `Reaches` and `Exists`
now say so, and the `scope` run asks for years before its first one.

Every invariant and every action property of a passing run is a theorem. Only
model-checked is liveness: `UploadsTerminate`, `FlagsConverge`, `SearchesReturn`,
`RequestsComeToAnEnd` and the liveness half of `ImplementsQueue`. It rests on fairness and
`ENABLED`, which `tlapm` cannot treat.

The assumptions of `Lookup` on its constants are what the code provides: evidence keys are
injective on the chunks of an index (they contain the chunk's id); widths, candidate
limits and `rrf_k` are positive (validated in the settings and in the constructors); shares are
between a tenth and all of `top_k`; weights are positive, because a source of weight 0 is
skipped by the fusion (`multi_query.py`, `hybrid.py`) and would be a lookup without it; and a
lookup prefers at most one document. `QuestionScope` assumes that readings are what the
patterns can find (`ReadingOK`), not that their dates exist, and that the query and the
documents' dates are within the calendar, which starts in year 1 or any other.

## 6. Not modelled

- Object stores, HTTP clients of model providers, embeddings: I/O without decisions
  of its own. Their failures and timeouts are steps of the models that call them.
- HTTP API, mappers, web client: translation of requests and rows. The settings'
  validation is where the models' assumptions about constants come from; the
  session dependency is part of `Ingestion` and `QueryRun`.
- The evaluation harness: offline metrics over recorded runs.
- Bootstrap scripts and `ensure_collection`: they run before, or lose a race before
  anything was written.
- Text: patterns that find dates, names and versions in a question, document naming,
  prompts, citation syntax, file formats, similarity and term scores. Models start
  from what the patterns find, or choose any order the scores could give.
- The whole-question planner and retry policy of the fixed pipelines that the agentic
  pipeline does not use; trace timings and summaries.

## 7. What could follow

1. `QuestionScope`: the version detector and document naming, if their patterns are
   reduced to readings as the dates are.
2. The registry's pipelines as data, to check that each one's steps find what they need.
3. Bootstrap: `ensure_collection` with concurrent first uploads, and the database
   script's retries.
