----------------------------- MODULE KeywordCache -----------------------------
(***************************************************************************)
(* The in-process BM25 keyword store: searches share one cached copy of    *)
(* the Qdrant corpus, filled page by page under an asyncio lock, dropped   *)
(* by ingestion and by age.                                                *)
(*                                                                         *)
(* One event loop runs everything, so code between two awaits is one step. *)
(* Ingestion is reduced to its two changes of the corpus and to the point  *)
(* between them at which it invalidates the cache.                         *)
(***************************************************************************)
EXTENDS Naturals, Sequences

CONSTANTS
    Searchers,      \* concurrent searches
    Ingestions,     \* uploads being ingested meanwhile
    NumPages,       \* scroll pages of the corpus
    Ttl,            \* KEYWORD_CACHE_TTL_SECONDS
    MaxTime,        \* bound: the clock stops here
    None

ASSUME KeywordCacheAssumption ==
    /\ NumPages \in Nat \ {0}
    /\ Ttl \in Nat
    /\ MaxTime \in Nat

VARIABLES
    clock,      \* time.monotonic()
    ingest,     \* how far each ingestion has come
    corpus,     \* Qdrant: the writes each page of points reflects
    wroteAt,    \* history: when each write was applied
    cached,     \* _cached_index: the corpus it was built from, or None
    cachedAt,   \* _cached_at
    waiters,    \* _cache_lock: its holder, then those waiting, in order
    search      \* the local state of each search

ingestVars == <<ingest, corpus, wroteAt>>
vars == <<clock, ingest, corpus, wroteAt, cached, cachedAt, waiters, search>>

-----------------------------------------------------------------------------
Pages == 1..NumPages
Writes == Ingestions \X {"index", "activate"}
Corpora == [Pages -> SUBSET Writes]
NoWrites == [p \in Pages |-> {}]
Idle == [pc |-> "idle", now |-> 0, next |-> 1, index |-> NoWrites, owed |-> {}]

Searches == [pc: {"idle", "waiting", "scrolling", "done"},
             now: Nat,          \* the clock reading its index is judged by
             next: Nat,         \* next page of its scroll
             index: Corpora,    \* what it has read, or what it searches
             owed: SUBSET Writes]   \* history: finished ingestions at its start

TypeOK ==
    /\ clock \in 0..MaxTime
    /\ ingest \in [Ingestions -> {"indexing", "indexed", "invalidated",
                                  "done", "failed"}]
    /\ corpus \in Corpora
    /\ wroteAt \in [Writes -> Nat \cup {None}]
    /\ cached \in Corpora \cup {None}
    /\ cachedAt \in Nat
    /\ waiters \in Seq(Searchers)
    /\ search \in [Searchers -> Searches]

Init ==
    /\ clock = 0
    /\ ingest = [i \in Ingestions |-> "indexing"]
    /\ corpus = NoWrites
    /\ wroteAt = [w \in Writes |-> None]
    /\ cached = None
    /\ cachedAt = 0
    /\ waiters = <<>>
    /\ search = [s \in Searchers |-> Idle]

-----------------------------------------------------------------------------
(* Time and ingestion.                                                     *)

Tick ==
    /\ clock < MaxTime
    /\ clock' = clock + 1
    /\ UNCHANGED <<ingestVars, cached, cachedAt, waiters, search>>

\* A write reaches the points of some pages of the corpus.
Write(i, kind, P) ==
    /\ corpus' = [p \in Pages |->
                    IF p \in P THEN corpus[p] \cup {<<i, kind>>} ELSE corpus[p]]
    /\ wroteAt' = [wroteAt EXCEPT ![<<i, kind>>] = clock]

\* vector_store.upsert_points: the chunk points of the new version.
IndexChunks(i) ==
    /\ ingest[i] = "indexing"
    /\ ingest' = [ingest EXCEPT ![i] = "indexed"]
    /\ \E P \in SUBSET Pages : P # {} /\ Write(i, "index", P)
    /\ UNCHANGED <<clock, cached, cachedAt, waiters, search>>

\* keyword_cache.invalidate(), right after the chunk points were written.
Invalidate(i) ==
    /\ ingest[i] = "indexed"
    /\ ingest' = [ingest EXCEPT ![i] = "invalidated"]
    /\ cached' = None
    /\ cachedAt' = 0
    /\ UNCHANGED <<clock, corpus, wroteAt, waiters, search>>

\* Activation flips the latest flags of the older versions' points; the upload
\* is then reported to its caller.
Activate(i) ==
    /\ ingest[i] = "invalidated"
    /\ ingest' = [ingest EXCEPT ![i] = "done"]
    /\ \E P \in SUBSET Pages : P # {} /\ Write(i, "activate", P)
    /\ UNCHANGED <<clock, cached, cachedAt, waiters, search>>

\* A failed ingestion undoes nothing, and may not have invalidated the cache.
FailIngestion(i) ==
    /\ ingest[i] \in {"indexing", "indexed", "invalidated"}
    /\ ingest' = [ingest EXCEPT ![i] = "failed"]
    /\ UNCHANGED <<clock, corpus, wroteAt, cached, cachedAt, waiters, search>>

-----------------------------------------------------------------------------
(* Searches.                                                               *)

\* _cache_is_fresh
Fresh(now) == cached # None /\ Ttl # 0 /\ now - cachedAt < Ttl

Finished == {i \in Ingestions : ingest[i] = "done"}
Owed == {w \in Writes : w[1] \in Finished}

\* search() finds a fresh index: nothing is awaited.
Hit(s) ==
    /\ search[s].pc = "idle"
    /\ Fresh(clock)
    /\ search' = [search EXCEPT ![s] =
          [@ EXCEPT !.pc = "done", !.now = clock, !.index = cached, !.owed = Owed]]
    /\ UNCHANGED <<clock, ingestVars, cached, cachedAt, waiters>>

\* Mutant: every search that misses scrolls at once.
MissAndScroll(s) ==
    /\ search[s].pc = "idle"
    /\ ~ Fresh(clock)
    /\ waiters' = Append(waiters, s)
    /\ search' = [search EXCEPT ![s] =
          [@ EXCEPT !.pc = "scrolling", !.now = clock, !.next = 1, !.owed = Owed]]
    /\ UNCHANGED <<clock, ingestVars, cached, cachedAt>>

\* It does not: it takes the lock and starts scrolling, or queues for the lock.
Miss(s) ==
    /\ search[s].pc = "idle"
    /\ ~ Fresh(clock)
    /\ waiters' = Append(waiters, s)
    /\ search' = [search EXCEPT ![s] =
          [@ EXCEPT !.pc = IF waiters = <<>> THEN "scrolling" ELSE "waiting",
                    !.now = clock, !.next = 1, !.owed = Owed]]
    /\ UNCHANGED <<clock, ingestVars, cached, cachedAt>>

\* The lock is handed to the first waiter, which looks at the cache again.
EnterToHit(s) ==
    /\ search[s].pc = "waiting" /\ Head(waiters) = s
    /\ Fresh(clock)
    /\ search' = [search EXCEPT ![s] =
          [@ EXCEPT !.pc = "done", !.now = clock, !.index = cached]]
    /\ waiters' = Tail(waiters)
    /\ UNCHANGED <<clock, ingestVars, cached, cachedAt>>

EnterToScroll(s) ==
    /\ search[s].pc = "waiting" /\ Head(waiters) = s
    /\ ~ Fresh(clock)
    /\ search' = [search EXCEPT ![s] = [@ EXCEPT !.pc = "scrolling", !.now = clock]]
    /\ UNCHANGED <<clock, ingestVars, cached, cachedAt, waiters>>

\* Qdrant reads one page of the corpus; pages are not read at one instant.
ReadPage(s) ==
    LET p == search[s].next IN
    /\ search[s].pc = "scrolling" /\ p \in Pages
    /\ search' = [search EXCEPT ![s] =
          [@ EXCEPT !.index[p] = corpus[p], !.next = p + 1]]
    /\ UNCHANGED <<clock, ingestVars, cached, cachedAt, waiters>>

\* Mutant: the index is stored as of the moment its scroll ended.
StoreAsOfNow(s) ==
    /\ search[s].pc = "scrolling" /\ search[s].next \notin Pages
    /\ cached' = search[s].index
    /\ cachedAt' = clock
    /\ waiters' = Tail(waiters)
    /\ search' = [search EXCEPT ![s].pc = "done"]
    /\ UNCHANGED <<clock, ingestVars>>

\* The index is stored as of the moment before its scroll began.
Store(s) ==
    /\ search[s].pc = "scrolling" /\ search[s].next \notin Pages
    /\ cached' = search[s].index
    /\ cachedAt' = search[s].now
    /\ waiters' = Tail(waiters)
    /\ search' = [search EXCEPT ![s].pc = "done"]
    /\ UNCHANGED <<clock, ingestVars>>

\* Mutant: the error leaves the lock taken.
FailScrollKeepingLock(s) ==
    /\ search[s].pc = "scrolling"
    /\ search' = [search EXCEPT ![s] = Idle]
    /\ UNCHANGED <<clock, ingestVars, cached, cachedAt, waiters>>

\* A scroll request fails: the error leaves the lock and the old cache behind.
FailScroll(s) ==
    /\ search[s].pc = "scrolling"
    /\ waiters' = Tail(waiters)
    /\ search' = [search EXCEPT ![s] = Idle]
    /\ UNCHANGED <<clock, ingestVars, cached, cachedAt>>

\* The results have been returned; the next question will search again.
Return(s) ==
    /\ search[s].pc = "done"
    /\ search' = [search EXCEPT ![s] = Idle]
    /\ UNCHANGED <<clock, ingestVars, cached, cachedAt, waiters>>

-----------------------------------------------------------------------------
Ingest(i) == IndexChunks(i) \/ Invalidate(i) \/ Activate(i) \/ FailIngestion(i)

Continue(s) ==
    \/ EnterToHit(s) \/ EnterToScroll(s)
    \/ ReadPage(s) \/ Store(s) \/ FailScroll(s)
    \/ Return(s)

Next ==
    \/ Tick
    \/ \E i \in Ingestions : Ingest(i)
    \/ \E s \in Searchers : Hit(s) \/ Miss(s) \/ Continue(s)

\* A search that has begun is scheduled again; its scroll requests time out.
Fairness == \A s \in Searchers : WF_vars(Continue(s))

Spec == Init /\ [][Next]_vars
FairSpec == Spec /\ Fairness

-----------------------------------------------------------------------------
(* Properties.                                                             *)

\* The lock and the searches agree: exactly the queued searches wait, only the
\* first one scrolls, and none is queued twice.
LockConsistent ==
    /\ \A s \in Searchers :
          search[s].pc \in {"waiting", "scrolling"} <=>
             \E k \in DOMAIN waiters : waiters[k] = s
    /\ \A k \in DOMAIN waiters :
          /\ k > 1 => search[waiters[k]].pc = "waiting"
          /\ \A j \in DOMAIN waiters : waiters[j] = waiters[k] => j = k

\* "the TTL bounds staleness" (docstring of BM25KeywordStore): a write that an
\* index lacks when it is searched is younger than the TTL, or was made after
\* that search had begun; a slow scroll, a lost invalidation and a failed
\* ingestion included.
StalenessBounded ==
    \A s \in Searchers, w \in Writes :
        (/\ search[s].pc = "done" /\ wroteAt[w] # None
         /\ \E p \in Pages : w \in corpus[p] \ search[s].index[p])
        => wroteAt[w] + Ttl > search[s].now \/ wroteAt[w] >= search[s].now

\* The corpus never goes back: whoever gets an index after another search did
\* sees every write the other one saw, however invalidations, failed scrolls and
\* concurrent searches came in between.
SearchesNeverRegress ==
    [][\A s, t \in Searchers :
          (search[t].pc = "done" /\ search[s].pc # "done" /\ search'[s].pc = "done")
          => \A p \in Pages : search[t].index[p] \subseteq search'[s].index[p]]_vars

\* No search waits for the lock forever, not even when other searches keep
\* arriving: the lock is handed over in order of arrival.
SearchesReturn ==
    \A s \in Searchers :
        search[s].pc = "waiting" ~> search[s].pc \in {"done", "scrolling"}

-----------------------------------------------------------------------------
(* A claim of the documentation that the code does not keep.               *)

\* "Its corpus caches are invalidated after API ingestion" (README.md): a search
\* that begins after an ingestion was reported as finished sees its writes.
FinishedIngestionIsSeen ==
    \A s \in Searchers :
        search[s].pc = "done" =>
            \A w \in search[s].owed, p \in Pages :
                w \in corpus[p] => w \in search[s].index[p]
=============================================================================
