-------------------------- MODULE KeywordCacheProofs --------------------------
(***************************************************************************)
(* KeywordCache for any searches, ingestions, pages and TTL: its types and *)
(* the lock, the bound on staleness, and that no search sees less of the   *)
(* corpus than an earlier one.                                             *)
(***************************************************************************)
EXTENDS KeywordCache, SequenceTheorems, TLAPS

\* A write is as old as the clock can tell, and so is every reading of it.
TimeInv ==
    /\ \A p \in Pages : \A w \in corpus[p] : wroteAt[w] \in Nat /\ wroteAt[w] <= clock
    /\ \A s \in Searchers : search[s].now <= clock
    /\ cachedAt <= clock

\* A scroll begins at the first page and reads one after the other.
PagesInOrder ==
    \A s \in Searchers :
        /\ search[s].next \in 1..(NumPages + 1)
        /\ search[s].pc \in {"idle", "waiting"} => search[s].next = 1

\* What the page of an index lacks was written after the given time.
LacksOnly(index, p, time) == \A w \in corpus[p] \ index[p] : wroteAt[w] >= time

\* Whatever is cached or being read lacks only what was written since its scroll
\* began; what is searched may be older by less than the TTL.
AgeInv ==
    /\ cached # None => \A p \in Pages : LacksOnly(cached, p, cachedAt)
    /\ \A s \in Searchers, p \in Pages :
          search[s].pc = "scrolling" /\ p < search[s].next =>
             LacksOnly(search[s].index, p, search[s].now)
    /\ \A s \in Searchers, p \in Pages :
          search[s].pc = "done" =>
             \A w \in corpus[p] \ search[s].index[p] :
                wroteAt[w] + Ttl > search[s].now \/ wroteAt[w] >= search[s].now

CacheInv == TypeOK /\ LockConsistent /\ TimeInv /\ PagesInOrder /\ AgeInv

-----------------------------------------------------------------------------
(* What each step of a search makes of its local state.                    *)

Becomes(s, r) == search' = [search EXCEPT ![s] = r]

\* Each step replaces the local state of one search by the record given here.
LEMMA Effects ==
    ASSUME TypeOK, NEW s \in Searchers
    PROVE  /\ Hit(s) => Becomes(s, [pc |-> "done", now |-> clock, next |-> search[s].next,
                                    index |-> cached, owed |-> Owed])
           /\ Miss(s) => Becomes(s, [pc |-> IF waiters = <<>> THEN "scrolling" ELSE "waiting",
                                     now |-> clock, next |-> 1,
                                     index |-> search[s].index, owed |-> Owed])
           /\ EnterToHit(s) => Becomes(s, [pc |-> "done", now |-> clock,
                                     next |-> search[s].next, index |-> cached,
                                     owed |-> search[s].owed])
           /\ EnterToScroll(s) => Becomes(s, [pc |-> "scrolling", now |-> clock,
                                     next |-> search[s].next, index |-> search[s].index,
                                     owed |-> search[s].owed])
           /\ ReadPage(s) => Becomes(s, [pc |-> "scrolling", now |-> search[s].now,
                                     next |-> search[s].next + 1,
                                     index |-> [search[s].index EXCEPT ![search[s].next]
                                                    = corpus[search[s].next]],
                                     owed |-> search[s].owed])
           /\ Store(s) => Becomes(s, [pc |-> "done", now |-> search[s].now,
                                     next |-> search[s].next, index |-> search[s].index,
                                     owed |-> search[s].owed])
           /\ FailScroll(s) \/ Return(s) => Becomes(s, Idle)
  <1>1. search[s] \in Searches
      BY DEF TypeOK
  <1> USE <1>1 DEF Becomes, Searches
  <1>2. Hit(s) => Becomes(s, [pc |-> "done", now |-> clock, next |-> search[s].next,
                              index |-> cached, owed |-> Owed])
      BY DEF Hit
  <1>3. Miss(s) => Becomes(s, [pc |-> IF waiters = <<>> THEN "scrolling" ELSE "waiting",
                               now |-> clock, next |-> 1,
                               index |-> search[s].index, owed |-> Owed])
      BY DEF Miss
  <1>4. EnterToHit(s) => Becomes(s, [pc |-> "done", now |-> clock,
                               next |-> search[s].next, index |-> cached,
                               owed |-> search[s].owed])
      BY DEF EnterToHit
  <1>5. EnterToScroll(s) => Becomes(s, [pc |-> "scrolling", now |-> clock,
                               next |-> search[s].next, index |-> search[s].index,
                               owed |-> search[s].owed])
      BY DEF EnterToScroll
  <1>6. ReadPage(s) => Becomes(s, [pc |-> "scrolling", now |-> search[s].now,
                               next |-> search[s].next + 1,
                               index |-> [search[s].index EXCEPT ![search[s].next]
                                              = corpus[search[s].next]],
                               owed |-> search[s].owed])
      BY DEF ReadPage
  <1>7. Store(s) => Becomes(s, [pc |-> "done", now |-> search[s].now,
                               next |-> search[s].next, index |-> search[s].index,
                               owed |-> search[s].owed])
      BY DEF Store
  <1>8. FailScroll(s) \/ Return(s) => Becomes(s, Idle)
      BY DEF FailScroll, Return
  <1> QED
      BY <1>2, <1>3, <1>4, <1>5, <1>6, <1>7, <1>8

-----------------------------------------------------------------------------
(* Types and the lock.                                                     *)

\* The lock's queue after a search has joined it, and after its holder left.
LEMMA Joins ==
    ASSUME waiters \in Seq(Searchers), LockConsistent, NEW s \in Searchers,
           search[s].pc \notin {"waiting", "scrolling"},
           waiters' = Append(waiters, s),
           \A t \in Searchers \ {s} : search'[t] = search[t],
           search'[s].pc = IF waiters = <<>> THEN "scrolling" ELSE "waiting"
    PROVE  waiters' \in Seq(Searchers) /\ LockConsistent'
  <1> DEFINE n == Len(waiters)
  <1>1. /\ waiters' \in Seq(Searchers)
        /\ Len(waiters') = n + 1
        /\ \A k \in 1..n : waiters'[k] = waiters[k]
        /\ waiters'[n + 1] = s
      BY AppendProperties
  <1>2. \A k \in 1..n : waiters[k] \in Searchers \ {s}
      BY ElementOfSeq DEF LockConsistent
  <1>3. n \in Nat /\ DOMAIN waiters = 1..n /\ DOMAIN waiters' = 1..(n + 1)
      BY <1>1, LenProperties
  <1>4. waiters = <<>> <=> n = 0
      BY EmptySeq
  <1> HIDE DEF n
  <1>5. \A t \in Searchers : search'[t].pc \in {"waiting", "scrolling"} <=>
            \E k \in DOMAIN waiters' : waiters'[k] = t
    <2> SUFFICES ASSUME NEW t \in Searchers
                 PROVE  search'[t].pc \in {"waiting", "scrolling"} <=>
                            \E k \in 1..(n + 1) : waiters'[k] = t
        BY <1>3
    <2>1. CASE t = s
        BY <1>1, <1>3, <2>1
    <2>2. CASE t # s
        BY <1>1, <1>3, <2>2 DEF LockConsistent
    <2> QED
        BY <2>1, <2>2
  <1>6. ASSUME NEW k \in DOMAIN waiters', k > 1
        PROVE  search'[waiters'[k]].pc = "waiting"
    <2>1. CASE k = n + 1
        BY <1>1, <1>3, <1>4, <1>6, <2>1
    <2>2. CASE k # n + 1
        BY <1>1, <1>2, <1>3, <1>6, <2>2 DEF LockConsistent
    <2> QED
        BY <2>1, <2>2
  <1>7. \A j, k \in DOMAIN waiters' : waiters'[j] = waiters'[k] => j = k
      BY <1>1, <1>2, <1>3 DEF LockConsistent
  <1> QED
      BY <1>1, <1>5, <1>6, <1>7 DEF LockConsistent

\* Whoever holds or is handed the lock leaves it to the next in the queue.
LEMMA Leaves ==
    ASSUME waiters \in Seq(Searchers), LockConsistent, NEW s \in Searchers,
           search[s].pc \in {"waiting", "scrolling"},
           search[s].pc = "waiting" => Head(waiters) = s,
           waiters' = Tail(waiters),
           \A t \in Searchers \ {s} : search'[t] = search[t],
           search'[s].pc \notin {"waiting", "scrolling"}
    PROVE  waiters' \in Seq(Searchers) /\ LockConsistent'
  <1> DEFINE n == Len(waiters)
  <1>1. n \in Nat /\ DOMAIN waiters = 1..n
      BY LenProperties
  <1>2. \E k \in 1..n : waiters[k] = s
      BY <1>1 DEF LockConsistent
  <1>3. waiters # <<>> /\ n >= 1
      BY <1>1, <1>2, EmptySeq
  <1>4. waiters[1] = s
      BY <1>1, <1>2, <1>3 DEF LockConsistent
  <1>5. /\ waiters' \in Seq(Searchers)
        /\ Len(waiters') = n - 1
        /\ \A k \in 1..(n - 1) : waiters'[k] = waiters[k + 1]
      BY <1>3, HeadTailProperties
  <1>6. DOMAIN waiters' = 1..(n - 1)
      BY <1>5, LenProperties
  <1>7. \A k \in 2..n : waiters[k] \in Searchers \ {s}
      BY <1>1, <1>3, <1>4, ElementOfSeq DEF LockConsistent
  <1> HIDE DEF n
  <1>8. \A t \in Searchers : search'[t].pc \in {"waiting", "scrolling"} <=>
            \E k \in DOMAIN waiters' : waiters'[k] = t
    <2> SUFFICES ASSUME NEW t \in Searchers
                 PROVE  search'[t].pc \in {"waiting", "scrolling"} <=>
                            \E k \in 1..(n - 1) : waiters'[k] = t
        BY <1>6
    <2>1. CASE t = s
        BY <1>1, <1>5, <1>7, <2>1
    <2>2. CASE t # s
      <3>1. search'[t].pc \in {"waiting", "scrolling"} <=>
                \E k \in 1..n : waiters[k] = t
          BY <1>1, <2>2 DEF LockConsistent
      <3>2. (\E k \in 1..n : waiters[k] = t) <=> \E k \in 1..(n - 1) : waiters[k + 1] = t
        <4>1. ASSUME NEW k \in 1..n, waiters[k] = t
              PROVE  \E j \in 1..(n - 1) : waiters[j + 1] = t
          <5>1. k - 1 \in 1..(n - 1) /\ (k - 1) + 1 = k
              BY <1>1, <1>4, <2>2, <4>1
          <5> QED
              BY <4>1, <5>1
        <4> QED
            BY <1>1, <4>1
      <3> QED
          BY <1>5, <3>1, <3>2
    <2> QED
        BY <2>1, <2>2
  <1>9. \A k \in DOMAIN waiters' : search'[waiters'[k]].pc = "waiting"
      BY <1>1, <1>5, <1>6, <1>7 DEF LockConsistent
  <1>10. \A j, k \in DOMAIN waiters' : waiters'[j] = waiters'[k] => j = k
      BY <1>1, <1>5, <1>6 DEF LockConsistent
  <1> QED
      BY <1>5, <1>8, <1>9, <1>10 DEF LockConsistent

\* Every step keeps the types and the queue of the lock.
LEMMA TypesAndLockStep ==
    ASSUME TypeOK, LockConsistent, [Next]_vars
    PROVE  TypeOK' /\ LockConsistent'
  <1> USE KeywordCacheAssumption
  <1>1. CASE UNCHANGED vars
      BY <1>1 DEF vars, ingestVars, TypeOK, LockConsistent
  <1>2. CASE Tick
      BY <1>2 DEF Tick, ingestVars, TypeOK, LockConsistent
  <1>3. ASSUME NEW i \in Ingestions, Ingest(i)
        PROVE  TypeOK' /\ LockConsistent'
    <2>1. waiters' = waiters /\ search' = search /\ clock' = clock
        BY <1>3 DEF Ingest, IndexChunks, Invalidate, Activate, FailIngestion
    <2>2. LockConsistent'
        BY <2>1 DEF LockConsistent
    <2>3. ASSUME NEW kind \in {"index", "activate"}, NEW P, Write(i, kind, P)
          PROVE  corpus' \in Corpora /\ wroteAt' \in [Writes -> Nat \cup {None}]
      <3>1. <<i, kind>> \in Writes /\ clock \in Nat
          BY DEF Writes, TypeOK
      <3> QED
          BY <2>3, <3>1 DEF Write, TypeOK, Corpora
    <2>4. /\ corpus' \in Corpora /\ wroteAt' \in [Writes -> Nat \cup {None}]
          /\ cached' \in Corpora \cup {None} /\ cachedAt' \in Nat
        BY <1>3, <2>3 DEF Ingest, IndexChunks, Invalidate, Activate, FailIngestion, TypeOK
    <2>5. ingest' \in [Ingestions -> {"indexing", "indexed", "invalidated", "done", "failed"}]
        BY <1>3 DEF Ingest, IndexChunks, Invalidate, Activate, FailIngestion, TypeOK
    <2> QED
        BY <2>1, <2>2, <2>4, <2>5 DEF TypeOK
  <1>4. ASSUME NEW s \in Searchers, Hit(s) \/ Miss(s) \/ Continue(s)
        PROVE  TypeOK' /\ LockConsistent'
    <2>1. search \in [Searchers -> Searches] /\ search[s] \in Searches
        BY DEF TypeOK
    <2>2. ASSUME NEW r \in Searches, Becomes(s, r)
          PROVE  /\ search' \in [Searchers -> Searches]
                 /\ search'[s] = r
                 /\ \A t \in Searchers \ {s} : search'[t] = search[t]
        BY <2>1, <2>2 DEF Becomes
    <2>3. /\ clock' = clock /\ ingest' = ingest /\ corpus' = corpus /\ wroteAt' = wroteAt
          /\ cached' \in Corpora \cup {None} /\ cachedAt' \in Nat
        BY <1>4, <2>1 DEF Hit, Miss, Continue, EnterToHit, EnterToScroll, ReadPage, Store,
           FailScroll, Return, ingestVars, TypeOK, Searches
    <2>4. ASSUME search' \in [Searchers -> Searches],
                 waiters' \in Seq(Searchers), LockConsistent'
          PROVE  TypeOK' /\ LockConsistent'
        BY <2>3, <2>4 DEF TypeOK
    <2>5. clock \in Nat /\ Owed \in SUBSET Writes /\ Idle \in Searches
        BY DEF TypeOK, Owed, Idle, Searches, NoWrites, Corpora
    <2>6. CASE Hit(s)
      <3> DEFINE r == [pc |-> "done", now |-> clock, next |-> search[s].next,
                       index |-> cached, owed |-> Owed]
      <3>1. Becomes(s, r) /\ waiters' = waiters /\ search[s].pc = "idle"
          BY <2>6, Effects DEF Hit
      <3>2. r \in Searches
          BY <2>1, <2>5, <2>6 DEF Hit, Fresh, TypeOK, Searches
      <3> HIDE DEF r
      <3>3. search'[s].pc = "done"
          BY <2>2, <3>1, <3>2 DEF r
      <3> QED
          BY <2>2, <2>4, <3>1, <3>2, <3>3 DEF LockConsistent, TypeOK
    <2>7. CASE Miss(s)
      <3> DEFINE r == [pc |-> IF waiters = <<>> THEN "scrolling" ELSE "waiting",
                       now |-> clock, next |-> 1,
                       index |-> search[s].index, owed |-> Owed]
      <3>1. Becomes(s, r) /\ waiters' = Append(waiters, s) /\ search[s].pc = "idle"
          BY <2>7, Effects DEF Miss
      <3>2. r \in Searches /\ r.pc = IF waiters = <<>> THEN "scrolling" ELSE "waiting"
          BY <2>1, <2>5 DEF Searches
      <3> HIDE DEF r
      <3> QED
          BY <2>2, <2>4, <3>1, <3>2, Joins DEF TypeOK
    <2>8. CASE EnterToHit(s)
      <3> DEFINE r == [pc |-> "done", now |-> clock, next |-> search[s].next,
                       index |-> cached, owed |-> search[s].owed]
      <3>1. /\ Becomes(s, r) /\ waiters' = Tail(waiters)
            /\ search[s].pc = "waiting" /\ Head(waiters) = s
          BY <2>8, Effects DEF EnterToHit
      <3>2. r \in Searches /\ r.pc = "done"
          BY <2>1, <2>5, <2>8 DEF EnterToHit, Fresh, TypeOK, Searches
      <3> HIDE DEF r
      <3> QED
          BY <2>2, <2>4, <3>1, <3>2, Leaves DEF TypeOK
    <2>9. CASE EnterToScroll(s)
      <3> DEFINE r == [pc |-> "scrolling", now |-> clock, next |-> search[s].next,
                       index |-> search[s].index, owed |-> search[s].owed]
      <3>1. /\ Becomes(s, r) /\ waiters' = waiters
            /\ search[s].pc = "waiting" /\ Head(waiters) = s
          BY <2>9, Effects DEF EnterToScroll
      <3>2. r \in Searches /\ r.pc = "scrolling"
          BY <2>1, <2>5 DEF Searches
      <3> HIDE DEF r
      <3>3. search'[s].pc = "scrolling"
          BY <2>2, <3>1, <3>2
      <3>4. LockConsistent'
        <4>1. \A k \in DOMAIN waiters : waiters[k] = s => k = 1
          <5>1. \E k \in DOMAIN waiters : waiters[k] = s
              BY <3>1 DEF LockConsistent
          <5>2. waiters # <<>> /\ DOMAIN waiters = 1..Len(waiters)
              BY <5>1, LenProperties, EmptySeq DEF TypeOK
          <5>3. waiters[1] = s /\ 1 \in DOMAIN waiters
              BY <3>1, <5>1, <5>2 DEF TypeOK
          <5> QED
              BY <5>3 DEF LockConsistent
        <4>2. \A k \in DOMAIN waiters : k > 1 => waiters[k] \in Searchers \ {s}
            BY <4>1, ElementOfSeq, LenProperties DEF TypeOK
        <4>3. \A t \in Searchers :
                 search'[t].pc \in {"waiting", "scrolling"} <=>
                    search[t].pc \in {"waiting", "scrolling"}
            BY <2>2, <3>1, <3>2, <3>3
        <4> QED
            BY <2>2, <3>1, <3>2, <4>2, <4>3 DEF LockConsistent
      <3> QED
          BY <2>2, <2>4, <3>1, <3>2, <3>4 DEF TypeOK
    <2>10. CASE ReadPage(s)
      <3> DEFINE x == [search[s].index EXCEPT ![search[s].next] = corpus[search[s].next]]
                 r == [pc |-> "scrolling", now |-> search[s].now,
                       next |-> search[s].next + 1, index |-> x, owed |-> search[s].owed]
      <3>1. Becomes(s, r) /\ waiters' = waiters /\ search[s].pc = "scrolling"
          BY <2>10, Effects DEF ReadPage
      <3>2. x \in Corpora
          BY <2>1, <2>10 DEF ReadPage, TypeOK, Searches, Corpora
      <3> HIDE DEF x
      <3>3. r \in Searches /\ r.pc = "scrolling"
          BY <2>1, <3>2 DEF Searches
      <3> HIDE DEF r
      <3>4. \A t \in Searchers : search'[t].pc = search[t].pc
          BY <2>2, <3>1, <3>3
      <3>5. LockConsistent'
          BY <3>1, <3>4, ElementOfSeq, LenProperties DEF LockConsistent, TypeOK
      <3> QED
          BY <2>2, <2>4, <3>1, <3>3, <3>5 DEF TypeOK
    <2>11. CASE Store(s)
      <3> DEFINE r == [pc |-> "done", now |-> search[s].now, next |-> search[s].next,
                       index |-> search[s].index, owed |-> search[s].owed]
      <3>1. Becomes(s, r) /\ waiters' = Tail(waiters) /\ search[s].pc = "scrolling"
          BY <2>11, Effects DEF Store
      <3>2. r \in Searches /\ r.pc = "done"
          BY <2>1 DEF Searches
      <3> HIDE DEF r
      <3>3. /\ search' \in [Searchers -> Searches] /\ search'[s].pc \notin {"waiting", "scrolling"}
            /\ \A t \in Searchers \ {s} : search'[t] = search[t]
          BY <2>2, <3>1, <3>2
      <3>4. waiters \in Seq(Searchers)
          BY DEF TypeOK
      <3>5. waiters' \in Seq(Searchers) /\ LockConsistent'
          BY <3>1, <3>3, <3>4, Leaves
      <3> QED
          BY <2>4, <3>3, <3>5
    <2>12. CASE FailScroll(s)
      <3>1. Becomes(s, Idle) /\ waiters' = Tail(waiters) /\ search[s].pc = "scrolling"
          BY <2>12, Effects DEF FailScroll
      <3>2. Idle.pc = "idle"
          BY DEF Idle
      <3>3. /\ search' \in [Searchers -> Searches] /\ search'[s].pc \notin {"waiting", "scrolling"}
            /\ \A t \in Searchers \ {s} : search'[t] = search[t]
          BY <2>2, <2>5, <3>1, <3>2
      <3>4. waiters \in Seq(Searchers)
          BY DEF TypeOK
      <3>5. waiters' \in Seq(Searchers) /\ LockConsistent'
          BY <3>1, <3>3, <3>4, Leaves
      <3> QED
          BY <2>4, <3>3, <3>5
    <2>13. CASE Return(s)
      <3>1. Becomes(s, Idle) /\ waiters' = waiters /\ search[s].pc = "done"
          BY <2>13, Effects DEF Return
      <3>2. search'[s].pc = "idle"
          BY <2>2, <2>5, <3>1 DEF Idle
      <3> QED
          BY <2>2, <2>4, <2>5, <3>1, <3>2 DEF LockConsistent, TypeOK
    <2> QED
        BY <1>4, <2>6, <2>7, <2>8, <2>9, <2>10, <2>11, <2>12, <2>13 DEF Continue
  <1> QED
      BY <1>1, <1>2, <1>3, <1>4 DEF Next

-----------------------------------------------------------------------------
(* Ages.                                                                   *)

\* An ingestion's write is as young as can be, on whichever pages it is.
LEMMA WritesAreYoung ==
    ASSUME TypeOK, TimeInv, NEW i \in Ingestions, Ingest(i), NEW p \in Pages, NEW w \in corpus'[p]
    PROVE  /\ wroteAt'[w] \in Nat /\ wroteAt'[w] <= clock
           /\ (w \in corpus[p] /\ wroteAt'[w] = wroteAt[w]) \/ wroteAt'[w] = clock
  <1>1. clock \in Nat
      BY KeywordCacheAssumption DEF TypeOK
  <1>2. CASE corpus' = corpus /\ wroteAt' = wroteAt
      BY <1>2 DEF TimeInv
  <1>3. ASSUME NEW kind \in {"index", "activate"}, NEW P, Write(i, kind, P)
        PROVE  /\ wroteAt'[w] \in Nat /\ wroteAt'[w] <= clock
               /\ (w \in corpus[p] /\ wroteAt'[w] = wroteAt[w]) \/ wroteAt'[w] = clock
    <2> DEFINE new == <<i, kind>>
    <2>1. new \in Writes /\ wroteAt \in [Writes -> Nat \cup {None}] /\ w \in corpus[p] \cup {new}
        BY <1>3 DEF Write, Writes, TypeOK
    <2>2. w \in Writes
        BY <2>1 DEF TypeOK, Corpora
    <2>3. wroteAt' = [wroteAt EXCEPT ![new] = clock]
        BY <1>3 DEF Write
    <2> HIDE DEF new
    <2>4. CASE w = new
        BY <1>1, <2>1, <2>3, <2>4
    <2>5. CASE w # new
        BY <2>1, <2>2, <2>3, <2>5 DEF TimeInv
    <2> QED
        BY <2>4, <2>5
  <1> QED
      BY <1>2, <1>3 DEF Ingest, IndexChunks, Invalidate, Activate, FailIngestion

\* Every step keeps the ages of what is cached, read and searched.
LEMMA AgesStep ==
    ASSUME CacheInv, [Next]_vars, TypeOK'
    PROVE  TimeInv' /\ PagesInOrder' /\ AgeInv'
  <1> USE KeywordCacheAssumption
  <1>0. /\ clock \in Nat /\ cachedAt \in Nat /\ Ttl \in Nat /\ NumPages \in Nat
        /\ search \in [Searchers -> Searches]
        /\ \A s \in Searchers : search[s].now \in Nat /\ search[s].next \in Nat
      BY DEF CacheInv, TypeOK, Searches
  <1>1. CASE UNCHANGED vars
      BY <1>1 DEF vars, ingestVars, CacheInv, TimeInv, PagesInOrder, AgeInv, LacksOnly
  <1>2. CASE Tick
    <2>1. /\ clock' = clock + 1 /\ UNCHANGED <<corpus, wroteAt, cached, cachedAt, search>>
        BY <1>2 DEF Tick, ingestVars
    <2>2. TimeInv'
        BY <1>0, <2>1 DEF CacheInv, TimeInv
    <2> QED
        BY <2>1, <2>2 DEF CacheInv, PagesInOrder, AgeInv, LacksOnly
  <1>3. ASSUME NEW i \in Ingestions, Ingest(i)
        PROVE  TimeInv' /\ PagesInOrder' /\ AgeInv'
    <2>1. /\ clock' = clock /\ search' = search
          /\ (cached' = cached /\ cachedAt' = cachedAt) \/ (cached' = None /\ cachedAt' = 0)
        BY <1>3 DEF Ingest, IndexChunks, Invalidate, Activate, FailIngestion
    <2>2. \A p \in Pages : \A w \in corpus'[p] :
              /\ wroteAt'[w] \in Nat /\ wroteAt'[w] <= clock
              /\ (w \in corpus[p] /\ wroteAt'[w] = wroteAt[w]) \/ wroteAt'[w] = clock
        BY <1>3, WritesAreYoung DEF CacheInv
    <2>3. TimeInv' /\ PagesInOrder'
        BY <1>0, <2>1, <2>2 DEF CacheInv, TimeInv, PagesInOrder
    <2>4. cached' # None => \A p \in Pages : LacksOnly(cached, p, cachedAt)'
        BY <1>0, <2>1, <2>2 DEF CacheInv, TimeInv, AgeInv, LacksOnly
    <2>5. ASSUME NEW s \in Searchers, NEW p \in Pages,
                 search'[s].pc = "scrolling", p < search'[s].next
          PROVE  LacksOnly(search[s].index, p, search[s].now)'
        BY <1>0, <2>1, <2>2, <2>5 DEF CacheInv, TimeInv, AgeInv, LacksOnly
    <2>6. ASSUME NEW s \in Searchers, NEW p \in Pages, search'[s].pc = "done",
                 NEW w \in corpus'[p] \ search'[s].index[p]
          PROVE  wroteAt'[w] + Ttl > search'[s].now \/ wroteAt'[w] >= search'[s].now
      <3>1. CASE wroteAt'[w] = clock
          BY <1>0, <2>1, <2>2, <3>1 DEF CacheInv, TimeInv
      <3>2. CASE w \in corpus[p] /\ wroteAt'[w] = wroteAt[w]
          BY <2>1, <2>6, <3>2 DEF CacheInv, AgeInv
      <3> QED
          BY <2>2, <2>6, <3>1, <3>2
    <2> QED
        BY <2>3, <2>4, <2>5, <2>6 DEF AgeInv
  <1>4. ASSUME NEW s \in Searchers, Hit(s) \/ Miss(s) \/ Continue(s)
        PROVE  TimeInv' /\ PagesInOrder' /\ AgeInv'
    <2>1. UNCHANGED <<clock, corpus, wroteAt>>
        BY <1>4 DEF Hit, Miss, Continue, EnterToHit, EnterToScroll, ReadPage, Store,
           FailScroll, Return, ingestVars
    <2>2. ASSUME NEW r, Becomes(s, r)
          PROVE  search'[s] = r /\ \A t \in Searchers \ {s} : search'[t] = search[t]
        BY <1>0, <2>2 DEF Becomes
    \* It remains to look at the search itself and at the cache.
    <2> DEFINE Own ==
           /\ search'[s].now <= clock /\ search'[s].next \in 1..(NumPages + 1)
           /\ search'[s].pc \in {"idle", "waiting"} => search'[s].next = 1
           /\ \A p \in Pages :
                 search'[s].pc = "scrolling" /\ p < search'[s].next =>
                    LacksOnly(search'[s].index, p, search'[s].now)
           /\ \A p \in Pages :
                 search'[s].pc = "done" =>
                    \A w \in corpus[p] \ search'[s].index[p] :
                       wroteAt[w] + Ttl > search'[s].now \/ wroteAt[w] >= search'[s].now
    <2>3. ASSUME Own, NEW r, Becomes(s, r), UNCHANGED <<cached, cachedAt>>
          PROVE  TimeInv' /\ PagesInOrder' /\ AgeInv'
      <3>1. \A t \in Searchers \ {s} : search'[t] = search[t]
          BY <2>2, <2>3
      <3>2. TimeInv' /\ PagesInOrder'
          BY <2>1, <2>3, <3>1 DEF CacheInv, TimeInv, PagesInOrder
      <3>3. AgeInv'
          BY <2>1, <2>3, <3>1 DEF CacheInv, AgeInv, LacksOnly
      <3> QED
          BY <3>2, <3>3
    <2>4. ASSUME NEW p \in Pages, Fresh(clock), NEW w \in corpus[p] \ cached[p]
          PROVE  wroteAt[w] + Ttl > clock \/ wroteAt[w] >= clock
      <3>1. wroteAt[w] \in Nat /\ wroteAt[w] >= cachedAt
          BY <2>4 DEF Fresh, CacheInv, TimeInv, AgeInv, LacksOnly
      <3> QED
          BY <1>0, <2>4, <3>1 DEF Fresh, CacheInv, TimeInv
    <2>5. CASE Hit(s)
      <3>1. PICK r : Becomes(s, r) /\ r = [pc |-> "done", now |-> clock,
                        next |-> search[s].next, index |-> cached, owed |-> Owed]
          BY <2>5, Effects DEF CacheInv
      <3>2. Own
          BY <1>0, <2>2, <2>4, <2>5, <3>1 DEF Hit, CacheInv, PagesInOrder
      <3> QED
          BY <2>3, <2>5, <3>1, <3>2 DEF Hit
    <2>6. CASE Miss(s)
      <3>1. PICK r : Becomes(s, r) /\ r = [pc |-> IF waiters = <<>> THEN "scrolling" ELSE "waiting",
                        now |-> clock, next |-> 1, index |-> search[s].index, owed |-> Owed]
          BY <2>6, Effects DEF CacheInv
      <3>2. Own
          BY <1>0, <2>2, <3>1 DEF Pages
      <3> QED
          BY <2>3, <2>6, <3>1, <3>2 DEF Miss
    <2>7. CASE EnterToHit(s)
      <3>1. PICK r : Becomes(s, r) /\ r = [pc |-> "done", now |-> clock,
                        next |-> search[s].next, index |-> cached, owed |-> search[s].owed]
          BY <2>7, Effects DEF CacheInv
      <3>2. Own
          BY <1>0, <2>2, <2>4, <2>7, <3>1 DEF EnterToHit, CacheInv, PagesInOrder
      <3> QED
          BY <2>3, <2>7, <3>1, <3>2 DEF EnterToHit
    <2>8. CASE EnterToScroll(s)
      <3>1. PICK r : Becomes(s, r) /\ r = [pc |-> "scrolling", now |-> clock,
                        next |-> search[s].next, index |-> search[s].index,
                        owed |-> search[s].owed]
          BY <2>8, Effects DEF CacheInv
      <3>2. search[s].next = 1
          BY <2>8 DEF EnterToScroll, CacheInv, PagesInOrder
      <3>3. Own
          BY <1>0, <2>2, <3>1, <3>2 DEF Pages
      <3> QED
          BY <2>3, <2>8, <3>1, <3>3 DEF EnterToScroll
    <2>9. CASE ReadPage(s)
      <3> DEFINE q == search[s].next
                 x == [search[s].index EXCEPT ![q] = corpus[q]]
      <3>1. PICK r : Becomes(s, r) /\ r = [pc |-> "scrolling", now |-> search[s].now,
                        next |-> q + 1, index |-> x, owed |-> search[s].owed]
          BY <2>9, Effects DEF CacheInv
      <3>2. search[s].pc = "scrolling" /\ q \in Pages /\ search[s].index \in Corpora
          BY <2>9 DEF ReadPage, CacheInv, TypeOK, Searches
      <3>3. x[q] = corpus[q] /\ \A p \in Pages \ {q} : x[p] = search[s].index[p]
          BY <3>2 DEF Corpora
      <3> HIDE DEF x
      <3>4. \A p \in Pages : p < q + 1 => LacksOnly(x, p, search[s].now)
        <4> SUFFICES ASSUME NEW p \in Pages, p < q + 1
                     PROVE  LacksOnly(x, p, search[s].now)
            OBVIOUS
        <4>1. CASE p = q
            BY <3>3, <4>1 DEF LacksOnly
        <4>2. CASE p # q
          <5>1. p < q /\ x[p] = search[s].index[p]
              BY <1>0, <3>2, <3>3, <4>2 DEF Pages
          <5> QED
              BY <3>2, <5>1 DEF CacheInv, AgeInv, LacksOnly
        <4> QED
            BY <4>1, <4>2
      <3>5. Own
          BY <1>0, <2>2, <3>1, <3>2, <3>4 DEF CacheInv, TimeInv, Pages
      <3> QED
          BY <2>3, <2>9, <3>1, <3>5 DEF ReadPage
    <2>10. CASE FailScroll(s) \/ Return(s)
      <3>1. Becomes(s, Idle) /\ UNCHANGED <<cached, cachedAt>>
          BY <2>10, Effects DEF CacheInv, FailScroll, Return
      <3>2. Own
          BY <1>0, <2>2, <3>1 DEF Idle
      <3> QED
          BY <2>3, <3>1, <3>2
    <2>11. CASE Store(s)
      <3>1. PICK r : Becomes(s, r) /\ r = [pc |-> "done", now |-> search[s].now,
                        next |-> search[s].next, index |-> search[s].index,
                        owed |-> search[s].owed]
          BY <2>11, Effects DEF CacheInv
      <3>2. /\ cached' = search[s].index /\ cachedAt' = search[s].now
            /\ search[s].pc = "scrolling" /\ search[s].next \notin Pages
          BY <2>11 DEF Store
      <3>3. \A p \in Pages : p < search[s].next
        <4>1. search[s].next = NumPages + 1
            BY <1>0, <3>2 DEF CacheInv, PagesInOrder, Pages
        <4> QED
            BY <1>0, <4>1 DEF Pages
      <3>4. \A p \in Pages : LacksOnly(search[s].index, p, search[s].now)
          BY <3>2, <3>3 DEF CacheInv, AgeInv
      <3>5. search'[s] = r /\ \A t \in Searchers \ {s} : search'[t] = search[t]
          BY <2>2, <3>1
      <3>6. TimeInv' /\ PagesInOrder'
          BY <2>1, <3>1, <3>2, <3>5 DEF CacheInv, TimeInv, PagesInOrder
      <3>7. AgeInv'
          BY <2>1, <3>1, <3>2, <3>4, <3>5 DEF CacheInv, AgeInv, LacksOnly
      <3> QED
          BY <3>6, <3>7
    <2> QED
        BY <1>4, <2>5, <2>6, <2>7, <2>8, <2>9, <2>10, <2>11 DEF Continue
  <1> QED
      BY <1>1, <1>2, <1>3, <1>4 DEF Next

\* Nothing is cached, read or written at first.
LEMMA CacheInvInitially == Init => CacheInv
  <1> SUFFICES ASSUME Init PROVE CacheInv
      OBVIOUS
  <1> USE KeywordCacheAssumption
  <1>1. NoWrites \in Corpora /\ \A p \in Pages : NoWrites[p] = {}
      BY DEF NoWrites, Corpora
  <1>2. Idle \in Searches /\ \A s \in Searchers : search[s] = Idle
      BY <1>1 DEF Init, Idle, Searches
  <1>3. TypeOK
      BY <1>1, <1>2 DEF Init, TypeOK
  <1>4. LockConsistent
      BY <1>2 DEF Init, LockConsistent, Idle
  <1>5. TimeInv /\ PagesInOrder
      BY <1>1, <1>2 DEF Init, TimeInv, PagesInOrder, Idle
  <1>6. AgeInv
      BY <1>1, <1>2 DEF Init, AgeInv, Idle
  <1> QED
      BY <1>3, <1>4, <1>5, <1>6 DEF CacheInv

\* The inductive invariant holds, whatever the constants are.
THEOREM CacheInvariant == Spec => []CacheInv
  <1>1. CacheInv /\ [Next]_vars => CacheInv'
      BY TypesAndLockStep, AgesStep DEF CacheInv
  <1> QED
      BY <1>1, CacheInvInitially, PTL DEF Spec

\* Every variable keeps its type, and the lock is held by at most one search,
\* which is the one that reads the corpus.
THEOREM LockIsConsistent == Spec => [](TypeOK /\ LockConsistent)
  <1>1. CacheInv => TypeOK /\ LockConsistent
      BY DEF CacheInv
  <1> QED
      BY <1>1, CacheInvariant, PTL

\* What an index lacks is younger than the TTL or than the search using it.
THEOREM StalenessIsBounded == Spec => []StalenessBounded
  <1>1. CacheInv => StalenessBounded
      BY DEF CacheInv, AgeInv, StalenessBounded
  <1> QED
      BY <1>1, CacheInvariant, PTL

-----------------------------------------------------------------------------
(* Order.                                                                  *)

\* The results that were not returned yet saw nothing of page p outside W.
SeenIn(p, W) ==
    \A t \in Searchers : search[t].pc = "done" => search[t].index[p] \subseteq W

\* Nobody reads the corpus while the cache would do.  Hence what is cached, and
\* what is being read to be cached, is at least as much as any search saw.
OrderInv ==
    /\ \A p \in Pages : SeenIn(p, corpus[p])
    /\ cached # None =>
          \A p \in Pages : SeenIn(p, cached[p]) /\ cached[p] \subseteq corpus[p]
    /\ \A s \in Searchers : search[s].pc = "scrolling" =>
          /\ ~ Fresh(clock)
          /\ \A p \in Pages : p < search[s].next =>
                SeenIn(p, search[s].index[p]) /\ search[s].index[p] \subseteq corpus[p]

\* Who has the lock is alone in reading the corpus.
LEMMA OneReader ==
    ASSUME TypeOK, LockConsistent, NEW s \in Searchers, NEW t \in Searchers,
           search[s].pc = "scrolling" \/ (search[s].pc = "waiting" /\ Head(waiters) = s),
           search[t].pc = "scrolling"
    PROVE  s = t
  <1>1. /\ \E k \in DOMAIN waiters : waiters[k] = s
        /\ \E k \in DOMAIN waiters : waiters[k] = t
      BY DEF LockConsistent
  <1>2. waiters \in Seq(Searchers) /\ DOMAIN waiters = 1..Len(waiters) /\ Len(waiters) \in Nat
      BY LenProperties DEF TypeOK
  <1>3. waiters[1] = t
      BY <1>1, <1>2 DEF LockConsistent
  <1>4. CASE search[s].pc = "scrolling"
      BY <1>1, <1>2, <1>3, <1>4 DEF LockConsistent
  <1>5. CASE search[s].pc = "waiting" /\ Head(waiters) = s
      BY <1>1, <1>2, <1>3, <1>5, EmptySeq
  <1> QED
      BY <1>4, <1>5

\* No search that gets an index sees less than an earlier one saw.
Growing(s) ==
    \A t \in Searchers :
        search[t].pc = "done" /\ search[s].pc # "done" /\ search'[s].pc = "done"
        => \A p \in Pages : search[t].index[p] \subseteq search'[s].index[p]

\* Every step keeps the order, and gives no search less than others saw.
LEMMA OrderStep ==
    ASSUME CacheInv, CacheInv', OrderInv, [Next]_vars
    PROVE  OrderInv' /\ \A s \in Searchers : Growing(s)
  <1> USE KeywordCacheAssumption
  <1>0. /\ clock \in Nat /\ cachedAt \in Nat /\ Ttl \in Nat /\ NumPages \in Nat
        /\ search \in [Searchers -> Searches]
        /\ \A s \in Searchers : search[s].now \in Nat /\ search[s].next \in Nat
        /\ TypeOK /\ LockConsistent
      BY DEF CacheInv, TypeOK, Searches
  <1>1. CASE UNCHANGED vars
    <2>1. OrderInv'
        BY <1>1 DEF vars, ingestVars, OrderInv, SeenIn, Fresh
    <2> QED
        BY <1>1, <2>1 DEF vars, Growing
  <1>2. CASE Tick
    <2>1. clock' = clock + 1 /\ UNCHANGED <<corpus, cached, cachedAt, search>>
        BY <1>2 DEF Tick, ingestVars
    <2>2. ~ Fresh(clock) => ~ Fresh(clock)'
        BY <1>0, <2>1 DEF Fresh
    <2>3. OrderInv'
        BY <2>1, <2>2 DEF OrderInv, SeenIn
    <2> QED
        BY <2>1, <2>3 DEF Growing
  <1>3. ASSUME NEW i \in Ingestions, Ingest(i)
        PROVE  OrderInv' /\ \A s \in Searchers : Growing(s)
    <2>1. /\ clock' = clock /\ search' = search
          /\ (cached' = cached /\ cachedAt' = cachedAt) \/ (cached' = None /\ cachedAt' = 0)
        BY <1>3 DEF Ingest, IndexChunks, Invalidate, Activate, FailIngestion
    <2>2. \A p \in Pages : corpus[p] \subseteq corpus'[p]
        BY <1>3 DEF Ingest, IndexChunks, Invalidate, Activate, FailIngestion, Write
    <2>3. ~ Fresh(clock) => ~ Fresh(clock)'
        BY <2>1 DEF Fresh
    <2>4. OrderInv'
        BY <2>1, <2>2, <2>3 DEF OrderInv, SeenIn
    <2> QED
        BY <2>1, <2>4 DEF Growing
  <1>4. ASSUME NEW s \in Searchers, Hit(s) \/ Miss(s) \/ Continue(s)
        PROVE  OrderInv' /\ \A t \in Searchers : Growing(t)
    <2>1. UNCHANGED <<clock, corpus>>
        BY <1>4 DEF Hit, Miss, Continue, EnterToHit, EnterToScroll, ReadPage, Store,
           FailScroll, Return, ingestVars
    <2>2. ASSUME NEW r, Becomes(s, r)
          PROVE  search'[s] = r /\ \A t \in Searchers \ {s} : search'[t] = search[t]
        BY <1>0, <2>2 DEF Becomes
    <2>3. ASSUME NEW r, Becomes(s, r), r.pc # "done"
          PROVE  \A p \in Pages : \A W : SeenIn(p, W) => SeenIn(p, W)'
        BY <2>2, <2>3 DEF SeenIn
    <2>4. ASSUME NEW r, Becomes(s, r), r.pc # "done",
                 UNCHANGED <<cached, cachedAt>>,
                 r.pc = "scrolling" => ~ Fresh(clock),
                 r.pc = "scrolling" =>
                    \A p \in Pages : p < r.next =>
                       SeenIn(p, r.index[p]) /\ r.index[p] \subseteq corpus[p]
          PROVE  OrderInv' /\ \A t \in Searchers : Growing(t)
      <3>1. search'[s] = r /\ \A t \in Searchers \ {s} : search'[t] = search[t]
          BY <2>2, <2>4
      <3>2. \A p \in Pages : SeenIn(p, corpus[p])'
          BY <2>1, <2>3, <2>4 DEF OrderInv, SeenIn
      <3>3. cached' # None =>
                \A p \in Pages : SeenIn(p, cached[p])' /\ (cached[p] \subseteq corpus[p])'
          BY <2>1, <2>4, <3>1 DEF OrderInv, SeenIn
      <3>4. ASSUME NEW t \in Searchers, search'[t].pc = "scrolling"
            PROVE  /\ ~ Fresh(clock)'
                   /\ \A p \in Pages : p < search'[t].next =>
                         SeenIn(p, search[t].index[p])' /\ (search[t].index[p] \subseteq corpus[p])'
          BY <2>1, <2>4, <3>1, <3>4 DEF OrderInv, SeenIn, Fresh
      <3>5. \A t \in Searchers : Growing(t)
          BY <2>4, <3>1 DEF Growing
      <3> QED
          BY <3>2, <3>3, <3>4, <3>5 DEF OrderInv
    \* A search is answered from what is, or now becomes, the cached index.
    <2>5. ASSUME NEW r, Becomes(s, r), r.index = cached',
                 \A p \in Pages : SeenIn(p, r.index[p]) /\ r.index[p] \subseteq corpus[p],
                 \A t \in Searchers \ {s} : search[t].pc # "scrolling", r.pc = "done"
          PROVE  OrderInv' /\ \A t \in Searchers : Growing(t)
      <3>1. search'[s] = r /\ \A t \in Searchers \ {s} : search'[t] = search[t]
          BY <2>2, <2>5
      <3>2. \A p \in Pages : SeenIn(p, corpus[p])'
          BY <2>1, <2>5, <3>1 DEF OrderInv, SeenIn
      <3>3. \A p \in Pages : SeenIn(p, cached[p])' /\ (cached[p] \subseteq corpus[p])'
          BY <2>1, <2>5, <3>1 DEF SeenIn
      <3>4. \A t \in Searchers : search'[t].pc # "scrolling"
          BY <2>5, <3>1
      <3>5. \A t \in Searchers : Growing(t)
          BY <2>5, <3>1 DEF Growing, SeenIn
      <3> QED
          BY <3>2, <3>3, <3>4, <3>5 DEF OrderInv
    <2>6. CASE Hit(s) \/ EnterToHit(s)
      <3>1. PICK r : Becomes(s, r) /\ r.pc = "done" /\ r.index = cached
        <4>1. CASE Hit(s)
          <5>1. Becomes(s, [pc |-> "done", now |-> clock, next |-> search[s].next,
                            index |-> cached, owed |-> Owed])
              BY <1>0, <4>1, Effects
          <5> QED
              BY <5>1
        <4>2. CASE EnterToHit(s)
          <5>1. Becomes(s, [pc |-> "done", now |-> clock, next |-> search[s].next,
                            index |-> cached, owed |-> search[s].owed])
              BY <1>0, <4>2, Effects
          <5> QED
              BY <5>1
        <4> QED
            BY <2>6, <4>1, <4>2
      <3>2. Fresh(clock) /\ cached' = cached /\ cached # None
          BY <2>6 DEF Hit, EnterToHit, Fresh
      <3>3. \A p \in Pages : SeenIn(p, cached[p]) /\ cached[p] \subseteq corpus[p]
          BY <3>2 DEF OrderInv
      <3>4. \A t \in Searchers : search[t].pc # "scrolling"
          BY <3>2 DEF OrderInv
      <3> QED
          BY <2>5, <3>1, <3>2, <3>3, <3>4
    <2>7. CASE Miss(s)
      <3>1. PICK r : Becomes(s, r) /\ r = [pc |-> IF waiters = <<>> THEN "scrolling" ELSE "waiting",
                        now |-> clock, next |-> 1, index |-> search[s].index, owed |-> Owed]
          BY <1>0, <2>7, Effects
      <3>2. ~ Fresh(clock) /\ UNCHANGED <<cached, cachedAt>>
          BY <2>7 DEF Miss
      <3>3. \A p \in Pages : ~ (p < r.next)
          BY <3>1 DEF Pages
      <3> QED
          BY <2>4, <3>1, <3>2, <3>3
    <2>8. CASE EnterToScroll(s)
      <3>1. PICK r : Becomes(s, r) /\ r = [pc |-> "scrolling", now |-> clock,
                        next |-> search[s].next, index |-> search[s].index,
                        owed |-> search[s].owed]
          BY <1>0, <2>8, Effects
      <3>2. ~ Fresh(clock) /\ UNCHANGED <<cached, cachedAt>> /\ search[s].next = 1
          BY <2>8 DEF EnterToScroll, CacheInv, PagesInOrder
      <3>3. \A p \in Pages : ~ (p < r.next)
          BY <3>1, <3>2 DEF Pages
      <3> QED
          BY <2>4, <3>1, <3>2, <3>3
    <2>9. CASE ReadPage(s)
      <3> DEFINE q == search[s].next
                 x == [search[s].index EXCEPT ![q] = corpus[q]]
      <3>1. PICK r : Becomes(s, r) /\ r = [pc |-> "scrolling", now |-> search[s].now,
                        next |-> q + 1, index |-> x, owed |-> search[s].owed]
          BY <1>0, <2>9, Effects
      <3>2. /\ search[s].pc = "scrolling" /\ q \in Pages /\ search[s].index \in Corpora
            /\ UNCHANGED <<cached, cachedAt>>
          BY <1>0, <2>9 DEF ReadPage, Searches
      <3>3. x[q] = corpus[q] /\ \A p \in Pages \ {q} : x[p] = search[s].index[p]
          BY <3>2 DEF Corpora
      <3> HIDE DEF x
      <3>4. ASSUME NEW p \in Pages, p < q + 1
            PROVE  SeenIn(p, x[p]) /\ x[p] \subseteq corpus[p]
        <4>1. CASE p = q
            BY <3>3, <4>1 DEF OrderInv
        <4>2. CASE p # q
          <5>1. p < q /\ x[p] = search[s].index[p]
              BY <1>0, <3>2, <3>3, <3>4, <4>2 DEF Pages
          <5> QED
              BY <3>2, <5>1 DEF OrderInv
        <4> QED
            BY <4>1, <4>2
      <3>5. ~ Fresh(clock)
          BY <3>2 DEF OrderInv
      <3> QED
          BY <2>4, <3>1, <3>2, <3>4, <3>5
    <2>10. CASE FailScroll(s) \/ Return(s)
      <3>1. Becomes(s, Idle) /\ UNCHANGED <<cached, cachedAt>>
          BY <1>0, <2>10, Effects DEF FailScroll, Return
      <3>2. Idle.pc = "idle"
          BY DEF Idle
      <3> QED
          BY <2>4, <3>1, <3>2
    <2>11. CASE Store(s)
      <3>1. PICK r : Becomes(s, r) /\ r = [pc |-> "done", now |-> search[s].now,
                        next |-> search[s].next, index |-> search[s].index,
                        owed |-> search[s].owed]
          BY <1>0, <2>11, Effects
      <3>2. /\ cached' = search[s].index /\ search[s].pc = "scrolling"
            /\ search[s].next \notin Pages
          BY <2>11 DEF Store
      <3>3. \A p \in Pages : p < search[s].next
        <4>1. search[s].next = NumPages + 1
            BY <1>0, <3>2 DEF CacheInv, PagesInOrder, Pages
        <4> QED
            BY <1>0, <4>1 DEF Pages
      <3>4. \A p \in Pages : SeenIn(p, search[s].index[p])
                             /\ search[s].index[p] \subseteq corpus[p]
          BY <3>2, <3>3 DEF OrderInv
      <3>5. \A t \in Searchers \ {s} : search[t].pc # "scrolling"
          BY <1>0, <3>2, OneReader
      <3> QED
          BY <2>5, <3>1, <3>2, <3>4, <3>5
    <2> QED
        BY <1>4, <2>6, <2>7, <2>8, <2>9, <2>10, <2>11 DEF Continue
  <1> QED
      BY <1>1, <1>2, <1>3, <1>4 DEF Next

\* Nobody has seen anything at first.
LEMMA OrderInvInitially == Init => OrderInv
  <1> SUFFICES ASSUME Init PROVE OrderInv
      OBVIOUS
  <1>1. cached = None /\ \A s \in Searchers : search[s].pc = "idle"
      BY DEF Init, Idle
  <1> QED
      BY <1>1 DEF OrderInv, SeenIn

\* Whoever gets an index sees all that any earlier, unreturned search saw.
THEOREM NoSearchRegresses == Spec => SearchesNeverRegress
  <1>1. CacheInv /\ CacheInv' /\ OrderInv /\ [Next]_vars
            => OrderInv' /\ \A s \in Searchers : Growing(s)
      BY OrderStep
  <1>2. (\A s \in Searchers : Growing(s)) =>
            \A s, t \in Searchers :
               (search[t].pc = "done" /\ search[s].pc # "done" /\ search'[s].pc = "done")
               => \A p \in Pages : search[t].index[p] \subseteq search'[s].index[p]
      BY DEF Growing
  <1> QED
      BY <1>1, <1>2, OrderInvInitially, CacheInvariant, PTL DEF Spec, SearchesNeverRegress
=============================================================================
