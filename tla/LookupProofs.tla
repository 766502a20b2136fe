---------------------------- MODULE LookupProofs ----------------------------
(***************************************************************************)
(* Lookups of any question, in any index, next to an ingestion.            *)
(***************************************************************************)
EXTENDS Lookup, DataTheorems, SequenceTheorems

HitSet == [point: Points, latest: BOOLEAN]

\* No chunk occurs twice.
Distinct(s) == \A i, j \in DOMAIN s : s[i].point = s[j].point => i = j

HitLists == {s \in Seq(HitSet) : Distinct(s)}

\* t is made of entries of s.
Picks(t, s) ==
    /\ t \in HitLists
    /\ \A i \in DOMAIN t : \E j \in DOMAIN s : t[i] = s[j]

-----------------------------------------------------------------------------
(* Parts of a list.                                                        *)

\* Lower and Higher are what their names say.
LEMMA LowerAndHigher ==
    ASSUME NEW a \in Nat, NEW b \in Nat
    PROVE  /\ Lower(a, b) \in Nat /\ Lower(a, b) <= a /\ Lower(a, b) <= b
           /\ b <= a => Lower(a, b) = b
           /\ a <= b => Lower(a, b) = a
           /\ Higher(a, b) \in Nat /\ Higher(a, b) >= a /\ Higher(a, b) >= b
  BY DEF Lower, Higher

\* EntriesAt takes the entries at all the positions, in their order.
LEMMA EntriesAtLists ==
    ASSUME NEW S, NEW s \in Seq(S), NEW I \in SUBSET (DOMAIN s)
    PROVE  /\ IsFiniteSet(I) /\ Cardinality(I) \in Nat /\ Cardinality(I) <= Len(s)
           /\ EntriesAt(s, I) \in Seq(S) /\ Len(EntriesAt(s, I)) = Cardinality(I)
           /\ \E o \in [1..Cardinality(I) -> I] :
                 /\ \A i, j \in 1..Cardinality(I) : i < j => o[i] < o[j]
                 /\ \A k \in I : \E i \in 1..Cardinality(I) : o[i] = k
                 /\ \A i \in 1..Cardinality(I) : EntriesAt(s, I)[i] = s[o[i]]
  <1> DEFINE key == [k \in I |-> k]
             n == Cardinality(I)
             o == ByRank(I, key)
  <1>1. Len(s) \in Nat /\ DOMAIN s = 1..Len(s)
      BY LenProperties
  <1>2. IsFiniteSet(1..Len(s)) /\ Cardinality(1..Len(s)) = Len(s)
    <2>1. 1 \in Int /\ Len(s) \in Int
        BY <1>1
    <2>2. Cardinality(1..Len(s)) = IF 1 > Len(s) THEN 0 ELSE Len(s) - 1 + 1
        BY <2>1, FS_Interval
    <2> QED
        BY <1>1, <2>1, <2>2, FS_Interval
  <1>3. IsFiniteSet(I) /\ n \in Nat /\ n <= Len(s)
      BY <1>1, <1>2, FS_Subset, FS_CardinalityType
  <1>4. (\A x \in I : key[x] \in Int) /\ (\A x, y \in I : key[x] = key[y] => x = y)
      BY <1>1
  <1>5. /\ o \in [1..n -> I]
        /\ \A i, j \in 1..n : i < j => key[o[i]] < key[o[j]]
        /\ \A x \in I : \E i \in 1..n : o[i] = x
    <2>1. IsFiniteSet(I)
        BY <1>3
    <2> HIDE DEF key
    <2> QED
        BY <2>1, <1>4, ByRankLists
  <1>6. \A i, j \in 1..n : i < j => o[i] < o[j]
    <2> HIDE DEF o, n
    <2> QED
        BY <1>5
  <1>7. ASSUME NEW i \in 1..n PROVE EntriesAt(s, I)[i] = s[o[i]]
    <2>1. \A x \in I : {y \in I : key[y] < key[x]} = {y \in I : y < x}
        OBVIOUS
    <2> HIDE DEF key
    <2>2. \A x \in I : RankOf(I, key, x) = Cardinality({y \in I : y < x})
        BY <2>1 DEF RankOf
    <2>3. o[i] = CHOOSE x \in I : Cardinality({y \in I : y < x}) = i - 1
        BY <2>2 DEF ByRank
    <2> QED
        BY <2>3 DEF EntriesAt
  <1>8. EntriesAt(s, I) \in Seq(S) /\ Len(EntriesAt(s, I)) = n
    <2> DEFINE e == EntriesAt(s, I)
    <2>1. DOMAIN e = 1..n /\ e = [i \in 1..n |-> e[i]]
        BY DEF EntriesAt
    <2>2. \A i \in 1..n : e[i] \in S
      <3> HIDE DEF o, n
      <3> QED
          BY <1>1, <1>5, <1>7, ElementOfSeq
    <2> HIDE DEF e
    <2>3. e \in [1..n -> S]
        BY <2>1, <2>2
    <2>4. e \in Seq(S)
        BY <1>3, <2>3
    <2> QED
        BY <1>3, <2>1, <2>4, LenProperties DEF e
  <1> QED
    <2> HIDE DEF o, n
    <2> QED
        BY <1>3, <1>5, <1>6, <1>7, <1>8 DEF n

\* All of the positions make up the list.
LEMMA EntriesAtAll ==
    ASSUME NEW S, NEW s \in Seq(S)
    PROVE  EntriesAt(s, DOMAIN s) = s
  <1>1. Len(s) \in Nat /\ DOMAIN s = 1..Len(s)
      BY LenProperties
  <1>2. Cardinality(1..Len(s)) = Len(s)
      BY <1>1, FS_Interval
  <1>3. \A j \in 1..Len(s) : Cardinality({k \in 1..Len(s) : k < j}) = j - 1
    <2> TAKE j \in 1..Len(s)
    <2>1. {k \in 1..Len(s) : k < j} = 1..(j - 1)
        BY <1>1
    <2>2. Cardinality(1..(j - 1)) = j - 1
        BY <1>1, FS_Interval
    <2> QED
        BY <2>1, <2>2
  <1>4. \A i \in 1..Len(s) :
           (CHOOSE j \in 1..Len(s) : Cardinality({k \in 1..Len(s) : k < j}) = i - 1) = i
    <2> TAKE i \in 1..Len(s)
    <2>1. \A j \in 1..Len(s) : Cardinality({k \in 1..Len(s) : k < j}) = i - 1 <=> j = i
        BY <1>1, <1>3
    <2> QED
        BY <2>1
  <1>5. EntriesAt(s, 1..Len(s)) = [i \in 1..Len(s) |-> s[i]]
    <2> DEFINE c(i) == CHOOSE j \in 1..Len(s) :
                          Cardinality({k \in 1..Len(s) : k < j}) = i - 1
    <2>1. EntriesAt(s, 1..Len(s)) = [i \in 1..Len(s) |-> s[c(i)]]
        BY <1>2 DEF EntriesAt
    <2>2. \A i \in 1..Len(s) : c(i) = i
        BY <1>4
    <2> HIDE DEF c
    <2> QED
        BY <2>1, <2>2
  <1> QED
      BY <1>1, <1>5, LenProperties

\* A hit occurs once, and so does what is picked from the list.
LEMMA EntriesAtPicks ==
    ASSUME NEW s \in HitLists, NEW I \in SUBSET (DOMAIN s)
    PROVE  /\ Picks(EntriesAt(s, I), s)
           /\ \A i \in DOMAIN EntriesAt(s, I) : \E j \in I : EntriesAt(s, I)[i] = s[j]
           /\ \A j \in I : \E i \in DOMAIN EntriesAt(s, I) : EntriesAt(s, I)[i] = s[j]
  <1> DEFINE e == EntriesAt(s, I)
             n == Cardinality(I)
  <1>1. s \in Seq(HitSet) /\ Distinct(s)
      BY DEF HitLists
  <1>2. n \in Nat /\ e \in Seq(HitSet) /\ Len(e) = n
      BY <1>1, EntriesAtLists
  <1>3. PICK o \in [1..n -> I] :
           /\ \A i, j \in 1..n : i < j => o[i] < o[j]
           /\ \A k \in I : \E i \in 1..n : o[i] = k
           /\ \A i \in 1..n : e[i] = s[o[i]]
      BY <1>1, EntriesAtLists
  <1>4. DOMAIN e = 1..n
      BY <1>2, LenProperties
  <1>5. DOMAIN s \subseteq Nat
      BY <1>1, LenProperties
  <1> HIDE DEF e, n
  <1>6. Distinct(e)
    <2> SUFFICES ASSUME NEW i \in 1..n, NEW j \in 1..n, e[i].point = e[j].point PROVE i = j
        BY <1>4 DEF Distinct
    <2>1. o[i] = o[j]
        BY <1>1, <1>3 DEF Distinct
    <2>2. ~(i < j) /\ ~(j < i)
        BY <1>2, <1>3, <1>5, <2>1
    <2> QED
        BY <1>2, <2>2
  <1>7. e \in HitLists
      BY <1>2, <1>6 DEF HitLists
  <1>8. \A i \in DOMAIN e : \E j \in I : e[i] = s[j]
      BY <1>3, <1>4
  <1>9. \A j \in I : \E i \in DOMAIN e : e[i] = s[j]
      BY <1>3, <1>4
  <1> QED
      BY <1>7, <1>8, <1>9 DEF Picks, e

\* The first n of a list.
LEMMA FirstOfPicks ==
    ASSUME NEW s \in HitLists, NEW n \in Nat
    PROVE  /\ Picks(FirstOf(s, n), s)
           /\ Len(FirstOf(s, n)) = Lower(n, Len(s))
           /\ \A i \in DOMAIN FirstOf(s, n) : i \in DOMAIN s /\ FirstOf(s, n)[i] = s[i]
           /\ Len(s) <= n => FirstOf(s, n) = s
  <1> DEFINE e == FirstOf(s, n)
             m == Lower(n, Len(s))
  <1>1. s \in Seq(HitSet) /\ Distinct(s)
      BY DEF HitLists
  <1>0. Len(s) \in Nat
      BY <1>1, LenProperties
  <1>2. DOMAIN s = 1..Len(s) /\ \A i \in 1..Len(s) : s[i] \in HitSet
      BY <1>1, LenProperties, ElementOfSeq
  <1>3. m \in Nat /\ m <= Len(s) /\ (Len(s) <= n => m = Len(s))
      BY <1>0, LowerAndHigher
  <1>a. \A i \in 1..m : i \in 1..Len(s)
      BY <1>0, <1>3
  <1>4. e = SubSeq(s, 1, m)
      BY DEF FirstOf
  <1> HIDE DEF m, e
  <1>5. e \in Seq(HitSet) /\ Len(e) = m /\ \A i \in 1..m : e[i] = s[i]
    <2>1. \A i \in 1..m : s[i] \in HitSet
        BY <1>2, <1>a
    <2>2. /\ SubSeq(s, 1, m) \in Seq(HitSet)
          /\ Len(SubSeq(s, 1, m)) = IF 1 <= m THEN m - 1 + 1 ELSE 0
          /\ \A i \in 1..(m - 1 + 1) : SubSeq(s, 1, m)[i] = s[1 + i - 1]
        BY <1>3, <2>1, SubSeqProperties
    <2> QED
        BY <1>3, <1>4, <2>2
  <1>6. DOMAIN e = 1..m
      BY <1>5, LenProperties
  <1>7. Distinct(e)
    <2>1. \A i \in DOMAIN e : i \in DOMAIN s /\ e[i] = s[i]
        BY <1>2, <1>5, <1>6, <1>a
    <2> QED
        BY <1>1, <2>1 DEF Distinct
  <1>8. Len(s) <= n => e = s
      BY <1>1, <1>0, <1>3, <1>5, SeqEqual
  <1>9. \A i \in DOMAIN e : i \in DOMAIN s /\ e[i] = s[i]
      BY <1>2, <1>5, <1>6, <1>a
  <1>b. e \in HitLists
      BY <1>5, <1>7 DEF HitLists
  <1> QED
      BY <1>5, <1>8, <1>9, <1>b DEF Picks, e, m

\* What is picked from a pick is picked.
LEMMA PicksFromPicks ==
    ASSUME NEW s, NEW t, NEW u, Picks(t, s), Picks(u, t)
    PROVE  Picks(u, s)
  BY DEF Picks

-----------------------------------------------------------------------------
(* Versions.                                                               *)

\* What is known of a lookup and of the index it meets.
LEMMA RequestFacts ==
    ASSUME request \in Requests
    PROVE  /\ request.mode \in Modes /\ request.dated \in BOOLEAN /\ request.fixed \in BOOLEAN
           /\ request.strategy \in {"baseline", "hybrid", "contextual", "multi_query",
                                    "hierarchical", "rerank", "llm_rerank"}
           /\ request.topK \in Nat \ {0}
           /\ request.preferred \in {{}} \cup {{d} : d \in Docs}
           /\ request.points \in SUBSET Points /\ IsFiniteSet(request.points)
           /\ \A p \in request.points : /\ p.doc \in Docs /\ p.version \in Nat \ {0}
                                        /\ Newest[p.doc] \in Nat \ {0}
                                        /\ p.version <= Newest[p.doc]
                                        /\ Key[p] \in Nat
           /\ \A p, q \in request.points : Key[p] = Key[q] => p = q
  <1>1. RequestOK(request)
      BY LookupAssumption
  <1>2. request.points \in SUBSET Points
      BY <1>1 DEF RequestOK
  <1>3. \A p \in Points : p.doc \in Docs /\ p.version \in Nat \ {0}
      BY DEF Points
  <1>4. \A d \in Docs : Newest[d] \in Nat \ {0}
      BY LookupAssumption
  <1>5. \A p \in request.points : Key[p] \in Nat
      BY LookupAssumption
  <1>6. \A p, q \in request.points : p.version <= Newest[p.doc] /\ (Key[p] = Key[q] => p = q)
      BY <1>1 DEF RequestOK
  <1> QED
      BY <1>1, <1>2, <1>3, <1>4, <1>5, <1>6 DEF RequestOK

\* The versions that are newer are some of the versions.
LEMMA NewerFacts ==
    ASSUME NEW N \in SUBSET Nat, IsFiniteSet(N), NEW n \in N
    PROVE  /\ Newer(n, N) \in SUBSET N /\ IsFiniteSet(Newer(n, N))
           /\ Cardinality(Newer(n, N)) \in Nat
           /\ Cardinality(Newer(n, N)) = 0 <=> Newer(n, N) = {}
           /\ Cardinality(Newer(n, N)) = 1 => \E x \in N : Newer(n, N) = {x}
  <1>1. Newer(n, N) \in SUBSET N
      BY DEF Newer
  <1>2. IsFiniteSet(Newer(n, N))
      BY <1>1, FS_Subset
  <1> QED
      BY <1>1, <1>2, FS_CardinalityType, FS_EmptySet, FS_Singleton

\* What the positions say of a version among all of its document's.
LEMMA KeptIsAsked ==
    ASSUME NEW N \in SUBSET Nat, IsFiniteSet(N), NEW n \in N, Kept(n, N)
    PROVE  Asked(n, N)
  <1>1. n \in Nat /\ N \subseteq Int /\ N # {}
      OBVIOUS
  <1>2. Max(N) \in N /\ \A m \in N : Max(N) >= m
      BY <1>1, MaxOf
  <1>3. Min(N) \in N /\ \A m \in N : Min(N) <= m
      BY <1>1, MinOf
  <1> DEFINE hi == Max(N)
             lo == Min(N)
  <1>4. hi \in Nat /\ lo \in Nat
      BY <1>2, <1>3
  <1> HIDE DEF hi, lo
  <1>5. Newer(n, N) = {} => n = hi
    <2>1. hi \in Newer(n, N) \/ hi <= n
        BY <1>1, <1>2, <1>4 DEF Newer, hi
    <2> QED
        BY <1>1, <1>2, <1>4, <2>1 DEF hi
  <1>6. (\A m \in N : n <= m) => n = lo
    <2> SUFFICES ASSUME \A m \in N : n <= m PROVE n = lo
        OBVIOUS
    <2>1. n <= lo /\ lo <= n
        BY <1>3 DEF lo
    <2> QED
        BY <1>1, <1>4, <2>1
  <1>7. Newer(n, N) # {} => n < hi
    <2> SUFFICES ASSUME NEW m \in N, m > n PROVE n < hi
        BY DEF Newer
    <2>1. hi >= m
        BY <1>2 DEF hi
    <2> QED
        BY <1>1, <1>4, <2>1
  <1>8. ASSUME Cardinality(Newer(n, N)) = 1
        PROVE  /\ n < hi /\ n = Max(N \ {hi})
               /\ n = Max((N \ {hi}) \cup {lo})
    <2>1. PICK x \in N : Newer(n, N) = {x}
        BY <1>8, NewerFacts
    <2>2. n < hi
        BY <1>7, <2>1
    <2>3. hi \in Newer(n, N)
        BY <1>2, <2>2 DEF Newer, hi
    <2>4. \A m \in N \ {hi} : m <= n
      <3> TAKE m \in N \ {hi}
      <3>1. m \notin Newer(n, N)
          BY <2>1, <2>3
      <3> QED
          BY <1>1, <3>1 DEF Newer
    <2>5. n \in N \ {hi}
        BY <1>1, <1>4, <2>2
    <2>6. lo <= n
        BY <1>3 DEF lo
    <2>7. ASSUME NEW S \in SUBSET N, n \in S, \A m \in S : m <= n PROVE n = Max(S)
      <3>0. IsFiniteSet(S)
          BY FS_Subset
      <3>1. S \subseteq Int /\ S # {} /\ IsFiniteSet(S)
          BY <1>1, <2>7, <3>0
      <3>2. Max(S) \in S /\ \A m \in S : Max(S) >= m
          BY <3>1, MaxOf
      <3>3. Max(S) <= n /\ Max(S) >= n
          BY <2>7, <3>2
      <3>4. Max(S) \in Int
          BY <3>1, <3>2
      <3> QED
          BY <1>1, <3>3, <3>4
    <2>8. n = Max(N \ {hi})
        BY <2>4, <2>5, <2>7
    <2>9. n = Max((N \ {hi}) \cup {lo})
      <3>1. (N \ {hi}) \cup {lo} \in SUBSET N /\ n \in (N \ {hi}) \cup {lo}
          BY <1>3, <2>5 DEF lo
      <3>2. \A m \in (N \ {hi}) \cup {lo} : m <= n
          BY <2>4, <2>6
      <3> QED
          BY <2>7, <3>1, <3>2
    <2> QED
        BY <2>2, <2>8, <2>9
  <1>9. /\ request.mode = "latest" => n = hi
        /\ request.mode = "oldest" => n = lo
        /\ request.mode = "specific" => n \in request.numbers
        /\ request.mode = "previous" => n < hi /\ n = Max(N \ {hi})
        /\ request.mode = "all_except_latest" => n < hi
        /\ request.mode = "latest_and_previous" => n \in {hi, Max((N \ {hi}) \cup {lo})}
        /\ request.mode = "oldest_and_latest" => n \in {lo, hi}
    <2>1. request.mode = "latest" => Newer(n, N) = {}
        BY DEF Kept
    <2>2. request.mode = "oldest" => \A m \in N : n <= m
        BY DEF Kept
    <2>3. request.mode = "specific" => n \in request.numbers
        BY DEF Kept
    <2>4. request.mode = "previous" => Cardinality(Newer(n, N)) = 1
        BY DEF Kept
    <2>5. request.mode = "all_except_latest" => Newer(n, N) # {}
        BY DEF Kept
    <2>6. request.mode = "latest_and_previous" => Cardinality(Newer(n, N)) <= 1
        BY DEF Kept
    <2>7. request.mode = "oldest_and_latest" => Newer(n, N) = {} \/ \A m \in N : n <= m
        BY DEF Kept
    <2>8. Cardinality(Newer(n, N)) <= 1 => Newer(n, N) = {} \/ Cardinality(Newer(n, N)) = 1
      <3>1. Cardinality(Newer(n, N)) \in Nat
          BY NewerFacts
      <3> QED
          BY <3>1, NewerFacts
    <2> QED
        BY <1>5, <1>6, <1>7, <1>8, <2>1, <2>2, <2>3, <2>4, <2>5, <2>6, <2>7, <2>8
  <1> QED
      BY <1>9 DEF Asked, hi, lo

\* A selector of one version keeps one version of a document.
LEMMA OneIsKept ==
    ASSUME NEW N \in SUBSET Nat, IsFiniteSet(N), NEW n \in N, NEW m \in N,
           request.mode \in {"latest", "oldest", "previous"}, Kept(n, N), Kept(m, N)
    PROVE  n = m
  <1>1. Asked(n, N) /\ Asked(m, N)
      BY KeptIsAsked
  <1> QED
      BY <1>1 DEF Asked

\* The versions of a document that are present.
LEMMA ScopedFacts ==
    ASSUME request \in Requests, NEW d
    PROVE  Scoped(d) \in SUBSET Nat /\ IsFiniteSet(Scoped(d))
  <1> DEFINE Q == {q \in Present : q.doc = d /\ InRange(q)}
  <1>1. Q \in SUBSET request.points /\ IsFiniteSet(request.points)
      BY RequestFacts DEF Present
  <1>2. IsFiniteSet(Q)
      BY <1>1, FS_Subset
  <1>3. \A q \in Q : q.version \in Nat
      BY <1>1, RequestFacts
  <1> DEFINE v == [q \in Q |-> q.version]
             V == {q.version : q \in Q}
  <1> HIDE DEF Q
  <1>4. v \in Surjection(Q, V)
      BY DEF Surjection
  <1>5. IsFiniteSet(V)
      BY <1>2, <1>4, FS_Surjection
  <1> QED
      BY <1>3, <1>5 DEF Scoped, Q

\* Of an index at rest, the stored flags and numbers tell the version.
LEMMA DecidedIsAsked ==
    ASSUME request \in Requests, phase \in {"before", "active"}, DecidedByStores,
           NEW p \in Present, InRange(p), CoarseMatch(p, Latest(p))
    PROVE  Asked(p.version, Scoped(p.doc))
  <1> DEFINE N == Scoped(p.doc)
  <1>1. p \in request.points
      BY DEF Present
  <1>2. p.version \in N
      BY DEF Scoped
  <1>3. N \in SUBSET Nat /\ IsFiniteSet(N) /\ N \subseteq Int /\ N # {}
      BY <1>2, ScopedFacts
  <1>4. p.version \in Nat /\ p.version # 0
      BY <1>1, RequestFacts
  <1>5. \A m \in N : \E q \in Present : q.doc = p.doc /\ q.version = m
      BY DEF Scoped
  <1>6. \A q \in Present : /\ q \in request.points
                           /\ q.version \in Nat \ {0}
                           /\ Newest[q.doc] \in Nat \ {0} /\ q.version <= Newest[q.doc]
      BY RequestFacts DEF Present
  <1>7. \A m \in N : m >= 1
      BY <1>5, <1>6
  <1>8. Max(N) \in N /\ \A m \in N : Max(N) >= m
      BY <1>3, MaxOf
  <1>9. Min(N) \in N /\ \A m \in N : Min(N) <= m
      BY <1>3, MinOf
  <1>10. Latest(p) => \A m \in N : m <= p.version
    <2> SUFFICES ASSUME Latest(p), NEW q \in Present, q.doc = p.doc PROVE q.version <= p.version
        BY <1>5
    <2>1. p.version \in Nat /\ q.version \in Nat /\ Newest[p.doc] \in Nat \ {0}
          /\ q.version <= Newest[p.doc]
        BY <1>1, <1>6
    <2>2. CASE p.doc # Growing \/ phase = "active"
        BY <2>1, <2>2 DEF Latest
    <2>3. CASE p.doc = Growing /\ phase = "before"
      <3>1. p.version \in {Newest[p.doc] - 1, Newest[p.doc]}
          BY <2>3 DEF Latest
      <3>2. ~IsNew(q)
          BY <2>3 DEF Present
      <3>3. q.version # Newest[p.doc]
          BY <2>3, <3>2 DEF IsNew
      <3> QED
          BY <2>1, <3>1, <3>3
    <2> QED
        BY <2>2, <2>3
  <1>11. Latest(p) => p.version = Max(N)
    <2> SUFFICES ASSUME Latest(p) PROVE p.version = Max(N)
        OBVIOUS
    <2>1. Max(N) <= p.version /\ Max(N) >= p.version
        BY <1>2, <1>8, <1>10
    <2>2. Max(N) \in Int
        BY <1>3, <1>8
    <2> HIDE DEF N
    <2> QED
        BY <1>4, <2>1, <2>2
  <1>12. p.version = 1 => p.version = Min(N)
    <2> SUFFICES ASSUME p.version = 1 PROVE p.version = Min(N)
        OBVIOUS
    <2>1. Min(N) <= p.version /\ Min(N) >= 1
        BY <1>2, <1>7, <1>9
    <2>2. Min(N) \in Int
        BY <1>3, <1>9
    <2> HIDE DEF N
    <2> QED
        BY <1>4, <2>1, <2>2
  <1>13. ~request.dated /\ request.mode \in {"all", "all_versions", "latest", "oldest",
                                             "specific", "oldest_and_latest"}
      BY DEF DecidedByStores
  <1>14. /\ request.mode = "latest" => Latest(p)
         /\ request.mode = "oldest" => p.version = 1
         /\ request.mode = "specific" => p.version \in request.numbers
         /\ request.mode = "oldest_and_latest" => p.version = 1 \/ Latest(p)
      BY <1>13 DEF CoarseMatch
  <1> HIDE DEF N
  <1>15. Asked(p.version, N)
      BY <1>11, <1>12, <1>13, <1>14 DEF Asked
  <1> QED
      BY <1>15 DEF N

-----------------------------------------------------------------------------
(* Fusion.                                                                 *)

\* The denominator is a multiple of every rank's.
LEMMA CommonFacts ==
    ASSUME request \in Requests
    PROVE  /\ Common \in Nat \ {0}
           /\ \A i \in 1..Cardinality(request.points) :
                 \E k \in Nat \ {0} : Common = k * (RRFK + i)
  <1> DEFINE n == Cardinality(request.points)
             S == Nat \ {0}
             step == [m \in 1..n |-> [x \in S |-> x * (RRFK + m)]]
             Body(g) == [m \in 0..n |-> IF m = 0 THEN 1 ELSE g[m - 1] * (RRFK + m)]
             g == CHOOSE h : h = Body(h)
  <1>1. n \in Nat /\ RRFK \in Nat \ {0}
      BY RequestFacts, FS_CardinalityType, LookupAssumption
  <1>2. \A x, y \in S : x * y \in S
    <2> TAKE x, y \in S
    <2>1. x * 0 < x * y /\ x * y \in Nat /\ x * 0 = 0
        BY ProductsGrowStrictly
    <2> QED
        BY <2>1
  <1>3. \A m \in 1..n : RRFK + m \in S
      BY <1>1
  <1>4. PICK f : Iterates(f, S, n, 1, step)
    <2>1. step \in [1..n -> [S -> S]] /\ 1 \in S
      <3> HIDE DEF n, S
      <3>1. \A m \in 1..n : \A x \in S : x * (RRFK + m) \in S
          BY <1>2, <1>3
      <3> QED
          BY <3>1 DEF S
    <2> HIDE DEF step, S, n
    <2> QED
        BY <1>1, <2>1, RecursionExists
  <1>5. f = Body(f)
    <2>1. f \in [0..n -> S] /\ f[0] = 1 /\ \A m \in 1..n : f[m] = step[m][f[m - 1]]
        BY <1>4 DEF Iterates
    <2>2. ASSUME NEW m \in 1..n PROVE f[m] = f[m - 1] * (RRFK + m)
      <3>1. m - 1 \in 0..n
          BY <1>1
      <3>2. f[m - 1] \in S
          BY <2>1, <3>1
      <3> QED
          BY <2>1, <3>2
    <2>3. \A m \in 0..n : f[m] = IF m = 0 THEN 1 ELSE f[m - 1] * (RRFK + m)
      <3> TAKE m \in 0..n
      <3>1. m = 0 \/ m \in 1..n
          BY <1>1
      <3> HIDE DEF step
      <3> QED
          BY <2>1, <2>2, <3>1
    <2> HIDE DEF step, n
    <2> QED
        BY <2>1, <2>3
  <1>6. g = Body(g)
    <2>1. \E h : h = Body(h)
        BY <1>5
    <2> HIDE DEF Body
    <2> QED
        BY <2>1
  <1>7. Common = g[n]
      BY DEF Common
  <1> HIDE DEF g
  <1>8. g[0] = 1 /\ \A m \in 1..n : g[m] = g[m - 1] * (RRFK + m)
    <2>1. \A m \in 0..n : g[m] = IF m = 0 THEN 1 ELSE g[m - 1] * (RRFK + m)
        BY <1>6
    <2>2. 0 \in 0..n /\ \A m \in 1..n : m \in 0..n /\ m # 0
        BY <1>1
    <2> QED
        BY <2>1, <2>2
  <1> DEFINE Multiple(m) == /\ g[m] \in S
                            /\ \A i \in 1..m : \E k \in S : g[m] = k * (RRFK + i)
             C == {m \in Nat : m <= n => Multiple(m)}
  <1>9. 0 \in C
      BY <1>8
  <1>10. ASSUME NEW m \in C PROVE m + 1 \in C
    <2> SUFFICES ASSUME m + 1 <= n PROVE Multiple(m + 1)
        OBVIOUS
    <2>1. Multiple(m) /\ m + 1 \in 1..n /\ m + 1 - 1 = m
        BY <1>1
    <2>2. g[m + 1] = g[m] * (RRFK + (m + 1))
        BY <1>8, <2>1
    <2>3. g[m] \in S /\ RRFK + (m + 1) \in S
        BY <1>3, <2>1
    <2>4. g[m + 1] \in S
        BY <1>2, <2>2, <2>3
    <2>5. ASSUME NEW i \in 1..(m + 1) PROVE \E k \in S : g[m + 1] = k * (RRFK + i)
      <3>1. CASE i = m + 1
          BY <2>2, <2>3, <3>1
      <3>2. CASE i # m + 1
        <4>1. i \in 1..m
            BY <3>2
        <4>2. PICK k \in S : g[m] = k * (RRFK + i)
            BY <2>1, <4>1
        <4>3. (k * (RRFK + i)) * (RRFK + (m + 1)) = (k * (RRFK + (m + 1))) * (RRFK + i)
          <5> DEFINE a == RRFK + i
                     b == RRFK + (m + 1)
          <5>1. a \in Nat /\ b \in Nat /\ k \in Nat
              BY <1>1
          <5> HIDE DEF a, b
          <5>2. (k * a) * b = (k * b) * a
              BY <5>1
          <5> QED
              BY <5>2 DEF a, b
        <4>4. k * (RRFK + (m + 1)) \in S
            BY <1>2, <2>3
        <4> QED
            BY <2>2, <4>2, <4>3, <4>4
      <3> QED
          BY <3>1, <3>2
    <2> QED
        BY <2>4, <2>5
  <1>11. C = Nat
    <2>1. C \in SUBSET Nat
        OBVIOUS
    <2> HIDE DEF C
    <2> QED
        BY <1>9, <1>10, <2>1, NatSetInduction
  <1>12. Multiple(n)
    <2> HIDE DEF Multiple, n
    <2>1. n \in C
        BY <1>1, <1>11
    <2>2. n <= n
        BY <1>1
    <2> QED
        BY <2>1, <2>2
  <1> QED
      BY <1>7, <1>12

\* A better rank has a greater share of the score.
LEMMA SharesFall ==
    ASSUME request \in Requests, NEW i \in 1..Cardinality(request.points),
           NEW j \in 1..Cardinality(request.points), i < j, NEW w \in Nat \ {0}
    PROVE  /\ w * (Common \div (RRFK + i)) \in Nat /\ w * (Common \div (RRFK + j)) \in Nat
           /\ w * (Common \div (RRFK + j)) < w * (Common \div (RRFK + i))
  <1>1. Common \in Nat \ {0} /\ RRFK \in Nat \ {0}
      BY CommonFacts, LookupAssumption
  <1> DEFINE a == RRFK + i
             b == RRFK + j
  <1>2. a \in Nat \ {0} /\ b \in Nat \ {0} /\ a < b /\ i \in Nat /\ j \in Nat
      BY <1>1
  <1>3. PICK k \in Nat \ {0} : Common = k * a
      BY CommonFacts
  <1>4. PICK l \in Nat \ {0} : Common = l * b
      BY CommonFacts
  <1> HIDE DEF a, b
  <1>5. Common \div a = k
    <2>1. a * k <= Common /\ Common < a * k + a
        BY <1>1, <1>2, <1>3
    <2> QED
        BY <1>1, <1>2, <2>1, QuotientIs
  <1>6. Common \div b = l
    <2>1. b * l <= Common /\ Common < b * l + b
        BY <1>1, <1>2, <1>4
    <2> QED
        BY <1>1, <1>2, <2>1, QuotientIs
  <1>7. l < k
    <2> SUFFICES ASSUME k <= l PROVE FALSE
        BY <1>3, <1>4
    <2>1. a * k <= a * l /\ a * k \in Nat /\ a * l \in Nat
        BY <1>2, ProductsGrow
    <2>2. l * a < l * b /\ l * a \in Nat /\ l * b \in Nat
        BY <1>2, ProductsGrowStrictly
    <2>3. l * a = a * l /\ k * a = a * k
        BY <1>2
    <2> QED
        BY <1>3, <1>4, <2>1, <2>2, <2>3
  <1>8. w * l < w * k /\ w * l \in Nat /\ w * k \in Nat
      BY <1>7, ProductsGrowStrictly
  <1> QED
      BY <1>5, <1>6, <1>8 DEF a, b

\* What the searches returned: lists of chunks of the index.
FoundOk ==
    /\ Sources \in {{}, {"vector"}, {"vector", "keyword"}, {"original"}, {"original", "variant"}}
    /\ \A s \in Answered : /\ HitsOf(s) \in HitLists
                           /\ \A i \in DOMAIN HitsOf(s) : HitsOf(s)[i].point \in request.points

\* A list is not longer than there are chunks.
LEMMA ListsAreShort ==
    ASSUME NEW t \in HitLists, NEW P, IsFiniteSet(P), \A i \in DOMAIN t : t[i].point \in P
    PROVE  Len(t) \in Nat /\ Len(t) <= Cardinality(P)
  <1> DEFINE at == [i \in 1..Len(t) |-> t[i].point]
  <1>1. t \in Seq(HitSet) /\ Distinct(t)
      BY DEF HitLists
  <1>2. Len(t) \in Nat
      BY <1>1, LenProperties
  <1>3. DOMAIN t = 1..Len(t)
      BY <1>1, LenProperties
  <1>4. at \in Injection(1..Len(t), P)
    <2>1. at \in [1..Len(t) -> P]
        BY <1>3
    <2>2. \A i, j \in 1..Len(t) : at[i] = at[j] => i = j
        BY <1>1, <1>3 DEF Distinct
    <2> HIDE DEF at
    <2> QED
        BY <2>1, <2>2 DEF Injection, IsInjective
  <1>5. Cardinality(1..Len(t)) <= Cardinality(P)
    <2> HIDE DEF at
    <2> QED
        BY <1>4, FS_Injection
  <1>6. Cardinality(1..Len(t)) = Len(t)
    <2>1. 1 \in Int /\ Len(t) \in Int
        BY <1>2
    <2>2. Cardinality(1..Len(t)) = IF 1 > Len(t) THEN 0 ELSE Len(t) - 1 + 1
        BY <2>1, FS_Interval
    <2> QED
        BY <1>2, <2>2
  <1> QED
      BY <1>2, <1>5, <1>6

\* The rank of a chunk is the place where a source has it.
LEMMA RankFacts ==
    ASSUME request \in Requests, FoundOk, NEW s \in Answered
    PROVE  /\ \A i \in DOMAIN HitsOf(s) : /\ HitsOf(s)[i].point \in FoundPoints(s)
                                          /\ RankIn(s, HitsOf(s)[i].point) = i
           /\ \A p \in FoundPoints(s) :
                 /\ RankIn(s, p) \in DOMAIN HitsOf(s) /\ HitsOf(s)[RankIn(s, p)].point = p
                 /\ RankIn(s, p) \in 1..Cardinality(request.points)
           /\ FoundPoints(s) \subseteq request.points
  <1> DEFINE h == HitsOf(s)
  <1>1. h \in Seq(HitSet) /\ Distinct(h) /\ \A i \in DOMAIN h : h[i].point \in request.points
      BY DEF FoundOk, HitLists
  <1>2. Len(h) \in Nat /\ Len(h) <= Cardinality(request.points)
    <2>1. h \in HitLists /\ IsFiniteSet(request.points)
        BY RequestFacts DEF FoundOk
    <2> HIDE DEF h
    <2> QED
        BY <1>1, <2>1, ListsAreShort
  <1>3. DOMAIN h = 1..Len(h)
      BY <1>1, LenProperties
  <1>4. FoundPoints(s) = {h[i].point : i \in DOMAIN h}
      BY DEF FoundPoints
  <1>5. \A p : RankIn(s, p) = CHOOSE i \in DOMAIN h : h[i].point = p
      BY DEF RankIn
  <1> HIDE DEF h
  <1>6. \A p \in FoundPoints(s) : RankIn(s, p) \in DOMAIN h /\ h[RankIn(s, p)].point = p
      BY <1>4, <1>5
  <1>7. \A i \in DOMAIN h : h[i].point \in FoundPoints(s)
      BY <1>4
  <1>8. \A i \in DOMAIN h : RankIn(s, h[i].point) = i
      BY <1>1, <1>6, <1>7 DEF Distinct
  <1>9. \A i \in 1..Len(h) : i \in 1..Cardinality(request.points)
    <2>1. Cardinality(request.points) \in Nat
        BY RequestFacts, FS_CardinalityType
    <2> QED
        BY <1>2, <2>1
  <1>10. \A p \in FoundPoints(s) : RankIn(s, p) \in 1..Cardinality(request.points)
      BY <1>3, <1>6, <1>9
  <1>11. FoundPoints(s) \subseteq request.points
      BY <1>1, <1>4
  <1> QED
      BY <1>6, <1>7, <1>8, <1>10, <1>11 DEF h

\* All that was found.
AllFound == UNION {FoundPoints(s) : s \in Answered}

\* There are two sources at most.
LEMMA SourcesFacts ==
    ASSUME request \in Requests, FoundOk
    PROVE  /\ IsFiniteSet(Answered) /\ Answered \subseteq Sources
           /\ \A s \in Answered : Weight[s] \in Nat \ {0}
           /\ AllFound \in SUBSET request.points /\ IsFiniteSet(AllFound)
  <1>1. Answered \subseteq Sources
      BY DEF Answered
  <1>2. Sources \subseteq {"vector", "keyword", "original", "variant"}
      BY DEF FoundOk
  <1>3. IsFiniteSet({"vector", "keyword", "original", "variant"})
    <2>1. IsFiniteSet({"vector"}) /\ IsFiniteSet({"keyword"})
          /\ IsFiniteSet({"original"}) /\ IsFiniteSet({"variant"})
        BY FS_Singleton
    <2>2. IsFiniteSet({"vector"} \cup {"keyword"}) /\ IsFiniteSet({"original"} \cup {"variant"})
        BY <2>1, FS_Union
    <2>3. IsFiniteSet(({"vector"} \cup {"keyword"}) \cup ({"original"} \cup {"variant"}))
        BY <2>2, FS_Union
    <2>4. {"vector", "keyword", "original", "variant"}
             = ({"vector"} \cup {"keyword"}) \cup ({"original"} \cup {"variant"})
        OBVIOUS
    <2> QED
        BY <2>3, <2>4
  <1>4. IsFiniteSet(Answered)
      BY <1>1, <1>2, <1>3, FS_Subset
  <1>5. \A s \in Answered : Weight[s] \in Nat \ {0}
      BY <1>1, <1>2, LookupAssumption
  <1>6. AllFound \in SUBSET request.points
      BY RankFacts DEF AllFound
  <1>7. IsFiniteSet(AllFound)
      BY <1>6, RequestFacts, FS_Subset
  <1> QED
      BY <1>1, <1>4, <1>5, <1>6, <1>7

\* A score is a number.
LEMMA ScoreType ==
    ASSUME request \in Requests, FoundOk, NEW p
    PROVE  /\ FusedScore(p) \in Nat
           /\ IsFiniteSet(Finders(p)) /\ Finders(p) \subseteq Answered
           /\ \A s \in Finders(p) : Weight[s] * (Common \div (RRFK + RankIn(s, p))) \in Nat
  <1>1. Finders(p) \subseteq Answered /\ IsFiniteSet(Finders(p))
    <2>1. Finders(p) \subseteq Answered
        BY DEF Finders
    <2> QED
        BY <2>1, SourcesFacts, FS_Subset
  <1>2. ASSUME NEW s \in Finders(p)
        PROVE  Weight[s] * (Common \div (RRFK + RankIn(s, p))) \in Nat
    <2>1. s \in Answered /\ p \in FoundPoints(s)
        BY DEF Finders
    <2>2. RankIn(s, p) \in Nat /\ Weight[s] \in Nat
        BY <2>1, RankFacts, SourcesFacts
    <2>3. Common \in Nat /\ RRFK + RankIn(s, p) \in Nat \ {0}
        BY <2>2, CommonFacts, LookupAssumption
    <2>4. Common \div (RRFK + RankIn(s, p)) \in Nat
        BY <2>3, Quotient
    <2> QED
        BY <2>2, <2>4, ProductsGrow
  <1> DEFINE f == [s \in Finders(p) |-> Weight[s] * (Common \div (RRFK + RankIn(s, p)))]
  <1>3. \A s \in Finders(p) : f[s] \in Nat
      BY <1>2
  <1>4. FusedScore(p) = SumFunctionOnSet(f, Finders(p))
      BY DEF FusedScore
  <1> HIDE DEF f
  <1>5. FusedScore(p) \in Nat
      BY <1>1, <1>3, <1>4, SumType
  <1> QED
      BY <1>1, <1>2, <1>5

\* A chunk that every finder of another one ranks above it has a higher score.
LEMMA ScoresFollowRanks ==
    ASSUME request \in Requests, FoundOk, NEW p \in AllFound, NEW q,
           \A s \in Answered : p \in FoundPoints(s) =>
               q \in FoundPoints(s) /\ RankIn(s, q) < RankIn(s, p)
    PROVE  FusedScore(q) > FusedScore(p)
  <1> DEFINE f == [s \in Finders(p) |-> Weight[s] * (Common \div (RRFK + RankIn(s, p)))]
             g == [s \in Finders(q) |-> Weight[s] * (Common \div (RRFK + RankIn(s, q)))]
             P == Finders(p)
             Q == Finders(q)
  <1>1. P \in SUBSET Q /\ P # {} /\ IsFiniteSet(P) /\ IsFiniteSet(Q)
    <2>1. P \subseteq Q /\ P # {}
        BY DEF Finders, AllFound
    <2> QED
        BY <2>1, ScoreType
  <1>2. ASSUME NEW s \in P PROVE f[s] \in Int /\ g[s] \in Int /\ f[s] < g[s]
    <2>1. s \in Answered /\ p \in FoundPoints(s) /\ s \in Q
        BY <1>1 DEF Finders
    <2>2. q \in FoundPoints(s) /\ RankIn(s, q) < RankIn(s, p)
        BY <2>1
    <2>3. /\ RankIn(s, p) \in 1..Cardinality(request.points)
          /\ RankIn(s, q) \in 1..Cardinality(request.points)
          /\ Weight[s] \in Nat \ {0}
        BY <2>1, <2>2, RankFacts, SourcesFacts
    <2>4. /\ Weight[s] * (Common \div (RRFK + RankIn(s, q))) \in Nat
          /\ Weight[s] * (Common \div (RRFK + RankIn(s, p))) \in Nat
          /\ Weight[s] * (Common \div (RRFK + RankIn(s, p)))
                < Weight[s] * (Common \div (RRFK + RankIn(s, q)))
        BY <2>2, <2>3, SharesFall
    <2> QED
        BY <2>1, <2>4
  <1>3. \A s \in Q : g[s] \in Nat
      BY ScoreType
  <1>4. FusedScore(p) = SumFunctionOnSet(f, P) /\ FusedScore(q) = SumFunctionOnSet(g, Q)
      BY DEF FusedScore
  <1> HIDE DEF f, g, P, Q
  <1>5. SumFunctionOnSet(f, P) < SumFunctionOnSet(g, P)
      BY <1>1, <1>2, SumGrows
  <1>6. SumFunctionOnSet(g, P) <= SumFunctionOnSet(g, Q)
      BY <1>1, <1>3, SumOfPart
  <1>7. FusedScore(p) \in Nat /\ FusedScore(q) \in Nat /\ SumFunctionOnSet(g, P) \in Nat
    <2>1. \A s \in P : g[s] \in Nat
        BY <1>1, <1>3
    <2> QED
        BY <1>1, <2>1, ScoreType, SumType
  <1> QED
      BY <1>4, <1>5, <1>6, <1>7

\* What is fused is the chunk itself, with metadata of a source that found it.
LEMMA FusedHitFacts ==
    ASSUME request \in Requests, FoundOk, NEW p \in AllFound
    PROVE  /\ \E s \in Answered : \E i \in DOMAIN HitsOf(s) : FusedHit(p) = HitsOf(s)[i]
           /\ FusedHit(p).point = p
  <1> DEFINE main == Answered \cap {"vector", "original"}
             first == IF \E s \in main : p \in FoundPoints(s)
                      THEN CHOOSE s \in main : TRUE
                      ELSE CHOOSE s \in Answered : p \in FoundPoints(s)
  <1>1. \A s, t \in main : s = t
      BY DEF FoundOk, Answered
  <1>2. \E s \in Answered : p \in FoundPoints(s)
      BY DEF AllFound
  <1>3. first \in Answered /\ p \in FoundPoints(first)
    <2>1. CASE \E s \in main : p \in FoundPoints(s)
      <3>1. PICK s \in main : p \in FoundPoints(s)
          BY <2>1
      <3>2. (CHOOSE t \in main : TRUE) \in main
          BY <3>1
      <3>3. (CHOOSE t \in main : TRUE) = s
          BY <1>1, <3>1, <3>2
      <3> QED
          BY <2>1, <3>1, <3>3
    <2>2. CASE ~\E s \in main : p \in FoundPoints(s)
        BY <1>2, <2>2
    <2> QED
        BY <2>1, <2>2
  <1>4. FusedHit(p) = HitsOf(first)[RankIn(first, p)]
      BY DEF FusedHit
  <1> HIDE DEF first
  <1>5. RankIn(first, p) \in DOMAIN HitsOf(first) /\ HitsOf(first)[RankIn(first, p)].point = p
      BY <1>3, RankFacts
  <1> QED
      BY <1>3, <1>4, <1>5

\* The fusion has every chunk once, in an order no source contradicts alone.
LEMMA FusedFacts ==
    ASSUME request \in Requests, FoundOk
    PROVE  /\ Fused \in HitLists
           /\ \A i \in DOMAIN Fused : Fused[i].point \in AllFound
           /\ \A i \in DOMAIN Fused : \E s \in Answered : \E j \in DOMAIN HitsOf(s) :
                 Fused[i] = HitsOf(s)[j]
           /\ \A p \in AllFound : \E i \in DOMAIN Fused : Fused[i].point = p
           /\ \A i, j \in DOMAIN Fused : i < j =>
                 ~(FusedScore(Fused[j].point) > FusedScore(Fused[i].point))
  <1> DEFINE record == [p \in AllFound |-> [point |-> p, score |-> FusedScore(p)]]
             pool == {[point |-> p, score |-> FusedScore(p)] : p \in AllFound}
             keys == {Key[p] : p \in AllFound}
  <1>1. IsFiniteSet(AllFound) /\ AllFound \in SUBSET request.points
      BY SourcesFacts
  <1>2. IsFiniteSet(pool)
    <2>1. pool = {record[p] : p \in AllFound}
        OBVIOUS
    <2> HIDE DEF record, pool
    <2> QED
        BY <1>1, <2>1, FiniteImage
  <1>3. PICK k \in Nat : \A p \in AllFound : Key[p] \in 0..k
    <2>1. \A p \in AllFound : Key[p] \in Nat
        BY <1>1, RequestFacts
    <2>2. CASE AllFound = {}
        BY <2>2
    <2>3. CASE AllFound # {}
      <3>1. IsFiniteSet(keys)
          BY <1>1, FiniteImage
      <3>2. keys # {} /\ keys \subseteq Int
          BY <2>1, <2>3
      <3> HIDE DEF keys
      <3>3. Max(keys) \in keys /\ \A y \in keys : Max(keys) >= y
          BY <3>1, <3>2, MaxOf
      <3>4. Max(keys) \in Nat
          BY <2>1, <3>3 DEF keys
      <3>5. \A p \in AllFound : Max(keys) >= Key[p]
          BY <3>3 DEF keys
      <3> QED
          BY <2>1, <3>4, <3>5
    <2> QED
        BY <2>2, <2>3
  <1> DEFINE key == [c \in pool |-> Key[c.point] - (k + 1) * c.score]
             before(c) == {b \in pool : \/ b.score > c.score
                                        \/ b.score = c.score /\ Key[b.point] < Key[c.point]}
             o == ByRank(pool, key)
             n == Cardinality(pool)
  <1>4. \A c \in pool : c.point \in AllFound /\ c.score = FusedScore(c.point) /\ c.score \in Nat
      BY ScoreType
  <1>5. \A b, c \in pool : b.point = c.point => b = c
      OBVIOUS
  <1>6. ASSUME NEW b \in pool, NEW c \in pool
        PROVE  /\ key[b] \in Int
               /\ key[b] < key[c] <=>
                     \/ b.score > c.score
                     \/ b.score = c.score /\ Key[b.point] < Key[c.point]
               /\ key[b] = key[c] => b = c
    <2>1. /\ Key[b.point] \in 0..k /\ Key[c.point] \in 0..k
          /\ b.score \in Nat /\ c.score \in Nat
        BY <1>3, <1>4
    <2>2. Key[b.point] = Key[c.point] => b = c
        BY <1>1, <1>4, <1>5, RequestFacts
    <2>3. /\ key[b] = Key[b.point] - (k + 1) * b.score
          /\ key[c] = Key[c.point] - (k + 1) * c.score
        OBVIOUS
    <2> DEFINE a == b.score
               d == c.score
               x == Key[b.point]
               y == Key[c.point]
    <2>a. x \in 0..k /\ y \in 0..k /\ a \in Nat /\ d \in Nat
        BY <2>1
    <2> HIDE DEF key, pool
    <2>4. /\ x - (k + 1) * a \in Int
          /\ x - (k + 1) * a < y - (k + 1) * d <=> a > d \/ (a = d /\ x < y)
          /\ x - (k + 1) * a = y - (k + 1) * d => a = d /\ x = y
      <3> HIDE DEF a, d, x, y
      <3> QED
          BY <2>a, Lexicographic
    <2> QED
        BY <2>2, <2>3, <2>4
  <1>7. \A c \in pool : before(c) = {b \in pool : key[b] < key[c]}
    <2> HIDE DEF key, pool
    <2> QED
        BY <1>6
  <1>8. Fused = [i \in 1..n |-> FusedHit(o[i].point)]
    <2>1. Fused = [i \in 1..n |->
                     FusedHit((CHOOSE c \in pool : Cardinality(before(c)) = i - 1).point)]
        BY DEF Fused, AllFound
    <2>2. \A c \in pool : RankOf(pool, key, c) = Cardinality(before(c))
      <3> HIDE DEF pool, key, before
      <3> QED
          BY <1>7 DEF RankOf
    <2>3. \A i \in 1..n : o[i] = CHOOSE c \in pool : Cardinality(before(c)) = i - 1
      <3> HIDE DEF pool, key, before
      <3> QED
          BY <2>2 DEF ByRank
    <2> HIDE DEF pool, key, before, o, n
    <2> QED
        BY <2>1, <2>3
  <1> HIDE DEF before, key
  <1>9. /\ n \in Nat /\ o \in [1..n -> pool]
        /\ \A i, j \in 1..n : i < j => key[o[i]] < key[o[j]]
        /\ \A c \in pool : \E i \in 1..n : o[i] = c
    <2>1. \A c \in pool : key[c] \in Int
        BY <1>6
    <2>2. \A b, c \in pool : key[b] = key[c] => b = c
        BY <1>6
    <2> HIDE DEF pool
    <2> QED
        BY <1>2, <2>1, <2>2, ByRankLists
  <1>10. \A p \in AllFound : \E c \in pool : c.point = p
    <2> TAKE p \in AllFound
    <2>1. [point |-> p, score |-> FusedScore(p)] \in pool
        OBVIOUS
    <2>2. [point |-> p, score |-> FusedScore(p)].point = p
        OBVIOUS
    <2> HIDE DEF pool
    <2> QED
        BY <2>1, <2>2
  <1> HIDE DEF pool, o, n
  <1>11. \A i \in 1..n : o[i] \in pool /\ o[i].point \in AllFound
      BY <1>4, <1>9
  <1>12. DOMAIN Fused = 1..n /\ \A i \in 1..n : Fused[i] = FusedHit(o[i].point)
      BY <1>8
  <1>13. \A i \in 1..n :
            /\ Fused[i].point = o[i].point
            /\ \E s \in Answered : \E j \in DOMAIN HitsOf(s) : Fused[i] = HitsOf(s)[j]
      BY <1>11, <1>12, FusedHitFacts
  <1>14. \A i \in 1..n : Fused[i] \in HitSet
    <2>1. \A s \in Answered : \A j \in DOMAIN HitsOf(s) : HitsOf(s)[j] \in HitSet
      <3> TAKE s \in Answered
      <3>1. HitsOf(s) \in Seq(HitSet)
          BY DEF FoundOk, HitLists
      <3> QED
          BY <3>1, LenProperties, ElementOfSeq
    <2> QED
        BY <1>13, <2>1
  <1>15. Fused \in Seq(HitSet)
    <2>1. Fused = [i \in 1..n |-> Fused[i]]
        BY <1>8, <1>12
    <2>2. Fused \in [1..n -> HitSet]
        BY <1>14, <2>1
    <2> QED
        BY <1>9, <2>2
  <1>16. Distinct(Fused)
    <2> SUFFICES ASSUME NEW i \in 1..n, NEW j \in 1..n, Fused[i].point = Fused[j].point
                 PROVE  i = j
        BY <1>12 DEF Distinct
    <2>1. o[i] = o[j]
        BY <1>5, <1>11, <1>13
    <2>2. key[o[i]] \in Int
        BY <1>6, <1>11
    <2>3. ~(i < j) /\ ~(j < i)
        BY <1>9, <2>1, <2>2
    <2>4. i \in Int /\ j \in Int
        BY <1>9
    <2> QED
        BY <2>3, <2>4
  <1>17. \A i, j \in 1..n : i < j => ~(FusedScore(Fused[j].point) > FusedScore(Fused[i].point))
    <2> TAKE i, j \in 1..n
    <2> HAVE i < j
    <2>1. key[o[i]] < key[o[j]]
        BY <1>9
    <2>2. o[i].score > o[j].score \/ o[i].score = o[j].score
        BY <1>6, <1>11, <2>1
    <2>3. /\ o[i].score = FusedScore(Fused[i].point) /\ o[i].score \in Nat
          /\ o[j].score = FusedScore(Fused[j].point) /\ o[j].score \in Nat
        BY <1>4, <1>11, <1>13
    <2> QED
        BY <2>2, <2>3
  <1>18. \A p \in AllFound : \E i \in 1..n : Fused[i].point = p
    <2> TAKE p \in AllFound
    <2>1. PICK c \in pool : c.point = p
        BY <1>10
    <2>2. PICK i \in 1..n : o[i] = c
        BY <1>9
    <2> QED
        BY <1>13, <2>1, <2>2
  <1>19. \A i \in 1..n : Fused[i].point \in AllFound
      BY <1>11, <1>13
  <1> QED
      BY <1>12, <1>13, <1>15, <1>16, <1>17, <1>18, <1>19 DEF HitLists

\* The same in terms of ranks.
LEMMA FusionFollowsRanks ==
    ASSUME request \in Requests, FoundOk, NEW i \in DOMAIN Fused, NEW j \in DOMAIN Fused, i < j
    PROVE  LET p == Fused[i].point  q == Fused[j].point
           IN \E s \in Answered : /\ p \in FoundPoints(s)
                                  /\ q \in FoundPoints(s) => RankIn(s, p) < RankIn(s, q)
  <1> DEFINE p == Fused[i].point
             q == Fused[j].point
  <1>1. p \in AllFound /\ q \in AllFound /\ ~(FusedScore(q) > FusedScore(p))
      BY FusedFacts
  <1>2. p # q
    <2>1. Distinct(Fused)
        BY FusedFacts DEF HitLists
    <2>2. Fused \in Seq(HitSet)
        BY FusedFacts DEF HitLists
    <2>3. DOMAIN Fused = 1..Len(Fused)
        BY <2>2, LenProperties
    <2>4. i \in Int /\ j \in Int
        BY <2>3
    <2>5. i # j
        BY <2>4
    <2> QED
        BY <2>1, <2>5 DEF Distinct
  <1> HIDE DEF p, q
  <1>3. PICK s \in Answered : /\ p \in FoundPoints(s)
                              /\ ~(q \in FoundPoints(s) /\ RankIn(s, q) < RankIn(s, p))
      BY <1>1, ScoresFollowRanks
  <1>4. ASSUME q \in FoundPoints(s) PROVE RankIn(s, p) < RankIn(s, q)
    <2>1. RankIn(s, p) # RankIn(s, q)
        BY <1>2, <1>3, <1>4, RankFacts
    <2>2. RankIn(s, p) \in Int /\ RankIn(s, q) \in Int
        BY <1>3, <1>4, RankFacts
    <2> QED
        BY <1>3, <1>4, <2>1, <2>2
  <1> QED
      BY <1>3, <1>4 DEF p, q

-----------------------------------------------------------------------------
(* Reranking.                                                              *)

\* Reranking neither adds nor repeats a hit.
LEMMA ReorderedPicks ==
    ASSUME selected \in HitLists, NEW S \in SUBSET DOMAIN selected, NEW pool \in Reordered(S)
    PROVE  Picks(pool, selected)
  <1> DEFINE n == Cardinality(S)
             rest == EntriesAt(selected, DOMAIN selected \ S)
  <1>1. selected \in Seq(HitSet) /\ Distinct(selected)
      BY DEF HitLists
  <1>2. n \in Nat /\ Lower(n, n) = n
      BY <1>1, EntriesAtLists DEF Lower
  <1>3. PICK order \in [1..n -> S] :
           /\ IsInjective(order)
           /\ pool = [i \in DOMAIN order |-> selected[order[i]]] \o rest
      BY <1>2 DEF Reordered, Rankings
  <1> DEFINE first == [i \in DOMAIN order |-> selected[order[i]]]
  <1>4. Picks(rest, selected)
        /\ \A i \in DOMAIN rest : \E j \in DOMAIN selected \ S : rest[i] = selected[j]
    <2>1. DOMAIN selected \ S \in SUBSET DOMAIN selected
        OBVIOUS
    <2> QED
        BY <2>1, EntriesAtPicks
  <1> HIDE DEF n, rest
  <1>5. first \in Seq(HitSet) /\ Len(first) = n /\ DOMAIN first = 1..n
    <2>1. \A i \in 1..n : selected[order[i]] \in HitSet
        BY <1>1, <1>3, LenProperties, ElementOfSeq
    <2>2. first \in [1..n -> HitSet]
        BY <2>1
    <2> HIDE DEF first
    <2>3. first \in Seq(HitSet)
        BY <1>2, <2>2
    <2> QED
        BY <1>2, <2>2, <2>3, LenProperties
  <1>6. \A i \in 1..n : first[i] = selected[order[i]]
      OBVIOUS
  <1> HIDE DEF first
  <1>7. rest \in Seq(HitSet) /\ Distinct(rest)
      BY <1>4 DEF Picks, HitLists
  <1>8. /\ pool \in Seq(HitSet) /\ Len(pool) = n + Len(rest) /\ Len(rest) \in Nat
        /\ \A i \in 1..(n + Len(rest)) : pool[i] = IF i <= n THEN first[i] ELSE rest[i - n]
    <2>1. pool = first \o rest
        BY <1>3 DEF first
    <2> QED
        BY <1>5, <1>7, <2>1, ConcatProperties, LenProperties
  <1>9. DOMAIN pool = 1..(n + Len(rest)) /\ DOMAIN rest = 1..Len(rest)
      BY <1>7, <1>8, LenProperties
  <1>10. \A i \in DOMAIN pool :
            \/ i \in 1..n /\ pool[i] = selected[order[i]]
            \/ i - n \in DOMAIN rest /\ pool[i] = rest[i - n]
               /\ i \notin 1..n
    <2> TAKE i \in DOMAIN pool
    <2>0. i \in 1..(n + Len(rest))
        BY <1>9
    <2>1. CASE i <= n
      <3>1. i \in 1..n
          BY <1>2, <1>8, <2>0, <2>1
      <3>2. pool[i] = first[i]
          BY <1>8, <2>0, <2>1
      <3> QED
          BY <1>6, <3>1, <3>2
    <2>2. CASE ~(i <= n)
      <3>1. i - n \in 1..Len(rest)
          BY <1>2, <1>8, <1>9, <2>2
      <3> QED
          BY <1>2, <1>8, <1>9, <2>2, <3>1
    <2> QED
        BY <2>1, <2>2
  <1>11. \A i \in 1..n : order[i] \in S /\ order[i] \in DOMAIN selected
      BY <1>3
  <1>12. \A i \in DOMAIN pool : \E j \in DOMAIN selected : pool[i] = selected[j]
    <2> TAKE i \in DOMAIN pool
    <2>1. CASE i \in 1..n
        BY <1>10, <1>11, <2>1
    <2>2. CASE i \notin 1..n
        BY <1>4, <1>10, <2>2
    <2> QED
        BY <2>1, <2>2
  <1>13. ASSUME NEW i \in DOMAIN pool, NEW j \in DOMAIN pool, pool[i].point = pool[j].point
         PROVE  i = j
    <2>1. CASE i \in 1..n /\ j \in 1..n
      <3>1. order[i] = order[j]
          BY <1>1, <1>10, <1>11, <1>13, <2>1 DEF Distinct
      <3> QED
          BY <1>3, <2>1, <3>1 DEF IsInjective
    <2>2. CASE i \notin 1..n /\ j \notin 1..n
      <3>1. i - n = j - n
          BY <1>7, <1>10, <1>13, <2>2 DEF Distinct
      <3> QED
          BY <1>2, <1>8, <1>9, <3>1
    <2>3. ASSUME NEW k \in DOMAIN pool, NEW l \in DOMAIN pool, k \in 1..n, l \notin 1..n,
                 pool[k].point = pool[l].point
          PROVE  FALSE
      <3>1. pool[k] = selected[order[k]] /\ order[k] \in S
          BY <1>10, <1>11, <2>3
      <3>2. PICK m \in DOMAIN selected \ S : pool[l] = selected[m]
          BY <1>4, <1>10, <2>3
      <3>3. order[k] = m
          BY <1>1, <1>11, <2>3, <3>1, <3>2 DEF Distinct
      <3> QED
          BY <3>1, <3>3
    <2>4. ~(i \in 1..n /\ j \notin 1..n) /\ ~(j \in 1..n /\ i \notin 1..n)
        BY <1>13, <2>3
    <2> QED
        BY <2>1, <2>2, <2>4
  <1>14. Distinct(pool)
      BY <1>13 DEF Distinct
  <1> QED
      BY <1>8, <1>12, <1>14 DEF Picks, HitLists

-----------------------------------------------------------------------------
(* Balancing.                                                              *)

\* A list has as many positions as its length says.
LEMMA PositionsCount ==
    ASSUME NEW S, NEW u \in Seq(S)
    PROVE  Cardinality(DOMAIN u) = Len(u) /\ Len(u) \in Nat
  <1>1. Len(u) \in Nat /\ DOMAIN u = 1..Len(u)
      BY LenProperties
  <1>2. 1 \in Int /\ Len(u) \in Int
      BY <1>1
  <1>3. Cardinality(1..Len(u)) = IF 1 > Len(u) THEN 0 ELSE Len(u) - 1 + 1
      BY <1>2, FS_Interval
  <1>4. (IF 1 > Len(u) THEN 0 ELSE Len(u) - 1 + 1) = Len(u)
      BY ONLY <1>1
  <1> QED
      BY <1>1, <1>3, <1>4

\* As many positions as there are entries at them.
LEMMA PartsCount ==
    ASSUME NEW s \in HitLists, NEW t \in Seq(HitSet),
           NEW I \in SUBSET DOMAIN s, NEW J \in SUBSET DOMAIN t,
           \A i \in I : \E j \in J : t[j] = s[i]
    PROVE  /\ Cardinality(I) \in Nat /\ Cardinality(J) \in Nat
           /\ Cardinality(I) <= Cardinality(J)
  <1>1. s \in Seq(HitSet) /\ Distinct(s)
      BY DEF HitLists
  <1>2. IsFiniteSet(I) /\ IsFiniteSet(J)
      BY <1>1, EntriesAtLists
  <1> DEFINE at == [i \in I |-> CHOOSE j \in J : t[j] = s[i]]
  <1>3. \A i \in I : at[i] \in J /\ t[at[i]] = s[i]
      OBVIOUS
  <1>4. at \in [I -> J]
      BY <1>3
  <1> HIDE DEF at
  <1>5. \A i, j \in I : at[i] = at[j] => i = j
      BY <1>1, <1>3 DEF Distinct
  <1>6. at \in Injection(I, J)
      BY <1>4, <1>5 DEF Injection, IsInjective
  <1> QED
      BY <1>2, <1>6, FS_Injection, FS_CardinalityType

\* The hits of a document in a list and in a longer one.
LEMMA CountsGrow ==
    ASSUME NEW s \in HitLists, NEW t \in Seq(HitSet), NEW d,
           \A i \in DOMAIN s : s[i].point.doc = d => \E j \in DOMAIN t : t[j] = s[i]
    PROVE  CountOf(s, d) \in Nat /\ CountOf(t, d) \in Nat /\ CountOf(s, d) <= CountOf(t, d)
  <1> DEFINE I == {i \in DOMAIN s : s[i].point.doc = d}
             J == {j \in DOMAIN t : t[j].point.doc = d}
  <1>1. \A i \in I : \E j \in J : t[j] = s[i]
    <2> TAKE i \in I
    <2>1. PICK j \in DOMAIN t : t[j] = s[i]
        OBVIOUS
    <2> QED
        BY <2>1
  <1>2. I \in SUBSET DOMAIN s /\ J \in SUBSET DOMAIN t
      OBVIOUS
  <1> HIDE DEF I, J
  <1>3. /\ Cardinality(I) \in Nat /\ Cardinality(J) \in Nat
        /\ Cardinality(I) <= Cardinality(J)
      BY <1>1, <1>2, PartsCount
  <1> QED
      BY <1>3 DEF CountOf, I, J

\* A list as long as one that has all of its hits.
LEMMA LengthsGrow ==
    ASSUME NEW s \in HitLists, NEW t \in Seq(HitSet),
           \A i \in DOMAIN s : \E j \in DOMAIN t : t[j] = s[i]
    PROVE  Len(s) \in Nat /\ Len(t) \in Nat /\ Len(s) <= Len(t)
  <1>1. s \in Seq(HitSet)
      BY DEF HitLists
  <1>2. /\ Cardinality(DOMAIN s) = Len(s) /\ Len(s) \in Nat
        /\ Cardinality(DOMAIN t) = Len(t) /\ Len(t) \in Nat
      BY <1>1, PositionsCount
  <1>3. Cardinality(DOMAIN s) <= Cardinality(DOMAIN t)
      BY PartsCount
  <1> QED
      BY <1>1, <1>2, <1>3

\* A hit more counts for its document.
LEMMA AppendCounts ==
    ASSUME NEW s \in Seq(HitSet), NEW h \in HitSet, NEW d
    PROVE  /\ CountOf(s, d) \in Nat /\ CountOf(s, d) <= Len(s)
           /\ CountOf(Append(s, h), d) = IF h.point.doc = d THEN CountOf(s, d) + 1
                                         ELSE CountOf(s, d)
  <1> DEFINE n == Len(s)
             t == Append(s, h)
             I == {i \in 1..n : s[i].point.doc = d}
             J == {i \in 1..(n + 1) : t[i].point.doc = d}
  <1>1. n \in Nat /\ DOMAIN s = 1..n
      BY LenProperties
  <1>2. DOMAIN t = 1..(n + 1) /\ t[n + 1] = h /\ \A i \in 1..n : t[i] = s[i]
      BY <1>1, AppendProperties
  <1>3. CountOf(s, d) = Cardinality(I) /\ CountOf(t, d) = Cardinality(J)
      BY <1>1, <1>2 DEF CountOf
  <1>4. IsFiniteSet(I) /\ Cardinality(I) \in Nat /\ Cardinality(I) <= n
    <2>1. I \in SUBSET DOMAIN s
        BY <1>1
    <2> HIDE DEF I
    <2> QED
        BY <2>1, EntriesAtLists
  <1>5. n + 1 \notin I
      BY <1>1
  <1> HIDE DEF t
  <1>6. J = IF h.point.doc = d THEN I \cup {n + 1} ELSE I
    <2>1. \A i : i \in 1..(n + 1) <=> i \in 1..n \/ i = n + 1
        BY <1>1
    <2>2. \A i : i \in J <=> i \in I \/ (i = n + 1 /\ h.point.doc = d)
        BY <1>2, <2>1
    <2> HIDE DEF I, J
    <2> QED
        BY <2>2
  <1> HIDE DEF I, J, n
  <1>7. Cardinality(I \cup {n + 1}) = Cardinality(I) + 1
      BY <1>4, <1>5, FS_AddElement
  <1> QED
      BY <1>3, <1>4, <1>6, <1>7 DEF t, n

\* What a hit does to a balanced list.
Added(acc, h, limit, quota) ==
    IF Len(acc) < limit /\ ~Contains(acc, h) /\ CountOf(acc, h.point.doc) < quota[h.point.doc]
    THEN Append(acc, h) ELSE acc

\* g goes through the hits one by one.
Goes(g, chosen, hits, limit, quota) ==
    /\ g \in [0..Len(hits) -> Seq(HitSet)]
    /\ g[0] = chosen
    /\ \A m \in 1..Len(hits) : g[m] = Added(g[m - 1], hits[m], limit, quota)

\* So does Take.
LEMMA TakeUnfolds ==
    ASSUME NEW chosen \in Seq(HitSet), NEW hits \in Seq(HitSet), NEW limit, NEW quota
    PROVE  \E g : /\ Goes(g, chosen, hits, limit, quota)
                  /\ Take(chosen, hits, limit, quota) = g[Len(hits)]
  <1> DEFINE n == Len(hits)
             S == Seq(HitSet)
             append(acc, h) ==
                 IF /\ Len(acc) < limit
                    /\ ~Contains(acc, h)
                    /\ CountOf(acc, h.point.doc) < quota[h.point.doc]
                 THEN Append(acc, h) ELSE acc
             step == [m \in 1..n |-> [acc \in S |-> append(acc, hits[m])]]
             Body(g) == [m \in 0..n |-> IF m = 0 THEN chosen ELSE append(g[m - 1], hits[m])]
             g == CHOOSE h : h = Body(h)
  <1>1. n \in Nat /\ DOMAIN hits = 1..n /\ \A m \in 1..n : hits[m] \in HitSet
      BY LenProperties, ElementOfSeq
  <1>2. \A acc, h : append(acc, h) = Added(acc, h, limit, quota)
      BY DEF Added
  <1>3. \A acc \in S : \A h \in HitSet : append(acc, h) \in S
      BY AppendProperties
  <1>4. Take(chosen, hits, limit, quota) = g[n]
      BY DEF Take
  <1> HIDE DEF append, n, S
  <1>5. PICK f : Iterates(f, S, n, chosen, step)
    <2>1. step \in [1..n -> [S -> S]] /\ chosen \in S
        BY <1>1, <1>3 DEF S
    <2> HIDE DEF step
    <2> QED
        BY <1>1, <2>1, RecursionExists
  <1>6. f \in [0..n -> S] /\ f[0] = chosen /\ \A m \in 1..n : f[m] = step[m][f[m - 1]]
      BY <1>5 DEF Iterates
  <1>7. f = Body(f)
    <2>1. ASSUME NEW m \in 1..n PROVE f[m] = append(f[m - 1], hits[m])
      <3>1. m - 1 \in 0..n
          BY <1>1
      <3>2. f[m - 1] \in S
          BY <1>6, <3>1
      <3> QED
          BY <1>6, <3>2
    <2>2. \A m \in 0..n : f[m] = IF m = 0 THEN chosen ELSE append(f[m - 1], hits[m])
      <3> TAKE m \in 0..n
      <3>1. m = 0 \/ m \in 1..n
          BY <1>1
      <3> HIDE DEF step
      <3> QED
          BY <1>6, <2>1, <3>1
    <2> HIDE DEF step
    <2> QED
        BY <1>6, <2>2
  <1>8. g = Body(g)
    <2>1. \E h : h = Body(h)
        BY <1>7
    <2> HIDE DEF Body
    <2> QED
        BY <2>1
  <1> HIDE DEF g, step
  <1>9. /\ \A m \in 0..n : g[m] = IF m = 0 THEN chosen ELSE append(g[m - 1], hits[m])
        /\ DOMAIN g = 0..n /\ g = [m \in 0..n |-> g[m]]
      BY <1>8
  <1>10. 0 \in 0..n /\ \A m \in 1..n : m \in 0..n /\ m # 0 /\ m - 1 \in 0..n
      BY <1>1
  <1>11. g[0] = chosen /\ \A m \in 1..n : g[m] = Added(g[m - 1], hits[m], limit, quota)
      BY <1>2, <1>9, <1>10
  <1>12. \A m \in 0..n : g[m] \in S
    <2> DEFINE C == {m \in Nat : m <= n => g[m] \in S}
    <2>1. 0 \in C
        BY <1>11 DEF S
    <2>2. ASSUME NEW m \in C PROVE m + 1 \in C
      <3> SUFFICES ASSUME m + 1 <= n PROVE g[m + 1] \in S
          OBVIOUS
      <3>1. m + 1 \in 1..n /\ m + 1 - 1 = m /\ g[m] \in S
          BY <1>1
      <3>2. \A l \in 1..n : g[l] = append(g[l - 1], hits[l])
          BY <1>9, <1>10
      <3>3. \A l \in 1..n : g[l - 1] \in S => g[l] \in S
          BY <1>1, <1>3, <3>2
      <3>4. g[m + 1 - 1] \in S
          BY <3>1
      <3> QED
          BY <3>1, <3>3, <3>4
    <2>3. C \in SUBSET Nat
        OBVIOUS
    <2> HIDE DEF C
    <2>4. C = Nat
        BY <2>1, <2>2, <2>3, NatSetInduction
    <2>5. \A m \in 0..n : m \in Nat /\ m <= n
        BY <1>1
    <2> QED
        BY <2>4, <2>5 DEF C
  <1>13. g \in [0..n -> S]
      BY <1>9, <1>12
  <1>14. Goes(g, chosen, hits, limit, quota)
      BY <1>11, <1>13 DEF Goes, n, S
  <1> QED
      BY <1>4, <1>14 DEF n

\* One list has the entries of another.
Holds(t, s) == \A i \in DOMAIN s : \E j \in DOMAIN t : t[j] = s[i]

\* One hit: what it adds, and why it may be left out.
LEMMA AddedFacts ==
    ASSUME NEW all \in HitLists, NEW acc, Picks(acc, all), NEW k \in DOMAIN all,
           NEW limit \in Nat, NEW quota \in [Docs -> Nat]
    PROVE  LET h == all[k]  t == Added(acc, h, limit, quota)  d == h.point.doc
           IN /\ Picks(t, all) /\ Holds(t, acc)
              /\ \A i \in DOMAIN t : t[i] = h \/ \E j \in DOMAIN acc : t[i] = acc[j]
              /\ Len(t) <= limit \/ t = acc
              /\ limit <= Len(acc) => t = acc
              /\ \A e \in Docs : CountOf(t, e) <= quota[e] \/ CountOf(t, e) = CountOf(acc, e)
              /\ \/ \E j \in DOMAIN t : t[j] = h
                 \/ limit <= Len(t) \/ quota[d] <= CountOf(t, d)
  <1> DEFINE h == all[k]
             t == Added(acc, h, limit, quota)
             d == h.point.doc
  <1>1. all \in Seq(HitSet) /\ Distinct(all)
      BY DEF HitLists
  <1>2. acc \in Seq(HitSet) /\ Distinct(acc) /\ acc \in HitLists
        /\ \A i \in DOMAIN acc : \E j \in DOMAIN all : acc[i] = all[j]
      BY DEF Picks, HitLists
  <1>3. h \in HitSet
      BY <1>1, LenProperties, ElementOfSeq
  <1>4. d \in Docs
      BY <1>3 DEF HitSet, Points
  <1>5. Len(acc) \in Nat /\ DOMAIN acc = 1..Len(acc) /\ CountOf(acc, d) \in Nat
      BY <1>2, <1>3, LenProperties, AppendCounts
  <1>6. Contains(acc, h) <=> \E i \in 1..Len(acc) : acc[i] = h
      BY DEF Contains
  <1> HIDE DEF h, d
  <1>7. CASE Len(acc) < limit /\ ~Contains(acc, h) /\ CountOf(acc, d) < quota[d]
    <2>1. t = Append(acc, h)
        BY <1>7 DEF Added, d
    <2> HIDE DEF t
    <2>2. /\ t \in Seq(HitSet) /\ Len(t) = Len(acc) + 1 /\ DOMAIN t = 1..(Len(acc) + 1)
          /\ t[Len(acc) + 1] = h /\ \A i \in 1..Len(acc) : t[i] = acc[i]
        BY <1>2, <1>3, <1>5, <2>1, AppendProperties
    <2>3. Len(acc) + 1 \in DOMAIN t /\ \A i \in 1..Len(acc) : i \in DOMAIN t
        BY <1>5, <2>2
    <2>4. \A i \in DOMAIN t : i \in 1..Len(acc) \/ i = Len(acc) + 1
        BY <1>5, <2>2
    <2>5. Holds(t, acc)
        BY <1>5, <2>2, <2>3 DEF Holds
    <2>6. \A i \in DOMAIN t : t[i] = h \/ \E j \in DOMAIN acc : t[i] = acc[j]
        BY <1>5, <2>2, <2>4
    <2>7. \A i \in 1..Len(acc) : acc[i].point # h.point
        BY <1>1, <1>2, <1>5, <1>6, <1>7 DEF Distinct, h
    <2>8. Distinct(t)
      <3> SUFFICES ASSUME NEW i \in DOMAIN t, NEW j \in DOMAIN t, t[i].point = t[j].point
                   PROVE  i = j
          BY DEF Distinct
      <3>1. CASE i \in 1..Len(acc) /\ j \in 1..Len(acc)
          BY <1>2, <1>5, <2>2, <3>1 DEF Distinct
      <3>2. CASE i = Len(acc) + 1 /\ j = Len(acc) + 1
          BY <3>2
      <3>3. CASE i \in 1..Len(acc) /\ j = Len(acc) + 1
          BY <2>2, <2>7, <3>3
      <3>4. CASE i = Len(acc) + 1 /\ j \in 1..Len(acc)
          BY <2>2, <2>7, <3>4
      <3> QED
          BY <2>4, <3>1, <3>2, <3>3, <3>4
    <2>9. Picks(t, all)
      <3>1. \A i \in DOMAIN t : \E j \in DOMAIN all : t[i] = all[j]
          BY <1>2, <2>6 DEF h
      <3> QED
          BY <2>2, <2>8, <3>1 DEF Picks, HitLists
    <2>10. Len(t) <= limit /\ ~(limit <= Len(acc))
        BY <1>5, <1>7, <2>2
    <2>11. ASSUME NEW e \in Docs
           PROVE  CountOf(t, e) <= quota[e] \/ CountOf(t, e) = CountOf(acc, e)
      <3>1. CountOf(t, e) = IF h.point.doc = e THEN CountOf(acc, e) + 1 ELSE CountOf(acc, e)
          BY <1>2, <1>3, <2>1, AppendCounts
      <3>2. CASE h.point.doc = e
        <4>1. e = d /\ quota[d] \in Nat
            BY <1>4, <3>2 DEF d
        <4> QED
            BY <1>5, <1>7, <3>1, <3>2, <4>1
      <3> QED
          BY <3>1, <3>2
    <2>12. \E j \in DOMAIN t : t[j] = h
        BY <2>2, <2>3
    <2> QED
        BY <2>5, <2>6, <2>9, <2>10, <2>11, <2>12 DEF h, t
  <1>8. CASE ~(Len(acc) < limit /\ ~Contains(acc, h) /\ CountOf(acc, d) < quota[d])
    <2>1. t = acc
        BY <1>8 DEF Added, d
    <2> HIDE DEF t
    <2>2. \/ \E j \in DOMAIN acc : acc[j] = h
          \/ limit <= Len(acc) \/ quota[d] <= CountOf(acc, d)
      <3>1. quota[d] \in Nat
          BY <1>4
      <3> QED
          BY <1>5, <1>6, <1>8, <3>1
    <2>3. Holds(acc, acc)
        BY DEF Holds
    <2> QED
        BY <2>1, <2>2, <2>3 DEF h, t, d
  <1> QED
      BY <1>7, <1>8

\* t is what chosen becomes when it takes from the hits.
TakenFrom(all, t, chosen, hits, limit, quota) ==
    /\ Picks(t, all) /\ Holds(t, chosen)
    /\ \A i \in DOMAIN t : \/ \E j \in DOMAIN hits : t[i] = hits[j]
                           \/ \E j \in DOMAIN chosen : t[i] = chosen[j]
    /\ Len(t) <= limit \/ t = chosen
    /\ limit <= Len(chosen) => t = chosen
    /\ \A e \in Docs : CountOf(t, e) <= quota[e] \/ CountOf(t, e) = CountOf(chosen, e)
    /\ \A i \in DOMAIN hits :
          \/ \E j \in DOMAIN t : t[j] = hits[i]
          \/ limit <= Len(t)
          \/ quota[hits[i].point.doc] <= CountOf(t, hits[i].point.doc)

\* That is what Take does.
LEMMA TakeFacts ==
    ASSUME NEW all \in HitLists, NEW chosen, NEW hits, Picks(chosen, all), Picks(hits, all),
           NEW limit \in Nat, NEW quota \in [Docs -> Nat]
    PROVE  TakenFrom(all, Take(chosen, hits, limit, quota), chosen, hits, limit, quota)
  <1> DEFINE n == Len(hits)
             Full(t, h) == \/ \E j \in DOMAIN t : t[j] = h
                           \/ limit <= Len(t)
                           \/ quota[h.point.doc] <= CountOf(t, h.point.doc)
  <1>1. /\ chosen \in Seq(HitSet) /\ hits \in Seq(HitSet)
        /\ \A i \in DOMAIN hits : \E k \in DOMAIN all : hits[i] = all[k]
      BY DEF Picks, HitLists
  <1>2. n \in Nat /\ DOMAIN hits = 1..n
      BY <1>1, LenProperties
  <1>a. PICK g : Goes(g, chosen, hits, limit, quota)
                 /\ Take(chosen, hits, limit, quota) = g[Len(hits)]
      BY <1>1, TakeUnfolds
  <1>3. /\ g[0] = chosen
        /\ \A m \in 1..n : g[m] = Added(g[m - 1], hits[m], limit, quota)
        /\ Take(chosen, hits, limit, quota) = g[n]
      BY <1>a DEF Goes
  <1> DEFINE Ok(m) ==
                /\ Picks(g[m], all) /\ Holds(g[m], chosen)
                /\ \A i \in DOMAIN g[m] : \/ \E j \in DOMAIN hits : g[m][i] = hits[j]
                                          \/ \E j \in DOMAIN chosen : g[m][i] = chosen[j]
                /\ Len(g[m]) <= limit \/ g[m] = chosen
                /\ limit <= Len(chosen) => g[m] = chosen
                /\ \A e \in Docs : \/ CountOf(g[m], e) <= quota[e]
                                   \/ CountOf(g[m], e) = CountOf(chosen, e)
                /\ \A i \in 1..m : Full(g[m], hits[i])
             C == {m \in Nat : m <= n => Ok(m)}
  <1> HIDE DEF Full
  <1>4. 0 \in C
    <2>1. Holds(chosen, chosen)
        BY DEF Holds
    <2>2. 1..0 = {}
        OBVIOUS
    <2> QED
        BY <1>3, <2>1, <2>2
  <1>5. ASSUME NEW m \in C PROVE m + 1 \in C
    <2> SUFFICES ASSUME m + 1 <= n PROVE Ok(m + 1)
        OBVIOUS
    <2> DEFINE acc == g[m]
               t == g[m + 1]
               h == hits[m + 1]
    <2>1. Ok(m) /\ m + 1 \in 1..n /\ m + 1 - 1 = m /\ m \in Nat
        BY <1>2
    <2>2. t = Added(acc, h, limit, quota)
      <3>1. g[m + 1] = Added(g[m + 1 - 1], hits[m + 1], limit, quota)
          BY <1>3, <2>1
      <3> QED
          BY <2>1, <3>1
    <2>3. PICK k \in DOMAIN all : h = all[k]
        BY <1>1, <1>2, <2>1
    <2>4. Picks(acc, all) /\ Holds(acc, chosen)
        BY <2>1
    <2>5. \A i \in DOMAIN acc : \/ \E j \in DOMAIN hits : acc[i] = hits[j]
                                \/ \E j \in DOMAIN chosen : acc[i] = chosen[j]
        BY <2>1
    <2>6. /\ Len(acc) <= limit \/ acc = chosen
          /\ limit <= Len(chosen) => acc = chosen
        BY <2>1
    <2>7. \A e \in Docs : CountOf(acc, e) <= quota[e] \/ CountOf(acc, e) = CountOf(chosen, e)
        BY <2>1
    <2>8. \A i \in 1..m : Full(acc, hits[i])
        BY <2>1
    <2>a. h = hits[m + 1] /\ m + 1 \in DOMAIN hits
        BY <1>2, <2>1
    <2> HIDE DEF acc, t, h, C
    <2>9. /\ Picks(t, all) /\ Holds(t, acc)
          /\ \A i \in DOMAIN t : t[i] = h \/ \E j \in DOMAIN acc : t[i] = acc[j]
          /\ Len(t) <= limit \/ t = acc
          /\ limit <= Len(acc) => t = acc
          /\ \A e \in Docs : CountOf(t, e) <= quota[e] \/ CountOf(t, e) = CountOf(acc, e)
          /\ \/ \E j \in DOMAIN t : t[j] = h
             \/ limit <= Len(t) \/ quota[h.point.doc] <= CountOf(t, h.point.doc)
        BY <2>2, <2>3, <2>4, AddedFacts
    <2>10. Holds(t, chosen)
        BY <2>4, <2>9 DEF Holds
    <2>11. \A i \in DOMAIN t : \/ \E j \in DOMAIN hits : t[i] = hits[j]
                               \/ \E j \in DOMAIN chosen : t[i] = chosen[j]
        BY <2>5, <2>9, <2>a
    <2>12. Len(t) <= limit \/ t = chosen
        BY <2>6, <2>9
    <2>13. limit <= Len(chosen) => t = chosen
        BY <2>6, <2>9
    <2>14. \A e \in Docs : CountOf(t, e) <= quota[e] \/ CountOf(t, e) = CountOf(chosen, e)
        BY <2>7, <2>9
    <2>15. ASSUME NEW i \in 1..m PROVE Full(t, hits[i])
      <3>1. Full(acc, hits[i])
          BY <2>8
      <3>2. acc \in HitLists /\ t \in HitLists /\ t \in Seq(HitSet)
          BY <2>4, <2>9 DEF Picks, HitLists
      <3>3. Len(acc) \in Nat /\ Len(t) \in Nat /\ Len(acc) <= Len(t)
          BY <2>9, <3>2, LengthsGrow DEF Holds
      <3>4. CASE \E j \in DOMAIN acc : acc[j] = hits[i]
          BY <2>9, <3>4 DEF Holds, Full
      <3>5. CASE limit <= Len(acc)
          BY <3>3, <3>5 DEF Full
      <3>6. CASE quota[hits[i].point.doc] <= CountOf(acc, hits[i].point.doc)
        <4> DEFINE d == hits[i].point.doc
        <4>1. i \in DOMAIN hits
            BY <1>2, <2>1
        <4>2. hits[i] \in HitSet
            BY <1>1, <4>1, LenProperties, ElementOfSeq
        <4>3. d \in Docs
            BY <4>2 DEF HitSet, Points
        <4>4. CountOf(acc, d) \in Nat /\ CountOf(t, d) \in Nat /\ CountOf(acc, d) <= CountOf(t, d)
            BY <2>9, <3>2, CountsGrow DEF Holds
        <4>5. quota[d] \in Nat
            BY <4>3
        <4>6. quota[d] <= CountOf(acc, d)
            BY <3>6
        <4> HIDE DEF d
        <4>7. quota[d] <= CountOf(t, d)
            BY <4>4, <4>5, <4>6
        <4> QED
            BY <4>7 DEF Full, d
      <3> QED
          BY <3>1, <3>4, <3>5, <3>6 DEF Full
    <2>16. Full(t, h)
        BY <2>9 DEF Full
    <2>17. \A i \in 1..(m + 1) : Full(t, hits[i])
      <3>1. \A i \in 1..(m + 1) : i \in 1..m \/ i = m + 1
          BY <2>1
      <3> QED
          BY <2>15, <2>16, <2>a, <3>1
    <2> QED
        BY <2>9, <2>10, <2>11, <2>12, <2>13, <2>14, <2>17 DEF t
  <1>6. Ok(n)
    <2>1. C \in SUBSET Nat
        OBVIOUS
    <2> HIDE DEF C
    <2>2. C = Nat
        BY <1>4, <1>5, <2>1, NatSetInduction
    <2> HIDE DEF Ok, n
    <2>3. n \in C /\ n <= n
        BY <1>2, <2>2
    <2> QED
        BY <2>3 DEF C
  <1> DEFINE t == Take(chosen, hits, limit, quota)
  <1>7. t = g[n]
      BY <1>3
  <1>8. \A i \in DOMAIN hits : Full(t, hits[i])
      BY <1>2, <1>6, <1>7
  <1> HIDE DEF t
  <1> QED
      BY <1>6, <1>7, <1>8 DEF Full, TakenFrom, t

\* The sizes and shares of a balanced list.
LEMMA ShareFacts ==
    ASSUME request \in Requests
    PROVE  /\ request.topK \in Nat \ {0}
           /\ PrimaryMin \in Nat /\ PrimaryMax \in Nat
           /\ PrimaryMin <= request.topK /\ PrimaryMin <= PrimaryMax
           /\ [d \in Docs |-> Quota(d)] \in [Docs -> Nat]
  <1>1. request.topK \in Nat \ {0}
      BY RequestFacts
  <1>2. ASSUME NEW tenths \in 1..10 PROVE Share(tenths) \in Nat
    <2>1. tenths \in Nat /\ request.topK \in Nat
        BY <1>1
    <2>2. request.topK * tenths \in Nat
        BY <2>1, ProductsGrow
    <2>3. request.topK * tenths + 9 \in Nat /\ 10 \in Nat \ {0}
        BY <2>2
    <2> QED
        BY <2>3, Quotient DEF Share
  <1>3. /\ Shares.primaryMin \in 1..10 /\ Shares.primaryMax \in 1..10
        /\ Shares.secondary \in 1..10 /\ Shares.unpreferred \in 1..10
      BY LookupAssumption
  <1>4. /\ Share(Shares.primaryMin) \in Nat /\ Share(Shares.primaryMax) \in Nat
        /\ Share(Shares.secondary) \in Nat /\ Share(Shares.unpreferred) \in Nat
      BY <1>2, <1>3
  <1>5. PrimaryMin \in Nat /\ PrimaryMin <= request.topK
      BY <1>1, <1>4, LowerAndHigher DEF PrimaryMin
  <1> DEFINE most == Higher(PrimaryMin, Share(Shares.primaryMax))
  <1>6. most \in Nat /\ most >= PrimaryMin
      BY <1>4, <1>5, LowerAndHigher
  <1>7. PrimaryMax = Lower(request.topK, most)
      BY DEF PrimaryMax
  <1> HIDE DEF most
  <1>8. PrimaryMax \in Nat /\ PrimaryMin <= PrimaryMax
      BY <1>1, <1>5, <1>6, <1>7 DEF Lower
  <1>9. \A d \in Docs : Quota(d) \in Nat
      BY <1>4, <1>8 DEF Quota
  <1> QED
      BY <1>1, <1>5, <1>8, <1>9

\* What is promised of a balanced list.
Fair(given, offered) ==
    /\ Len(given) = Lower(request.topK, Len(offered))
    /\ \A d \in request.preferred : CountOf(given, d) >= Lower(PrimaryMin, CountOf(offered, d))
    /\ \A d, e \in Docs :
          CountOf(given, d) > Quota(d) =>
              CountOf(given, e) = CountOf(offered, e) \/ CountOf(given, e) >= Quota(e)

\* Balancing takes from the hits, and keeps its promises.
LEMMA BalancedFacts ==
    ASSUME request \in Requests, NEW hits \in HitLists
    PROVE  Picks(Balanced(hits), hits) /\ Fair(Balanced(hits), hits)
  <1> DEFINE preferred == {i \in DOMAIN hits : hits[i].point.doc \in request.preferred}
             primary == EntriesAt(hits, preferred)
             others == EntriesAt(hits, DOMAIN hits \ preferred)
             quota == [d \in Docs |-> Quota(d)]
             open == [d \in Docs |-> request.topK]
             K == request.topK
             P == PrimaryMin
             R == Take(<<>>, primary, P, quota)
             A == Take(R, others, K, quota)
             B == Take(A, primary, K, quota)
             C == Take(B, hits, K, open)
  <1>1. Balanced(hits) = C
      BY DEF Balanced, WithinQuotas
  <1>2. /\ hits \in Seq(HitSet) /\ DOMAIN hits = 1..Len(hits) /\ Len(hits) \in Nat
        /\ \A i \in DOMAIN hits : hits[i].point.doc \in Docs
    <2>1. hits \in Seq(HitSet)
        BY DEF HitLists
    <2>2. \A i \in DOMAIN hits : hits[i] \in HitSet
        BY <2>1, LenProperties, ElementOfSeq
    <2> QED
        BY <2>1, <2>2, LenProperties DEF HitSet, Points
  <1>3. /\ K \in Nat /\ P \in Nat /\ PrimaryMax \in Nat /\ P <= K /\ P <= PrimaryMax
        /\ quota \in [Docs -> Nat] /\ open \in [Docs -> Nat]
        /\ (\A d \in Docs : quota[d] = Quota(d)) /\ \A d \in Docs : open[d] = K
      BY ShareFacts
  <1>4. /\ Picks(primary, hits) /\ Picks(others, hits) /\ Picks(hits, hits)
        /\ \A i \in DOMAIN primary : \E j \in preferred : primary[i] = hits[j]
        /\ \A j \in preferred : \E i \in DOMAIN primary : primary[i] = hits[j]
        /\ \A j \in DOMAIN hits \ preferred : \E i \in DOMAIN others : others[i] = hits[j]
    <2>1. preferred \in SUBSET DOMAIN hits /\ DOMAIN hits \ preferred \in SUBSET DOMAIN hits
        OBVIOUS
    <2> HIDE DEF preferred
    <2>2. Picks(hits, hits)
        BY DEF Picks
    <2> QED
        BY <2>1, <2>2, EntriesAtPicks
  <1>5. Picks(<<>>, hits) /\ \A d : CountOf(<<>>, d) = 0
    <2>1. <<>> \in Seq(HitSet) /\ DOMAIN <<>> = {}
        OBVIOUS
    <2>2. <<>> \in HitLists
        BY <2>1 DEF HitLists, Distinct
    <2>3. Picks(<<>>, hits)
        BY <2>1, <2>2 DEF Picks
    <2>4. \A d : {i \in DOMAIN <<>> : <<>>[i].point.doc = d} = {}
        BY <2>1
    <2> QED
        BY <2>3, <2>4, FS_EmptySet DEF CountOf
  <1>6. \A i \in preferred : i \in DOMAIN hits /\ hits[i].point.doc \in request.preferred
      OBVIOUS
  <1> HIDE DEF preferred, primary, others, quota, open, K, P
  <1>7t. TakenFrom(hits, R, <<>>, primary, P, quota)
      BY <1>3, <1>4, <1>5, TakeFacts
  <1>7. /\ Picks(R, hits)
        /\ \A i \in DOMAIN R : \E j \in DOMAIN primary : R[i] = primary[j]
        /\ Len(R) <= P \/ R = <<>>
        /\ \A e \in Docs : CountOf(R, e) <= quota[e] \/ CountOf(R, e) = CountOf(<<>>, e)
        /\ \A i \in DOMAIN primary :
              \/ \E j \in DOMAIN R : R[j] = primary[i]
              \/ P <= Len(R)
              \/ quota[primary[i].point.doc] <= CountOf(R, primary[i].point.doc)
    <2>1. DOMAIN <<>> = {}
        OBVIOUS
    <2> QED
        BY <1>7t, <2>1 DEF TakenFrom
  <1> HIDE DEF R
  <1>8t. TakenFrom(hits, A, R, others, K, quota)
      BY <1>3, <1>4, <1>7, TakeFacts
  <1>8. /\ Picks(A, hits) /\ Holds(A, R)
        /\ Len(A) <= K \/ A = R
        /\ \A e \in Docs : CountOf(A, e) <= quota[e] \/ CountOf(A, e) = CountOf(R, e)
        /\ \A i \in DOMAIN others :
              \/ \E j \in DOMAIN A : A[j] = others[i]
              \/ K <= Len(A)
              \/ quota[others[i].point.doc] <= CountOf(A, others[i].point.doc)
      BY <1>8t DEF TakenFrom
  <1> HIDE DEF A
  <1>9t. TakenFrom(hits, B, A, primary, K, quota)
      BY <1>3, <1>4, <1>8, TakeFacts
  <1>9. /\ Picks(B, hits) /\ Holds(B, A)
        /\ Len(B) <= K \/ B = A
        /\ \A e \in Docs : CountOf(B, e) <= quota[e] \/ CountOf(B, e) = CountOf(A, e)
        /\ \A i \in DOMAIN primary :
              \/ \E j \in DOMAIN B : B[j] = primary[i]
              \/ K <= Len(B)
              \/ quota[primary[i].point.doc] <= CountOf(B, primary[i].point.doc)
      BY <1>9t DEF TakenFrom
  <1> HIDE DEF B
  <1>10t. TakenFrom(hits, C, B, hits, K, open)
      BY <1>3, <1>4, <1>9, TakeFacts
  <1>10. /\ Picks(C, hits) /\ Holds(C, B)
         /\ Len(C) <= K \/ C = B
         /\ K <= Len(B) => C = B
         /\ \A i \in DOMAIN hits :
              \/ \E j \in DOMAIN C : C[j] = hits[i]
              \/ K <= Len(C)
              \/ open[hits[i].point.doc] <= CountOf(C, hits[i].point.doc)
      BY <1>10t DEF TakenFrom
  <1> HIDE DEF C
  <1>11. /\ R \in HitLists /\ A \in HitLists /\ B \in HitLists /\ C \in HitLists
         /\ R \in Seq(HitSet) /\ A \in Seq(HitSet) /\ B \in Seq(HitSet) /\ C \in Seq(HitSet)
      BY <1>7, <1>8, <1>9, <1>10 DEF Picks, HitLists
  <1>12. /\ Len(R) \in Nat /\ Len(A) \in Nat /\ Len(B) \in Nat /\ Len(C) \in Nat
         /\ Len(A) <= Len(B) /\ Len(B) <= Len(C) /\ Len(C) <= Len(hits)
    <2>1. Len(R) <= Len(A) /\ Len(R) \in Nat /\ Len(A) \in Nat
        BY <1>8, <1>11, LengthsGrow DEF Holds
    <2>2. Len(A) <= Len(B) /\ Len(B) \in Nat
        BY <1>9, <1>11, LengthsGrow DEF Holds
    <2>3. Len(B) <= Len(C) /\ Len(C) \in Nat
        BY <1>10, <1>11, LengthsGrow DEF Holds
    <2>4. \A i \in DOMAIN C : \E j \in DOMAIN hits : hits[j] = C[i]
        BY <1>10 DEF Picks
    <2>5. Len(C) <= Len(hits)
        BY <1>2, <1>11, <2>4, LengthsGrow
    <2> QED
        BY <2>1, <2>2, <2>3, <2>5
  <1>13. Len(C) <= K
    <2>1. Len(<<>>) = 0
        OBVIOUS
    <2>2. Len(R) <= K
        BY <1>3, <1>7, <1>12, <2>1
    <2> QED
        BY <1>8, <1>9, <1>10, <2>2
  <1>14. ASSUME NEW d
         PROVE  /\ CountOf(R, d) \in Nat /\ CountOf(A, d) \in Nat /\ CountOf(B, d) \in Nat
                /\ CountOf(C, d) \in Nat /\ CountOf(hits, d) \in Nat
                /\ CountOf(R, d) <= CountOf(C, d) /\ CountOf(A, d) <= CountOf(C, d)
                /\ CountOf(B, d) <= CountOf(C, d) /\ CountOf(C, d) <= CountOf(hits, d)
    <2>1. /\ CountOf(R, d) \in Nat /\ CountOf(A, d) \in Nat /\ CountOf(R, d) <= CountOf(A, d)
        BY <1>8, <1>11, CountsGrow DEF Holds
    <2>2. CountOf(B, d) \in Nat /\ CountOf(A, d) <= CountOf(B, d)
        BY <1>9, <1>11, CountsGrow DEF Holds
    <2>3. CountOf(C, d) \in Nat /\ CountOf(B, d) <= CountOf(C, d)
        BY <1>10, <1>11, CountsGrow DEF Holds
    <2>4. \A i \in DOMAIN C : \E j \in DOMAIN hits : hits[j] = C[i]
        BY <1>10 DEF Picks
    <2>5. CountOf(hits, d) \in Nat /\ CountOf(C, d) <= CountOf(hits, d)
        BY <1>2, <1>11, <2>4, CountsGrow
    <2> QED
        BY <2>1, <2>2, <2>3, <2>5
  <1>15. Len(C) = Lower(K, Len(hits))
    <2>1. CASE K <= Len(C)
        BY <1>2, <1>3, <1>12, <1>13, <2>1 DEF Lower
    <2>2. CASE ~(K <= Len(C))
      <3>1. ASSUME NEW i \in DOMAIN hits PROVE \E j \in DOMAIN C : C[j] = hits[i]
        <4> DEFINE d == hits[i].point.doc
        <4>1. hits[i] \in HitSet /\ d \in Docs
            BY <1>2, LenProperties, ElementOfSeq
        <4>2. CountOf(C, d) \in Nat /\ CountOf(C, d) <= Len(C)
            BY <1>11, <4>1, AppendCounts
        <4>3. open[d] = K
            BY <1>3, <4>1
        <4>4. ~(K <= CountOf(C, d))
            BY <1>3, <1>12, <2>2, <4>2
        <4> HIDE DEF d
        <4> QED
            BY <1>10, <2>2, <4>3, <4>4 DEF d
      <3>2. Len(hits) <= Len(C)
          BY <1>11, <3>1, LengthsGrow
      <3> QED
          BY <1>2, <1>3, <1>12, <1>13, <3>2 DEF Lower
    <2> QED
        BY <2>1, <2>2
  <1>16. ASSUME NEW d \in request.preferred
         PROVE  CountOf(C, d) >= Lower(P, CountOf(hits, d))
    <2>1. request.preferred = {d} /\ d \in Docs
        BY RequestFacts
    <2>2. quota[d] = PrimaryMax
        BY <1>3, <2>1 DEF Quota
    <2>3. \A i \in DOMAIN primary : primary[i].point.doc = d
        BY <1>4, <1>6, <2>1
    <2>4. Lower(P, CountOf(hits, d)) <= P /\ Lower(P, CountOf(hits, d)) <= CountOf(hits, d)
          /\ Lower(P, CountOf(hits, d)) \in Nat
        BY <1>3, <1>14, LowerAndHigher
    <2>5. CASE P <= Len(R)
      <3>1. {i \in DOMAIN R : R[i].point.doc = d} = DOMAIN R
          BY <1>7, <2>3
      <3>2. CountOf(R, d) = Len(R)
          BY <1>11, <3>1, PositionsCount DEF CountOf
      <3> QED
          BY <1>3, <1>12, <1>14, <2>4, <2>5, <3>2
    <2>6. CASE quota[d] <= CountOf(R, d)
        BY <1>3, <1>14, <2>2, <2>4, <2>6
    <2>7. CASE ~(P <= Len(R)) /\ ~(quota[d] <= CountOf(R, d))
      <3>1. \A i \in DOMAIN primary : \E j \in DOMAIN R : R[j] = primary[i]
          BY <1>7, <2>3, <2>7
      <3>2. \A i \in DOMAIN hits : hits[i].point.doc = d => i \in preferred
          BY <2>1 DEF preferred
      <3>3. \A i \in DOMAIN hits : hits[i].point.doc = d => \E j \in DOMAIN R : R[j] = hits[i]
          BY <1>4, <3>1, <3>2
      <3>4. CountOf(hits, d) <= CountOf(R, d)
          BY <1>11, <3>3, CountsGrow
      <3> QED
          BY <1>14, <2>4, <3>4
    <2> QED
        BY <2>5, <2>6, <2>7
  <1>17. ASSUME NEW d \in Docs, NEW e \in Docs, CountOf(C, d) > Quota(d)
         PROVE  CountOf(C, e) = CountOf(hits, e) \/ CountOf(C, e) >= Quota(e)
    <2>1. quota[d] = Quota(d) /\ quota[d] \in Nat /\ quota[e] = Quota(e) /\ quota[e] \in Nat
        BY <1>3
    <2>2. CountOf(B, d) <= quota[d]
      <3>1. CountOf(<<>>, d) = 0
          BY <1>5
      <3>2. CountOf(R, d) <= quota[d]
          BY <1>7, <2>1, <3>1
      <3>3. CountOf(A, d) <= quota[d]
          BY <1>8, <3>2
      <3> QED
          BY <1>9, <3>3
    <2>3. C # B
        BY <1>14, <1>17, <2>1, <2>2
    <2>4. ~(K <= Len(B)) /\ ~(K <= Len(A))
        BY <1>3, <1>10, <1>12, <2>3
    <2>5. CASE quota[e] <= CountOf(A, e) \/ quota[e] <= CountOf(B, e)
      <3>1. quota[e] <= CountOf(C, e)
          BY <1>14, <2>1, <2>5
      <3> QED
          BY <1>14, <2>1, <3>1
    <2>6. CASE ~(quota[e] <= CountOf(A, e)) /\ ~(quota[e] <= CountOf(B, e))
      <3>1. ASSUME NEW i \in DOMAIN hits, hits[i].point.doc = e
            PROVE  \E j \in DOMAIN C : C[j] = hits[i]
        <4>1. CASE i \in preferred
          <5>1. PICK j \in DOMAIN primary : primary[j] = hits[i]
              BY <1>4, <4>1
          <5>2. PICK l \in DOMAIN B : B[l] = hits[i]
              BY <1>9, <2>4, <2>6, <3>1, <5>1
          <5> QED
              BY <1>10, <5>2 DEF Holds
        <4>2. CASE i \notin preferred
          <5>1. PICK j \in DOMAIN others : others[j] = hits[i]
              BY <1>4, <4>2
          <5>2. PICK l \in DOMAIN A : A[l] = hits[i]
              BY <1>8, <2>4, <2>6, <3>1, <5>1
          <5>3. PICK m \in DOMAIN B : B[m] = hits[i]
              BY <1>9, <5>2 DEF Holds
          <5> QED
              BY <1>10, <5>3 DEF Holds
        <4> QED
            BY <4>1, <4>2
      <3>2. CountOf(hits, e) <= CountOf(C, e)
          BY <1>11, <3>1, CountsGrow
      <3> QED
          BY <1>14, <3>2
    <2> QED
        BY <2>5, <2>6
  <1>18. Fair(C, hits)
      BY <1>15, <1>16, <1>17 DEF Fair, K, P
  <1> QED
      BY <1>1, <1>10, <1>18

-----------------------------------------------------------------------------
(* The states of a lookup.                                                 *)

\* A hit matches the filter of the lookup, by the flag it was found with; in an
\* index that has not changed, that is the chunk's own.
Fits(h) ==
    /\ h.point \in request.points
    /\ CoarseMatch(h.point, h.latest) /\ InRange(h.point)
    /\ ~raced => h.point \in Present /\ h = Hit(h.point)

AllFit(s) == s \in HitLists /\ \A i \in DOMAIN s : Fits(s[i])

\* A chunk the lookup must find, if it cuts nothing off.
Sought(p) == p \in Present /\ CoarseMatch(p, Latest(p)) /\ InRange(p) /\ Named(p)

\* The lookups of which VersionsAsAsked says which versions they return.
Settled ==
    /\ ~raced /\ phase # "staged"
    /\ DecidedByStores \/ Exhaustive
    /\ ~(Historical /\ ~request.dated)

\* What the selection of versions establishes.
Proper(s) ==
    /\ \A i \in DOMAIN s : Named(s[i].point)
    /\ Settled => \A i \in DOMAIN s : Asked(s[i].point.version, Scoped(s[i].point.doc))
    /\ request.mode \in {"latest", "oldest", "previous"} =>
          \A i, j \in DOMAIN s :
             s[i].point.doc = s[j].point.doc => s[i].point.version = s[j].point.version

Shape ==
    /\ request \in Requests
    /\ phase \in {"before", "staged", "active"} /\ raced \in BOOLEAN
    /\ pc \in {"expand", "documents", "sections", "search", "scan", "rerank", "balance",
               "validate"} \cup Ends
    /\ within \in SUBSET request.points
    /\ request.strategy # "hierarchical" =>
          within = request.points /\ pc \notin {"documents", "sections"}
    /\ pc = "expand" => request.strategy = "multi_query"
    /\ IF request.strategy = "multi_query"
       THEN /\ Sources \in {{}, {"original"}, {"original", "variant"}}
            /\ pc = "search" => Sources # {}
       ELSE Sources = FirstSources

Lists ==
    /\ \A s \in Answered : AllFit(HitsOf(s))
    /\ AllFit(candidates) /\ AllFit(selected)

\* Where nothing is cut off, each search but that of keywords finds every chunk.
Whole ==
    ~raced /\ Exhaustive =>
        /\ \A s \in Answered \ {"keyword"} : \A p \in request.points :
              Sought(p) => p \in FoundPoints(s)
        /\ pc = "scan" => \A p \in request.points :
              Sought(p) => \E i \in DOMAIN candidates : candidates[i].point = p

Ending == result = IF pc = "done" THEN selected ELSE <<>>

IInv == /\ Shape /\ Lists /\ Whole /\ Proper(selected) /\ Ending
        /\ FusionRespectsRanks /\ BalancedFairly

-----------------------------------------------------------------------------
(* What a step leaves alone.                                               *)

\* Nothing about a lookup's question changes.
LEMMA QuestionStays ==
    ASSUME request' = request
    PROVE  /\ \A p, l : CoarseMatch(p, l)' <=> CoarseMatch(p, l)
           /\ \A p : (InRange(p)' <=> InRange(p)) /\ (Named(p)' <=> Named(p))
           /\ Exhaustive' <=> Exhaustive
           /\ \A n, N : Asked(n, N)' <=> Asked(n, N)
           /\ \A g, o : Fair(g, o)' <=> Fair(g, o)
           /\ FirstSources' = FirstSources
  <1>1. \A p, l : CoarseMatch(p, l)' <=> CoarseMatch(p, l)
      BY DEF CoarseMatch
  <1>2. \A p : (InRange(p)' <=> InRange(p)) /\ (Named(p)' <=> Named(p))
      BY DEF InRange, Named
  <1>3. SelectionSize' = SelectionSize
      BY DEF SelectionSize, Constrained, PoolSize, Reranking
  <1>4. Exhaustive' <=> Exhaustive
      BY <1>3 DEF Exhaustive
  <1>5. \A n, N : Asked(n, N)' <=> Asked(n, N)
      BY DEF Asked
  <1>6. \A n : Share(n)' = Share(n)
      BY DEF Share
  <1>7. PrimaryMin' = PrimaryMin /\ PrimaryMax' = PrimaryMax
      BY DEF PrimaryMin, PrimaryMax, Share
  <1>8. \A d : Quota(d)' = Quota(d)
      BY <1>7 DEF Quota, Share
  <1>9. \A g, o : Fair(g, o)' <=> Fair(g, o)
      BY <1>7, <1>8 DEF Fair
  <1>10. FirstSources' = FirstSources
      BY DEF FirstSources
  <1> QED
      BY <1>1, <1>2, <1>4, <1>5, <1>9, <1>10

\* Nor about the index, unless it is the ingestion's step.
LEMMA IndexStays ==
    ASSUME request' = request, phase' = phase, raced' = raced
    PROVE  /\ \A h : Fits(h)' <=> Fits(h)
           /\ \A s : AllFit(s)' <=> AllFit(s)
           /\ \A p : Sought(p)' <=> Sought(p)
           /\ \A s : Proper(s)' <=> Proper(s)
  <1>1. Present' = Present
      BY DEF Present
  <1>2. \A p : Latest(p)' = Latest(p) /\ Hit(p)' = Hit(p)
      BY DEF Latest, Hit
  <1>3. \A h : Fits(h)' <=> Fits(h)
      BY <1>1, <1>2, QuestionStays DEF Fits
  <1>4. \A s : AllFit(s)' <=> AllFit(s)
      BY <1>3 DEF AllFit
  <1>5. \A p : Sought(p)' <=> Sought(p)
      BY <1>1, <1>2, QuestionStays DEF Sought
  <1>6. \A d : Scoped(d)' = Scoped(d)
      BY <1>1, QuestionStays DEF Scoped
  <1>7. Settled' <=> Settled
      BY QuestionStays DEF Settled, DecidedByStores, Historical
  <1>8. \A s : Proper(s)' <=> Proper(s)
      BY <1>6, <1>7, QuestionStays DEF Proper
  <1> QED
      BY <1>3, <1>4, <1>5, <1>8

\* After that step less is claimed.
LEMMA IndexChanges ==
    ASSUME request' = request, raced' = TRUE
    PROVE  /\ \A s : AllFit(s) => AllFit(s)'
           /\ \A s : Proper(s) => Proper(s)'
  <1>1. \A h : Fits(h) => Fits(h)'
      BY QuestionStays DEF Fits
  <1>2. ~Settled'
      BY DEF Settled
  <1> QED
      BY <1>1, <1>2, QuestionStays DEF AllFit, Proper

\* What is known of the searches' results.
LEMMA ResultsStay ==
    ASSUME found' = found
    PROVE  /\ Sources' = Sources /\ Answered' = Answered
           /\ \A s : HitsOf(s)' = HitsOf(s) /\ FoundPoints(s)' = FoundPoints(s)
           /\ \A s, p : RankIn(s, p)' = RankIn(s, p)
  BY DEF Sources, Answered, HitsOf, FoundPoints, RankIn

\* What is picked from a list fits as well.
LEMMA PicksFit ==
    ASSUME NEW s, NEW t, Picks(t, s), AllFit(s)
    PROVE  AllFit(t)
  BY DEF Picks, AllFit

LEMMA PicksAreProper ==
    ASSUME NEW s, NEW t, Picks(t, s), Proper(s)
    PROVE  Proper(t)
  BY DEF Picks, Proper

\* The fusion's demands on what was found.
LEMMA FoundIsOk ==
    ASSUME Shape, Lists
    PROVE  FoundOk /\ request \in Requests
  <1>1. Sources \in {{}, {"vector"}, {"vector", "keyword"}, {"original"}, {"original", "variant"}}
      BY DEF Shape, FirstSources
  <1>2. \A s \in Answered : /\ HitsOf(s) \in HitLists
                            /\ \A i \in DOMAIN HitsOf(s) : HitsOf(s)[i].point \in request.points
      BY DEF Lists, AllFit, Fits
  <1> QED
      BY <1>1, <1>2 DEF FoundOk, Shape

\* Every layer asks for as many candidates as the next one takes.
LEMMA SizeFacts ==
    ASSUME request \in Requests
    PROVE  /\ PoolSize \in Nat /\ SelectionSize \in Nat /\ SearchSize \in Nat
           /\ request.strategy # "hierarchical" => SelectionSize <= SearchSize
  <1>1. ASSUME NEW k \in Nat, NEW w \in {Pool, Wide, Deep}
        PROVE  Widened(k, w) \in Nat /\ Widened(k, w) >= k
    <2>1. w.factor \in Nat /\ w.limit \in Nat
        BY LookupAssumption
    <2>2. k * w.factor \in Nat
        BY <2>1, ProductsGrow
    <2>3. Lower(k * w.factor, w.limit) \in Nat
        BY <2>1, <2>2, LowerAndHigher
    <2> DEFINE l == Lower(k * w.factor, w.limit)
    <2>4. Widened(k, w) = Higher(k, l)
        BY DEF Widened
    <2> HIDE DEF l
    <2> QED
        BY <2>3, <2>4, LowerAndHigher DEF l
  <1>2. request.topK \in Nat
      BY RequestFacts
  <1>3. PoolSize \in Nat
      BY <1>1, <1>2 DEF PoolSize
  <1>4. SelectionSize \in Nat
      BY <1>1, <1>3 DEF SelectionSize
  <1>5. Lower(Deep.limit, SelectionSize * Deep.factor) \in Nat
    <2>1. Deep.factor \in Nat /\ Deep.limit \in Nat
        BY LookupAssumption
    <2>2. SelectionSize * Deep.factor \in Nat
        BY <1>4, <2>1, ProductsGrow
    <2> QED
        BY <2>1, <2>2, LowerAndHigher
  <1>6. Widened(SelectionSize, Deep) \in Nat /\ SelectionSize <= Widened(SelectionSize, Deep)
      BY <1>1, <1>4
  <1>7. SearchSize \in Nat
      BY <1>4, <1>5, <1>6 DEF SearchSize
  <1>8. request.strategy # "hierarchical" => SelectionSize <= SearchSize
      BY <1>4, <1>6 DEF SearchSize
  <1> QED
      BY <1>3, <1>4, <1>7, <1>8

-----------------------------------------------------------------------------
(* Steps.                                                                  *)

\* What every step leaves alone, and what each may change.
LEMMA Steps ==
    ASSUME Next
    PROVE  /\ request' = request
           /\ \/ Ingest
              \/ phase' = phase /\ raced' = raced
  <1>1. CASE Ingest
      BY <1>1 DEF Ingest
  <1>2. CASE Expand \/ ExpandFails \/ Fuse \/ Raise \/ Scan \/ Select \/ Balance \/ Validate
      BY <1>2 DEF Expand, ExpandFails, Fuse, Raise, Scan, Select, Balance, Validate
  <1>3. CASE SearchDocuments \/ SearchSections
      BY <1>3 DEF SearchDocuments, SearchSections, Narrow
  <1>4. CASE \E s \in Sources : Search(s) \/ SearchFails(s)
      BY <1>4 DEF Search, SearchFails
  <1>5. CASE RerankByModel \/ RerankByCrossEncoder \/ RerankFails
      BY <1>5 DEF RerankByModel, RerankByCrossEncoder, RerankFails, Reorder
  <1> QED
      BY <1>1, <1>2, <1>3, <1>4, <1>5 DEF Next

\* The lookup goes on, with the searches its strategy makes.
LEMMA ShapeStep ==
    ASSUME Shape, Next
    PROVE  Shape'
  <1>1. request' = request /\ FirstSources' = FirstSources
      BY Steps, QuestionStays
  <1>2. request \in Requests
      BY DEF Shape
  <1>3. CASE Expand \/ ExpandFails
    <2>1. pc = "expand" /\ pc' = "search" /\ within' = within /\ phase' = phase /\ raced' = raced
        BY <1>3 DEF Expand, ExpandFails
    <2>2. Sources' \in {{"original"}, {"original", "variant"}}
        BY <1>3 DEF Expand, ExpandFails, Sources, Unanswered
    <2> QED
        BY <1>1, <2>1, <2>2 DEF Shape
  <1>4. CASE SearchDocuments \/ SearchSections
    <2>1. PICK next \in {"sections", "search"}, S \in SUBSET within : Narrow(next, S)
      <3>1. CASE SearchDocuments
        <4>1. PICK S : Narrow("sections", {p \in within : <<p.doc, p.version>> \in S})
            BY <3>1 DEF SearchDocuments
        <4>2. {p \in within : <<p.doc, p.version>> \in S} \in SUBSET within
            OBVIOUS
        <4> QED
            BY <4>1, <4>2
      <3>2. CASE SearchSections
        <4> DEFINE sections == Matching \ request.flat
                   size == Lower(Sections, Cardinality(sections))
        <4>1. PICK S \in kSubset(size, sections) : Narrow("search", S)
            BY <3>2 DEF SearchSections
        <4>2. S \in SUBSET sections
            BY DEF kSubset
        <4>3. S \in SUBSET within
            BY <4>2 DEF Matching
        <4> QED
            BY <4>1, <4>3
      <3> QED
          BY <1>4, <3>1, <3>2
    <2>2. pc \in {"documents", "sections"}
        BY <1>4 DEF SearchDocuments, SearchSections
    <2>3. /\ within' = S /\ pc' \in {"scan", "sections", "search"} /\ Sources' = Sources
          /\ phase' = phase /\ raced' = raced
        BY <2>1 DEF Narrow, Sources
    <2>4. request.strategy = "hierarchical"
        BY <2>2 DEF Shape
    <2>5. within' \in SUBSET request.points
        BY <2>1, <2>3 DEF Shape
    <2> QED
        BY <1>1, <2>3, <2>4, <2>5 DEF Shape
  <1>5. ASSUME NEW s \in Sources, Search(s) \/ SearchFails(s) PROVE Shape'
    <2>1. /\ pc' = pc /\ within' = within /\ phase' = phase /\ raced' = raced
          /\ Sources' = Sources
        BY <1>5 DEF Search, SearchFails, Sources
    <2> QED
        BY <1>1, <2>1 DEF Shape
  <1>6. CASE Fuse \/ Raise \/ Select \/ Balance \/ Validate \/ RerankFails
    <2>1. /\ within' = within /\ phase' = phase /\ raced' = raced /\ found' = found
          /\ pc' \in {"scan", "raised", "rerank", "validate", "balance", "done"}
        BY <1>6 DEF Fuse, Raise, Select, Balance, Validate, RerankFails
    <2> QED
        BY <1>1, <2>1 DEF Shape, Sources, Ends
  <1>7. CASE RerankByModel \/ RerankByCrossEncoder
    <2>1. /\ within' = within /\ phase' = phase /\ raced' = raced /\ found' = found
          /\ pc' \in {"validate", "balance"}
        BY <1>7 DEF RerankByModel, RerankByCrossEncoder, Reorder
    <2> QED
        BY <1>1, <2>1 DEF Shape, Sources, Ends
  <1>8. CASE Scan
    <2>1. /\ pc' = FirstStep /\ within' = request.points /\ phase' = phase /\ raced' = raced
          /\ Sources' = FirstSources
        BY <1>8 DEF Scan, Start, Sources, Unanswered
    <2>2. /\ FirstStep \in {"documents", "expand", "search"}
          /\ FirstStep = "documents" => request.strategy = "hierarchical"
          /\ FirstStep = "expand" <=> request.strategy = "multi_query"
        BY DEF FirstStep
    <2>3. request.strategy = "multi_query" => FirstSources = {}
        BY DEF FirstSources
    <2> QED
        BY <1>1, <2>1, <2>2, <2>3 DEF Shape
  <1>9. CASE Ingest
    <2>1. /\ within' = within /\ found' = found /\ pc' = pc
          /\ phase' \in {"staged", "active"} /\ raced' = TRUE
        BY <1>9 DEF Ingest
    <2> QED
        BY <1>1, <2>1 DEF Shape, Sources
  <1> QED
      BY <1>3, <1>4, <1>5, <1>6, <1>7, <1>8, <1>9 DEF Next

\* Every chunk that must be found is in the list.
HasAll(list) ==
    \A p \in request.points : Sought(p) => \E i \in DOMAIN list : list[i].point = p

\* A search returns chunks that match.
LEMMA SearchFinds ==
    ASSUME Shape, NEW source, NEW S \in Findable(source), NEW ranking \in Rankings(S, SearchSize)
    PROVE  LET list == [i \in DOMAIN ranking |-> Hit(ranking[i])]
           IN /\ AllFit(list)
              /\ ~raced /\ Exhaustive /\ source # "keyword" => HasAll(list)
  <1> DEFINE m == Lower(SearchSize, Cardinality(S))
             list == [i \in DOMAIN ranking |-> Hit(ranking[i])]
  <1>1. S \subseteq Matching /\ Matching \subseteq request.points
    <2>1. Matching \subseteq request.points
        BY DEF Matching, Present
    <2> QED
        BY <2>1 DEF Findable
  <1>2. IsFiniteSet(S) /\ Cardinality(S) \in Nat /\ IsFiniteSet(request.points)
        /\ Cardinality(S) <= Cardinality(request.points)
        /\ Cardinality(request.points) \in Nat /\ request.points \in SUBSET Points
    <2>1. IsFiniteSet(request.points) /\ request.points \in SUBSET Points
        BY RequestFacts DEF Shape
    <2>2. S \in SUBSET request.points
        BY <1>1
    <2> QED
        BY <2>1, <2>2, FS_Subset, FS_CardinalityType
  <1>3. SearchSize \in Nat /\ SelectionSize \in Nat
        /\ (request.strategy # "hierarchical" => SelectionSize <= SearchSize)
      BY SizeFacts DEF Shape
  <1>4. m \in Nat /\ (Cardinality(S) <= SearchSize => m = Cardinality(S))
      BY <1>2, <1>3, LowerAndHigher
  <1>5. ranking \in [1..m -> S] /\ IsInjective(ranking)
      BY DEF Rankings
  <1> HIDE DEF m
  <1>6. DOMAIN list = 1..m /\ \A i \in 1..m : list[i] = Hit(ranking[i]) /\ ranking[i] \in S
      BY <1>5
  <1> HIDE DEF list
  <1>7. \A i \in 1..m : list[i] \in HitSet /\ list[i].point = ranking[i]
    <2> TAKE i \in 1..m
    <2> DEFINE q == ranking[i]
    <2>1. q \in Points
        BY <1>1, <1>2, <1>6
    <2>2. list[i] = Hit(q)
        BY <1>6
    <2> HIDE DEF q
    <2>3. Latest(q) \in BOOLEAN
      <3>1. CASE q.doc # Growing \/ phase = "active"
        <4>1. Latest(q) <=> q.version = Newest[q.doc]
            BY <3>1 DEF Latest
        <4> QED
            BY <3>1 DEF Latest
      <3>2. CASE ~(q.doc # Growing \/ phase = "active")
          BY <3>2 DEF Latest
      <3> QED
          BY <3>1, <3>2
    <2> QED
        BY <2>1, <2>2, <2>3 DEF Hit, HitSet, q
  <1>8. list \in HitLists
    <2>1. list \in Seq(HitSet)
      <3>1. list = [i \in 1..m |-> list[i]]
          BY <1>6 DEF list
      <3>2. list \in [1..m -> HitSet]
          BY <1>7, <3>1
      <3> QED
          BY <1>4, <3>2
    <2>2. Distinct(list)
        BY <1>5, <1>6, <1>7 DEF Distinct, IsInjective
    <2> QED
        BY <2>1, <2>2 DEF HitLists
  <1>9. ASSUME NEW i \in 1..m PROVE Fits(list[i])
    <2>1. list[i] = Hit(ranking[i]) /\ ranking[i] \in Matching
        BY <1>1, <1>6
    <2>2. list[i].point = ranking[i] /\ list[i].latest = Latest(ranking[i])
        BY <2>1 DEF Hit
    <2>3. /\ ranking[i] \in Present /\ ranking[i] \in request.points
          /\ CoarseMatch(ranking[i], Latest(ranking[i])) /\ InRange(ranking[i])
        BY <2>1 DEF Matching, Present
    <2> QED
        BY <2>1, <2>2, <2>3 DEF Fits
  <1>10. AllFit(list)
      BY <1>6, <1>8, <1>9 DEF AllFit
  <1>11. ASSUME ~raced, Exhaustive, source # "keyword", NEW p \in request.points, Sought(p)
         PROVE  \E i \in DOMAIN list : list[i].point = p
    <2>1. S = Matching
      <3>1. request.strategy # "hierarchical"
            /\ (request.strategy = "contextual" => request.plain = {})
          BY <1>11 DEF Exhaustive
      <3> QED
          BY <1>11, <3>1 DEF Findable
    <2>2. p \in S
      <3>1. within = request.points
          BY <1>11 DEF Shape, Exhaustive
      <3> QED
          BY <1>11, <2>1, <3>1 DEF Sought, Matching
    <2>3. m = Cardinality(S)
        BY <1>2, <1>3, <1>4, <1>11 DEF Exhaustive
    <2>4. Cardinality(1..m) = m
      <3>1. 1 \in Int /\ m \in Int
          BY <1>4
      <3>2. Cardinality(1..m) = IF 1 > m THEN 0 ELSE m - 1 + 1
          BY <3>1, FS_Interval
      <3> QED
          BY <1>4, <3>2
    <2>5. ranking \in Injection(1..m, S)
        BY <1>5 DEF Injection
    <2>6. ranking \in Surjection(1..m, S)
        BY <1>2, <2>3, <2>4, <2>5, FS_Injection
    <2>7. PICK i \in 1..m : ranking[i] = p
        BY <2>2, <2>6 DEF Surjection
    <2> QED
        BY <1>6, <1>7, <2>7
  <1> QED
      BY <1>10, <1>11 DEF HasAll, list

\* The fusion keeps the chunks that come first, or all if it need not cut.
LEMMA FuseFacts ==
    ASSUME Shape, Lists, Whole, Fuse
    PROVE  /\ AllFit(candidates')
           /\ Sources # {"vector"} =>
                 \A i \in DOMAIN candidates' : i \in DOMAIN Fused /\ candidates'[i] = Fused[i]
           /\ ~raced /\ Exhaustive =>
                 \A p \in request.points :
                    Sought(p) => \E i \in DOMAIN candidates' : candidates'[i].point = p
  <1> DEFINE all == IF Sources = {"vector"} THEN HitsOf("vector") ELSE Fused
  <1>1. FoundOk /\ request \in Requests
      BY FoundIsOk
  <1>2. candidates' = FirstOf(all, SelectionSize) /\ SelectionSize \in Nat
      BY <1>1, SizeFacts DEF Fuse
  <1>3. \/ Answered = Sources
        \/ request.strategy = "multi_query" /\ Answered # {}
      BY DEF Fuse
  <1>4. Answered \subseteq Sources
      BY DEF Answered
  <1>5. Sources = {"vector"} => "vector" \in Answered
    <2>1. request.strategy = "multi_query" => Sources # {"vector"}
        BY DEF Shape
    <2> QED
        BY <1>3, <2>1
  <1>6. \E s \in Answered : s # "keyword"
    <2>1. CASE request.strategy = "multi_query"
      <3>1. Sources \in {{"original"}, {"original", "variant"}}
          BY <2>1 DEF Shape, Fuse
      <3> QED
          BY <1>3, <1>4, <3>1
    <2>2. CASE request.strategy # "multi_query"
      <3>1. "vector" \in Sources
          BY <2>2 DEF Shape, FirstSources
      <3> QED
          BY <1>3, <2>2, <3>1
    <2> QED
        BY <2>1, <2>2
  <1>7. AllFit(all)
    <2>1. \A s \in Answered : AllFit(HitsOf(s))
        BY DEF Lists
    <2>2. /\ Fused \in HitLists
          /\ \A i \in DOMAIN Fused : \E s \in Answered : \E j \in DOMAIN HitsOf(s) :
                Fused[i] = HitsOf(s)[j]
        BY <1>1, FusedFacts
    <2>3. AllFit(Fused)
        BY <2>1, <2>2 DEF AllFit
    <2> QED
        BY <1>5, <2>1, <2>3
  <1> HIDE DEF all
  <1>8. all \in HitLists /\ \A i \in DOMAIN all : all[i].point \in request.points
      BY <1>7 DEF AllFit, Fits
  <1>9. /\ Picks(candidates', all)
        /\ \A i \in DOMAIN candidates' : i \in DOMAIN all /\ candidates'[i] = all[i]
        /\ Len(all) <= SelectionSize => candidates' = all
      BY <1>2, <1>8, FirstOfPicks
  <1>10. AllFit(candidates')
      BY <1>7, <1>9, PicksFit
  <1>11. ASSUME ~raced, Exhaustive, NEW p \in request.points, Sought(p)
         PROVE  \E i \in DOMAIN candidates' : candidates'[i].point = p
    <2>1. Len(all) <= SelectionSize
      <3>1. IsFiniteSet(request.points) /\ Cardinality(request.points) \in Nat
          BY <1>1, RequestFacts, FS_CardinalityType
      <3>2. Len(all) \in Nat /\ Len(all) <= Cardinality(request.points)
          BY <1>8, <3>1, ListsAreShort
      <3> QED
          BY <1>2, <1>11, <3>1, <3>2 DEF Exhaustive
    <2>2. candidates' = all
        BY <1>9, <2>1
    <2>3. \A s \in Answered \ {"keyword"} : p \in FoundPoints(s)
        BY <1>11 DEF Whole
    <2>4. CASE Sources = {"vector"}
      <3>1. p \in FoundPoints("vector")
          BY <1>5, <2>3, <2>4
      <3> QED
          BY <2>2, <2>4, <3>1 DEF FoundPoints, all
    <2>5. CASE Sources # {"vector"}
      <3>1. p \in AllFound
          BY <1>6, <2>3 DEF AllFound
      <3>2. \E i \in DOMAIN Fused : Fused[i].point = p
          BY <1>1, <3>1, FusedFacts
      <3> QED
          BY <2>2, <2>5, <3>2 DEF all
    <2> QED
        BY <2>4, <2>5
  <1> QED
      BY <1>9, <1>10, <1>11 DEF all

\* The index is as it was: lists that fit now fit then.
LEMMA ListsFrom ==
    ASSUME request' = request, phase' = phase, raced' = raced,
           \A s \in Answered' : AllFit(found'[s].hits), AllFit(candidates'), AllFit(selected')
    PROVE  Lists'
  <1>1. \A s \in Answered' : HitsOf(s)' = found'[s].hits
      BY DEF HitsOf
  <1> QED
      BY <1>1, IndexStays DEF Lists

\* Version selection, reranking and balancing pick from what there is.
LEMMA SelectedPicks ==
    ASSUME Shape, Lists
    PROVE  /\ Select => Picks(selected', candidates)
           /\ RerankByModel \/ RerankByCrossEncoder => Picks(selected', selected)
           /\ Balance => /\ Picks(selected', selected) /\ candidates' = selected
                         /\ Fair(selected', selected)
  <1>1. /\ request \in Requests /\ candidates \in HitLists /\ selected \in HitLists
        /\ request.topK \in Nat /\ PoolSize \in Nat
      BY RequestFacts, SizeFacts DEF Shape, Lists, AllFit
  <1>2. ASSUME Select PROVE Picks(selected', candidates)
    <2>1. \E I \in SUBSET DOMAIN candidates : SelectVersions(candidates) = EntriesAt(candidates, I)
        BY DEF SelectVersions
    <2>2. Picks(SelectVersions(candidates), candidates)
        BY <1>1, <2>1, EntriesAtPicks
    <2>3. SelectVersions(candidates) \in HitLists
        BY <2>2 DEF Picks
    <2>4. selected' = FirstOf(SelectVersions(candidates), PoolSize)
        BY <1>2 DEF Select
    <2>5. Picks(selected', SelectVersions(candidates))
        BY <1>1, <2>3, <2>4, FirstOfPicks
    <2> QED
        BY <2>2, <2>5, PicksFromPicks
  <1>3. ASSUME NEW S \in SUBSET DOMAIN selected, Reorder(S) PROVE Picks(selected', selected)
    <2>1. PICK pool \in Reordered(S) :
             selected' = IF request.fixed THEN FirstOf(pool, request.topK) ELSE pool
        BY <1>3 DEF Reorder
    <2>2. Picks(pool, selected)
        BY <1>1, ReorderedPicks
    <2>3. pool \in HitLists
        BY <2>2 DEF Picks
    <2>4. Picks(FirstOf(pool, request.topK), pool)
        BY <1>1, <2>3, FirstOfPicks
    <2> QED
        BY <2>1, <2>2, <2>4, PicksFromPicks
  <1>4. ASSUME RerankByModel \/ RerankByCrossEncoder PROVE Picks(selected', selected)
    <2>1. \E S \in SUBSET DOMAIN selected : Reorder(S)
        BY <1>4 DEF RerankByModel, RerankByCrossEncoder, Scored
    <2> QED
        BY <1>3, <2>1
  <1>5. ASSUME Balance
        PROVE  Picks(selected', selected) /\ candidates' = selected /\ Fair(selected', selected)
    <2>1. selected' = Balanced(selected) /\ candidates' = selected
        BY <1>5 DEF Balance
    <2> QED
        BY <1>1, <2>1, BalancedFacts
  <1> QED
      BY <1>2, <1>4, <1>5

\* Every list of hits fits.
LEMMA ListsStep ==
    ASSUME Shape, Lists, Whole, Next
    PROVE  Lists'
  <1>1. request' = request
      BY Steps
  <1>2. \A s \in Answered : AllFit(found[s].hits)
      BY DEF Lists, HitsOf
  <1>3. AllFit(candidates) /\ AllFit(selected)
      BY DEF Lists
  <1>4. found' = found => \A s \in Answered' : AllFit(found'[s].hits)
      BY <1>2, ResultsStay
  <1>5. CASE Expand \/ ExpandFails \/ Scan
    <2>1. phase' = phase /\ raced' = raced /\ candidates' = candidates /\ selected' = selected
        BY <1>5 DEF Expand, ExpandFails, Scan
    <2>2. PICK sources : found' = Unanswered(sources)
        BY <1>5 DEF Expand, ExpandFails, Scan, Start
    <2>3. Answered' = {}
        BY <2>2 DEF Answered, Sources, Unanswered, Pending
    <2> QED
        BY <1>1, <1>3, <2>1, <2>3, ListsFrom
  <1>6. ASSUME NEW source \in Sources, Search(source) PROVE Lists'
    <2>1. phase' = phase /\ raced' = raced /\ candidates' = candidates /\ selected' = selected
        BY <1>6 DEF Search
    <2>2. PICK S \in Findable(source) : \E ranking \in Rankings(S, SearchSize) :
             found' = [found EXCEPT ![source] =
                          Returned([i \in DOMAIN ranking |-> Hit(ranking[i])])]
        BY <1>6 DEF Search
    <2>3. PICK ranking \in Rankings(S, SearchSize) :
             found' = [found EXCEPT ![source] =
                          Returned([i \in DOMAIN ranking |-> Hit(ranking[i])])]
        BY <2>2
    <2> DEFINE list == [i \in DOMAIN ranking |-> Hit(ranking[i])]
    <2>4. AllFit(list)
        BY SearchFinds
    <2>5. found' = [found EXCEPT ![source] = Returned(list)]
        BY <2>3
    <2> HIDE DEF list
    <2>6. \A s \in Answered' : AllFit(found'[s].hits)
        BY <1>2, <2>4, <2>5 DEF Answered, Sources, Returned
    <2> QED
        BY <1>1, <1>3, <2>1, <2>6, ListsFrom
  <1>7. ASSUME NEW source \in Sources, SearchFails(source) PROVE Lists'
    <2>1. phase' = phase /\ raced' = raced /\ candidates' = candidates /\ selected' = selected
        BY <1>7 DEF SearchFails
    <2>2. found' = [found EXCEPT ![source] = Failed]
        BY <1>7 DEF SearchFails
    <2>3. \A s \in Answered' : AllFit(found'[s].hits)
        BY <1>2, <2>2 DEF Answered, Sources, Failed
    <2> QED
        BY <1>1, <1>3, <2>1, <2>3, ListsFrom
  <1>8. CASE Fuse
    <2>1. phase' = phase /\ raced' = raced /\ found' = found /\ selected' = selected
        BY <1>8 DEF Fuse
    <2>2. AllFit(candidates')
        BY <1>8, FuseFacts
    <2> QED
        BY <1>1, <1>3, <1>4, <2>1, <2>2, ListsFrom
  <1>9. CASE SearchDocuments \/ SearchSections \/ Raise \/ RerankFails \/ Validate
    <2>1. /\ phase' = phase /\ raced' = raced /\ found' = found
          /\ candidates' = candidates /\ selected' = selected
        BY <1>9 DEF SearchDocuments, SearchSections, Narrow, Raise, RerankFails, Validate
    <2> QED
        BY <1>1, <1>3, <1>4, <2>1, ListsFrom
  <1>10. CASE Select \/ RerankByModel \/ RerankByCrossEncoder
    <2>1. /\ phase' = phase /\ raced' = raced /\ found' = found /\ candidates' = candidates
        BY <1>10 DEF Select, RerankByModel, RerankByCrossEncoder, Reorder
    <2>2. AllFit(selected')
        BY <1>3, <1>10, SelectedPicks, PicksFit
    <2> QED
        BY <1>1, <1>3, <1>4, <2>1, <2>2, ListsFrom
  <1>11. CASE Balance
    <2>1. phase' = phase /\ raced' = raced /\ found' = found
        BY <1>11 DEF Balance
    <2>2. AllFit(selected') /\ AllFit(candidates')
        BY <1>3, <1>11, SelectedPicks, PicksFit
    <2> QED
        BY <1>1, <1>4, <2>1, <2>2, ListsFrom
  <1>12. CASE Ingest
    <2>1. raced' = TRUE /\ found' = found /\ candidates' = candidates /\ selected' = selected
        BY <1>12 DEF Ingest
    <2>2. \A s \in Answered' : HitsOf(s)' = found'[s].hits
        BY DEF HitsOf
    <2> QED
        BY <1>1, <1>3, <1>4, <2>1, <2>2, IndexChanges DEF Lists
  <1> QED
      BY <1>5, <1>6, <1>7, <1>8, <1>9, <1>10, <1>11, <1>12 DEF Next

\* The index is as it was: what must be found has not changed.
LEMMA WholeFrom ==
    ASSUME request' = request, phase' = phase, raced' = raced,
           ~raced /\ Exhaustive =>
               /\ \A s \in Answered' \ {"keyword"} : \A p \in request.points :
                     Sought(p) => \E i \in DOMAIN found'[s].hits : found'[s].hits[i].point = p
               /\ pc' = "scan" => \A p \in request.points :
                     Sought(p) => \E i \in DOMAIN candidates' : candidates'[i].point = p
    PROVE  Whole'
  <1>1. \A s : FoundPoints(s)' = {found'[s].hits[i].point : i \in DOMAIN found'[s].hits}
      BY DEF FoundPoints, HitsOf
  <1>2. \A s, p : (\E i \in DOMAIN found'[s].hits : found'[s].hits[i].point = p)
                     => p \in FoundPoints(s)'
      BY <1>1
  <1>3. (Exhaustive' <=> Exhaustive) /\ \A p : Sought(p)' <=> Sought(p)
      BY IndexStays, QuestionStays
  <1> QED
      BY <1>2, <1>3 DEF Whole

\* A lookup that cuts nothing off finds all there is.
LEMMA WholeStep ==
    ASSUME Shape, Lists, Whole, Next
    PROVE  Whole'
  <1>1. request' = request
      BY Steps
  <1>2. ~raced /\ Exhaustive =>
           \A s \in Answered \ {"keyword"} : \A p \in request.points :
              Sought(p) => \E i \in DOMAIN found[s].hits : found[s].hits[i].point = p
      BY DEF Whole, FoundPoints, HitsOf
  <1>3. found' = found =>
           (~raced /\ Exhaustive =>
              \A s \in Answered' \ {"keyword"} : \A p \in request.points :
                 Sought(p) => \E i \in DOMAIN found'[s].hits : found'[s].hits[i].point = p)
      BY <1>2, ResultsStay
  <1>4. CASE Expand \/ ExpandFails \/ Scan
    <2>1. phase' = phase /\ raced' = raced /\ pc' # "scan"
        BY <1>4 DEF Expand, ExpandFails, Scan, Start, FirstStep
    <2>2. PICK sources : found' = Unanswered(sources)
        BY <1>4 DEF Expand, ExpandFails, Scan, Start
    <2>3. Answered' = {}
        BY <2>2 DEF Answered, Sources, Unanswered, Pending
    <2> QED
        BY <1>1, <2>1, <2>3, WholeFrom
  <1>5. ASSUME NEW source \in Sources, Search(source) PROVE Whole'
    <2>1. phase' = phase /\ raced' = raced /\ pc' = "search"
        BY <1>5 DEF Search
    <2>2. PICK S \in Findable(source) : \E ranking \in Rankings(S, SearchSize) :
             found' = [found EXCEPT ![source] =
                          Returned([i \in DOMAIN ranking |-> Hit(ranking[i])])]
        BY <1>5 DEF Search
    <2>3. PICK ranking \in Rankings(S, SearchSize) :
             found' = [found EXCEPT ![source] =
                          Returned([i \in DOMAIN ranking |-> Hit(ranking[i])])]
        BY <2>2
    <2> DEFINE list == [i \in DOMAIN ranking |-> Hit(ranking[i])]
    <2>4. ~raced /\ Exhaustive /\ source # "keyword" => HasAll(list)
        BY SearchFinds
    <2>5. found' = [found EXCEPT ![source] = Returned(list)]
        BY <2>3
    <2> HIDE DEF list
    <2>6. ASSUME ~raced, Exhaustive, NEW s \in Answered' \ {"keyword"},
                 NEW p \in request.points, Sought(p)
          PROVE  \E i \in DOMAIN found'[s].hits : found'[s].hits[i].point = p
      <3>1. CASE s = source
        <4>1. found'[s].hits = list
            BY <2>5, <3>1 DEF Sources, Returned
        <4> QED
            BY <2>4, <2>6, <3>1, <4>1 DEF HasAll
      <3>2. CASE s # source
        <4>1. s \in Answered /\ found'[s] = found[s]
            BY <2>5, <3>2 DEF Answered, Sources
        <4> QED
            BY <1>2, <2>6, <4>1
      <3> QED
          BY <3>1, <3>2
    <2> QED
        BY <1>1, <2>1, <2>6, WholeFrom
  <1>6. ASSUME NEW source \in Sources, SearchFails(source) PROVE Whole'
    <2>1. phase' = phase /\ raced' = raced /\ pc' = "search"
        BY <1>6 DEF SearchFails
    <2>2. found' = [found EXCEPT ![source] = Failed]
        BY <1>6 DEF SearchFails
    <2>3. \A s \in Answered' : s \in Answered /\ found'[s] = found[s]
        BY <2>2 DEF Answered, Sources, Failed
    <2> QED
        BY <1>1, <1>2, <2>1, <2>3, WholeFrom
  <1>7. CASE Fuse
    <2>1. phase' = phase /\ raced' = raced /\ found' = found
        BY <1>7 DEF Fuse
    <2> QED
        BY <1>1, <1>3, <1>7, <2>1, FuseFacts, WholeFrom
  <1>8. CASE SearchDocuments \/ SearchSections
    <2>1. phase' = phase /\ raced' = raced /\ found' = found /\ pc \in {"documents", "sections"}
        BY <1>8 DEF SearchDocuments, SearchSections, Narrow
    <2>2. ~Exhaustive
        BY <2>1 DEF Shape, Exhaustive
    <2> QED
        BY <1>1, <2>1, <2>2, WholeFrom
  <1>9. CASE Raise \/ Select \/ Balance \/ Validate \/ RerankByModel \/ RerankByCrossEncoder
             \/ RerankFails
    <2>1. phase' = phase /\ raced' = raced /\ found' = found /\ pc' # "scan"
        BY <1>9 DEF Raise, Select, Balance, Validate, RerankByModel, RerankByCrossEncoder,
                    RerankFails, Reorder
    <2> QED
        BY <1>1, <1>3, <2>1, WholeFrom
  <1>10. CASE Ingest
      BY <1>10 DEF Ingest, Whole
  <1> QED
      BY <1>4, <1>5, <1>6, <1>7, <1>8, <1>9, <1>10 DEF Next

\* The selection keeps the versions that were asked for.
LEMMA SelectIsProper ==
    ASSUME Shape, Lists, Whole, Select
    PROVE  Proper(selected')
  <1> DEFINE scoped == {i \in DOMAIN candidates :
                           Named(candidates[i].point) /\ InRange(candidates[i].point)}
             numbers(d) == {candidates[i].point.version :
                               i \in {j \in scoped : candidates[j].point.doc = d}}
             I == {i \in scoped : Kept(candidates[i].point.version,
                                       numbers(candidates[i].point.doc))}
             s == EntriesAt(candidates, I)
  <1>1. /\ request \in Requests /\ candidates \in HitLists /\ PoolSize \in Nat
        /\ candidates \in Seq(HitSet)
        /\ \A i \in DOMAIN candidates : Fits(candidates[i])
      BY SizeFacts DEF Shape, Lists, AllFit, HitLists
  <1>2. SelectVersions(candidates) = s
      BY DEF SelectVersions
  <1>3. I \in SUBSET DOMAIN candidates /\ scoped \in SUBSET DOMAIN candidates
      OBVIOUS
  <1>4. \A i \in I : /\ Named(candidates[i].point) /\ i \in scoped
                     /\ Kept(candidates[i].point.version, numbers(candidates[i].point.doc))
                     /\ candidates[i].point.version \in numbers(candidates[i].point.doc)
      OBVIOUS
  <1>5. ASSUME NEW d PROVE numbers(d) \in SUBSET Nat /\ IsFiniteSet(numbers(d))
    <2> DEFINE J == {j \in scoped : candidates[j].point.doc = d}
               v == [i \in J |-> candidates[i].point.version]
    <2>1. J \in SUBSET DOMAIN candidates
        OBVIOUS
    <2>2. numbers(d) = {v[i] : i \in J}
        OBVIOUS
    <2>3. \A i \in J : v[i] \in Nat
      <3> TAKE i \in J
      <3>1. candidates[i].point \in request.points
          BY <1>1, <2>1 DEF Fits
      <3> QED
          BY <1>1, <3>1, RequestFacts
    <2> HIDE DEF J, v, numbers
    <2>4. IsFiniteSet(J)
        BY <1>1, <2>1, EntriesAtLists
    <2> QED
        BY <2>2, <2>3, <2>4, FiniteImage
  <1>6. ASSUME Settled, NEW i \in I
        PROVE  Asked(candidates[i].point.version, Scoped(candidates[i].point.doc))
    <2> DEFINE h == candidates[i]
               p == candidates[i].point
               N == numbers(p.doc)
    <2>1. Fits(h) /\ ~raced
        BY <1>1, <1>3, <1>6 DEF Settled
    <2>2. /\ p \in request.points /\ p \in Present /\ h = Hit(p)
          /\ CoarseMatch(p, h.latest) /\ InRange(p) /\ Named(p)
        BY <1>4, <2>1 DEF Fits
    <2>3. CoarseMatch(p, Latest(p))
        BY <2>2 DEF Hit
    <2>4. CASE DecidedByStores
      <3>1. phase \in {"before", "active"}
          BY <1>6 DEF Settled, Shape
      <3> QED
          BY <1>1, <2>2, <2>3, <2>4, <3>1, DecidedIsAsked
    <2>5. CASE ~DecidedByStores
      <3>1. Exhaustive /\ ~(Historical /\ ~request.dated)
          BY <1>6, <2>5 DEF Settled
      <3>2. request.mode \in Modes /\ request.dated \in BOOLEAN
          BY <1>1, RequestFacts
      <3>3. CASE request.mode = "specific"
        <4>1. p.version \in request.numbers
            BY <2>2, <3>3 DEF CoarseMatch
        <4> QED
            BY <3>3, <4>1 DEF Asked
      <3>4. CASE request.mode # "specific"
        <4>1. request.dated \/ request.mode = "latest_and_previous"
            BY <2>5, <3>1, <3>2, <3>4 DEF DecidedByStores, Historical, Modes
        <4>2. \A q, l : CoarseMatch(q, l)
            BY <3>4, <4>1 DEF CoarseMatch
        <4>3. N = Scoped(p.doc)
          <5>1. ASSUME NEW n \in N PROVE n \in Scoped(p.doc)
            <6>1. PICK j \in scoped : candidates[j].point.doc = p.doc
                                      /\ candidates[j].point.version = n
                OBVIOUS
            <6>2. Fits(candidates[j]) /\ InRange(candidates[j].point)
                BY <1>1
            <6>3. candidates[j].point \in Present
                BY <2>1, <6>2 DEF Fits
            <6> QED
                BY <6>1, <6>2, <6>3 DEF Scoped
          <5>2. ASSUME NEW q \in Present, q.doc = p.doc, InRange(q) PROVE q.version \in N
            <6>1. Named(q)
                BY <2>2, <5>2 DEF Named
            <6>2. Sought(q) /\ q \in request.points
                BY <4>2, <5>2, <6>1 DEF Sought, Present
            <6>3. PICK j \in DOMAIN candidates : candidates[j].point = q
                BY <2>1, <3>1, <6>2 DEF Whole, Select
            <6>4. j \in scoped /\ candidates[j].point.doc = p.doc
                BY <5>2, <6>1, <6>3
            <6> QED
                BY <6>3, <6>4
          <5> HIDE DEF N
          <5> QED
              BY <5>1, <5>2 DEF Scoped
        <4>4. /\ N \in SUBSET Nat /\ IsFiniteSet(N)
              /\ p.version \in N /\ Kept(p.version, N)
            BY <1>4, <1>5
        <4> HIDE DEF N, p
        <4>5. Asked(p.version, N)
            BY <4>4, KeptIsAsked
        <4> QED
            BY <4>3, <4>5 DEF p
      <3> QED
          BY <3>3, <3>4
    <2> QED
        BY <2>4, <2>5
  <1>7. ASSUME request.mode \in {"latest", "oldest", "previous"}, NEW i \in I, NEW j \in I,
               candidates[i].point.doc = candidates[j].point.doc
        PROVE  candidates[i].point.version = candidates[j].point.version
    <2> DEFINE N == numbers(candidates[i].point.doc)
               n == candidates[i].point.version
               m == candidates[j].point.version
    <2>1. N \in SUBSET Nat /\ IsFiniteSet(N)
        BY <1>5
    <2>2. n \in N /\ m \in N /\ Kept(n, N) /\ Kept(m, N)
        BY <1>4, <1>7
    <2> HIDE DEF N, n, m
    <2>3. n = m
        BY <1>7, <2>1, <2>2, OneIsKept
    <2> QED
        BY <2>3 DEF n, m
  <1> HIDE DEF I, scoped, numbers
  <1>8. Picks(s, candidates) /\ \A i \in DOMAIN s : \E j \in I : s[i] = candidates[j]
      BY <1>1, <1>3, EntriesAtPicks
  <1> HIDE DEF s
  <1>9. Proper(s)
      BY <1>4, <1>6, <1>7, <1>8 DEF Proper
  <1>10. Picks(selected', s)
    <2>1. s \in HitLists
        BY <1>8 DEF Picks
    <2> QED
        BY <1>1, <1>2, <2>1, FirstOfPicks DEF Select
  <1> QED
      BY <1>9, <1>10, PicksAreProper

\* So do the later steps.
LEMMA ProperStep ==
    ASSUME Shape, Lists, Whole, Proper(selected), Next
    PROVE  Proper(selected)'
  <1>1. request' = request
      BY Steps
  <1>2. CASE Ingest
    <2>1. raced' = TRUE /\ selected' = selected
        BY <1>2 DEF Ingest
    <2> QED
        BY <1>1, <2>1, IndexChanges
  <1>3. ASSUME phase' = phase, raced' = raced, Proper(selected') PROVE Proper(selected)'
      BY <1>1, <1>3, IndexStays
  <1>4. CASE Select
      BY <1>3, <1>4, SelectIsProper DEF Select
  <1>5. CASE RerankByModel \/ RerankByCrossEncoder \/ Balance
    <2>1. Picks(selected', selected)
        BY <1>5, SelectedPicks
    <2>2. phase' = phase /\ raced' = raced
        BY <1>5 DEF RerankByModel, RerankByCrossEncoder, Reorder, Balance
    <2> QED
        BY <1>3, <2>1, <2>2, PicksAreProper
  <1>6. CASE Expand \/ ExpandFails \/ SearchDocuments \/ SearchSections \/ Fuse \/ Raise \/ Scan
             \/ Validate \/ RerankFails
    <2>1. phase' = phase /\ raced' = raced /\ selected' = selected
        BY <1>6 DEF Expand, ExpandFails, SearchDocuments, SearchSections, Narrow, Fuse, Raise,
                    Scan, Validate, RerankFails
    <2> QED
        BY <1>3, <2>1
  <1>7. CASE \E s \in Sources : Search(s) \/ SearchFails(s)
    <2>1. phase' = phase /\ raced' = raced /\ selected' = selected
        BY <1>7 DEF Search, SearchFails
    <2> QED
        BY <1>3, <2>1
  <1> QED
      BY <1>2, <1>4, <1>5, <1>6, <1>7 DEF Next

\* The validation reads a constraint as the stores and the selection do.
LEMMA FitsIsValid ==
    ASSUME request \in Requests, NEW h, Fits(h), Named(h.point)
    PROVE  Validates(h)
  <1>1. InRange(h.point) /\ CoarseMatch(h.point, h.latest)
      BY DEF Fits
  <1>2. request.dated \in BOOLEAN
      BY RequestFacts
  <1>3. request.mode = "specific" => h.point.version \in request.numbers
      BY <1>1 DEF CoarseMatch
  <1>4. request.mode = "latest" => request.dated \/ h.latest
      BY <1>1 DEF CoarseMatch
  <1>5. request.mode = "oldest" => request.dated \/ h.point.version = 1
      BY <1>1 DEF CoarseMatch
  <1>6. request.mode \in {"previous", "all_except_latest"} => request.dated \/ ~h.latest
      BY <1>1 DEF CoarseMatch
  <1>7. request.mode = "oldest_and_latest" =>
           request.dated \/ h.point.version = 1 \/ h.latest
      BY <1>1 DEF CoarseMatch
  <1> QED
      BY <1>1, <1>3, <1>4, <1>5, <1>6, <1>7 DEF Validates

\* What was selected is returned.
LEMMA EndingStep ==
    ASSUME Shape, Lists, Proper(selected), Ending, Next
    PROVE  Ending'
  <1>1. CASE Validate
    <2>1. /\ request \in Requests /\ selected \in Seq(HitSet)
          /\ \A i \in DOMAIN selected : Fits(selected[i]) /\ Named(selected[i].point)
        BY DEF Shape, Lists, AllFit, HitLists, Proper
    <2>2. \A i \in DOMAIN selected : Validates(selected[i])
        BY <2>1, FitsIsValid
    <2>3. {i \in DOMAIN selected : Validates(selected[i])} = DOMAIN selected
        BY <2>2
    <2>4. result' = selected /\ selected' = selected /\ pc' = "done"
        BY <1>1, <2>1, <2>3, EntriesAtAll DEF Validate
    <2> QED
        BY <2>4 DEF Ending
  <1>2. CASE Expand \/ ExpandFails \/ SearchDocuments \/ SearchSections \/ Fuse \/ Raise \/ Scan
             \/ Select \/ Balance \/ RerankByModel \/ RerankByCrossEncoder \/ RerankFails
    <2>1. result' = result /\ pc # "done" /\ pc' # "done"
        BY <1>2 DEF Expand, ExpandFails, SearchDocuments, SearchSections, Narrow, Fuse, Raise,
                    Scan, Start, FirstStep, Select, Balance, RerankByModel,
                    RerankByCrossEncoder, RerankFails, Reorder
    <2> QED
        BY <2>1 DEF Ending
  <1>3. CASE (\E s \in Sources : Search(s) \/ SearchFails(s)) \/ Ingest
    <2>1. result' = result /\ pc # "done" /\ pc' = pc
        BY <1>3 DEF Search, SearchFails, Ingest, Ends
    <2> QED
        BY <2>1 DEF Ending
  <1> QED
      BY <1>1, <1>2, <1>3 DEF Next

\* The order of the fusion.
LEMMA FusionStep ==
    ASSUME Shape, Lists, Whole, FusionRespectsRanks, Next
    PROVE  FusionRespectsRanks'
  <1>1. CASE Fuse
    <2>1. found' = found /\ FoundOk /\ request \in Requests
        BY <1>1, FoundIsOk DEF Fuse
    <2> SUFFICES ASSUME Cardinality(Sources) = 2,
                        NEW i \in DOMAIN candidates', NEW j \in DOMAIN candidates', i < j
                 PROVE  \E s \in Answered :
                           /\ candidates'[i].point \in FoundPoints(s)
                           /\ candidates'[j].point \in FoundPoints(s) =>
                                 RankIn(s, candidates'[i].point) < RankIn(s, candidates'[j].point)
        BY <2>1, ResultsStay DEF FusionRespectsRanks
    <2>2. Sources # {"vector"}
        BY FS_Singleton
    <2>3. /\ i \in DOMAIN Fused /\ candidates'[i] = Fused[i]
          /\ j \in DOMAIN Fused /\ candidates'[j] = Fused[j]
        BY <1>1, <2>2, FuseFacts
    <2> QED
        BY <2>1, <2>3, FusionFollowsRanks
  <1>2. CASE SearchDocuments \/ SearchSections
    <2>1. Sources' = Sources /\ pc \in {"documents", "sections"}
        BY <1>2, ResultsStay DEF SearchDocuments, SearchSections, Narrow
    <2>2. Sources = {"vector"}
        BY <2>1 DEF Shape, FirstSources
    <2>3. Cardinality(Sources) = 1
        BY <2>2, FS_Singleton
    <2>4. Cardinality(Sources') = Cardinality(Sources)
        BY <2>1
    <2>5. Cardinality(Sources') # 2
        BY <2>3, <2>4
    <2> QED
        BY <2>5 DEF FusionRespectsRanks
  <1>3. CASE Ingest
    <2>1. found' = found /\ candidates' = candidates /\ pc' = pc
        BY <1>3 DEF Ingest
    <2> QED
        BY <2>1, ResultsStay DEF FusionRespectsRanks
  <1>4. CASE \/ Expand \/ ExpandFails \/ Raise \/ Scan \/ Select \/ Balance \/ Validate
             \/ RerankByModel \/ RerankByCrossEncoder \/ RerankFails
             \/ \E s \in Sources : Search(s) \/ SearchFails(s)
    <2>1. pc' # "scan"
        BY <1>4 DEF Expand, ExpandFails, Raise, Scan, Start, FirstStep, Select, Balance, Validate,
                    RerankByModel, RerankByCrossEncoder, RerankFails, Reorder, Search, SearchFails
    <2> QED
        BY <2>1 DEF FusionRespectsRanks
  <1> QED
      BY <1>1, <1>2, <1>3, <1>4 DEF Next

\* A balanced list keeps its promises.
LEMMA BalanceStep ==
    ASSUME Shape, Lists, BalancedFairly, Next
    PROVE  BalancedFairly'
  <1>1. request' = request
      BY Steps
  <1>2. BalancedFairly <=> (pc \in {"validate", "done"} /\ ~request.fixed => Fair(selected, candidates))
      BY DEF BalancedFairly, Fair
  <1>3. BalancedFairly' <=> (pc' \in {"validate", "done"} /\ ~request.fixed =>
                                Fair(selected', candidates'))
    <2>1. BalancedFairly' <=> (pc' \in {"validate", "done"} /\ ~request'.fixed =>
                                Fair(selected, candidates)')
        BY DEF BalancedFairly, Fair
    <2> QED
        BY <1>1, <2>1, QuestionStays
  <1>4. CASE Balance
      BY <1>3, <1>4, SelectedPicks
  <1>5. CASE Validate \/ Ingest
    <2>1. /\ selected' = selected /\ candidates' = candidates
          /\ pc' \in {"validate", "done"} => pc \in {"validate", "done"}
        BY <1>5 DEF Validate, Ingest
    <2> QED
        BY <1>2, <1>3, <2>1
  <1>6. CASE \/ Expand \/ ExpandFails \/ SearchDocuments \/ SearchSections \/ Fuse \/ Raise \/ Scan
             \/ Select \/ RerankByModel \/ RerankByCrossEncoder \/ RerankFails
             \/ \E s \in Sources : Search(s) \/ SearchFails(s)
    <2>1. pc' \notin {"validate", "done"} \/ request.fixed
        BY <1>6 DEF Expand, ExpandFails, SearchDocuments, SearchSections, Narrow, Fuse, Raise,
                    Scan, Start, FirstStep, Select, RerankByModel, RerankByCrossEncoder,
                    RerankFails, Reorder, Search, SearchFails
    <2> QED
        BY <1>3, <2>1
  <1> QED
      BY <1>4, <1>5, <1>6 DEF Next

-----------------------------------------------------------------------------
(* The invariant.                                                          *)

\* A lookup begins with nothing found.
LEMMA InitIInv ==
    ASSUME Init
    PROVE  IInv
  <1>1. request \in Requests /\ raced = FALSE /\ pc = FirstStep /\ within = request.points
        /\ phase \in {"before", "staged", "active"}
      BY DEF Init
  <1>2. Sources = FirstSources /\ Answered = {}
      BY DEF Init, Sources, Answered, Unanswered, Pending
  <1>3. AllFit(<<>>) /\ Proper(<<>>)
    <2>1. <<>> \in Seq(HitSet) /\ DOMAIN <<>> = {}
        OBVIOUS
    <2> QED
        BY <2>1 DEF AllFit, HitLists, Distinct, Proper
  <1>4. /\ FirstStep \in {"documents", "expand", "search"}
        /\ FirstStep = "documents" => request.strategy = "hierarchical"
        /\ FirstStep = "expand" <=> request.strategy = "multi_query"
        /\ request.strategy = "multi_query" => FirstSources = {}
      BY DEF FirstStep, FirstSources
  <1>5. Shape
      BY <1>1, <1>2, <1>4 DEF Shape
  <1>6. Lists
      BY <1>2, <1>3 DEF Init, Lists
  <1>7. Whole
      BY <1>1, <1>2, <1>4 DEF Whole
  <1>8. Ending /\ FusionRespectsRanks /\ BalancedFairly
      BY <1>1, <1>4 DEF Init, Ending, FusionRespectsRanks, BalancedFairly
  <1> QED
      BY <1>3, <1>5, <1>6, <1>7, <1>8 DEF Init, IInv

\* Every step preserves the invariant.
LEMMA IInvStep ==
    ASSUME IInv, [Next]_vars
    PROVE  IInv'
  <1>1. CASE Next
      BY <1>1, ShapeStep, ListsStep, WholeStep, ProperStep, EndingStep, FusionStep, BalanceStep
         DEF IInv
  <1>2. CASE UNCHANGED vars
    <2>1. /\ request' = request /\ phase' = phase /\ raced' = raced /\ pc' = pc
          /\ within' = within /\ found' = found
          /\ candidates' = candidates /\ selected' = selected /\ result' = result
        BY <1>2 DEF vars
    <2>2. Shape'
        BY <2>1, QuestionStays, ResultsStay DEF IInv, Shape
    <2>3. Lists'
        BY <2>1, IndexStays, ResultsStay DEF IInv, Lists
    <2>4. Whole'
        BY <2>1, IndexStays, QuestionStays, ResultsStay DEF IInv, Whole
    <2>5. Proper(selected)'
        BY <2>1, IndexStays DEF IInv
    <2>6. Ending'
        BY <2>1 DEF IInv, Ending
    <2>7. FusionRespectsRanks'
        BY <2>1, ResultsStay DEF IInv, FusionRespectsRanks
    <2>8. BalancedFairly'
      <3>1. \A g, o : Fair(g, o)' <=> Fair(g, o)
          BY <2>1, QuestionStays
      <3> QED
          BY <2>1, <3>1 DEF IInv, BalancedFairly, Fair
    <2> QED
        BY <2>2, <2>3, <2>4, <2>5, <2>6, <2>7, <2>8 DEF IInv
  <1> QED
      BY <1>1, <1>2

\* The invariant holds in every state a lookup reaches.
THEOREM IInvAlways == Spec => []IInv
  BY InitIInv, IInvStep, PTL DEF Spec

\* The lists of a lookup hold chunks of the index, each once.
LEMMA IInvTypes ==
    ASSUME IInv
    PROVE  TypeOK
  <1>1. ASSUME NEW s, AllFit(s) PROVE HitsOver(s)
    <2>1. s \in HitLists /\ Distinct(s)
        BY <1>1 DEF AllFit, HitLists
    <2>2. \A i \in DOMAIN s : raced \/ s[i] = Hit(s[i].point)
        BY <1>1 DEF AllFit, Fits
    <2> QED
        BY <2>1, <2>2 DEF HitsOver, Distinct
  <1>2. AllFit(<<>>)
    <2>1. <<>> \in Seq(HitSet) /\ DOMAIN <<>> = {}
        OBVIOUS
    <2> QED
        BY <2>1 DEF AllFit, HitLists, Distinct
  <1>3. AllFit(result)
      BY <1>2 DEF IInv, Ending, Lists
  <1> QED
      BY <1>1, <1>3 DEF IInv, Shape, Lists, TypeOK

THEOREM TypesHold == Spec => []TypeOK
  BY IInvAlways, IInvTypes, PTL

\* The validation takes nothing away.
THEOREM NothingIsRejected == Spec => []NothingRejected
  <1>1. IInv => NothingRejected
      BY DEF IInv, Ending, NothingRejected
  <1> QED
      BY <1>1, IInvAlways, PTL

\* A lookup returns the versions it was asked for.
LEMMA IInvVersions ==
    ASSUME IInv
    PROVE  VersionsAsAsked
  <1>1. \A i \in DOMAIN result : pc = "done" /\ result = selected
      BY DEF IInv, Ending
  <1>2. Shape /\ Lists /\ Proper(selected)
      BY DEF IInv
  <1>3. ASSUME Undisturbed, DecidedByStores \/ Exhaustive, ~(Historical /\ ~request.dated),
               NEW i \in DOMAIN result
        PROVE  LET p == result[i].point
               IN Asked(p.version, Scoped(p.doc)) /\ InRange(p) /\ Named(p)
    <2>1. Settled
        BY <1>3 DEF Settled, Undisturbed
    <2>2. i \in DOMAIN selected /\ result[i] = selected[i]
        BY <1>1, <1>3
    <2>3. Fits(selected[i])
        BY <1>2, <2>2 DEF Lists, AllFit
    <2>4. InRange(selected[i].point)
        BY <2>3 DEF Fits
    <2>5. /\ Named(selected[i].point)
          /\ Asked(selected[i].point.version, Scoped(selected[i].point.doc))
        BY <1>2, <2>1, <2>2 DEF Proper
    <2> QED
        BY <2>2, <2>4, <2>5
  <1>4. ASSUME request.mode \in {"latest", "oldest", "previous"},
               NEW i \in DOMAIN result, NEW j \in DOMAIN result,
               result[i].point.doc = result[j].point.doc
        PROVE  result[i].point.version = result[j].point.version
      BY <1>1, <1>2, <1>4 DEF Proper
  <1> QED
      BY <1>3, <1>4 DEF VersionsAsAsked

THEOREM VersionsAreAsAsked == Spec => []VersionsAsAsked
  BY IInvAlways, IInvVersions, PTL

\* The fusion never contradicts the searches where they agree.
THEOREM FusionRespectsItsRanks == Spec => []FusionRespectsRanks
  <1>1. IInv => FusionRespectsRanks
      BY DEF IInv
  <1> QED
      BY <1>1, IInvAlways, PTL

\* Balancing fills top_k, keeps the reserve and is fair to the others.
THEOREM BalancesFairly == Spec => []BalancedFairly
  <1>1. IInv => BalancedFairly
      BY DEF IInv
  <1> QED
      BY <1>1, IInvAlways, PTL
=============================================================================
