---------------------------- MODULE QueryRunProofs ----------------------------
(***************************************************************************)
(* Uploads, and the queries that run next to them.                         *)
(*                                                                         *)
(* First Ingestion, for every set of uploads, number of batches, mode and  *)
(* set of faults: locks and version numbers, the statuses they lead to,    *)
(* and what has been written when: chunk rows before points, points before *)
(* the commit that publishes a version, and activations in the order of    *)
(* the versions.                                                           *)
(*                                                                         *)
(* Then QueryRun, for any number of uploads, of queries, of lookups and of *)
(* connections: the uploads behave as Ingestion says, records are complete,*)
(* and which queries are lost.                                             *)
(***************************************************************************)
EXTENDS QueryRun, TLAPS

-----------------------------------------------------------------------------
(* Uploads.                                                                *)

\* A transaction has resolved its document exactly between prepare_document
\* and its end, and a committed version belongs to a finished upload.
TxnInv ==
    \A u \in Uploads :
        /\ pc[u] \in {"idle", "stored", "rejected"} => txn[u] = NoTxn
        /\ pc[u] \in {"resolved", "ready", "failed"} \cup Locked
              => txn[u].doc \in Uploads
        /\ versionStatus[u] # "absent" =>
              /\ pc[u] \in {"ready", "failed", "lost"}
              /\ txn[u].doc \in Uploads

\* The FOR UPDATE locks and the program points agree.
LockInv ==
    /\ \A u \in Uploads : pc[u] \in Locked => lock[txn[u].doc] = u
    /\ \A d \in Uploads : lock[d] # None =>
          pc[lock[d]] \in Locked /\ txn[lock[d]].doc = d

\* A lock holder carries the next number of its document.
NumberInv ==
    /\ \A d \in Uploads :
          /\ MaxNumber(d) \in Nat
          /\ CommittedNumbers(d) = 1..MaxNumber(d)
          /\ \A v, w \in CommittedVersions(d) :
                txn[v].number = txn[w].number => v = w
    /\ \A u \in Uploads :
          pc[u] \in Locked => txn[u].number = MaxNumber(txn[u].doc) + 1

IInv == TypeOK /\ TxnInv /\ LockInv /\ NumberInv

-----------------------------------------------------------------------------
USE IngestionAssumption

\* The next version number: max() of what is numbered without gaps.
LEMMA MaxOfPrefix ==
    ASSUME NEW S, NEW k \in Nat, S = 1..k
    PROVE  Max(S \cup {0}) = k
<1> DEFINE T == S \cup {0}
<1>1. k \in T /\ \A m \in T : m \in Nat /\ k >= m
  OBVIOUS
<1>2. \A x \in T : (\A y \in T : x >= y) => x = k
  BY <1>1
<1>3. QED
  BY <1>1, <1>2, SMT DEF Max

\* A step that publishes no version changes neither the committed versions nor
\* their numbers.
LEMMA QuietStep ==
    ASSUME TypeOK, versionStatus' = versionStatus,
           \A v \in Uploads : versionStatus[v] # "absent" =>
              txn'[v].doc = txn[v].doc /\ txn'[v].number = txn[v].number
    PROVE  \A d \in Uploads :
              /\ CommittedVersions(d)' = CommittedVersions(d)
              /\ CommittedNumbers(d)' = CommittedNumbers(d)
              /\ MaxNumber(d)' = MaxNumber(d)
<1> SUFFICES ASSUME NEW d \in Uploads
             PROVE  /\ CommittedVersions(d)' = CommittedVersions(d)
                    /\ CommittedNumbers(d)' = CommittedNumbers(d)
                    /\ MaxNumber(d)' = MaxNumber(d)
  OBVIOUS
<1>1. CommittedVersions(d)' = CommittedVersions(d)
  BY DEF CommittedVersions
<1>2. \A v \in CommittedVersions(d) : txn'[v].number = txn[v].number
  BY DEF CommittedVersions
<1>3. CommittedNumbers(d)' = CommittedNumbers(d)
  BY <1>1, <1>2 DEF CommittedNumbers
<1>4. QED
  BY <1>1, <1>3 DEF MaxNumber

\* A step that publishes the version of a lock holder appends the next number
\* to its document and leaves the other documents alone.
LEMMA PublishStep ==
    ASSUME IInv, NEW u \in Uploads, pc[u] \in Locked,
           NEW d \in Uploads, d = txn[u].doc,
           NEW s \in {"ready", "failed"},
           versionStatus' = [versionStatus EXCEPT ![u] = s], txn' = txn
    PROVE  /\ versionStatus[u] = "absent"
           /\ CommittedVersions(d)' = CommittedVersions(d) \cup {u}
           /\ MaxNumber(d)' = MaxNumber(d) + 1
           /\ CommittedNumbers(d)' = 1..(MaxNumber(d) + 1)
           /\ \A e \in Uploads \ {d} :
                 /\ CommittedVersions(e)' = CommittedVersions(e)
                 /\ CommittedNumbers(e)' = CommittedNumbers(e)
                 /\ MaxNumber(e)' = MaxNumber(e)
<1>1. /\ versionStatus[u] = "absent"
      /\ txn[u].number = MaxNumber(d) + 1
      /\ MaxNumber(d) \in Nat /\ CommittedNumbers(d) = 1..MaxNumber(d)
  BY DEF IInv, TxnInv, NumberInv, Locked, TypeOK
<1>2. CommittedVersions(d)' = CommittedVersions(d) \cup {u}
  BY <1>1 DEF CommittedVersions, IInv, TypeOK
<1>3. CommittedNumbers(d)' = CommittedNumbers(d) \cup {MaxNumber(d) + 1}
  BY <1>1, <1>2 DEF CommittedNumbers
<1>4. CommittedNumbers(d)' = 1..(MaxNumber(d) + 1)
  BY <1>1, <1>3
<1>5. MaxNumber(d)' = MaxNumber(d) + 1
  <2>1. MaxNumber(d)' = Max(CommittedNumbers(d)' \cup {0})
    BY DEF MaxNumber
  <2>2. MaxNumber(d) + 1 \in Nat
    BY <1>1
  <2>3. Max(CommittedNumbers(d)' \cup {0}) = MaxNumber(d) + 1
    BY <1>4, <2>2, MaxOfPrefix
  <2>4. QED
    BY <2>1, <2>3
<1>6. ASSUME NEW e \in Uploads \ {d}
      PROVE  /\ CommittedVersions(e)' = CommittedVersions(e)
             /\ CommittedNumbers(e)' = CommittedNumbers(e)
             /\ MaxNumber(e)' = MaxNumber(e)
  <2>1. CommittedVersions(e)' = CommittedVersions(e)
    BY <1>1 DEF CommittedVersions, IInv, TypeOK
  <2>2. CommittedNumbers(e)' = CommittedNumbers(e)
    BY <2>1 DEF CommittedNumbers
  <2>3. QED
    BY <2>1, <2>2 DEF MaxNumber
<1>7. QED
  BY <1>1, <1>2, <1>4, <1>5, <1>6

-----------------------------------------------------------------------------
\* What one kind of step does to the parts of the state the invariant is about.

\* Demotion gives every point a flag or leaves it absent.
LEMMA DemotedType ==
    ASSUME TypeOK, NEW V
    PROVE  Demoted(V) \in [Uploads -> [Parts -> {"absent", "latest", "old"}]]
BY DEF Demoted, TypeOK

\* So does an upsert.
LEMMA UpsertedType ==
    ASSUME TypeOK, NEW u \in Uploads, NEW p, Upserted(u, p)
    PROVE  /\ points' \in [Uploads -> [Parts -> {"absent", "latest", "old"}]]
           /\ flagsSent' \in SUBSET Uploads
           /\ flagsApplied' \in SUBSET flagsSent'
<1>1. Demoted(flagsSent \ flagsApplied)
         \in [Uploads -> [Parts -> {"absent", "latest", "old"}]]
  BY DemotedType
<1>2. QED
  BY <1>1 DEF Upserted, TypeOK

\* Assignments in a transaction keep its type.
LEMMA TxnType ==
    ASSUME NEW t \in Txns, NEW d \in Uploads, NEW n \in Nat
    PROVE  /\ [t EXCEPT !.doc = d] \in Txns
           /\ [t EXCEPT !.number = n] \in Txns
           /\ [t EXCEPT !.rows = TRUE] \in Txns
BY DEF Txns

\* Every step keeps TypeOK.
LEMMA TypeStep ==
    ASSUME TypeOK, TxnInv, NumberInv, [Next]_vars
    PROVE  TypeOK'
<1> USE DEF TypeOK, Goto, Release, ProgramPoints, Locked, Finished,
            pgVars, qdrantVars
<1> USE TxnType
<1>1. ASSUME NEW u \in Uploads, Save(u) \/ Reject(u)
      PROVE  TypeOK'
  BY <1>1 DEF Save, Reject
<1>2. ASSUME NEW u \in Uploads, NEW d \in Uploads, ResolveDocument(u, d)
      PROVE  TypeOK'
  <2>1. txn' \in [Uploads -> Txns]
    BY <1>2 DEF ResolveDocument
  <2>2. QED
    BY <1>2, <2>1 DEF ResolveDocument
<1>3. ASSUME NEW u \in Uploads, CreateVersion(u)
      PROVE  TypeOK'
  <2>1. txn[u].doc \in Uploads /\ MaxNumber(txn[u].doc) + 1 \in Nat
    BY <1>3 DEF CreateVersion, TxnInv, NumberInv
  <2>2. txn' \in [Uploads -> Txns]
    BY <1>3, <2>1 DEF CreateVersion
  <2>3. QED
    BY <1>3, <2>1, <2>2 DEF CreateVersion
<1>4. ASSUME NEW u \in Uploads, StageRows(u)
      PROVE  TypeOK'
  <2>1. txn' \in [Uploads -> Txns]
    BY <1>4 DEF StageRows
  <2>2. QED
    BY <1>4, <2>1 DEF StageRows
<1>5. ASSUME NEW u \in Uploads, UpsertBatch(u)
      PROVE  TypeOK'
  <2>1. Upserted(u, NextBatch(u))
    BY <1>5 DEF UpsertBatch
  <2>2. QED
    BY <1>5, <2>1, UpsertedType DEF UpsertBatch
<1>6. ASSUME NEW u \in Uploads, InvalidateKeywordCache(u) \/ Activate(u)
      PROVE  TypeOK'
  BY <1>6 DEF InvalidateKeywordCache, Activate
<1>7. ASSUME NEW u \in Uploads, IndexHierarchy(u)
      PROVE  TypeOK'
  <2>1. CASE Upserted(u, SummaryPart)
    <3>1. /\ points' \in [Uploads -> [Parts -> {"absent", "latest", "old"}]]
          /\ flagsSent' \in SUBSET Uploads
          /\ flagsApplied' \in SUBSET flagsSent'
      BY <2>1, UpsertedType
    <3>2. QED
      BY <1>7, <3>1 DEF IndexHierarchy
  <2>2. CASE UNCHANGED qdrantVars
    BY <1>7, <2>2 DEF IndexHierarchy
  <2>3. Upserted(u, SummaryPart) \/ UNCHANGED qdrantVars
    BY <1>7 DEF IndexHierarchy
  <2>4. QED
    BY <2>1, <2>2, <2>3
<1>8. ASSUME NEW u \in Uploads, Commit(u) \/ CommitUnacknowledged(u)
      PROVE  TypeOK'
  <2>1. PublishReady(u) /\ Release(u) /\ UNCHANGED <<txn, qdrantVars>>
        /\ (Goto(u, "ready") \/ Goto(u, "lost"))
    BY <1>8 DEF Commit, CommitUnacknowledged
  <2>2. pc' \in [Uploads -> ProgramPoints]
    BY <2>1
  <2>3. lock' \in [Uploads -> Uploads \cup {None}]
    BY <2>1
  <2>4. /\ versionStatus' \in [Uploads -> {"absent", "processing", "ready", "failed"}]
        /\ docStatus' \in [Uploads -> {"absent", "processing", "ready", "failed"}]
        /\ docCurrent' \in [Uploads -> Uploads \cup {None}]
    BY <2>1 DEF PublishReady
  <2>5. QED
    BY <2>1, <2>2, <2>3, <2>4
<1>9. ASSUME NEW u \in Uploads, Fail(u)
      PROVE  TypeOK'
  <2>1. CASE UNCHANGED qdrantVars
    BY <1>9, <2>1 DEF Fail
  <2>2. CASE Upserted(u, NextBatch(u)) \/ Upserted(u, SummaryPart)
    BY <1>9, <2>2, UpsertedType DEF Fail
  <2>3. CASE flagsSent' = flagsSent \cup {u} /\ UNCHANGED <<points, flagsApplied>>
    BY <1>9, <2>3 DEF Fail
  <2>4. QED
    BY <1>9, <2>1, <2>2, <2>3 DEF Fail
<1>10. ASSUME NEW u \in Uploads, MarkFailed(u) \/ Lose(u)
       PROVE  TypeOK'
  BY <1>10 DEF MarkFailed, Lose
<1>11. ASSUME NEW v \in Uploads, ApplyActivation(v)
       PROVE  TypeOK'
  BY <1>11, DemotedType DEF ApplyActivation
<1>12. CASE UNCHANGED vars
  BY <1>12 DEF vars
<1>13. QED
  BY <1>1, <1>2, <1>3, <1>4, <1>5, <1>6, <1>7, <1>8, <1>9, <1>10, <1>11, <1>12
     DEF Next, Step, Progress, ResolveExplicit, ResolveCandidate, ResolveNew

-----------------------------------------------------------------------------
(* Every step is, for transactions and locks, of one of six kinds.         *)

\* The upload has not resolved its document, and may do so now.
Prepares(u) ==
    /\ pc[u] \in {"idle", "stored"}
    /\ \/ /\ txn' = txn
          /\ Goto(u, "stored") \/ Goto(u, "rejected")
       \/ /\ \E d \in Uploads : txn' = [txn EXCEPT ![u].doc = d]
          /\ Goto(u, "resolved")
    /\ UNCHANGED <<pgVars, lock>>

Locks(u) ==
    /\ pc[u] = "resolved" /\ lock[txn[u].doc] = None
    /\ lock' = [lock EXCEPT ![txn[u].doc] = u]
    /\ txn' = [txn EXCEPT ![u].number = MaxNumber(txn[u].doc) + 1]
    /\ Goto(u, "created")
    /\ UNCHANGED pgVars

Works(u) ==
    /\ pc[u] \in Locked
    /\ \E q \in Locked : Goto(u, q)
    /\ txn' = txn \/ txn' = [txn EXCEPT ![u].rows = TRUE]
    /\ UNCHANGED <<pgVars, lock>>

Publishes(u) ==
    /\ pc[u] \in Locked
    /\ \/ PublishReady(u)
       \/ MarkFailed(u)
    /\ \E q \in {"ready", "failed", "lost"} : Goto(u, q)
    /\ Release(u)
    /\ UNCHANGED txn

RollsBack(u) ==
    /\ pc[u] \in {"stored", "resolved"} \cup Locked
    /\ Release(u)
    /\ Goto(u, "lost")
    /\ UNCHANGED <<txn, pgVars>>

Rests == UNCHANGED <<pc, txn, pgVars, lock>>

\* Of an upload's many steps the invariant tells five kinds apart.
LEMMA StepKinds ==
    ASSUME [Next]_vars
    PROVE  \/ Rests
           \/ \E u \in Uploads : \/ Prepares(u) \/ Locks(u) \/ Works(u)
                                 \/ Publishes(u) \/ RollsBack(u)
<1> USE DEF pgVars, qdrantVars, Locked
<1>1. ASSUME NEW u \in Uploads, NEW d \in Uploads,
             \/ Save(u) \/ Reject(u) \/ ResolveExplicit(u, d)
             \/ ResolveCandidate(u, d) \/ ResolveNew(u)
      PROVE  Prepares(u)
  BY <1>1 DEF Prepares, Save, Reject, ResolveExplicit, ResolveCandidate,
              ResolveNew, ResolveDocument
<1>2. ASSUME NEW u \in Uploads, CreateVersion(u)
      PROVE  Locks(u)
  BY <1>2 DEF CreateVersion, Locks
<1>3. ASSUME NEW u \in Uploads, StageRows(u) \/ InvalidateKeywordCache(u) \/ Activate(u)
      PROVE  Works(u)
  BY <1>3 DEF Works, StageRows, InvalidateKeywordCache, Activate
<1>4. ASSUME NEW u \in Uploads, UpsertBatch(u) \/ IndexHierarchy(u) \/ Fail(u)
      PROVE  Works(u)
  BY <1>4 DEF Works, UpsertBatch, IndexHierarchy, Fail
<1>5. ASSUME NEW u \in Uploads, Commit(u) \/ CommitUnacknowledged(u) \/ MarkFailed(u)
      PROVE  Publishes(u)
  BY <1>5 DEF Publishes, Commit, CommitUnacknowledged, MarkFailed
<1>6. ASSUME NEW u \in Uploads, Lose(u)
      PROVE  RollsBack(u)
  BY <1>6 DEF RollsBack, Lose
<1>7. ASSUME NEW v \in Uploads, ApplyActivation(v)
      PROVE  Rests
  BY <1>7 DEF Rests, ApplyActivation
<1>8. CASE UNCHANGED vars
  BY <1>8 DEF vars, Rests
<1>9. QED
  BY <1>1, <1>2, <1>3, <1>4, <1>5, <1>6, <1>7, <1>8 DEF Next, Step, Progress

\* Work under the lock changes neither document nor number of a transaction.
LEMMA WorksTxn ==
    ASSUME TypeOK, NEW u \in Uploads, Works(u)
    PROVE  \A v \in Uploads : /\ txn'[v].doc = txn[v].doc
                              /\ txn'[v].number = txn[v].number
                              /\ v # u => txn'[v] = txn[v] /\ pc'[v] = pc[v]
<1>1. \A v \in Uploads \ {u} : txn'[v] = txn[v] /\ pc'[v] = pc[v]
  BY DEF Works, TypeOK, Goto
<1>2. CASE txn' = txn
  BY <1>1, <1>2
<1>3. CASE txn' = [txn EXCEPT ![u].rows = TRUE]
  <2>1. txn'[u] = [txn[u] EXCEPT !.rows = TRUE] /\ txn[u] \in Txns
    BY <1>3 DEF TypeOK
  <2>2. txn'[u].doc = txn[u].doc /\ txn'[u].number = txn[u].number
    BY <2>1 DEF Txns
  <2>3. QED
    BY <1>1, <2>2
<1>4. QED
  BY <1>2, <1>3 DEF Works

-----------------------------------------------------------------------------
(* The invariant is inductive.                                             *)

\* Every step keeps what transactions know of their version.
LEMMA TxnStep ==
    ASSUME IInv, [Next]_vars
    PROVE  TxnInv'
<1> USE DEF IInv, TxnInv, TypeOK, Goto, Locked, pgVars
<1>1. ASSUME NEW u \in Uploads, Prepares(u)
      PROVE  TxnInv'
  <2>1. CASE txn' = txn /\ (Goto(u, "stored") \/ Goto(u, "rejected"))
    BY <1>1, <2>1 DEF Prepares
  <2>2. ASSUME NEW d \in Uploads, txn' = [txn EXCEPT ![u].doc = d], Goto(u, "resolved")
        PROVE  TxnInv'
    <3>1. txn'[u].doc = d /\ \A v \in Uploads \ {u} : txn'[v] = txn[v]
      BY <2>2 DEF Txns
    <3>2. QED
      BY <1>1, <2>2, <3>1 DEF Prepares
  <2>3. QED
    BY <1>1, <2>1, <2>2 DEF Prepares
<1>2. ASSUME NEW u \in Uploads, Locks(u)
      PROVE  TxnInv'
  <2>1. \A v \in Uploads : txn'[v].doc = txn[v].doc /\ (v # u => txn'[v] = txn[v])
    BY <1>2 DEF Locks, Txns
  <2>2. QED
    BY <1>2, <2>1 DEF Locks
<1>3. ASSUME NEW u \in Uploads, Works(u)
      PROVE  TxnInv'
  <2>1. \A v \in Uploads : txn'[v].doc = txn[v].doc /\ (v # u => txn'[v] = txn[v])
    BY <1>3, WorksTxn
  <2>2. QED
    BY <1>3, <2>1 DEF Works
<1>4. ASSUME NEW u \in Uploads, Publishes(u)
      PROVE  TxnInv'
  BY <1>4 DEF Publishes, PublishReady, MarkFailed
<1>5. ASSUME NEW u \in Uploads, RollsBack(u)
      PROVE  TxnInv'
  BY <1>5 DEF RollsBack
<1>6. CASE Rests
  BY <1>6 DEF Rests
<1>7. QED
  BY StepKinds, <1>1, <1>2, <1>3, <1>4, <1>5, <1>6

\* Every step keeps the row lock with the one transaction that works.
LEMMA LockStep ==
    ASSUME IInv, [Next]_vars
    PROVE  LockInv'
<1> USE DEF IInv, LockInv, TxnInv, TypeOK, Goto, Locked, pgVars
<1>1. ASSUME NEW u \in Uploads, Prepares(u)
      PROVE  LockInv'
  <2>1. \A v \in Uploads \ {u} : txn'[v] = txn[v] /\ pc'[v] = pc[v]
    BY <1>1 DEF Prepares, Txns
  <2>2. pc[u] \notin Locked /\ pc'[u] \notin Locked /\ lock' = lock
    BY <1>1 DEF Prepares
  <2>3. \A d \in Uploads : lock[d] # u
    BY <2>2, IngestionAssumption
  <2>4. QED
    BY <2>1, <2>2, <2>3
<1>2. ASSUME NEW u \in Uploads, Locks(u)
      PROVE  LockInv'
  <2>1. \A v \in Uploads : txn'[v].doc = txn[v].doc
    BY <1>2 DEF Locks, Txns
  <2>2. QED
    BY <1>2, <2>1, IngestionAssumption DEF Locks
<1>3. ASSUME NEW u \in Uploads, Works(u)
      PROVE  LockInv'
  <2>1. \A v \in Uploads : txn'[v].doc = txn[v].doc
    BY <1>3, WorksTxn
  <2>2. QED
    BY <1>3, <2>1 DEF Works
<1>4. ASSUME NEW u \in Uploads, Publishes(u)
      PROVE  LockInv'
  BY <1>4, IngestionAssumption DEF Publishes, Release
<1>5. ASSUME NEW u \in Uploads, RollsBack(u)
      PROVE  LockInv'
  BY <1>5, IngestionAssumption DEF RollsBack, Release
<1>6. CASE Rests
  BY <1>6 DEF Rests
<1>7. QED
  BY StepKinds, <1>1, <1>2, <1>3, <1>4, <1>5, <1>6

\* Every step keeps the committed numbers an interval from 1.
LEMMA NumberStep ==
    ASSUME IInv, [Next]_vars
    PROVE  NumberInv'
<1> USE DEF Locked, pgVars, Goto
<1>1. ASSUME versionStatus' = versionStatus,
             \A v \in Uploads : versionStatus[v] # "absent" =>
                txn'[v].doc = txn[v].doc /\ txn'[v].number = txn[v].number,
             \A v \in Uploads : pc'[v] \in Locked =>
                /\ txn'[v].doc \in Uploads
                /\ txn'[v].number = MaxNumber(txn'[v].doc) + 1
      PROVE  NumberInv'
  <2>1. \A d \in Uploads :
           /\ CommittedVersions(d)' = CommittedVersions(d)
           /\ CommittedNumbers(d)' = CommittedNumbers(d)
           /\ MaxNumber(d)' = MaxNumber(d)
    BY <1>1, QuietStep DEF IInv
  <2>2. \A d \in Uploads :
           /\ MaxNumber(d)' \in Nat
           /\ CommittedNumbers(d)' = 1..MaxNumber(d)'
    BY <2>1 DEF IInv, NumberInv
  <2>3. \A d \in Uploads : \A v, w \in CommittedVersions(d)' :
           txn'[v].number = txn'[w].number => v = w
    BY <1>1, <2>1 DEF IInv, NumberInv, CommittedVersions
  <2>4. \A v \in Uploads : pc'[v] \in Locked =>
           txn'[v].number = MaxNumber(txn[v].doc)' + 1
    BY <1>1, <2>1
  <2>5. QED
    BY <2>2, <2>3, <2>4 DEF NumberInv
<1>2. ASSUME NEW u \in Uploads, Prepares(u)
      PROVE  NumberInv'
  <2>1. /\ pc[u] \in {"idle", "stored"} /\ pc'[u] \notin Locked
        /\ \A v \in Uploads \ {u} : txn'[v] = txn[v] /\ pc'[v] = pc[v]
    BY <1>2 DEF Prepares, IInv, TypeOK, Txns
  <2>2. versionStatus[u] = "absent" /\ versionStatus' = versionStatus
    BY <1>2, <2>1 DEF IInv, TxnInv, Prepares
  <2>3. QED
    BY <1>1, <2>1, <2>2 DEF IInv, TxnInv, NumberInv
<1>3. ASSUME NEW u \in Uploads, Locks(u)
      PROVE  NumberInv'
  <2>1. /\ pc[u] = "resolved" /\ txn[u].doc \in Uploads
        /\ versionStatus[u] = "absent" /\ versionStatus' = versionStatus
    BY <1>3 DEF Locks, IInv, TxnInv
  <2>2. /\ txn'[u].doc = txn[u].doc
        /\ txn'[u].number = MaxNumber(txn[u].doc) + 1
        /\ \A v \in Uploads \ {u} : txn'[v] = txn[v] /\ pc'[v] = pc[v]
    BY <1>3 DEF Locks, IInv, TypeOK, Txns
  <2>3. QED
    BY <1>1, <2>1, <2>2 DEF IInv, TxnInv, NumberInv
<1>4. ASSUME NEW u \in Uploads, Works(u)
      PROVE  NumberInv'
  <2>1. /\ pc[u] \in Locked /\ versionStatus' = versionStatus
        /\ \A v \in Uploads \ {u} : pc'[v] = pc[v]
    BY <1>4 DEF Works, IInv, TypeOK
  <2>2. \A v \in Uploads :
           txn'[v].doc = txn[v].doc /\ txn'[v].number = txn[v].number
    BY <1>4, WorksTxn DEF IInv
  <2>3. QED
    BY <1>1, <2>1, <2>2 DEF IInv, TxnInv, NumberInv
<1>5. ASSUME NEW u \in Uploads, RollsBack(u)
      PROVE  NumberInv'
  <2>1. /\ versionStatus' = versionStatus /\ txn' = txn
        /\ \A v \in Uploads : pc'[v] \in Locked => pc[v] \in Locked
    BY <1>5 DEF RollsBack, IInv, TypeOK
  <2>2. QED
    BY <1>1, <2>1 DEF IInv, TxnInv, NumberInv
<1>6. CASE Rests
  <2>1. versionStatus' = versionStatus /\ txn' = txn /\ pc' = pc
    BY <1>6 DEF Rests
  <2>2. QED
    BY <1>1, <2>1 DEF IInv, TxnInv, NumberInv
<1>7. ASSUME NEW u \in Uploads, Publishes(u)
      PROVE  NumberInv'
  <2> DEFINE d == txn[u].doc
  <2>1. /\ pc[u] \in Locked /\ d \in Uploads /\ txn' = txn
        /\ \E s \in {"ready", "failed"} :
              versionStatus' = [versionStatus EXCEPT ![u] = s]
    BY <1>7 DEF Publishes, PublishReady, MarkFailed, IInv, TxnInv
  <2>2. /\ CommittedVersions(d)' = CommittedVersions(d) \cup {u}
        /\ MaxNumber(d)' = MaxNumber(d) + 1
        /\ CommittedNumbers(d)' = 1..(MaxNumber(d) + 1)
        /\ \A e \in Uploads \ {d} :
              /\ CommittedVersions(e)' = CommittedVersions(e)
              /\ CommittedNumbers(e)' = CommittedNumbers(e)
              /\ MaxNumber(e)' = MaxNumber(e)
    BY <2>1, PublishStep
  <2>3. /\ txn[u].number = MaxNumber(d) + 1
        /\ \A v \in CommittedVersions(d) : txn[v].number \in 1..MaxNumber(d)
    BY <2>1 DEF IInv, NumberInv, CommittedNumbers
  <2>4. \A e \in Uploads :
           MaxNumber(e)' \in Nat /\ CommittedNumbers(e)' = 1..MaxNumber(e)'
    BY <2>1, <2>2 DEF IInv, NumberInv
  <2>5. \A e \in Uploads : \A v, w \in CommittedVersions(e)' :
           txn'[v].number = txn'[w].number => v = w
    <3>1. \A v, w \in CommittedVersions(d)' :
             txn[v].number = txn[w].number => v = w
      BY <2>1, <2>2, <2>3 DEF IInv, NumberInv
    <3>2. QED
      BY <2>1, <2>2, <3>1 DEF IInv, NumberInv
  <2>6. ASSUME NEW v \in Uploads, pc'[v] \in Locked
        PROVE  txn'[v].number = MaxNumber(txn[v].doc)' + 1
    <3>1. v # u /\ pc[v] \in Locked
      BY <1>7, <2>6 DEF Publishes, IInv, TypeOK
    <3>2. PICK e \in Uploads \ {d} : txn[v].doc = e
      BY <2>1, <3>1 DEF IInv, TxnInv, LockInv
    <3>3. MaxNumber(e)' = MaxNumber(e) /\ txn[v].number = MaxNumber(e) + 1
      BY <2>2, <3>1, <3>2 DEF IInv, NumberInv
    <3>4. QED
      BY <2>1, <3>2, <3>3
  <2>7. QED
    BY <2>4, <2>5, <2>6 DEF NumberInv
<1>8. QED
  BY StepKinds, <1>2, <1>3, <1>4, <1>5, <1>6, <1>7

\* The empty database satisfies IInv.
LEMMA InitInv == Init => IInv
<1> SUFFICES ASSUME Init PROVE IInv
  OBVIOUS
<1>1. TypeOK
  BY DEF Init, TypeOK, NoTxn, Txns, ProgramPoints
<1>2. TxnInv
  BY DEF Init, TxnInv, Locked
<1>3. LockInv
  BY DEF Init, LockInv, Locked
<1>4. \A d \in Uploads : CommittedVersions(d) = {} /\ CommittedNumbers(d) = {}
  BY DEF Init, CommittedVersions, CommittedNumbers
<1>5. \A d \in Uploads : MaxNumber(d) = 0
  <2>1. {} = 1..0 /\ 0 \in Nat
    OBVIOUS
  <2>2. Max({} \cup {0}) = 0
    BY <2>1, MaxOfPrefix
  <2>3. QED
    BY <1>4, <2>2 DEF MaxNumber
<1>6. \A d \in Uploads :
         MaxNumber(d) \in Nat /\ CommittedNumbers(d) = 1..MaxNumber(d)
  BY <1>4, <1>5
<1>7. NumberInv
  BY <1>4, <1>6 DEF NumberInv, Init, Locked
<1>8. QED
  BY <1>1, <1>2, <1>3, <1>7 DEF IInv

\* IInv holds in every reachable state.
THEOREM Invariance == Spec => []IInv
<1>1. ASSUME IInv, [Next]_vars
      PROVE  IInv'
  BY <1>1, TypeStep, TxnStep, LockStep, NumberStep DEF IInv
<1>2. QED
  BY InitInv, <1>1, PTL DEF Spec

\* Every variable keeps its type, whatever fails.
THEOREM TypeCorrect == Spec => []TypeOK
<1>1. IInv => TypeOK
  BY DEF IInv
<1>2. QED
  BY Invariance, <1>1, PTL

\* The row lock makes the committed version numbers of every document the
\* sequence 1, 2, ..., under any interleaving of uploads and failures.
THEOREM NumbersSequential == Spec => []VersionNumbersSequential
<1>1. IInv => VersionNumbersSequential
  BY DEF IInv, NumberInv, VersionNumbersSequential
<1>2. QED
  BY Invariance, <1>1, PTL

-----------------------------------------------------------------------------
(* The documents rows.                                                     *)

StatusInv == DocumentStatusAgrees /\ CurrentIsLatestReady

\* Only a publication touches the committed rows.
LEMMA StatusStep ==
    ASSUME IInv, StatusInv, [Next]_vars
    PROVE  StatusInv'
<1> USE DEF pgVars
<1>1. ASSUME UNCHANGED pgVars,
             \A v \in Uploads : versionStatus[v] # "absent" =>
                txn'[v].doc = txn[v].doc /\ txn'[v].number = txn[v].number
      PROVE  StatusInv'
  <2>1. \A d \in Uploads : CommittedVersions(d)' = CommittedVersions(d)
    BY <1>1, QuietStep DEF IInv
  <2>2. \A d \in Uploads : ReadyVersions(d)' = ReadyVersions(d)
    BY <1>1, <2>1 DEF ReadyVersions
  <2>3. DocumentStatusAgrees'
    BY <1>1, <2>1, <2>2 DEF StatusInv, DocumentStatusAgrees
  <2>4. \A d \in Uploads : \A v \in ReadyVersions(d) : txn'[v].number = txn[v].number
    BY <1>1 DEF ReadyVersions, CommittedVersions
  <2>5. CurrentIsLatestReady'
    BY <1>1, <2>2, <2>4 DEF StatusInv, CurrentIsLatestReady, IsLatestReady
  <2>6. QED
    BY <2>3, <2>5 DEF StatusInv
<1>2. ASSUME NEW u \in Uploads, Publishes(u)
      PROVE  StatusInv'
  <2>0. PICK d \in Uploads : d = txn[u].doc
    BY <1>2 DEF Publishes, IInv, TxnInv
  <2>1. /\ pc[u] \in Locked /\ txn' = txn
        /\ \E s \in {"ready", "failed"} :
              versionStatus' = [versionStatus EXCEPT ![u] = s]
    BY <1>2 DEF Publishes, PublishReady, MarkFailed, IInv, TxnInv
  <2>2. /\ versionStatus[u] = "absent"
        /\ CommittedVersions(d)' = CommittedVersions(d) \cup {u}
        /\ \A e \in Uploads \ {d} : CommittedVersions(e)' = CommittedVersions(e)
    BY <2>0, <2>1, PublishStep
  <2>3. \A v \in CommittedVersions(d) :
           txn[v].number \in Nat /\ txn[v].number <= txn[u].number
    <3>1. /\ MaxNumber(d) \in Nat /\ CommittedNumbers(d) = 1..MaxNumber(d)
          /\ txn[u].number = MaxNumber(d) + 1
      BY <2>0, <2>1 DEF IInv, NumberInv
    <3>2. \A v \in CommittedVersions(d) : txn[v].number \in CommittedNumbers(d)
      BY DEF CommittedNumbers
    <3>3. QED
      BY <3>1, <3>2
  <2>4. /\ u \notin ReadyVersions(d)
        /\ \A e \in Uploads \ {d} : ReadyVersions(e)' = ReadyVersions(e)
    BY <2>0, <2>1, <2>2 DEF ReadyVersions, CommittedVersions, IInv, TypeOK
  <2>5. txn[u].number \in Nat
    BY DEF IInv, TypeOK, Txns
  <2>6. CASE PublishReady(u)
    <3>1. ReadyVersions(d)' = ReadyVersions(d) \cup {u}
      BY <2>0, <2>2, <2>6 DEF PublishReady, ReadyVersions, CommittedVersions, IInv, TypeOK
    <3>2. docStatus'[d] = "ready" /\ docCurrent'[d] = u
      BY <2>0, <2>6 DEF PublishReady, IInv, TypeOK
    <3>3. \A e \in Uploads \ {d} :
             docStatus'[e] = docStatus[e] /\ docCurrent'[e] = docCurrent[e]
      BY <2>0, <2>6 DEF PublishReady, IInv, TypeOK
    <3>4. \A v \in Uploads : versionStatus'[v] # "processing"
      BY <2>6 DEF PublishReady, StatusInv, DocumentStatusAgrees, IInv, TypeOK
    <3>5. DocumentStatusAgrees'
      BY <2>2, <2>4, <3>1, <3>2, <3>3, <3>4 DEF StatusInv, DocumentStatusAgrees
    <3>6. CurrentIsLatestReady'
      <4>1. \A v \in ReadyVersions(d)' : txn'[v].number <= txn'[u].number
        BY <2>1, <2>3, <2>5, <3>1 DEF ReadyVersions
      <4>2. IsLatestReady(docCurrent[d], d)'
        BY <3>1, <3>2, <4>1 DEF IsLatestReady
      <4>3. \A e \in Uploads \ {d} :
               IF ReadyVersions(e)' = {} THEN docCurrent'[e] = None
                                         ELSE IsLatestReady(docCurrent[e], e)'
        BY <2>1, <2>4, <3>3 DEF StatusInv, CurrentIsLatestReady, IsLatestReady
      <4>4. QED
        BY <3>1, <4>2, <4>3 DEF CurrentIsLatestReady
    <3>7. QED
      BY <3>5, <3>6 DEF StatusInv
  <2>7. CASE MarkFailed(u)
    <3>1. ReadyVersions(d)' = ReadyVersions(d)
      BY <2>0, <2>2, <2>4, <2>7
         DEF MarkFailed, ReadyVersions, CommittedVersions, IInv, TypeOK
    <3>2. docStatus'[d] = IF ReadyVersions(d) = {} THEN "failed" ELSE "ready"
      BY <2>0, <2>7 DEF MarkFailed, IInv, TypeOK
    <3>3. /\ docCurrent' = docCurrent
          /\ \A e \in Uploads \ {d} : docStatus'[e] = docStatus[e]
      BY <2>0, <2>7 DEF MarkFailed, IInv, TypeOK
    <3>4. \A v \in Uploads : versionStatus'[v] # "processing"
      BY <2>7 DEF MarkFailed, StatusInv, DocumentStatusAgrees, IInv, TypeOK
    <3>5. DocumentStatusAgrees'
      BY <2>2, <2>4, <3>1, <3>2, <3>3, <3>4 DEF StatusInv, DocumentStatusAgrees
    <3>6. CurrentIsLatestReady'
      BY <2>1, <2>4, <3>1, <3>3 DEF StatusInv, CurrentIsLatestReady, IsLatestReady
    <3>7. QED
      BY <3>5, <3>6 DEF StatusInv
  <2>8. QED
    BY <1>2, <2>6, <2>7 DEF Publishes
<1>3. ASSUME NEW u \in Uploads, Prepares(u) \/ Locks(u)
      PROVE  StatusInv'
  <2>1. /\ UNCHANGED pgVars /\ versionStatus[u] = "absent"
        /\ \A v \in Uploads \ {u} : txn'[v] = txn[v]
    BY <1>3 DEF Prepares, Locks, IInv, TxnInv, TypeOK, Txns
  <2>2. QED
    BY <1>1, <2>1
<1>4. ASSUME NEW u \in Uploads, Works(u)
      PROVE  StatusInv'
  BY <1>1, <1>4, WorksTxn DEF Works, IInv
<1>5. ASSUME NEW u \in Uploads, RollsBack(u)
      PROVE  StatusInv'
  BY <1>1, <1>5 DEF RollsBack
<1>6. CASE Rests
  BY <1>1, <1>6 DEF Rests
<1>7. QED
  BY StepKinds, <1>2, <1>3, <1>4, <1>5, <1>6

\* So does StatusInv, which rests on IInv.
THEOREM StatusInvariance == Spec => []StatusInv
<1>1. Init => StatusInv
  BY DEF Init, StatusInv, DocumentStatusAgrees, CurrentIsLatestReady,
         ReadyVersions, CommittedVersions
<1>2. ASSUME IInv, StatusInv, [Next]_vars
      PROVE  StatusInv'
  BY <1>2, StatusStep
<1>3. QED
  BY <1>1, <1>2, Invariance, PTL DEF Spec

\* A documents row is READY exactly when one of its versions is, and no other
\* transaction ever sees a PROCESSING version.
THEOREM StatusAgrees == Spec => []DocumentStatusAgrees
<1>1. StatusInv => DocumentStatusAgrees
  BY DEF StatusInv
<1>2. QED
  BY StatusInvariance, <1>1, PTL

\* A documents row describes its READY version with the highest number.
THEOREM CurrentIsNewest == Spec => []CurrentIsLatestReady
<1>1. StatusInv => CurrentIsLatestReady
  BY DEF StatusInv
<1>2. QED
  BY StatusInvariance, <1>1, PTL

-----------------------------------------------------------------------------
(* Rows, points and flags.                                                 *)

Written(u, p) == points[u][p] # "absent"

\* The batches are written one after the other; the next one is k.
WrittenBelow(u, k) == \A b \in Batches : Written(u, b) <=> b < k

Indexed(u) ==
    /\ txn[u].rows
    /\ \A b \in Batches : Written(u, b)
    /\ HierarchyMode = "fail_closed" => Written(u, SummaryPart)

\* How far an upload has come tells which rows and points exist, and nothing
\* takes them back: they outlive a failure and a rollback.
PointsOf(u) ==
    /\ pc[u] \in {"idle", "stored", "rejected", "resolved", "created"} =>
          \A p \in Parts : ~ Written(u, p)
    /\ (\E p \in Parts : Written(u, p)) => txn[u].rows
    /\ pc[u] = "staged" =>
          txn[u].rows /\ \E k \in Batches : WrittenBelow(u, k)
    /\ pc[u] \in {"indexed", "invalidated", "summarised", "activated"} =>
          txn[u].rows /\ \A b \in Batches : Written(u, b)
    /\ pc[u] \in {"summarised", "activated"} /\ HierarchyMode = "fail_closed" =>
          Written(u, SummaryPart)
    /\ versionStatus[u] = "ready" => Indexed(u)

PointsInv == \A u \in Uploads : PointsOf(u)

-----------------------------------------------------------------------------
\* Activations change flags only.
LEMMA DemotedKeeps ==
    ASSUME TypeOK, NEW V, NEW u \in Uploads, NEW p \in Parts
    PROVE  Demoted(V)[u][p] # "absent" <=> Written(u, p)
  BY DEF Demoted, Written, TypeOK

\* An upsert writes its part and leaves the other ones written or absent.
LEMMA UpsertedWrites ==
    ASSUME TypeOK, NEW u \in Uploads, NEW p \in Parts, Upserted(u, p)
    PROVE  /\ Written(u, p)'
           /\ \A w \in Uploads, q \in Parts :
                 w # u \/ q # p => (Written(w, q)' <=> Written(w, q))
  <1>1. points' = [Demoted(flagsSent \ flagsApplied) EXCEPT ![u][p] = "latest"]
      BY DEF Upserted
  <1>2. Demoted(flagsSent \ flagsApplied) \in [Uploads -> [Parts -> {"absent", "latest", "old"}]]
      BY DemotedType
  <1>3. Written(u, p)'
      BY <1>1, <1>2 DEF Written
  <1>4. ASSUME NEW w \in Uploads, NEW q \in Parts, w # u \/ q # p
        PROVE  Written(w, q)' <=> Written(w, q)
    <2>1. points'[w][q] = Demoted(flagsSent \ flagsApplied)[w][q]
        BY <1>1, <1>2, <1>4
    <2> QED
        BY <2>1, DemotedKeeps DEF Written
  <1> QED
      BY <1>3, <1>4

\* The next batch of an upload that has written the first ones.
LEMMA NextBatchIs ==
    ASSUME NEW u \in Uploads, NEW k \in Batches, WrittenBelow(u, k)
    PROVE  NextBatch(u) = k
  <1>1. k \in Nat /\ \A b \in Batches : b \in Nat
      BY IngestionAssumption DEF Batches
  <1>2. /\ points[u][k] = "absent"
        /\ \A c \in Batches : c < k => points[u][c] # "absent"
      BY <1>1 DEF WrittenBelow, Written
  <1>3. \A b \in Batches :
           (/\ points[u][b] = "absent"
            /\ \A c \in Batches : c < b => points[u][c] # "absent") => b = k
      BY <1>1, <1>2 DEF WrittenBelow, Written
  <1> QED
      BY <1>2, <1>3 DEF NextBatch

\* An upload is not affected by what it does not see.
LEMMA PointsKept ==
    ASSUME NEW u \in Uploads, PointsOf(u),
           pc'[u] = pc[u], txn'[u].rows = txn[u].rows,
           versionStatus'[u] = versionStatus[u],
           \A p \in Parts : Written(u, p)' <=> Written(u, p)
    PROVE  PointsOf(u)'
  BY DEF PointsOf, Indexed, WrittenBelow, Parts

\* A step of one upload concerns its own points only.
LEMMA PointsStep ==
    ASSUME IInv, PointsInv, [Next]_vars
    PROVE  PointsInv'
  <1> USE DEF Goto, pgVars, qdrantVars
  <1>0. TypeOK /\ TxnInv /\ pc \in [Uploads -> ProgramPoints] /\ txn \in [Uploads -> Txns]
        /\ versionStatus \in [Uploads -> {"absent", "processing", "ready", "failed"}]
      BY DEF IInv, TypeOK
  <1>00. SummaryPart \in Parts /\ \A b \in Batches : b \in Parts /\ b # SummaryPart
      BY IngestionAssumption DEF Parts, Batches, SummaryPart
  <1>1. CASE UNCHANGED vars
    <2>1. ASSUME NEW u \in Uploads PROVE PointsOf(u)'
        BY <1>1, PointsKept DEF vars, PointsInv, Written
    <2> QED
        BY <2>1 DEF PointsInv
  <1>2. ASSUME NEW v \in Uploads, ApplyActivation(v)
        PROVE  PointsInv'
    <2>1. ASSUME NEW u \in Uploads PROVE PointsOf(u)'
      <3>1. \A p \in Parts : Written(u, p)' <=> Written(u, p)
          BY <1>0, <1>2, DemotedKeeps DEF ApplyActivation, Written
      <3>2. PointsOf(u) /\ pc' = pc /\ txn' = txn /\ versionStatus' = versionStatus
          BY <1>2 DEF ApplyActivation, PointsInv
      <3> QED
          BY <3>1, <3>2, PointsKept
    <2> QED
        BY <2>1 DEF PointsInv
  <1>3. ASSUME NEW u \in Uploads, Step(u)
        PROVE  PointsInv'
    \* The steps that leave the points and the published versions alone.
    <2>1. ASSUME points' = points,
                 \A w \in Uploads \ {u} : /\ pc'[w] = pc[w] /\ txn'[w].rows = txn[w].rows
                                          /\ versionStatus'[w] = versionStatus[w],
                 PointsOf(u)'
          PROVE  PointsInv'
      <3>1. ASSUME NEW w \in Uploads \ {u} PROVE PointsOf(w)'
          BY <2>1, <3>1, PointsKept DEF PointsInv, Written
      <3> QED
          BY <2>1, <3>1 DEF PointsInv
    <2>2. ASSUME NEW p \in Parts, Upserted(u, p),
                 UNCHANGED <<txn, versionStatus>>,
                 \A w \in Uploads \ {u} : pc'[w] = pc[w],
                 PointsOf(u)'
          PROVE  PointsInv'
      <3>1. ASSUME NEW w \in Uploads \ {u} PROVE PointsOf(w)'
        <4>1. \A q \in Parts : Written(w, q)' <=> Written(w, q)
            BY <1>0, <2>2, <3>1, UpsertedWrites
        <4> QED
            BY <2>2, <3>1, <4>1, PointsKept DEF PointsInv
      <3> QED
          BY <2>2, <3>1 DEF PointsInv
    <2>3. /\ PointsOf(u)
          /\ pc[u] \in ProgramPoints /\ txn[u] \in Txns
          /\ versionStatus[u] # "absent" => pc[u] \in {"ready", "failed", "lost"}
        BY <1>0 DEF PointsInv, TxnInv
    <2>4. ASSUME NEW d \in Uploads,
                 \/ Save(u) \/ Reject(u) \/ ResolveExplicit(u, d)
                 \/ ResolveCandidate(u, d) \/ ResolveNew(u) \/ CreateVersion(u)
          PROVE  PointsInv'
      <3>1. /\ UNCHANGED <<points, versionStatus>>
            /\ pc[u] \in {"idle", "stored", "resolved"}
            /\ \E q \in {"stored", "rejected", "resolved", "created"} : pc' = [pc EXCEPT ![u] = q]
            /\ \/ txn' = txn
               \/ \E e \in Uploads : txn' = [txn EXCEPT ![u].doc = e]
               \/ \E n : txn' = [txn EXCEPT ![u].number = n]
          BY <2>4 DEF Save, Reject, ResolveExplicit, ResolveCandidate, ResolveNew,
             ResolveDocument, CreateVersion
      <3>2. \A w \in Uploads : txn'[w].rows = txn[w].rows
          BY <1>0, <3>1 DEF Txns
      <3>3. \A w \in Uploads \ {u} : pc'[w] = pc[w]
          BY <1>0, <3>1
      <3>4. PointsOf(u)'
          BY <1>0, <2>3, <3>1, <3>2 DEF PointsOf, Written
      <3> QED
          BY <2>1, <3>1, <3>2, <3>3, <3>4
    <2>5. CASE StageRows(u)
      <3>1. /\ UNCHANGED <<points, versionStatus>> /\ pc[u] = "created"
            /\ pc' = [pc EXCEPT ![u] = "staged"] /\ txn' = [txn EXCEPT ![u].rows = TRUE]
          BY <2>5 DEF StageRows
      <3>2. /\ pc'[u] = "staged" /\ txn'[u].rows = TRUE
            /\ \A w \in Uploads \ {u} : pc'[w] = pc[w] /\ txn'[w].rows = txn[w].rows
          BY <1>0, <3>1 DEF Txns
      <3>3. WrittenBelow(u, 1)' /\ 1 \in Batches
        <4>1. 1 \in Batches /\ \A b \in Batches : ~ (b < 1)
            BY IngestionAssumption DEF Batches
        <4>2. \A b \in Batches : ~ Written(u, b)'
            BY <1>00, <2>3, <3>1 DEF PointsOf, Written
        <4> QED
            BY <4>1, <4>2 DEF WrittenBelow
      <3>4. PointsOf(u)'
          BY <2>3, <3>1, <3>2, <3>3 DEF PointsOf
      <3> QED
          BY <2>1, <3>1, <3>2, <3>4
    <2>6. CASE UpsertBatch(u)
      <3>1. PICK k \in Batches : WrittenBelow(u, k)
          BY <2>3, <2>6 DEF UpsertBatch, PointsOf
      <3>2. /\ pc[u] = "staged" /\ Upserted(u, k) /\ UNCHANGED <<txn, versionStatus>>
            /\ pc' = [pc EXCEPT ![u] = IF k = NumBatches THEN "indexed" ELSE "staged"]
          BY <2>6, <3>1, NextBatchIs DEF UpsertBatch
      <3>3. k \in Parts /\ k \in Nat /\ k <= NumBatches /\ NumBatches \in Nat
          BY <1>00, IngestionAssumption DEF Batches
      <3>4. \A b \in Batches : Written(u, b)' <=> b < k + 1
        <4> SUFFICES ASSUME NEW b \in Batches PROVE Written(u, b)' <=> b < k + 1
            OBVIOUS
        <4>1. CASE b = k
            BY <1>0, <3>2, <3>3, <4>1, UpsertedWrites
        <4>2. CASE b # k
          <5>1. Written(u, b)' <=> Written(u, b)
              BY <1>0, <1>00, <3>2, <3>3, <4>2, UpsertedWrites
          <5>2. b < k <=> b < k + 1
              BY <3>3, <4>2 DEF Batches
          <5> QED
              BY <3>1, <5>1, <5>2 DEF WrittenBelow
        <4> QED
            BY <4>1, <4>2
      <3>5. txn[u].rows /\ versionStatus[u] # "ready"
          BY <2>3, <3>2 DEF PointsOf
      <3>6. PointsOf(u)'
        <4>1. CASE k = NumBatches
          <5>1. \A b \in Batches : Written(u, b)'
              BY <3>3, <3>4, <4>1 DEF Batches
          <5>2. pc'[u] = "indexed"
              BY <1>0, <3>2, <4>1
          <5> QED
              BY <3>2, <3>5, <5>1, <5>2 DEF PointsOf
        <4>2. CASE k # NumBatches
          <5>1. k + 1 \in Batches
              BY <3>3, <4>2 DEF Batches
          <5>2. WrittenBelow(u, k + 1)'
              BY <3>4 DEF WrittenBelow
          <5>3. pc'[u] = "staged"
              BY <1>0, <3>2, <4>2
          <5> QED
              BY <3>2, <3>5, <5>1, <5>2, <5>3 DEF PointsOf
        <4> QED
            BY <4>1, <4>2
      <3> QED
          BY <1>0, <2>2, <3>2, <3>3, <3>6
    <2>7. CASE InvalidateKeywordCache(u) \/ Activate(u)
      <3>1. /\ UNCHANGED <<points, txn, versionStatus>>
            /\ \/ pc[u] = "indexed" /\ pc' = [pc EXCEPT ![u] = "invalidated"]
               \/ pc[u] = "summarised" /\ pc' = [pc EXCEPT ![u] = "activated"]
          BY <2>7 DEF InvalidateKeywordCache, Activate
      <3>2. /\ \A w \in Uploads \ {u} : pc'[w] = pc[w]
            /\ \/ pc[u] = "indexed" /\ pc'[u] = "invalidated"
               \/ pc[u] = "summarised" /\ pc'[u] = "activated"
          BY <1>0, <3>1
      <3>3. PointsOf(u)'
          BY <2>3, <3>1, <3>2 DEF PointsOf, Written
      <3> QED
          BY <2>1, <3>1, <3>2, <3>3
    <2>8. CASE IndexHierarchy(u)
      <3>1. /\ UNCHANGED <<txn, versionStatus>> /\ pc[u] = "invalidated"
            /\ pc'[u] = "summarised" /\ \A w \in Uploads \ {u} : pc'[w] = pc[w]
          BY <1>0, <2>8 DEF IndexHierarchy
      <3>2. versionStatus[u] # "ready" /\ txn[u].rows /\ \A b \in Batches : Written(u, b)
          BY <2>3, <3>1 DEF PointsOf
      <3>3. CASE Upserted(u, SummaryPart)
        <4>1. Written(u, SummaryPart)' /\ \A b \in Batches : Written(u, b)'
            BY <1>0, <1>00, <3>2, <3>3, UpsertedWrites
        <4>2. PointsOf(u)'
            BY <3>1, <3>2, <4>1 DEF PointsOf
        <4> QED
            BY <1>00, <2>2, <3>1, <3>3, <4>2
      <3>4. CASE MaySkipHierarchy /\ UNCHANGED qdrantVars
        <4>1. PointsOf(u)'
            BY <3>1, <3>2, <3>4 DEF PointsOf, Written, MaySkipHierarchy
        <4> QED
            BY <2>1, <3>1, <3>4, <4>1
      <3> QED
          BY <2>8, <3>3, <3>4 DEF IndexHierarchy
    <2>9. CASE Commit(u) \/ CommitUnacknowledged(u)
      <3>1. /\ UNCHANGED <<points, txn>> /\ pc[u] = "activated"
            /\ versionStatus' = [versionStatus EXCEPT ![u] = "ready"]
            /\ \E q \in {"ready", "lost"} : pc' = [pc EXCEPT ![u] = q]
          BY <2>9 DEF Commit, CommitUnacknowledged, PublishReady
      <3>2. /\ \A w \in Uploads \ {u} : pc'[w] = pc[w] /\ versionStatus'[w] = versionStatus[w]
            /\ pc'[u] \in {"ready", "lost"}
          BY <1>0, <3>1
      <3>3. PointsOf(u)'
          BY <2>3, <3>1, <3>2 DEF PointsOf, Indexed, Written
      <3> QED
          BY <2>1, <3>1, <3>2, <3>3
    <2>10. CASE Fail(u)
      <3>1. /\ UNCHANGED <<txn, versionStatus>> /\ pc[u] \in Locked
            /\ pc'[u] = "failing" /\ \A w \in Uploads \ {u} : pc'[w] = pc[w]
          BY <1>0, <2>10 DEF Fail, Locked
      <3>2. versionStatus[u] # "ready"
          BY <2>3, <3>1 DEF Locked
      <3>3. ASSUME NEW p \in Parts, Upserted(u, p), txn[u].rows
            PROVE  PointsInv'
        <4>1. PointsOf(u)'
            BY <3>1, <3>2, <3>3 DEF PointsOf
        <4> QED
            BY <2>2, <3>1, <3>3, <4>1
      <3>4. CASE points' = points
        <4>1. PointsOf(u)'
            BY <2>3, <3>1, <3>2, <3>4 DEF PointsOf, Written
        <4> QED
            BY <2>1, <3>1, <3>4, <4>1
      <3>5. CASE pc[u] = "staged" /\ Upserted(u, NextBatch(u))
        <4>1. PICK k \in Batches : WrittenBelow(u, k)
            BY <2>3, <3>5 DEF PointsOf
        <4>2. NextBatch(u) \in Parts /\ txn[u].rows
            BY <1>00, <2>3, <3>5, <4>1, NextBatchIs DEF PointsOf
        <4> QED
            BY <3>3, <3>5, <4>2
      <3>6. CASE pc[u] = "invalidated" /\ Upserted(u, SummaryPart)
          BY <1>00, <2>3, <3>3, <3>6 DEF PointsOf
      <3> QED
          BY <2>10, <3>4, <3>5, <3>6 DEF Fail
    <2>11. CASE MarkFailed(u) \/ Lose(u)
      <3>1. /\ UNCHANGED <<points, txn>>
            /\ \E q \in {"failed", "lost"} : pc' = [pc EXCEPT ![u] = q]
            /\ \/ versionStatus' = versionStatus
               \/ versionStatus' = [versionStatus EXCEPT ![u] = "failed"]
          BY <2>11 DEF MarkFailed, Lose
      <3>2. /\ \A w \in Uploads \ {u} : pc'[w] = pc[w] /\ versionStatus'[w] = versionStatus[w]
            /\ pc'[u] \in {"failed", "lost"}
            /\ versionStatus'[u] \in {versionStatus[u], "failed"}
          BY <1>0, <3>1
      <3>3. PointsOf(u)'
          BY <2>3, <3>1, <3>2 DEF PointsOf, Indexed, Written
      <3> QED
          BY <2>1, <3>1, <3>2, <3>3
    <2> QED
        BY <1>3, <2>4, <2>5, <2>6, <2>7, <2>8, <2>9, <2>10, <2>11 DEF Step, Progress
  <1> QED
      BY <1>1, <1>2, <1>3 DEF Next

\* Nothing is written at first.
LEMMA PointsInitially == Init => PointsInv
  <1> SUFFICES ASSUME Init, NEW u \in Uploads PROVE PointsOf(u)
      BY DEF PointsInv
  <1>1. pc[u] = "idle" /\ versionStatus[u] = "absent" /\ \A p \in Parts : ~ Written(u, p)
      BY DEF Init, Written
  <1> QED
      BY <1>1 DEF PointsOf

\* Rows and points go with the progress of their upload, whatever fails.
THEOREM PointsInvariance == Spec => []PointsInv
  <1>1. IInv /\ PointsInv /\ [Next]_vars => PointsInv'
      BY PointsStep
  <1> QED
      BY <1>1, PointsInitially, Invariance, PTL DEF Spec

\* A version that PostgreSQL announces as READY has all its rows and points.
THEOREM PublishedIsIndexed == Spec => []ReadyIsIndexed
  <1>1. PointsInv => ReadyIsIndexed
      BY DEF PointsInv, PointsOf, Indexed, Written, ReadyIsIndexed
  <1> QED
      BY <1>1, PointsInvariance, PTL

-----------------------------------------------------------------------------
(* Activations.                                                            *)

\* Where an upload is once its activation may have been sent.
Activated == {"activated", "failing", "ready", "failed", "lost"}

Ready(u) == versionStatus[u] = "ready"

\* Only uploads that came that far have sent one, and at that time they had
\* the highest number of their document.
SentOf(v) ==
    /\ pc[v] \in Activated /\ txn[v].doc \in Uploads
    /\ txn[v].number <= MaxNumber(txn[v].doc) + 1

SentInv == \A v \in flagsSent : SentOf(v)

\* What a step does to Qdrant: nothing, ...
LeavesQdrant ==
    /\ UNCHANGED qdrantVars
    /\ \A w \in Uploads :
          /\ pc[w] \in Activated => pc'[w] \in Activated
          /\ pc'[w] = "activated" => pc[w] = "activated"
          /\ pc'[w] \in Locked => pc[w] \in Locked \cup {"resolved"}
          /\ Ready(w)' => Ready(w) \/ pc[w] = "activated"

\* ... an upsert, ...
Upserts(u, p) ==
    /\ Upserted(u, p)
    /\ pc[u] \in {"staged", "invalidated"}
    /\ pc'[u] \in Locked \ {"activated"}
    /\ \A w \in Uploads \ {u} : pc'[w] = pc[w]
    /\ UNCHANGED <<txn, lock, versionStatus>>

\* ... or an activation, which is applied later.
Sends(u) ==
    /\ flagsSent' = flagsSent \cup {u}
    /\ pc[u] = "summarised" /\ pc'[u] \in {"activated", "failing"}
    /\ \A w \in Uploads \ {u} : pc'[w] = pc[w]
    /\ UNCHANGED <<points, flagsApplied, txn, lock, versionStatus>>

\* These are all the steps.
LEMMA QdrantSteps ==
    ASSUME IInv, PointsInv, [Next]_vars
    PROVE  \/ LeavesQdrant
           \/ \E u \in Uploads, p \in Parts : Upserts(u, p)
           \/ \E u \in Uploads : Sends(u)
           \/ \E v \in Uploads : ApplyActivation(v)
  <1> USE DEF Goto, pgVars, qdrantVars, Locked, Activated, Ready
  <1>0. pc \in [Uploads -> ProgramPoints]
        /\ versionStatus \in [Uploads -> {"absent", "processing", "ready", "failed"}]
      BY DEF IInv, TypeOK
  <1>00. SummaryPart \in Parts /\ Batches \subseteq Parts
      BY DEF Parts
  <1>1. CASE UNCHANGED vars
      BY <1>1 DEF vars, LeavesQdrant
  <1>2. ASSUME NEW u \in Uploads, NEW d \in Uploads,
               \/ Save(u) \/ Reject(u) \/ ResolveExplicit(u, d)
               \/ ResolveCandidate(u, d) \/ ResolveNew(u) \/ CreateVersion(u)
               \/ StageRows(u) \/ InvalidateKeywordCache(u) \/ Lose(u)
        PROVE  LeavesQdrant
      BY <1>0, <1>2 DEF Save, Reject, ResolveExplicit, ResolveCandidate, ResolveNew,
         ResolveDocument, CreateVersion, StageRows, InvalidateKeywordCache, Lose, LeavesQdrant
  <1>3. ASSUME NEW u \in Uploads, Commit(u) \/ CommitUnacknowledged(u) \/ MarkFailed(u)
        PROVE  LeavesQdrant
      BY <1>0, <1>3 DEF Commit, CommitUnacknowledged, MarkFailed, PublishReady, LeavesQdrant
  <1>4. ASSUME NEW u \in Uploads, pc[u] = "staged"
        PROVE  NextBatch(u) \in Parts
      BY <1>00, <1>4, NextBatchIs DEF PointsInv, PointsOf
  <1>5. ASSUME NEW u \in Uploads, UpsertBatch(u)
        PROVE  \E p \in Parts : Upserts(u, p)
    <2>1. NextBatch(u) \in Parts
        BY <1>4, <1>5 DEF UpsertBatch
    <2>2. Upserts(u, NextBatch(u))
        BY <1>0, <1>5 DEF UpsertBatch, Upserts
    <2> QED
        BY <2>1, <2>2
  <1>6. ASSUME NEW u \in Uploads, IndexHierarchy(u)
        PROVE  LeavesQdrant \/ \E p \in Parts : Upserts(u, p)
    <2>1. CASE UNCHANGED qdrantVars
        BY <1>0, <1>6, <2>1 DEF IndexHierarchy, LeavesQdrant
    <2>2. CASE Upserted(u, SummaryPart)
        BY <1>0, <1>00, <1>6, <2>2 DEF IndexHierarchy, Upserts
    <2> QED
        BY <1>6, <2>1, <2>2 DEF IndexHierarchy
  <1>7. ASSUME NEW u \in Uploads, Activate(u)
        PROVE  Sends(u)
      BY <1>0, <1>7 DEF Activate, Sends
  <1>8. ASSUME NEW u \in Uploads, Fail(u)
        PROVE  LeavesQdrant \/ (\E p \in Parts : Upserts(u, p)) \/ Sends(u)
    <2>1. CASE UNCHANGED qdrantVars
        BY <1>0, <1>8, <2>1 DEF Fail, LeavesQdrant
    <2>2. CASE pc[u] = "staged" /\ Upserted(u, NextBatch(u))
      <3>1. Upserts(u, NextBatch(u))
          BY <1>0, <1>8, <2>2 DEF Fail, Upserts
      <3> QED
          BY <1>4, <2>2, <3>1
    <2>3. CASE pc[u] = "invalidated" /\ Upserted(u, SummaryPart)
        BY <1>0, <1>00, <1>8, <2>3 DEF Fail, Upserts
    <2>4. CASE /\ pc[u] = "summarised" /\ flagsSent' = flagsSent \cup {u}
               /\ UNCHANGED <<points, flagsApplied>>
        BY <1>0, <1>8, <2>4 DEF Fail, Sends
    <2> QED
        BY <1>8, <2>1, <2>2, <2>3, <2>4 DEF Fail
  <1> QED
      BY <1>1, <1>2, <1>3, <1>5, <1>6, <1>7, <1>8 DEF Next, Step, Progress

\* Numbers are given once, and the highest number of a document only grows.
LEMMA NumbersStay ==
    ASSUME IInv, [Next]_vars
    PROVE  /\ \A v \in Uploads : pc[v] \notin {"idle", "stored", "resolved"} =>
                 txn'[v].doc = txn[v].doc /\ txn'[v].number = txn[v].number
           /\ \A d \in Uploads : /\ MaxNumber(d) \in Nat /\ MaxNumber(d)' \in Nat
                                 /\ MaxNumber(d) <= MaxNumber(d)'
  <1> USE DEF Locked, pgVars, Goto
  <1>0. TypeOK /\ \A d \in Uploads : MaxNumber(d) \in Nat
      BY DEF IInv, NumberInv
  <1> DEFINE Same == \A v \in Uploads : pc[v] \notin {"idle", "stored", "resolved"} =>
                        txn'[v].doc = txn[v].doc /\ txn'[v].number = txn[v].number
             Grows == \A d \in Uploads : /\ MaxNumber(d)' \in Nat
                                         /\ MaxNumber(d) <= MaxNumber(d)'
  <1>1. ASSUME versionStatus' = versionStatus, Same
        PROVE  Grows
    <2>1. \A v \in Uploads : versionStatus[v] # "absent" =>
              txn'[v].doc = txn[v].doc /\ txn'[v].number = txn[v].number
        BY <1>1 DEF IInv, TxnInv
    <2>2. \A d \in Uploads : MaxNumber(d)' = MaxNumber(d)
        BY <1>0, <1>1, <2>1, QuietStep
    <2> QED
        BY <1>0, <2>2
  <1>2. CASE Rests
    <2>1. Same /\ versionStatus' = versionStatus
        BY <1>2 DEF Rests
    <2> QED
        BY <1>0, <1>1, <2>1
  <1>3. ASSUME NEW u \in Uploads, Prepares(u) \/ Locks(u) \/ RollsBack(u)
        PROVE  Same /\ Grows
    <2>1. Same /\ versionStatus' = versionStatus
        BY <1>0, <1>3 DEF Prepares, Locks, RollsBack, TypeOK
    <2> QED
        BY <1>1, <2>1
  <1>4. ASSUME NEW u \in Uploads, Works(u)
        PROVE  Same /\ Grows
    <2>1. Same /\ versionStatus' = versionStatus
        BY <1>0, <1>4, WorksTxn DEF Works
    <2> QED
        BY <1>1, <2>1
  <1>5. ASSUME NEW u \in Uploads, Publishes(u)
        PROVE  Same /\ Grows
    <2>1. Same /\ pc[u] \in Locked /\ txn' = txn
        BY <1>5 DEF Publishes
    <2>2. PICK s \in {"ready", "failed"} : versionStatus' = [versionStatus EXCEPT ![u] = s]
        BY <1>5 DEF Publishes, PublishReady, MarkFailed
    <2>3. PICK d \in Uploads : d = txn[u].doc
        BY <2>1 DEF IInv, TxnInv
    <2>4. MaxNumber(d)' = MaxNumber(d) + 1
        BY <2>1, <2>2, <2>3, PublishStep
    <2>5. \A e \in Uploads \ {d} : MaxNumber(e)' = MaxNumber(e)
        BY <2>1, <2>2, <2>3, PublishStep
    <2>6. ASSUME NEW e \in Uploads
          PROVE  MaxNumber(e)' \in Nat /\ MaxNumber(e) <= MaxNumber(e)'
      <3>1. CASE e = d
          BY <1>0, <2>4, <3>1
      <3>2. CASE e # d
          BY <1>0, <2>5, <3>2
      <3> QED
          BY <3>1, <3>2
    <2> QED
        BY <2>1, <2>6
  <1> QED
      BY <1>0, <1>2, <1>3, <1>4, <1>5, StepKinds

\* Who holds a document's lock has a higher number than its READY versions, and
\* holds it alone.
LEMMA HolderIsAhead ==
    ASSUME IInv, NEW u \in Uploads, pc[u] \in Locked,
           NEW h \in Uploads, h # u, txn[h].doc = txn[u].doc
    PROVE  pc[h] \notin Locked /\ (Ready(h) => txn[h].number < txn[u].number)
  <1>1. pc[h] \notin Locked
      BY DEF IInv, LockInv
  <1>2. ASSUME Ready(h) PROVE txn[h].number < txn[u].number
    <2> DEFINE d == txn[u].doc
    <2>1. d \in Uploads /\ txn[u].number = MaxNumber(d) + 1 /\ MaxNumber(d) \in Nat
        BY DEF IInv, TxnInv, NumberInv
    <2>2. txn[h].number \in 1..MaxNumber(d)
        BY <1>2, <2>1 DEF IInv, NumberInv, Ready, CommittedVersions, CommittedNumbers
    <2> QED
        BY <2>1, <2>2
  <1> QED
      BY <1>1, <1>2

\* Every step keeps SentInv: activations are sent in the order of versions.
LEMMA SentStep ==
    ASSUME IInv, PointsInv, SentInv, [Next]_vars
    PROVE  SentInv'
  <1>0. flagsSent \subseteq Uploads /\ txn \in [Uploads -> Txns]
      BY DEF IInv, TypeOK
  <1>1. ASSUME NEW v \in Uploads, NEW d \in Uploads, pc'[v] \in Activated,
               txn'[v].doc = d, txn'[v].number = txn[v].number,
               txn[v].number <= MaxNumber(d) + 1
        PROVE  SentOf(v)'
    <2>1. /\ MaxNumber(d) <= MaxNumber(d)' /\ MaxNumber(d) \in Nat /\ MaxNumber(d)' \in Nat
          /\ txn[v].number \in Nat
        BY <1>0, NumbersStay DEF Txns
    <2>2. txn'[v].number <= MaxNumber(d)' + 1
        BY <1>1, <2>1
    <2>3. MaxNumber(txn[v].doc)' = MaxNumber(d)'
        BY <1>1
    <2> QED
        BY <1>1, <2>2, <2>3 DEF SentOf
  <1>2. ASSUME NEW v \in flagsSent, pc'[v] \in Activated
        PROVE  SentOf(v)'
    <2>1. SentOf(v) /\ v \in Uploads
        BY <1>0 DEF SentInv
    <2>2. txn'[v].doc = txn[v].doc /\ txn'[v].number = txn[v].number
        BY <2>1, NumbersStay DEF SentOf, Activated
    <2> QED
        BY <1>1, <1>2, <2>1, <2>2 DEF SentOf
  <1>3. CASE LeavesQdrant
    <2>1. flagsSent' = flagsSent /\ \A v \in flagsSent : pc'[v] \in Activated
        BY <1>0, <1>3 DEF LeavesQdrant, qdrantVars, SentInv, SentOf
    <2> QED
        BY <1>2, <2>1 DEF SentInv
  <1>4. ASSUME NEW u \in Uploads, NEW p \in Parts, Upserts(u, p)
        PROVE  SentInv'
    <2>1. flagsSent' = flagsSent /\ u \notin flagsSent
        BY <1>4 DEF Upserts, Upserted, SentInv, SentOf, Activated
    <2>2. \A v \in flagsSent : pc'[v] \in Activated
        BY <1>0, <1>4, <2>1 DEF Upserts, SentInv, SentOf
    <2> QED
        BY <1>2, <2>1, <2>2 DEF SentInv
  <1>5. ASSUME NEW u \in Uploads, Sends(u)
        PROVE  SentInv'
    <2>1. \A v \in flagsSent : pc'[v] \in Activated
        BY <1>0, <1>5 DEF Sends, SentInv, SentOf, Activated
    <2>2. /\ txn[u].doc \in Uploads /\ txn[u].number = MaxNumber(txn[u].doc) + 1
          /\ txn' = txn /\ pc'[u] \in Activated
        BY <1>5 DEF Sends, IInv, TxnInv, NumberInv, Locked, Activated
    <2>3. txn[u].number <= MaxNumber(txn[u].doc) + 1
        BY <1>0, <2>2 DEF Txns
    <2>4. SentOf(u)'
        BY <1>1, <2>2, <2>3
    <2>5. flagsSent' = flagsSent \cup {u}
        BY <1>5 DEF Sends
    <2> QED
        BY <1>2, <2>1, <2>4, <2>5 DEF SentInv
  <1>6. ASSUME NEW v \in Uploads, ApplyActivation(v)
        PROVE  SentInv'
    <2>1. pc' = pc /\ flagsSent' = flagsSent
        BY <1>6 DEF ApplyActivation
    <2> QED
        BY <1>2, <2>1 DEF SentInv, SentOf
  <1> QED
      BY <1>3, <1>4, <1>5, <1>6, QdrantSteps

\* An activation is sent by the upload that is being summarised.
THEOREM SentInvariance == Spec => []SentInv
  <1>1. Init => SentInv
      BY DEF Init, SentInv
  <1>2. IInv /\ PointsInv /\ SentInv /\ [Next]_vars => SentInv'
      BY SentStep
  <1> QED
      BY <1>1, <1>2, Invariance, PointsInvariance, PTL DEF Spec

\* Activations reach Qdrant in the order of the version numbers.
THEOREM ActivationsOrdered == Spec => ActivationsInVersionOrder
  <1> DEFINE Ordered == \A u \in flagsSent' \ flagsSent, v \in flagsSent :
                           txn[v].doc = txn[u].doc => txn[v].number <= txn[u].number
  <1>1. ASSUME IInv, PointsInv, SentInv, [Next]_vars PROVE Ordered
    <2>1. CASE flagsSent' = flagsSent
        BY <2>1
    <2>2. ASSUME NEW u \in Uploads, Sends(u) PROVE Ordered
      <3>1. flagsSent' = flagsSent \cup {u} /\ txn[u].number = MaxNumber(txn[u].doc) + 1
          BY <1>1, <2>2 DEF Sends, IInv, NumberInv, Locked
      <3>2. \A v \in flagsSent : txn[v].number <= MaxNumber(txn[v].doc) + 1
          BY <1>1 DEF SentInv, SentOf
      <3>3. ASSUME NEW v \in flagsSent, txn[v].doc = txn[u].doc
            PROVE  txn[v].number <= txn[u].number
          BY <3>1, <3>2, <3>3
      <3> QED
          BY <3>1, <3>3
    <2>3. flagsSent' = flagsSent \/ \E u \in Uploads : Sends(u)
        BY <1>1, QdrantSteps DEF LeavesQdrant, Upserts, Upserted, ApplyActivation, qdrantVars
    <2> QED
        BY <2>1, <2>2, <2>3
  <1>2. ASSUME IInv, PointsInv, SentInv, [Next]_vars PROVE [Ordered]_vars
      BY <1>1, <1>2
  <1> QED
      BY <1>2, Invariance, PointsInvariance, SentInvariance, PTL
         DEF Spec, ActivationsInVersionOrder

-----------------------------------------------------------------------------
(* Flags.                                                                  *)

\* The versions whose flags matter: those of a lock holder, which may become
\* READY, and the READY ones.
Concerned(h) == pc[h] \in Locked \/ Ready(h)

SameDoc(h, w) == txn[w].doc = txn[h].doc
Later(h, w) == SameDoc(h, w) /\ txn[w].number > txn[h].number

\* An activation Qdrant has not applied yet can only demote older versions, ...
PendingOf(h) ==
    (Concerned(h) /\ \E p \in Parts : Written(h, p)) =>
        \A v \in (flagsSent \ flagsApplied) \ {h} : SameDoc(h, v) => Later(h, v)

\* ... only an applied one has demoted a version, ...
OldOf(h) ==
    (Concerned(h) /\ \E p \in Parts : points[h][p] = "old") =>
        \E w \in flagsApplied : Later(h, w)

\* ... and once applied it has demoted all the older versions.
AppliedOf(h) ==
    (h \in flagsApplied /\ (pc[h] = "activated" \/ Ready(h))) =>
        \A v \in Uploads \ {h} :
            (SameDoc(h, v) /\ txn[v].number \in 1..txn[h].number) => ~ FlaggedLatest(v)

FlagsInv == \A h \in Uploads : PendingOf(h) /\ OldOf(h) /\ AppliedOf(h)

\* The document and the number of a version with points, an activation or a
\* READY row are settled.
LEMMA Settled ==
    ASSUME IInv, PointsInv, SentInv, [Next]_vars, NEW v \in Uploads,
           \/ \E p \in Parts : Written(v, p)
           \/ v \in flagsSent
           \/ pc[v] \in Locked
           \/ Ready(v)
    PROVE  txn'[v].doc = txn[v].doc /\ txn'[v].number = txn[v].number
  <1>1. pc[v] \notin {"idle", "stored", "resolved"}
      BY DEF PointsInv, PointsOf, SentInv, SentOf, Activated, Locked, Ready, IInv, TxnInv
  <1> QED
      BY <1>1, NumbersStay

\* What the points show after applying the activations in V and an upsert.
LEMMA AfterUpsert ==
    ASSUME TypeOK, NEW u \in Uploads, NEW p \in Parts, Upserted(u, p),
           NEW h \in Uploads, NEW q \in Parts, h # u \/ q # p
    PROVE  /\ points'[h][q] = "old" =>
                 \/ points[h][q] = "old"
                 \/ /\ Written(h, q)
                    /\ \E v \in (flagsSent \ flagsApplied) \ {h} : SameDoc(h, v)
           /\ points'[h][q] = "latest" =>
                 /\ points[h][q] = "latest"
                 /\ \A v \in (flagsSent \ flagsApplied) \ {h} : ~ SameDoc(h, v)
  <1>1. points' = [Demoted(flagsSent \ flagsApplied) EXCEPT ![u][p] = "latest"]
      BY DEF Upserted
  <1>2. Demoted(flagsSent \ flagsApplied) \in [Uploads -> [Parts -> {"absent", "latest", "old"}]]
      BY DemotedType
  <1>3. points'[h][q] = Demoted(flagsSent \ flagsApplied)[h][q]
      BY <1>1, <1>2
  <1> QED
      BY <1>3 DEF Demoted, Written, SameDoc

\* The three kinds of steps that change Qdrant, and those that do not.
LEMMA FlagsLeft ==
    ASSUME IInv, PointsInv, SentInv, FlagsInv, [Next]_vars, LeavesQdrant
    PROVE  FlagsInv'
  <1>0. /\ points' = points /\ flagsSent' = flagsSent /\ flagsApplied' = flagsApplied
        /\ flagsApplied \subseteq flagsSent /\ flagsSent \subseteq Uploads
      BY DEF LeavesQdrant, qdrantVars, IInv, TypeOK
  <1>1. \A v \in flagsSent : txn'[v].doc = txn[v].doc /\ txn'[v].number = txn[v].number
      BY <1>0, Settled
  <1>2. ASSUME NEW h \in Uploads, Concerned(h)', NEW p \in Parts, Written(h, p)
        PROVE  Concerned(h) /\ txn'[h].doc = txn[h].doc /\ txn'[h].number = txn[h].number
    <2>1. pc[h] # "resolved"
        BY <1>2 DEF PointsInv, PointsOf
    <2>2. Concerned(h)
        BY <1>2, <2>1 DEF LeavesQdrant, Concerned, Locked
    <2> QED
        BY <1>2, <2>2, Settled
  <1>3. ASSUME NEW h \in Uploads PROVE PendingOf(h)'
    <2> SUFFICES ASSUME Concerned(h)', NEW p \in Parts, Written(h, p)',
                        NEW v \in (flagsSent \ flagsApplied) \ {h}, SameDoc(h, v)'
                 PROVE  Later(h, v)'
        BY <1>0 DEF PendingOf
    <2>1. Written(h, p)
        BY <1>0 DEF Written
    <2>2. /\ Concerned(h) /\ txn'[h].doc = txn[h].doc /\ txn'[h].number = txn[h].number
          /\ txn'[v].doc = txn[v].doc /\ txn'[v].number = txn[v].number
        BY <1>1, <1>2, <2>1
    <2>3. Later(h, v)
        BY <2>1, <2>2 DEF FlagsInv, PendingOf, SameDoc
    <2> QED
        BY <2>2, <2>3 DEF Later, SameDoc
  <1>4. ASSUME NEW h \in Uploads PROVE OldOf(h)'
    <2> SUFFICES ASSUME Concerned(h)', NEW p \in Parts, points[h][p] = "old"
                 PROVE  \E w \in flagsApplied : Later(h, w)'
        BY <1>0 DEF OldOf
    <2>1. Concerned(h) /\ txn'[h].doc = txn[h].doc /\ txn'[h].number = txn[h].number
        BY <1>2 DEF Written
    <2>2. PICK w \in flagsApplied : Later(h, w)
        BY <2>1 DEF FlagsInv, OldOf
    <2>3. txn'[w].doc = txn[w].doc /\ txn'[w].number = txn[w].number
        BY <1>0, <1>1
    <2> QED
        BY <2>1, <2>2, <2>3 DEF Later, SameDoc
  <1>5. ASSUME NEW h \in Uploads PROVE AppliedOf(h)'
    <2> SUFFICES ASSUME h \in flagsApplied, pc'[h] = "activated" \/ Ready(h)',
                        NEW v \in Uploads \ {h}, SameDoc(h, v)', txn'[v].number \in 1..txn'[h].number,
                        NEW p \in Parts, points[v][p] = "latest"
                 PROVE  FALSE
        BY <1>0 DEF AppliedOf, FlaggedLatest
    <2>1. pc[h] = "activated" \/ Ready(h)
        BY DEF LeavesQdrant
    <2>2. /\ txn'[h].doc = txn[h].doc /\ txn'[h].number = txn[h].number
          /\ txn'[v].doc = txn[v].doc /\ txn'[v].number = txn[v].number
        BY <1>0, <1>1, Settled DEF Written
    <2>3. SameDoc(h, v) /\ txn[v].number \in 1..txn[h].number /\ FlaggedLatest(v)
        BY <2>2 DEF SameDoc, FlaggedLatest
    <2> QED
        BY <2>1, <2>3 DEF FlagsInv, AppliedOf
  <1> QED
      BY <1>3, <1>4, <1>5 DEF FlagsInv

\* Points that are upserted get the flag FlagsInv wants.
LEMMA FlagsUpserted ==
    ASSUME IInv, PointsInv, SentInv, FlagsInv,
           NEW u \in Uploads, NEW p \in Parts, Upserts(u, p)
    PROVE  FlagsInv'
  <1>0. /\ Upserted(u, p) /\ flagsSent' = flagsSent /\ flagsApplied' = flagsSent /\ txn' = txn
        /\ versionStatus' = versionStatus /\ u \notin flagsSent
        /\ flagsApplied \subseteq flagsSent /\ flagsSent \subseteq Uploads /\ TypeOK
        /\ pc[u] \in Locked /\ pc'[u] \in Locked /\ pc'[u] # "activated"
      BY DEF Upserts, Upserted, IInv, TypeOK, SentInv, SentOf, Activated, Locked
  <1>1. \A h \in Uploads : Concerned(h)' <=> Concerned(h)
      BY <1>0 DEF Upserts, Concerned, Ready
  <1>2. ASSUME NEW h \in Uploads PROVE PendingOf(h)'
      BY <1>0 DEF PendingOf
  <1>3. ASSUME NEW h \in Uploads PROVE OldOf(h)'
    <2> SUFFICES ASSUME Concerned(h), NEW q \in Parts, points'[h][q] = "old"
                 PROVE  \E w \in flagsSent : Later(h, w)
        BY <1>0, <1>1 DEF OldOf, Later, SameDoc
    <2>1. h # u \/ q # p
      <3>1. points'[u][p] = "latest"
        <4>1. Demoted(flagsSent \ flagsApplied) \in [Uploads -> [Parts -> {"absent", "latest", "old"}]]
            BY <1>0, DemotedType
        <4> QED
            BY <1>0, <4>1 DEF Upserted
      <3> QED
          BY <3>1
    <2>2. CASE points[h][q] = "old"
        BY <1>0, <2>2 DEF FlagsInv, OldOf
    <2>3. ASSUME Written(h, q), NEW v \in (flagsSent \ flagsApplied) \ {h}, SameDoc(h, v)
          PROVE  \E w \in flagsSent : Later(h, w)
        BY <2>3 DEF FlagsInv, PendingOf
    <2> QED
        BY <1>0, <2>1, <2>2, <2>3, AfterUpsert
  <1>4. ASSUME NEW h \in Uploads PROVE AppliedOf(h)'
    <2> SUFFICES ASSUME h \in flagsSent, pc'[h] = "activated" \/ Ready(h),
                        NEW v \in Uploads \ {h}, SameDoc(h, v), txn[v].number \in 1..txn[h].number,
                        NEW q \in Parts, points'[v][q] = "latest"
                 PROVE  FALSE
        BY <1>0 DEF AppliedOf, FlaggedLatest, SameDoc, Ready
    <2>1. h # u /\ pc'[h] = pc[h]
        BY <1>0 DEF Upserts
    <2>2. v # u
      <3> SUFFICES ASSUME v = u PROVE FALSE
          OBVIOUS
      <3>1. pc[h] \notin Locked /\ (Ready(h) => txn[h].number < txn[u].number)
          BY <1>0, <2>1, HolderIsAhead DEF SameDoc
      <3>2. txn[h].number \in Nat /\ txn[u].number \in Nat
          BY <1>0 DEF TypeOK, Txns
      <3> QED
          BY <2>1, <3>1, <3>2 DEF Locked
    <2>3. points[v][q] = "latest" /\ \A w \in (flagsSent \ flagsApplied) \ {v} : ~ SameDoc(v, w)
        BY <1>0, <2>2, AfterUpsert
    <2>4. h \in flagsApplied
        BY <2>3 DEF SameDoc
    <2> QED
        BY <2>1, <2>3, <2>4 DEF FlagsInv, AppliedOf, FlaggedLatest
  <1> QED
      BY <1>2, <1>3, <1>4 DEF FlagsInv

\* Sending an activation changes what flags may be, not what they are.
LEMMA FlagsSentStep ==
    ASSUME IInv, PointsInv, SentInv, FlagsInv, NEW u \in Uploads, Sends(u)
    PROVE  FlagsInv'
  <1>0. /\ points' = points /\ flagsApplied' = flagsApplied /\ txn' = txn
        /\ versionStatus' = versionStatus /\ flagsSent' = flagsSent \cup {u}
        /\ u \notin flagsApplied /\ u \notin flagsSent
        /\ pc[u] \in Locked /\ pc'[u] \in Locked
        /\ TypeOK
      BY DEF Sends, IInv, TypeOK, SentInv, SentOf, Activated, Locked
  <1>1. \A h \in Uploads : Concerned(h)' <=> Concerned(h)
      BY <1>0 DEF Sends, Concerned, Ready
  <1>2. ASSUME NEW h \in Uploads PROVE PendingOf(h)'
    <2> SUFFICES ASSUME Concerned(h), \E p \in Parts : Written(h, p),
                        NEW v \in (flagsSent' \ flagsApplied) \ {h}, SameDoc(h, v)
                 PROVE  Later(h, v)
        BY <1>0, <1>1 DEF PendingOf, Later, SameDoc, Written
    <2>1. CASE v = u
      <3>1. pc[h] \notin Locked /\ (Ready(h) => txn[h].number < txn[u].number)
          BY <1>0, <2>1, HolderIsAhead DEF SameDoc
      <3>2. txn[h].number \in Nat /\ txn[u].number \in Nat
          BY <1>0 DEF TypeOK, Txns
      <3> QED
          BY <2>1, <3>1, <3>2 DEF Concerned, Later
    <2>2. CASE v # u
        BY <1>0, <2>2 DEF FlagsInv, PendingOf
    <2> QED
        BY <2>1, <2>2
  <1>3. ASSUME NEW h \in Uploads PROVE OldOf(h)'
      BY <1>0, <1>1 DEF FlagsInv, OldOf, Later, SameDoc
  <1>4. ASSUME NEW h \in Uploads PROVE AppliedOf(h)'
    <2>1. h \in flagsApplied => pc'[h] = pc[h]
        BY <1>0 DEF Sends
    <2> QED
        BY <1>0, <2>1 DEF FlagsInv, AppliedOf, SameDoc, Ready, FlaggedLatest
  <1> QED
      BY <1>2, <1>3, <1>4 DEF FlagsInv

\* Applying an activation sets flags to what FlagsInv wants.
LEMMA FlagsApplied ==
    ASSUME IInv, PointsInv, SentInv, FlagsInv, NEW v \in Uploads, ApplyActivation(v)
    PROVE  FlagsInv'
  <1>0. /\ points' = Demoted({v}) /\ flagsApplied' = flagsApplied \cup {v} /\ txn' = txn
        /\ versionStatus' = versionStatus /\ flagsSent' = flagsSent /\ pc' = pc
        /\ v \in flagsSent \ flagsApplied /\ TypeOK
      BY DEF ApplyActivation, pgVars, IInv
  <1>1. ASSUME NEW h \in Uploads, NEW q \in Parts
        PROVE  /\ Written(h, q)' <=> Written(h, q)
               /\ points'[h][q] = "old" =>
                     points[h][q] = "old" \/ (Written(h, q) /\ h # v /\ SameDoc(h, v))
               /\ points'[h][q] = "latest" =>
                     points[h][q] = "latest" /\ ~ (h # v /\ SameDoc(h, v))
      BY <1>0 DEF Demoted, Written, SameDoc
  <1>2. ASSUME NEW h \in Uploads PROVE PendingOf(h)'
    <2>1. (\E p \in Parts : Written(h, p)') <=> \E p \in Parts : Written(h, p)
        BY <1>1
    <2> QED
        BY <1>0, <2>1 DEF FlagsInv, PendingOf, Concerned, Ready, Later, SameDoc
  <1>3. ASSUME NEW h \in Uploads PROVE OldOf(h)'
    <2> SUFFICES ASSUME Concerned(h), NEW q \in Parts, points'[h][q] = "old"
                 PROVE  \E w \in flagsApplied \cup {v} : Later(h, w)
        BY <1>0 DEF OldOf, Later, SameDoc, Concerned, Ready
    <2>1. CASE points[h][q] = "old"
        BY <2>1 DEF FlagsInv, OldOf
    <2>2. CASE Written(h, q) /\ h # v /\ SameDoc(h, v)
        BY <1>0, <2>2 DEF FlagsInv, PendingOf
    <2> QED
        BY <1>1, <2>1, <2>2
  <1>4. ASSUME NEW h \in Uploads PROVE AppliedOf(h)'
    <2> SUFFICES ASSUME h \in flagsApplied \cup {v}, pc[h] = "activated" \/ Ready(h),
                        NEW w \in Uploads \ {h}, SameDoc(h, w), txn[w].number \in 1..txn[h].number,
                        NEW q \in Parts, points'[w][q] = "latest"
                 PROVE  FALSE
        BY <1>0 DEF AppliedOf, FlaggedLatest, SameDoc, Ready
    <2>1. points[w][q] = "latest" /\ ~ (w # v /\ SameDoc(w, v))
        BY <1>1
    <2>2. h \in flagsApplied
        BY <2>1 DEF SameDoc
    <2> QED
        BY <2>1, <2>2 DEF FlagsInv, AppliedOf, FlaggedLatest
  <1> QED
      BY <1>2, <1>3, <1>4 DEF FlagsInv

\* The flags of concerned versions follow the order of their numbers.
THEOREM FlagsInvariance == Spec => []FlagsInv
  <1>1. Init => FlagsInv
      BY DEF Init, FlagsInv, PendingOf, OldOf, AppliedOf
  <1>2. IInv /\ PointsInv /\ SentInv /\ FlagsInv /\ [Next]_vars => FlagsInv'
      BY QdrantSteps, FlagsLeft, FlagsUpserted, FlagsSentStep, FlagsApplied
  <1> QED
      BY <1>1, <1>2, Invariance, PointsInvariance, SentInvariance, PTL DEF Spec

\* Whatever fails, is lost or is applied late, Qdrant's latest flags never run
\* against the order of the versions.
THEOREM FlagsFollow == Spec => []FlagsFollowHistory
  <1>1. ASSUME IInv, PointsInv, FlagsInv PROVE FlagsFollowHistory
    <2>1. ASSUME NEW d \in Uploads, NEW h \in Uploads, IsLatestReady(h, d),
                 NEW p \in Parts, points[h][p] = "old"
          PROVE  \E w \in flagsApplied : txn[w].doc = d /\ txn[w].number > txn[h].number
      <3>1. Concerned(h) /\ txn[h].doc = d
          BY <2>1 DEF IsLatestReady, ReadyVersions, CommittedVersions, Concerned, Ready
      <3>2. PICK w \in flagsApplied : Later(h, w)
          BY <1>1, <2>1, <3>1 DEF FlagsInv, OldOf
      <3> QED
          BY <3>1, <3>2 DEF Later, SameDoc
    <2>2. LatestReadyStaysLatest
        BY <2>1 DEF LatestReadyStaysLatest
    <2>3. flagsApplied \subseteq Uploads
        BY <1>1 DEF IInv, TypeOK
    <2>4. SupersededIsNotLatest
        BY <1>1, <2>3 DEF SupersededIsNotLatest, FlagsInv, AppliedOf, Ready, SameDoc
    <2> QED
        BY <2>2, <2>4 DEF FlagsFollowHistory
  <1> QED
      BY <1>1, Invariance, PointsInvariance, FlagsInvariance, PTL

-----------------------------------------------------------------------------
(* Queries.                                                                *)

USE QueryRunAssumption

\* Queries read what uploads write and write nothing that uploads read.
LEMMA UploadsStepAsBefore ==
    ASSUME [QNext]_allVars
    PROVE  [Next]_vars
  <1>1. ASSUME NEW q \in Queries, QueryStep(q) PROVE UNCHANGED vars
      BY <1>1 DEF QueryStep, CreateRunning, LookUp, Generate, NodeFails, InsertEvidence,
         ForeignKeyViolated, CommitSucceeded, CommitFailed, Reload, PoolTimeout, LoseQuery, EndAs
  <1>2. ASSUME NEW u \in Uploads, UploadStep(u) PROVE Next
      BY <1>2 DEF UploadStep, Next
  <1>3. ASSUME NEW v \in Uploads, Activation(v) PROVE Next
      BY <1>3 DEF Activation, Next
  <1>4. CASE UNCHANGED allVars
      BY <1>4 DEF allVars
  <1> QED
      BY <1>1, <1>2, <1>3, <1>4 DEF QNext

\* The pool and the key-share locks only restrict the uploads: everything
\* proved of Ingestion holds of the composition.
THEOREM UploadsAsBefore == QSpec => Spec
  <1>1. QInit => Init
      BY DEF QInit
  <1>2. [QNext]_allVars => [Next]_vars
      BY UploadsStepAsBefore
  <1> QED
      BY <1>1, <1>2, PTL DEF QSpec, Spec

-----------------------------------------------------------------------------
(* Rows.                                                                   *)

\* Chunk rows belong to a document, and an upload that ended by itself has
\* committed its version.
RowsInv ==
    \A u \in Uploads :
        /\ txn[u].rows => txn[u].doc \in Uploads
        /\ pc[u] \in {"ready", "failed"} => versionStatus[u] # "absent"

UInv == IInv /\ StatusInv /\ PointsInv /\ SentInv /\ RowsInv

\* Every step of an upload keeps RowsInv.
LEMMA RowsStep ==
    ASSUME IInv, RowsInv, [Next]_vars
    PROVE  RowsInv'
  <1> USE DEF IInv, TxnInv, TypeOK, RowsInv, Goto, Locked, pgVars
  <1>1. CASE Rests
      BY <1>1 DEF Rests
  <1>2. ASSUME NEW u \in Uploads, Prepares(u) PROVE RowsInv'
    <2>1. txn[u] = NoTxn /\ versionStatus' = versionStatus
        BY <1>2 DEF Prepares
    <2>2. /\ \A w \in Uploads \ {u} : txn'[w] = txn[w] /\ pc'[w] = pc[w]
          /\ pc'[u] \notin {"ready", "failed"}
        BY <1>2 DEF Prepares
    <2>3. txn'[u].rows = txn[u].rows
        BY <1>2 DEF Prepares, Txns
    <2>4. ~ txn'[u].rows
        BY <2>1, <2>3 DEF NoTxn
    <2> QED
        BY <2>1, <2>2, <2>4
  <1>3. ASSUME NEW u \in Uploads, Locks(u) PROVE RowsInv'
    <2>1. /\ \A w \in Uploads \ {u} : txn'[w] = txn[w] /\ pc'[w] = pc[w]
          /\ txn'[u].doc = txn[u].doc /\ txn'[u].rows = txn[u].rows
          /\ pc'[u] = "created" /\ versionStatus' = versionStatus
        BY <1>3 DEF Locks, Txns
    <2> QED
        BY <2>1
  <1>4. ASSUME NEW u \in Uploads, Works(u) PROVE RowsInv'
    <2>1. \A w \in Uploads : /\ txn'[w].doc = txn[w].doc
                             /\ w # u => txn'[w] = txn[w] /\ pc'[w] = pc[w]
        BY <1>4, WorksTxn
    <2>2. txn[u].doc \in Uploads
        BY <1>4 DEF Works
    <2>3. pc'[u] \in Locked /\ versionStatus' = versionStatus
        BY <1>4 DEF Works
    <2> QED
        BY <2>1, <2>2, <2>3
  <1>5. ASSUME NEW u \in Uploads, Publishes(u) PROVE RowsInv'
    <2>1. PICK s \in {"ready", "failed"} : versionStatus' = [versionStatus EXCEPT ![u] = s]
        BY <1>5 DEF Publishes, PublishReady, MarkFailed
    <2>2. txn' = txn /\ \A w \in Uploads \ {u} : pc'[w] = pc[w]
        BY <1>5 DEF Publishes
    <2> QED
        BY <2>1, <2>2
  <1>6. ASSUME NEW u \in Uploads, RollsBack(u) PROVE RowsInv'
      BY <1>6 DEF RollsBack
  <1> QED
      BY <1>1, <1>2, <1>3, <1>4, <1>5, <1>6, StepKinds

\* What uploads have proved of them, next to queries as well.
THEOREM UploadsInvariance == QSpec => []UInv
  <1>1. Init => RowsInv
      BY DEF Init, RowsInv, NoTxn
  <1>2. IInv /\ RowsInv /\ [Next]_vars => RowsInv'
      BY RowsStep
  <1>3. Spec => []RowsInv
      BY <1>1, <1>2, Invariance, PTL DEF Spec
  <1> QED
      BY <1>3, UploadsAsBefore, Invariance, StatusInvariance, PointsInvariance,
         SentInvariance, PTL DEF UInv

\* A chunk that a search can return stays one, ...
Found(v) == v \in Uploads /\ \E b \in Batches : Written(v, b)

\* No upload takes points away again.
LEMMA FoundStays ==
    ASSUME UInv, [Next]_vars, NEW v, Found(v)
    PROVE  Found(v)'
  <1>0. TypeOK
      BY DEF UInv, IInv
  <1>1. PICK b \in Batches : Written(v, b)
      BY DEF Found
  <1>2. v \in Uploads /\ b \in Parts
      BY DEF Found, Parts
  <1>3. Written(v, b)'
    <2>1. CASE points' = points
        BY <1>1, <2>1 DEF Written
    <2>2. ASSUME NEW u \in Uploads, NEW p \in Parts, Upserted(u, p) PROVE Written(v, b)'
        BY <1>0, <1>1, <1>2, <2>2, UpsertedWrites
    <2>3. ASSUME NEW w \in Uploads, ApplyActivation(w) PROVE Written(v, b)'
        BY <1>0, <1>1, <1>2, <2>3, DemotedKeeps DEF ApplyActivation, Written
    <2> QED
        BY <2>1, <2>2, <2>3, QdrantSteps DEF UInv, LeavesQdrant, Upserts, Sends, qdrantVars
  <1> QED
      BY <1>1, <1>2, <1>3 DEF Found

\* ... and committed rows stay committed.
Stored(v) == v \in Uploads /\ VersionVisible(v)

\* No transaction takes committed rows away again.
LEMMA StoredStays ==
    ASSUME UInv, [Next]_vars, NEW v, Stored(v)
    PROVE  Stored(v)'
  <1> USE DEF UInv, IInv, TxnInv, TypeOK, Stored, VersionVisible, Goto, Locked, pgVars
  <1>0. v \in Uploads /\ versionStatus[v] # "absent" /\ txn[v].rows
        /\ pc[v] \in {"ready", "failed", "lost"}
      OBVIOUS
  <1>1. CASE Rests
      BY <1>0, <1>1 DEF Rests
  <1>2. ASSUME NEW u \in Uploads, Prepares(u) \/ Locks(u) PROVE Stored(v)'
    <2>1. u # v /\ versionStatus' = versionStatus
        BY <1>0, <1>2 DEF Prepares, Locks
    <2>2. txn'[v] = txn[v]
        BY <1>0, <1>2, <2>1 DEF Prepares, Locks
    <2> QED
        BY <1>0, <2>1, <2>2
  <1>3. ASSUME NEW u \in Uploads, Works(u) PROVE Stored(v)'
    <2>1. u # v /\ versionStatus' = versionStatus
        BY <1>0, <1>3 DEF Works
    <2>2. txn'[v] = txn[v]
        BY <1>0, <1>3, <2>1, WorksTxn
    <2> QED
        BY <1>0, <2>1, <2>2
  <1>4. ASSUME NEW u \in Uploads, Publishes(u) PROVE Stored(v)'
    <2>1. u # v /\ txn' = txn
        BY <1>0, <1>4 DEF Publishes
    <2>2. PICK s \in {"ready", "failed"} : versionStatus' = [versionStatus EXCEPT ![u] = s]
        BY <1>4 DEF Publishes, PublishReady, MarkFailed
    <2> QED
        BY <1>0, <2>1, <2>2
  <1>5. ASSUME NEW u \in Uploads, RollsBack(u) PROVE Stored(v)'
      BY <1>0, <1>5 DEF RollsBack
  <1> QED
      BY <1>1, <1>2, <1>3, <1>4, <1>5, StepKinds

\* A committed version makes its document visible.
LEMMA DocumentsAreVisible ==
    ASSUME UInv, NEW v \in Uploads, versionStatus[v] # "absent"
    PROVE  DocumentVisible(v)
  <1>1. PICK d \in Uploads : d = txn[v].doc
      BY DEF UInv, IInv, TxnInv
  <1>2. v \in CommittedVersions(d)
      BY <1>1 DEF CommittedVersions
  <1>3. docStatus[d] = "failed" \/ docStatus[d] = "ready"
      BY <1>2 DEF UInv, StatusInv, DocumentStatusAgrees
  <1> QED
      BY <1>1, <1>3 DEF DocumentVisible

-----------------------------------------------------------------------------
(* Queries.                                                                *)

Outcomes == {"succeeded", "failed"}

AllSucceeded(t) == \A i \in DOMAIN t : t[i] = "succeeded"

FailedAtEnd(t) ==
    /\ Len(t) > 1 /\ t[Len(t)] = "failed"
    /\ \A i \in DOMAIN t, j \in DOMAIN t : (t[i] = "failed" /\ i <= j) => t[j] = "failed"

QueryTypes ==
    /\ qpc \in [Queries -> {"requested", "committed"} \cup InTransaction \cup QFinished]
    /\ evidence \in [Queries -> Seq(Uploads)]
    /\ trace \in [Queries -> Seq(Outcomes)]
    /\ inserted \in [Queries -> Nat]
    /\ keyShared \in [Queries -> SUBSET Uploads]
    /\ records \in [Queries -> [status: {"absent", "succeeded", "failed"},
                               evidence: Seq(Uploads), trace: Seq(Outcomes)]]

\* What a query has in hand: chunks a search can return, rows for the first of
\* them, and a trace that shows a failure only at its end.
InHand(q) ==
    /\ \A i \in DOMAIN evidence[q] : Found(evidence[q][i])
    /\ inserted[q] <= Len(evidence[q])
    /\ \A i \in 1..inserted[q] : Stored(evidence[q][i])
    /\ keyShared[q] # {} => qpc[q] = "persisting"
    /\ qpc[q] \in {"running", "persisting"} => Len(trace[q]) > 0 /\ AllSucceeded(trace[q])
    /\ qpc[q] = "failing" => FailedAtEnd(trace[q])

\* What it has committed.
OnRecord(q) ==
    LET r == records[q] IN
    /\ qpc[q] \in {"requested"} \cup InTransaction => r.status = "absent"
    /\ qpc[q] \in {"committed", "answered"} => r.status # "absent"
    /\ r.status = "succeeded" =>
          /\ qpc[q] = "committed" => r.evidence = evidence[q]
          /\ \A i \in DOMAIN r.evidence : Stored(r.evidence[i])
          /\ AllSucceeded(r.trace)
    /\ r.status = "failed" => FailedAtEnd(r.trace)

QInv == QueryTypes /\ \A q \in Queries : InHand(q) /\ OnRecord(q)

\* A failing node adds the last entries of a trace.
LEMMA FailureEndsTrace ==
    ASSUME NEW t \in Seq(Outcomes), Len(t) > 0, AllSucceeded(t),
           NEW f \in {<<"failed">>, <<"failed", "failed">>}
    PROVE  t \o f \in Seq(Outcomes) /\ FailedAtEnd(t \o f)
  <1>1. f \in Seq(Outcomes) /\ Len(f) \in {1, 2} /\ \A i \in 1..Len(f) : f[i] = "failed"
    <2>1. CASE f = <<"failed">>
        BY <2>1 DEF Outcomes
    <2>2. CASE f = <<"failed", "failed">>
        BY <2>2 DEF Outcomes
    <2> QED
        BY <2>1, <2>2
  <1>2. /\ t \o f \in Seq(Outcomes) /\ Len(t \o f) = Len(t) + Len(f) /\ Len(t) \in Nat
        /\ \A i \in 1..(Len(t) + Len(f)) :
              (t \o f)[i] = IF i <= Len(t) THEN t[i] ELSE f[i - Len(t)]
      BY <1>1
  <1>3. DOMAIN (t \o f) = 1..(Len(t) + Len(f)) /\ DOMAIN t = 1..Len(t)
      BY <1>2
  <1>4. \A i \in 1..(Len(t) + Len(f)) : (t \o f)[i] = "failed" <=> i > Len(t)
    <2> SUFFICES ASSUME NEW i \in 1..(Len(t) + Len(f))
                 PROVE  (t \o f)[i] = "failed" <=> i > Len(t)
        OBVIOUS
    <2>1. CASE i <= Len(t)
        BY <1>2, <1>3, <2>1 DEF AllSucceeded
    <2>2. CASE i > Len(t)
      <3>1. i - Len(t) \in 1..Len(f)
          BY <1>1, <1>2, <2>2
      <3> QED
          BY <1>1, <1>2, <2>2, <3>1
    <2> QED
        BY <1>2, <2>1, <2>2
  <1>5. Len(t \o f) > 1 /\ Len(t \o f) \in 1..(Len(t) + Len(f)) /\ Len(t \o f) > Len(t)
    <2> DEFINE n == Len(t)
               k == Len(f)
    <2>1. Len(t \o f) = n + k /\ n \in Nat /\ n > 0 /\ k \in {1, 2}
        BY <1>1, <1>2
    <2> HIDE DEF n, k
    <2>2. n + k > 1 /\ n + k \in 1..(n + k) /\ n + k > n
        BY <2>1
    <2> QED
        BY <2>1, <2>2 DEF n, k
  <1>6. (t \o f)[Len(t \o f)] = "failed"
      BY <1>4, <1>5
  <1>7. \A i \in 1..(Len(t) + Len(f)), j \in 1..(Len(t) + Len(f)) :
           ((t \o f)[i] = "failed" /\ i <= j) => (t \o f)[j] = "failed"
      BY <1>1, <1>2, <1>4
  <1> QED
      BY <1>2, <1>3, <1>5, <1>6, <1>7 DEF FailedAtEnd

\* Uploads take nothing away from a query that does not move.
LEMMA QueryKept ==
    ASSUME UInv, QInv, [Next]_vars, NEW q \in Queries,
           qpc'[q] = qpc[q], evidence'[q] = evidence[q], trace'[q] = trace[q],
           inserted'[q] = inserted[q], keyShared'[q] = keyShared[q], records'[q] = records[q]
    PROVE  InHand(q)' /\ OnRecord(q)'
  <1>1. InHand(q) /\ OnRecord(q)
      BY DEF QInv
  <1>2. \A i \in DOMAIN evidence[q] : Found(evidence[q][i])'
      BY <1>1, FoundStays DEF InHand
  <1>3. \A i \in 1..inserted[q] : Stored(evidence[q][i])'
      BY <1>1, StoredStays DEF InHand
  <1>4. records[q].status = "succeeded" =>
           \A i \in DOMAIN records[q].evidence : Stored(records[q].evidence[i])'
      BY <1>1, StoredStays DEF OnRecord
  <1>5. InHand(q)'
      BY <1>1, <1>2, <1>3 DEF InHand
  <1>6. OnRecord(q)'
      BY <1>1, <1>4 DEF OnRecord
  <1> QED
      BY <1>5, <1>6

\* A query's own step changes nothing of the other queries.
OnlyMoves(q) ==
    \A r \in Queries \ {q} :
        /\ qpc'[r] = qpc[r] /\ evidence'[r] = evidence[r] /\ trace'[r] = trace[r]
        /\ inserted'[r] = inserted[r] /\ keyShared'[r] = keyShared[r]
        /\ records'[r] = records[r]

\* While queries move, uploads stay as they are.
LEMMA QueryMoves ==
    ASSUME UInv, QInv, NEW q \in Queries, UNCHANGED vars
    PROVE  /\ \A v : Found(v)' <=> Found(v)
           /\ \A v : Stored(v)' <=> Stored(v)
  BY DEF vars, Found, Stored, Written, VersionVisible

\* The end of a request.
LEMMA EndStep ==
    ASSUME UInv, QInv, NEW q \in Queries, NEW l \in QFinished, EndAs(q, l),
           l = "answered" => records[q].status # "absent"
    PROVE  QueryTypes' /\ OnlyMoves(q) /\ InHand(q)' /\ OnRecord(q)'
  <1> USE DEF EndAs, To
  <1>1. QueryTypes /\ OnRecord(q)
      BY DEF QInv
  <1>2. /\ qpc'[q] = l /\ evidence'[q] = <<>> /\ trace'[q] = <<>> /\ inserted'[q] = 0
        /\ keyShared'[q] = {} /\ records' = records
        /\ l \notin {"requested", "committed"} \cup InTransaction
      BY <1>1 DEF QueryTypes, QFinished, InTransaction
  <1>3. QueryTypes'
    <2>1. <<>> \in Seq(Uploads) /\ <<>> \in Seq(Outcomes)
        OBVIOUS
    <2> QED
        BY <1>1, <2>1 DEF QueryTypes
  <1>4. OnlyMoves(q)
      BY <1>1 DEF QueryTypes, OnlyMoves
  <1>5. InHand(q)'
      BY <1>2 DEF InHand, InTransaction
  <1>6. \A v : Stored(v)' <=> Stored(v)
      BY QueryMoves
  <1>7. OnRecord(q)'
      BY <1>1, <1>2, <1>6 DEF OnRecord
  <1> QED
      BY <1>3, <1>4, <1>5, <1>7

\* A step inside the transaction.
LEMMA WorkStep ==
    ASSUME UInv, QInv, NEW q \in Queries,
           \/ CreateRunning(q) \/ LookUp(q) \/ Generate(q) \/ NodeFails(q)
           \/ InsertEvidence(q) \/ CommitSucceeded(q) \/ CommitFailed(q)
    PROVE  QueryTypes' /\ OnlyMoves(q) /\ InHand(q)' /\ OnRecord(q)'
  <1> USE DEF To, At
  <1>0. QueryTypes /\ InHand(q) /\ OnRecord(q)
      BY DEF QInv
  <1>00. /\ evidence[q] \in Seq(Uploads) /\ trace[q] \in Seq(Outcomes)
         /\ inserted[q] \in Nat /\ Len(evidence[q]) \in Nat
         /\ DOMAIN evidence[q] = 1..Len(evidence[q])
      BY <1>0 DEF QueryTypes
  <1>1. /\ \A v : Found(v)' <=> Found(v)
        /\ \A v : Stored(v)' <=> Stored(v)
    <2>1. UNCHANGED vars
        BY DEF CreateRunning, LookUp, Generate, NodeFails, InsertEvidence,
           CommitSucceeded, CommitFailed
    <2> QED
        BY <2>1, QueryMoves
  <1>2. CASE CreateRunning(q)
    <2>1. /\ qpc[q] = "requested" /\ qpc' = [qpc EXCEPT ![q] = "running"]
          /\ trace' = [trace EXCEPT ![q] = <<"succeeded">>]
          /\ UNCHANGED <<evidence, inserted, keyShared, records>>
        BY <1>2 DEF CreateRunning
    <2>2. /\ <<"succeeded">> \in Seq(Outcomes) /\ Len(<<"succeeded">>) = 1
          /\ AllSucceeded(<<"succeeded">>)
        BY DEF Outcomes, AllSucceeded
    <2>3. qpc'[q] = "running" /\ trace'[q] = <<"succeeded">>
        BY <1>0, <2>1 DEF QueryTypes
    <2>4. QueryTypes' /\ OnlyMoves(q)
        BY <1>0, <2>1, <2>2 DEF QueryTypes, OnlyMoves, InTransaction
    <2>5. InHand(q)'
        BY <1>0, <1>1, <2>1, <2>2, <2>3 DEF InHand
    <2>6. OnRecord(q)'
        BY <1>0, <1>1, <2>1, <2>3 DEF OnRecord, InTransaction
    <2> QED
        BY <2>4, <2>5, <2>6
  <1>3. CASE LookUp(q)
    <2>1. PICK v \in Searchable :
             /\ qpc[q] = "running"
             /\ evidence' = [evidence EXCEPT ![q] = Append(@, v)]
             /\ trace' = [trace EXCEPT ![q] = Append(@, "succeeded")]
             /\ UNCHANGED <<qpc, inserted, keyShared, records>>
        BY <1>3 DEF LookUp
    <2>2. Found(v) /\ v \in Uploads
        BY DEF Searchable, Found, Written
    <2>3. /\ Append(evidence[q], v) \in Seq(Uploads)
          /\ Len(Append(evidence[q], v)) = Len(evidence[q]) + 1
          /\ \A i \in 1..Len(evidence[q]) : Append(evidence[q], v)[i] = evidence[q][i]
          /\ Append(evidence[q], v)[Len(evidence[q]) + 1] = v
          /\ DOMAIN Append(evidence[q], v) = 1..(Len(evidence[q]) + 1)
        BY <1>00, <2>2
    <2>4. /\ Append(trace[q], "succeeded") \in Seq(Outcomes)
          /\ Len(Append(trace[q], "succeeded")) > 0
          /\ AllSucceeded(Append(trace[q], "succeeded"))
      <3>1. AllSucceeded(trace[q])
          BY <1>0, <2>1 DEF InHand
      <3> QED
          BY <1>00, <3>1 DEF AllSucceeded, Outcomes
    <2>5. /\ evidence'[q] = Append(evidence[q], v) /\ trace'[q] = Append(trace[q], "succeeded")
          /\ qpc'[q] = "running" /\ inserted'[q] = inserted[q] /\ keyShared'[q] = keyShared[q]
        BY <1>0, <2>1 DEF QueryTypes
    <2>6. QueryTypes' /\ OnlyMoves(q)
        BY <1>0, <2>1, <2>3, <2>4 DEF QueryTypes, OnlyMoves
    <2>7. \A i \in DOMAIN evidence'[q] : Found(evidence'[q][i])
      <3> SUFFICES ASSUME NEW i \in 1..(Len(evidence[q]) + 1)
                   PROVE  Found(Append(evidence[q], v)[i])
          BY <2>3, <2>5
      <3>1. CASE i <= Len(evidence[q])
          BY <1>0, <1>00, <2>3, <3>1 DEF InHand
      <3>2. CASE i = Len(evidence[q]) + 1
          BY <2>2, <2>3, <3>2
      <3> QED
          BY <1>00, <3>1, <3>2
    <2>8. \A i \in 1..inserted[q] : Stored(evidence'[q][i])
      <3>1. \A i \in 1..inserted[q] : i \in 1..Len(evidence[q]) /\ Stored(evidence[q][i])
          BY <1>0, <1>00 DEF InHand
      <3> QED
          BY <2>3, <2>5, <3>1
    <2>9. inserted'[q] <= Len(evidence'[q])
        BY <1>0, <1>00, <2>3, <2>5 DEF InHand
    <2>10. InHand(q)'
        BY <1>0, <1>1, <2>1, <2>4, <2>5, <2>7, <2>8, <2>9 DEF InHand
    <2>11. OnRecord(q)'
        BY <1>0, <1>1, <2>1, <2>5 DEF OnRecord, InTransaction
    <2> QED
        BY <2>6, <2>10, <2>11
  <1>4. CASE Generate(q)
    <2>1. /\ qpc[q] = "running" /\ qpc' = [qpc EXCEPT ![q] = "persisting"]
          /\ trace' = [trace EXCEPT ![q] = Append(@, "succeeded")]
          /\ UNCHANGED <<evidence, inserted, keyShared, records>>
        BY <1>4 DEF Generate
    <2>2. /\ Append(trace[q], "succeeded") \in Seq(Outcomes)
          /\ Len(Append(trace[q], "succeeded")) > 0
          /\ AllSucceeded(Append(trace[q], "succeeded"))
      <3>1. AllSucceeded(trace[q])
          BY <1>0, <2>1 DEF InHand
      <3> QED
          BY <1>00, <3>1 DEF AllSucceeded, Outcomes
    <2>3. qpc'[q] = "persisting" /\ trace'[q] = Append(trace[q], "succeeded")
        BY <1>0, <2>1 DEF QueryTypes
    <2>4. QueryTypes' /\ OnlyMoves(q)
        BY <1>0, <2>1, <2>2 DEF QueryTypes, OnlyMoves, InTransaction
    <2>5. InHand(q)'
        BY <1>0, <1>1, <2>1, <2>2, <2>3 DEF InHand
    <2>6. OnRecord(q)'
        BY <1>0, <1>1, <2>1, <2>3 DEF OnRecord, InTransaction
    <2> QED
        BY <2>4, <2>5, <2>6
  <1>5. CASE NodeFails(q)
    <2>1. PICK f \in {<<"failed">>, <<"failed", "failed">>} :
             /\ qpc[q] = "running" /\ qpc' = [qpc EXCEPT ![q] = "failing"]
             /\ trace' = [trace EXCEPT ![q] = @ \o f]
             /\ UNCHANGED <<evidence, inserted, keyShared, records>>
        BY <1>5 DEF NodeFails
    <2>2. trace[q] \o f \in Seq(Outcomes) /\ FailedAtEnd(trace[q] \o f)
        BY <1>0, <1>00, <2>1, FailureEndsTrace DEF InHand
    <2>3. qpc'[q] = "failing" /\ trace'[q] = trace[q] \o f
        BY <1>0, <2>1 DEF QueryTypes
    <2>4. QueryTypes' /\ OnlyMoves(q)
        BY <1>0, <2>1, <2>2 DEF QueryTypes, OnlyMoves, InTransaction
    <2>5. InHand(q)'
        BY <1>0, <1>1, <2>1, <2>2, <2>3 DEF InHand
    <2>6. OnRecord(q)'
        BY <1>0, <1>1, <2>1, <2>3 DEF OnRecord, InTransaction
    <2> QED
        BY <2>4, <2>5, <2>6
  <1>6. CASE InsertEvidence(q)
    <2> DEFINE v == evidence[q][inserted[q] + 1]
    <2>1. /\ qpc[q] = "persisting" /\ inserted[q] < Len(evidence[q])
          /\ VersionVisible(v)
          /\ keyShared' = [keyShared EXCEPT ![q] = @ \cup {txn[v].doc}]
          /\ inserted' = [inserted EXCEPT ![q] = @ + 1]
          /\ UNCHANGED <<qpc, evidence, trace, records>>
        BY <1>6 DEF InsertEvidence, RowsLeft, NextChunk
    <2>2. inserted[q] + 1 \in DOMAIN evidence[q] /\ v \in Uploads /\ Stored(v)
        BY <1>0, <1>00, <2>1 DEF InHand, Found, Stored
    <2>3. txn[v].doc \in Uploads
        BY <2>2 DEF Stored, VersionVisible, UInv, RowsInv
    <2>4. QueryTypes' /\ OnlyMoves(q)
        BY <1>0, <2>1, <2>3 DEF QueryTypes, OnlyMoves
    <2>5. inserted'[q] = inserted[q] + 1 /\ qpc'[q] = "persisting"
        BY <1>0, <2>1 DEF QueryTypes
    <2>6. \A i \in 1..(inserted[q] + 1) : Stored(evidence[q][i])
      <3> SUFFICES ASSUME NEW i \in 1..(inserted[q] + 1) PROVE Stored(evidence[q][i])
          OBVIOUS
      <3>1. CASE i \in 1..inserted[q]
          BY <1>0, <3>1 DEF InHand
      <3>2. CASE i = inserted[q] + 1
          BY <2>2, <3>2
      <3> QED
          BY <1>00, <3>1, <3>2
    <2>7. InHand(q)'
        BY <1>0, <1>00, <1>1, <2>1, <2>5, <2>6 DEF InHand
    <2>8. OnRecord(q)'
        BY <1>0, <1>1, <2>1 DEF OnRecord
    <2> QED
        BY <2>4, <2>7, <2>8
  <1>7. CASE CommitSucceeded(q)
    <2> DEFINE r == [status |-> "succeeded", evidence |-> evidence[q], trace |-> trace[q]]
    <2>1. /\ qpc[q] = "persisting" /\ inserted[q] = Len(evidence[q])
          /\ records' = [records EXCEPT ![q] = r]
          /\ keyShared' = [keyShared EXCEPT ![q] = {}]
          /\ qpc' = [qpc EXCEPT ![q] = "committed"]
          /\ UNCHANGED <<evidence, trace, inserted>>
        BY <1>7 DEF CommitSucceeded, Recorded
    <2>2. records'[q] = r /\ keyShared'[q] = {} /\ qpc'[q] = "committed"
        BY <1>0, <2>1 DEF QueryTypes
    <2>3. QueryTypes' /\ OnlyMoves(q)
        BY <1>0, <1>00, <2>1 DEF QueryTypes, OnlyMoves
    <2>4. \A i \in DOMAIN evidence[q] : Stored(evidence[q][i])
        BY <1>0, <1>00, <2>1 DEF InHand
    <2>5. InHand(q)'
        BY <1>0, <1>1, <2>1, <2>2 DEF InHand
    <2>6. AllSucceeded(trace[q])
        BY <1>0, <2>1 DEF InHand
    <2>7. OnRecord(q)'
        BY <1>1, <2>1, <2>2, <2>4, <2>6 DEF OnRecord, InTransaction
    <2> QED
        BY <2>3, <2>5, <2>7
  <1>8. CASE CommitFailed(q)
    <2> DEFINE r == [status |-> "failed", evidence |-> <<>>, trace |-> trace[q]]
    <2>1. /\ qpc[q] = "failing"
          /\ records' = [records EXCEPT ![q] = r]
          /\ keyShared' = [keyShared EXCEPT ![q] = {}]
          /\ qpc' = [qpc EXCEPT ![q] = "committed"]
          /\ UNCHANGED <<evidence, trace, inserted>>
        BY <1>8 DEF CommitFailed, Recorded
    <2>2. records'[q] = r /\ keyShared'[q] = {} /\ qpc'[q] = "committed"
        BY <1>0, <2>1 DEF QueryTypes
    <2>3. <<>> \in Seq(Uploads)
        OBVIOUS
    <2>4. QueryTypes' /\ OnlyMoves(q)
        BY <1>0, <1>00, <2>1, <2>3 DEF QueryTypes, OnlyMoves
    <2>5. InHand(q)'
        BY <1>0, <1>1, <2>1, <2>2 DEF InHand
    <2>6. FailedAtEnd(trace[q])
        BY <1>0, <2>1 DEF InHand
    <2>7. OnRecord(q)'
        BY <1>1, <2>1, <2>2, <2>6 DEF OnRecord, InTransaction
    <2> QED
        BY <2>4, <2>5, <2>7
  <1> QED
      BY <1>2, <1>3, <1>4, <1>5, <1>6, <1>7, <1>8

\* Uploads keep what queries have, and a query keeps its own account.
LEMMA QueryInvStep ==
    ASSUME UInv, QInv, [QNext]_allVars
    PROVE  QInv'
  <1>0. [Next]_vars
      BY UploadsStepAsBefore
  <1>1. ASSUME NEW q \in Queries, QueryTypes' /\ OnlyMoves(q) /\ InHand(q)' /\ OnRecord(q)'
        PROVE  QInv'
    <2>1. ASSUME NEW r \in Queries \ {q} PROVE InHand(r)' /\ OnRecord(r)'
      <3>1. /\ qpc'[r] = qpc[r] /\ evidence'[r] = evidence[r] /\ trace'[r] = trace[r]
            /\ inserted'[r] = inserted[r] /\ keyShared'[r] = keyShared[r]
            /\ records'[r] = records[r]
          BY <1>1, <2>1 DEF OnlyMoves
      <3> QED
          BY <1>0, <2>1, <3>1, QueryKept
    <2> QED
        BY <1>1, <2>1 DEF QInv
  <1>2. ASSUME UNCHANGED qvars PROVE QInv'
    <2>1. \A q \in Queries : InHand(q)' /\ OnRecord(q)'
        BY <1>0, <1>2, QueryKept DEF qvars
    <2>2. QueryTypes'
        BY <1>2 DEF qvars, QInv, QueryTypes
    <2> QED
        BY <2>1, <2>2 DEF QInv
  <1>3. ASSUME NEW q \in Queries, QueryStep(q) PROVE QInv'
    <2>1. ASSUME NEW l \in {"refused", "unanswered", "unrecorded", "lost"}, EndAs(q, l)
          PROVE  QInv'
        BY <1>1, <2>1, EndStep DEF QFinished
    <2>2. CASE Reload(q)
      <3>1. EndAs(q, "answered") /\ records[q].status # "absent"
          BY <2>2 DEF Reload, At, QInv, OnRecord
      <3> QED
          BY <1>1, <3>1, EndStep DEF QFinished
    <2>3. CASE ForeignKeyViolated(q) \/ PoolTimeout(q) \/ LoseQuery(q)
        BY <2>1, <2>3 DEF ForeignKeyViolated, PoolTimeout, LoseQuery
    <2>4. CASE \/ CreateRunning(q) \/ LookUp(q) \/ Generate(q) \/ NodeFails(q)
               \/ InsertEvidence(q) \/ CommitSucceeded(q) \/ CommitFailed(q)
        BY <1>1, <2>4, WorkStep
    <2> QED
        BY <1>3, <2>2, <2>3, <2>4 DEF QueryStep
  <1>4. ASSUME NEW u \in Uploads, UploadStep(u) \/ Activation(u) PROVE QInv'
      BY <1>2, <1>4 DEF UploadStep, Activation
  <1> QED
      BY <1>2, <1>3, <1>4 DEF QNext, allVars

\* No query has anything at first.
LEMMA QueriesInitially == QInit => QInv
  <1> SUFFICES ASSUME QInit PROVE QInv
      OBVIOUS
  <1>1. <<>> \in Seq(Uploads) /\ <<>> \in Seq(Outcomes)
      OBVIOUS
  <1>2. QueryTypes
      BY <1>1 DEF QInit, QueryTypes, NoRecord
  <1>3. \A q \in Queries : InHand(q) /\ OnRecord(q)
      BY DEF QInit, InHand, OnRecord, NoRecord, InTransaction
  <1> QED
      BY <1>2, <1>3 DEF QInv

\* Every query's evidence, trace, row locks and record agree with its progress.
THEOREM QueryInvariance == QSpec => []QInv
  <1>1. UInv /\ QInv /\ [QNext]_allVars => QInv'
      BY QueryInvStep
  <1> QED
      BY <1>1, QueriesInitially, UploadsInvariance, PTL DEF QSpec

\* A record that anybody can read is complete, whatever the uploads do meanwhile.
THEOREM RecordsComplete == QSpec => []RecordsAreComplete
  <1>1. ASSUME UInv, QInv PROVE RecordsAreComplete
    <2> SUFFICES ASSUME NEW q \in Queries
                 PROVE  LET r == records[q] IN
                        /\ At(q, "answered") => r # NoRecord
                        /\ r.status = "succeeded" =>
                              /\ At(q, "committed") => r.evidence = evidence[q]
                              /\ \A i \in DOMAIN r.evidence :
                                    DocumentVisible(r.evidence[i]) /\ VersionVisible(r.evidence[i])
                              /\ \A i \in DOMAIN r.trace : r.trace[i] = "succeeded"
                        /\ r.status = "failed" =>
                              /\ Len(r.trace) > 1 /\ r.trace[Len(r.trace)] = "failed"
                              /\ \A i \in DOMAIN r.trace, j \in DOMAIN r.trace :
                                    r.trace[i] = "failed" /\ i <= j => r.trace[j] = "failed"
        BY DEF RecordsAreComplete
    <2>1. OnRecord(q)
        BY <1>1 DEF QInv
    <2>2. At(q, "answered") => records[q] # NoRecord
        BY <2>1 DEF OnRecord, At, NoRecord
    <2>3. ASSUME NEW v, Stored(v) PROVE DocumentVisible(v) /\ VersionVisible(v)
        BY <1>1, <2>3, DocumentsAreVisible DEF Stored, VersionVisible
    <2>4. records[q].status = "succeeded" =>
              /\ At(q, "committed") => records[q].evidence = evidence[q]
              /\ \A i \in DOMAIN records[q].evidence :
                    DocumentVisible(records[q].evidence[i]) /\ VersionVisible(records[q].evidence[i])
              /\ \A i \in DOMAIN records[q].trace : records[q].trace[i] = "succeeded"
        BY <2>1, <2>3 DEF OnRecord, At, AllSucceeded
    <2>5. records[q].status = "failed" => FailedAtEnd(records[q].trace)
        BY <2>1 DEF OnRecord
    <2> QED
        BY <2>2, <2>4, <2>5 DEF FailedAtEnd
  <1> QED
      BY <1>1, UploadsInvariance, QueryInvariance, PTL

\* The chunk whose row comes next has points, so its upload came far.
LEMMA NextChunkFound ==
    ASSUME UInv, QInv, NEW q \in Queries, RowsLeft(q),
           NEW v, v = NextChunk(q)
    PROVE  /\ v \in Uploads /\ txn[v].rows /\ txn[v].doc \in Uploads
           /\ pc[v] \in Locked \cup {"ready", "failed", "lost"}
  <1>1. /\ evidence[q] \in Seq(Uploads) /\ inserted[q] \in Nat
        /\ inserted[q] < Len(evidence[q])
        /\ \A i \in DOMAIN evidence[q] : Found(evidence[q][i])
      BY DEF RowsLeft, QInv, QueryTypes, InHand
  <1>2. inserted[q] + 1 \in DOMAIN evidence[q]
      BY <1>1
  <1>3. Found(v)
      BY <1>1, <1>2 DEF NextChunk
  <1>4. PICK b \in Parts : Written(v, b)
      BY <1>3 DEF Found, Parts
  <1>5. v \in Uploads /\ PointsOf(v) /\ pc[v] \in ProgramPoints
      BY <1>3 DEF Found, UInv, PointsInv, IInv, TypeOK
  <1>6. txn[v].rows /\ pc[v] \notin {"idle", "stored", "rejected", "resolved"}
      BY <1>4, <1>5 DEF PointsOf
  <1> QED
      BY <1>5, <1>6 DEF UInv, RowsInv, ProgramPoints, Finished

\* A pipeline that ran to its end is left without a record by one step only.
LEMMA LostBy ==
    ASSUME QInv, [QNext]_allVars, NEW q \in Queries,
           qpc[q] = "persisting", qpc'[q] = "unrecorded"
    PROVE  ForeignKeyViolated(q)
  <1> USE DEF At, To
  <1>1. qpc \in [Queries -> {"requested", "committed"} \cup InTransaction \cup QFinished]
      BY DEF QInv, QueryTypes
  <1>2. PICK r \in Queries : QueryStep(r)
      BY DEF QNext, allVars, qvars, UploadStep, Activation
  <1>3. \E l : qpc' = [qpc EXCEPT ![r] = l] \/ qpc' = qpc
      BY <1>2 DEF QueryStep, CreateRunning, LookUp, Generate, NodeFails, InsertEvidence,
         ForeignKeyViolated, CommitSucceeded, CommitFailed, Reload, PoolTimeout, LoseQuery,
         EndAs
  <1>4. r = q
      BY <1>1, <1>3
  <1>5. ~ (CreateRunning(q) \/ LookUp(q) \/ Generate(q) \/ NodeFails(q) \/ InsertEvidence(q))
      BY <1>1 DEF CreateRunning, LookUp, Generate, NodeFails, InsertEvidence
  <1>6. ~ (CommitSucceeded(q) \/ CommitFailed(q))
      BY <1>1 DEF CommitSucceeded, CommitFailed
  <1>7. ~ (Reload(q) \/ PoolTimeout(q) \/ LoseQuery(q))
      BY <1>1 DEF Reload, PoolTimeout, LoseQuery, EndAs
  <1> QED
      BY <1>2, <1>4, <1>5, <1>6, <1>7 DEF QueryStep

\* A finished pipeline is lost only with a chunk of a document that is just
\* being created, or of an upload that was rolled back.
THEOREM OnlyUncommittedLose == QSpec => OnlyUncommittedDocumentsLoseQueries
  <1> DEFINE Lost(q) ==
          (qpc[q] = "persisting" /\ qpc'[q] = "unrecorded") =>
              LET v == NextChunk(q)
              IN pc[v] = "lost" \/ (pc[v] \in Locked /\ ~DocumentVisible(v))
  <1>1. ASSUME UInv, QInv, [QNext]_allVars, NEW q \in Queries,
               qpc[q] = "persisting", qpc'[q] = "unrecorded"
        PROVE  pc[NextChunk(q)] = "lost"
               \/ (pc[NextChunk(q)] \in Locked /\ ~DocumentVisible(NextChunk(q)))
    <2>1. PICK v : v = NextChunk(q)
        OBVIOUS
    <2>2. ForeignKeyViolated(q)
        BY <1>1, LostBy
    <2>3. /\ v \in Uploads /\ txn[v].rows /\ txn[v].doc \in Uploads
          /\ pc[v] \in Locked \cup {"ready", "failed", "lost"}
        BY <1>1, <2>1, <2>2, NextChunkFound DEF ForeignKeyViolated
    <2>4. CASE ~ DocumentVisible(v)
      <3>1. versionStatus[v] = "absent"
          BY <1>1, <2>3, <2>4, DocumentsAreVisible
      <3> QED
          BY <1>1, <2>1, <2>3, <2>4, <3>1 DEF UInv, RowsInv
    <2>5. CASE lock[txn[v].doc] = None /\ ~ VersionVisible(v)
      <3>1. pc[v] \notin Locked
          BY <1>1, <2>3, <2>5, IngestionAssumption DEF UInv, IInv, LockInv
      <3> QED
          BY <1>1, <2>1, <2>3, <2>5, <3>1 DEF UInv, RowsInv, VersionVisible
    <2> QED
        BY <2>1, <2>2, <2>4, <2>5 DEF ForeignKeyViolated
  <1>2. ASSUME UInv, QInv, [QNext]_allVars PROVE [\A q \in Queries : Lost(q)]_allVars
      BY <1>1, <1>2
  <1> QED
      BY <1>2, UploadsInvariance, QueryInvariance, PTL
         DEF QSpec, OnlyUncommittedDocumentsLoseQueries

-----------------------------------------------------------------------------
(* Waiting.                                                                *)

Working == {u \in Uploads : pc[u] \in Locked}
Persisting == {q \in Queries : qpc[q] = "persisting"}
Resolved == {u \in Uploads : pc[u] = "resolved"}

\* Queries that insert wait for uploads that work, uploads that resolved a
\* document for either, and those without a connection for those with one.
LEMMA WhoWaits ==
    ASSUME UInv, QInv, NEW r \in Queries \cup Uploads
    PROVE  /\ r \in Persisting => Blockers(r) \subseteq Working
           /\ r \in Resolved => Blockers(r) \subseteq Working \cup Persisting
           /\ r \in Working => Blockers(r) = {}
           /\ Blockers(r) \subseteq Holders
           /\ r \in Holders \ (Persisting \cup Resolved) => Blockers(r) = {}
  <1> USE DEF Holders, Working, Persisting, Resolved
  <1>0. \A d \in Uploads : {lock[d]} \ {None} \subseteq Working
      BY DEF UInv, IInv, LockInv, TypeOK
  <1>1. CASE r \in Queries
    <2>1. r \notin Uploads
        BY <1>1
    <2>2. CASE RowsLeft(r)
      <3>1. txn[NextChunk(r)].doc \in Uploads
          BY <1>1, <2>2, NextChunkFound
      <3>2. Blockers(r) \subseteq Working
          BY <1>0, <1>1, <2>2, <3>1 DEF Blockers, RowsLeft, At
      <3> QED
          BY <1>1, <2>1, <2>2, <3>2 DEF RowsLeft, At
    <2>3. CASE ~ RowsLeft(r)
        BY <1>1, <2>1, <2>3 DEF Blockers, InTransaction
    <2> QED
        BY <2>2, <2>3
  <1>2. CASE r \in Uploads
    <2>1. r \notin Queries
        BY <1>2
    <2>2. CASE pc[r] = "resolved"
      <3>1. txn[r].doc \in Uploads
          BY <1>2, <2>2 DEF UInv, IInv, TxnInv
      <3>2. {q \in Queries : txn[r].doc \in keyShared[q]} \subseteq Persisting
          BY DEF QInv, InHand
      <3>3. Blockers(r) \subseteq Working \cup Persisting
          BY <1>0, <2>1, <2>2, <3>1, <3>2 DEF Blockers
      <3> QED
          BY <1>2, <2>1, <2>2, <3>3 DEF Locked, InTransaction
    <2>3. CASE pc[r] # "resolved"
        BY <1>2, <2>1, <2>3 DEF Blockers, Locked
    <2> QED
        BY <2>2, <2>3
  <1> QED
      BY <1>1, <1>2

\* No set of requests waits for itself, and nobody waits for one that ended.
THEOREM NobodyWaits == QSpec => []NobodyWaitsForEver
  <1>1. ASSUME UInv, QInv PROVE NobodyWaitsForEver
    <2> DEFINE requests == Queries \cup Uploads
               ended == {u \in Uploads : pc[u] \in Finished}
                        \cup {q \in Queries : qpc[q] \in QFinished}
    <2>1. Holders \cap ended = {}
        BY DEF Holders, Finished, QFinished, Locked, InTransaction
    <2>2. \A r \in requests : Blockers(r) \cap ended = {}
        BY <1>1, <2>1, WhoWaits
    <2>3. ASSUME NEW S \in SUBSET {r \in requests : Blockers(r) # {}}, S # {}
          PROVE  \E r \in S : Blockers(r) \cap S = {}
      <3>0. \A r \in S : r \in requests /\ Blockers(r) # {}
          OBVIOUS
      <3>1. S \cap Working = {}
          BY <1>1, <3>0, WhoWaits
      <3>2. ASSUME NEW r \in S \cap Persisting PROVE Blockers(r) \cap S = {}
          BY <1>1, <3>0, <3>1, <3>2, WhoWaits
      <3>3. ASSUME S \cap Persisting = {}, NEW r \in S \cap Resolved
            PROVE  Blockers(r) \cap S = {}
          BY <1>1, <3>0, <3>1, <3>3, WhoWaits
      <3>4. ASSUME S \cap Persisting = {}, S \cap Resolved = {}
            PROVE  S \cap Holders = {}
          BY <1>1, <3>0, <3>4, WhoWaits
      <3>5. CASE S \cap Persisting = {} /\ S \cap Resolved = {}
          BY <1>1, <2>3, <3>0, <3>4, <3>5, WhoWaits
      <3> QED
          BY <3>2, <3>3, <3>5
    <2> QED
        BY <2>2, <2>3 DEF NobodyWaitsForEver
  <1> QED
      BY <1>1, UploadsInvariance, QueryInvariance, PTL
=============================================================================
