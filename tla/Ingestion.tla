------------------------------ MODULE Ingestion ------------------------------
(***************************************************************************)
(* Document ingestion: concurrent uploads, each one PostgreSQL transaction *)
(* wrapped around writes to the Qdrant vector index.                       *)
(*                                                                         *)
(* One upload creates at most one document and exactly one version, so the *)
(* upload's name is also the id of the version it creates and of the       *)
(* document it creates (if it creates one).  Uncommitted rows are visible  *)
(* only to their own transaction (READ COMMITTED); Qdrant writes are       *)
(* visible to everybody at once and are never undone.                      *)
(***************************************************************************)
EXTENDS Naturals, FiniteSetsExt

CONSTANTS
    Uploads,        \* concurrent upload requests
    TitleOf,        \* the normalised identity of each upload's title
    Target,         \* which document each upload asks for
    NumBatches,     \* Qdrant upsert batches a version's chunks need
    HierarchyMode,  \* HIERARCHICAL_INDEXING_ENABLED / _FAIL_OPEN
    Faults,         \* the failures this instance may meet
    None

FaultKinds ==
    { "external",   \* a parser, model, object-store or Qdrant call fails
      "timeout",    \* a Qdrant call fails although it took effect
      "database" }  \* a flush or commit fails, or the request is lost

ASSUME IngestionAssumption ==
    /\ Target \in [Uploads -> {"explicit", "detect", "new"}]
    /\ NumBatches \in Nat \ {0}
    /\ HierarchyMode \in {"disabled", "fail_open", "fail_closed"}
    /\ Faults \subseteq FaultKinds
    /\ None \notin Uploads

VARIABLES
    pc,             \* where each upload's coroutine is
    txn,            \* what each upload's transaction has resolved and flushed
    docStatus,      \* committed documents rows: status
    docCurrent,     \* committed documents rows: metadata.latest_version_id
    versionStatus,  \* committed document_versions rows: status
    lock,           \* holder of the FOR UPDATE lock on each documents row
    points,         \* Qdrant: the is_latest_version payload of each point
    flagsSent,      \* versions whose activation reached Qdrant
    flagsApplied    \* ... and those Qdrant has applied to the points

pgVars == <<docStatus, docCurrent, versionStatus>>
qdrantVars == <<points, flagsSent, flagsApplied>>
vars == <<pc, txn, docStatus, docCurrent, versionStatus, lock,
          points, flagsSent, flagsApplied>>

-----------------------------------------------------------------------------
SummaryPart == 0                 \* the hierarchy summary points of a version
Batches == 1..NumBatches         \* its chunk points, by upsert batch
Parts == {SummaryPart} \cup Batches

\* Program points between prepare_document and the end of the transaction:
\* the upload holds the row lock of its document.
Locked == {"created", "staged", "indexed", "invalidated", "summarised",
           "activated", "failing"}
Finished == {"ready", "failed", "rejected", "lost"}
ProgramPoints == {"idle", "stored", "resolved"} \cup Locked \cup Finished

Txns == [doc: Uploads \cup {None}, number: Nat, rows: BOOLEAN]
NoTxn == [doc |-> None, number |-> 0, rows |-> FALSE]

TypeOK ==
    /\ pc \in [Uploads -> ProgramPoints]
    /\ txn \in [Uploads -> Txns]
    /\ docStatus \in [Uploads -> {"absent", "processing", "ready", "failed"}]
    /\ docCurrent \in [Uploads -> Uploads \cup {None}]
    /\ versionStatus \in [Uploads -> {"absent", "processing", "ready", "failed"}]
    /\ lock \in [Uploads -> Uploads \cup {None}]
    /\ points \in [Uploads -> [Parts -> {"absent", "latest", "old"}]]
    /\ flagsSent \in SUBSET Uploads
    /\ flagsApplied \in SUBSET flagsSent

Init ==
    /\ pc = [u \in Uploads |-> "idle"]
    /\ txn = [u \in Uploads |-> NoTxn]
    /\ docStatus = [d \in Uploads |-> "absent"]
    /\ docCurrent = [d \in Uploads |-> None]
    /\ versionStatus = [u \in Uploads |-> "absent"]
    /\ lock = [d \in Uploads |-> None]
    /\ points = [u \in Uploads |-> [p \in Parts |-> "absent"]]
    /\ flagsSent = {}
    /\ flagsApplied = {}

-----------------------------------------------------------------------------
(* Committed rows, as any other transaction reads them.                    *)

CommittedVersions(d) ==
    {v \in Uploads : versionStatus[v] # "absent" /\ txn[v].doc = d}
ReadyVersions(d) == {v \in CommittedVersions(d) : versionStatus[v] = "ready"}
CommittedNumbers(d) == {txn[v].number : v \in CommittedVersions(d)}

\* coalesce(max(version_number), 0) over the rows of document d.
MaxNumber(d) == Max(CommittedNumbers(d) \cup {0})

\* Committed documents whose title or filename has the upload's identity.
VersionCandidates(u) ==
    {d \in Uploads : docStatus[d] # "absent" /\ TitleOf[d] = TitleOf[u]}

-----------------------------------------------------------------------------
(* Qdrant.                                                                 *)

\* Mutant: the update only reaches the versions PostgreSQL knows to be READY.
DemotedIfReady(V) ==
    [w \in Uploads |->
        [p \in Parts |->
            IF /\ points[w][p] = "latest" /\ versionStatus[w] = "ready"
               /\ \E v \in V \ {w} : txn[v].doc = txn[w].doc
            THEN "old" ELSE points[w][p]]]

\* The points once the activations in V have been applied: every point of
\* another version of the same document is flagged as not the latest.
Demoted(V) ==
    [w \in Uploads |->
        [p \in Parts |->
            IF /\ points[w][p] = "latest"
               /\ \E v \in V \ {w} : txn[v].doc = txn[w].doc
            THEN "old" ELSE points[w][p]]]

\* Mutant: indexing a version counts as activating it.
UpsertedAndActivated(u, p) ==
    /\ points' = [Demoted(flagsSent \ flagsApplied) EXCEPT ![u][p] = "latest"]
    /\ flagsApplied' = flagsSent \cup {u}
    /\ UNCHANGED flagsSent

\* An upsert waits for its own application (wait=true), and the collection
\* applies updates in order: the activations sent before it come first.
Upserted(u, p) ==
    /\ points' = [Demoted(flagsSent \ flagsApplied) EXCEPT ![u][p] = "latest"]
    /\ flagsApplied' = flagsSent
    /\ UNCHANGED flagsSent

\* set_payload is sent without wait=true: Qdrant acknowledges, then applies.
ApplyActivation(v) ==
    /\ v \in flagsSent \ flagsApplied
    /\ points' = Demoted({v})
    /\ flagsApplied' = flagsApplied \cup {v}
    /\ UNCHANGED <<pc, txn, lock, flagsSent, pgVars>>

-----------------------------------------------------------------------------
(* One upload, in the order of IngestionCoordinator.ingest.                *)

Goto(u, label) == pc' = [pc EXCEPT ![u] = label]

\* The transaction ends: PostgreSQL drops the row lock it holds, if any.
Release(u) == lock' = [d \in Uploads |-> IF lock[d] = u THEN None ELSE lock[d]]

Save(u) ==
    /\ pc[u] = "idle"
    /\ Goto(u, "stored")
    /\ UNCHANGED <<txn, lock, pgVars, qdrantVars>>

\* The upload is refused before prepare_document has a row: unsupported type,
\* storage failure, an explicit document that does not exist, or no database
\* connection in time.
Reject(u) ==
    /\ pc[u] \in {"idle", "stored"}
    /\ Goto(u, "rejected")
    /\ UNCHANGED <<txn, lock, pgVars, qdrantVars>>

ResolveDocument(u, d) ==
    /\ pc[u] = "stored"
    /\ txn' = [txn EXCEPT ![u].doc = d]
    /\ Goto(u, "resolved")
    /\ UNCHANGED <<lock, pgVars, qdrantVars>>

\* The caller names the document.
ResolveExplicit(u, d) ==
    /\ Target[u] = "explicit"
    /\ docStatus[d] # "absent"
    /\ ResolveDocument(u, d)

\* find_version_candidate found a committed document.
ResolveCandidate(u, d) ==
    /\ Target[u] = "detect"
    /\ d \in VersionCandidates(u)
    /\ ResolveDocument(u, d)

\* create_processing_document: a documents row no other transaction can see.
ResolveNew(u) ==
    /\ \/ Target[u] = "new"
       \/ Target[u] = "detect" /\ VersionCandidates(u) = {}
    /\ ResolveDocument(u, u)

\* Mutant: the documents row is read without FOR UPDATE.
CreateVersionUnlocked(u) ==
    LET d == txn[u].doc IN
    /\ pc[u] = "resolved"
    /\ lock' = [lock EXCEPT ![d] = u]
    /\ txn' = [txn EXCEPT ![u].number = MaxNumber(d) + 1]
    /\ Goto(u, "created")
    /\ UNCHANGED <<pgVars, qdrantVars>>

\* SELECT ... FOR UPDATE on the documents row, then max + 1.
CreateVersion(u) ==
    LET d == txn[u].doc IN
    /\ pc[u] = "resolved"
    /\ lock[d] = None
    /\ lock' = [lock EXCEPT ![d] = u]
    /\ txn' = [txn EXCEPT ![u].number = MaxNumber(d) + 1]
    /\ Goto(u, "created")
    /\ UNCHANGED <<pgVars, qdrantVars>>

\* After parsing, embedding and contextualisation succeeded, the chunk rows
\* are flushed (in the transaction) before any point is written.
StageRows(u) ==
    /\ pc[u] = "created"
    /\ txn' = [txn EXCEPT ![u].rows = TRUE]
    /\ Goto(u, "staged")
    /\ UNCHANGED <<lock, pgVars, qdrantVars>>

NextBatch(u) ==
    CHOOSE b \in Batches :
        /\ points[u][b] = "absent"
        /\ \A c \in Batches : c < b => points[u][c] # "absent"

\* Mutant: only the first batch is written.
UpsertFirstBatch(u) ==
    /\ pc[u] = "staged"
    /\ Upserted(u, NextBatch(u))
    /\ Goto(u, "indexed")
    /\ UNCHANGED <<txn, lock, pgVars>>

UpsertBatch(u) ==
    /\ pc[u] = "staged"
    /\ Upserted(u, NextBatch(u))
    /\ Goto(u, IF NextBatch(u) = NumBatches THEN "indexed" ELSE "staged")
    /\ UNCHANGED <<txn, lock, pgVars>>

\* keyword_cache.invalidate(): the cached corpora themselves are the state of
\* another component.
InvalidateKeywordCache(u) ==
    /\ pc[u] = "indexed"
    /\ Goto(u, "invalidated")
    /\ UNCHANGED <<txn, lock, pgVars, qdrantVars>>

\* No summary points: hierarchical indexing is off, or it failed and fails open.
MaySkipHierarchy ==
    /\ HierarchyMode # "fail_closed"
    /\ HierarchyMode = "fail_open" => "external" \in Faults

\* Mutant: the metadata of the first READY version wins over the merged one.
PublishReadyKeepingFirst(u) ==
    LET d == txn[u].doc IN
    /\ versionStatus' = [versionStatus EXCEPT ![u] = "ready"]
    /\ docStatus' = [docStatus EXCEPT ![d] = "ready"]
    /\ docCurrent' = [docCurrent EXCEPT ![d] = IF @ = None THEN u ELSE @]

\* mark_ready and the commit that publishes everything the transaction wrote.
PublishReady(u) ==
    LET d == txn[u].doc IN
    /\ versionStatus' = [versionStatus EXCEPT ![u] = "ready"]
    /\ docStatus' = [docStatus EXCEPT ![d] = "ready"]
    /\ docCurrent' = [docCurrent EXCEPT ![d] = u]

\* Mutant: the version is committed first and activated afterwards.
IndexHierarchyAndCommit(u) ==
    /\ pc[u] = "invalidated"
    /\ Goto(u, "summarised")
    /\ \/ /\ HierarchyMode # "disabled"
          /\ Upserted(u, SummaryPart)
       \/ MaySkipHierarchy /\ UNCHANGED qdrantVars
    /\ PublishReady(u)
    /\ Release(u)
    /\ UNCHANGED txn

IndexHierarchy(u) ==
    /\ pc[u] = "invalidated"
    /\ Goto(u, "summarised")
    /\ \/ /\ HierarchyMode # "disabled"
          /\ Upserted(u, SummaryPart)
       \/ MaySkipHierarchy /\ UNCHANGED qdrantVars
    /\ UNCHANGED <<txn, lock, pgVars>>

\* Mutant: the version is never activated in Qdrant.
ActivateNothing(u) ==
    /\ pc[u] = "summarised"
    /\ Goto(u, "activated")
    /\ UNCHANGED <<txn, lock, pgVars, qdrantVars>>

Activate(u) ==
    /\ pc[u] = "summarised"
    /\ flagsSent' = flagsSent \cup {u}
    /\ Goto(u, "activated")
    /\ UNCHANGED <<txn, lock, points, flagsApplied, pgVars>>

Commit(u) ==
    /\ pc[u] = "activated"
    /\ PublishReady(u)
    /\ Release(u)
    /\ Goto(u, "ready")
    /\ UNCHANGED <<txn, qdrantVars>>

-----------------------------------------------------------------------------
(* Failures.                                                               *)

\* An exception after prepare_document returned reaches the except clause.
\* A Qdrant call that timed out may have taken effect.
Fail(u) ==
    /\ Goto(u, "failing")
    /\ \/ /\ "external" \in Faults
          /\ \/ pc[u] \in {"created", "staged", "summarised"}
             \/ pc[u] = "invalidated" /\ HierarchyMode = "fail_closed"
          /\ UNCHANGED qdrantVars
       \/ /\ "timeout" \in Faults
          /\ \/ pc[u] = "staged" /\ Upserted(u, NextBatch(u))
             \/ /\ pc[u] = "invalidated" /\ HierarchyMode = "fail_closed"
                /\ Upserted(u, SummaryPart)
             \/ /\ pc[u] = "summarised"
                /\ flagsSent' = flagsSent \cup {u}
                /\ UNCHANGED <<points, flagsApplied>>
    /\ UNCHANGED <<txn, lock, pgVars>>

\* Mutant: the document takes the status of its last upload.
MarkBothFailed(u) ==
    /\ pc[u] = "failing"
    /\ versionStatus' = [versionStatus EXCEPT ![u] = "failed"]
    /\ docStatus' = [docStatus EXCEPT ![txn[u].doc] = "failed"]
    /\ Release(u)
    /\ Goto(u, "failed")
    /\ UNCHANGED <<txn, docCurrent, qdrantVars>>

\* Mutant: the transaction is left open.
MarkFailedUncommitted(u) ==
    /\ pc[u] = "failing"
    /\ Goto(u, "failed")
    /\ UNCHANGED <<txn, lock, pgVars, qdrantVars>>

\* mark_failed counts READY versions as the transaction sees them, then the
\* failure is committed together with whatever rows were flushed.
MarkFailed(u) ==
    LET d == txn[u].doc IN
    /\ pc[u] = "failing"
    /\ versionStatus' = [versionStatus EXCEPT ![u] = "failed"]
    /\ docStatus' = [docStatus EXCEPT
                        ![d] = IF ReadyVersions(d) = {} THEN "failed" ELSE "ready"]
    /\ Release(u)
    /\ Goto(u, "failed")
    /\ UNCHANGED <<txn, docCurrent, qdrantVars>>

\* A crash, a cancelled request, or a flush or commit that failed (mark_failed
\* then raises as well): the transaction is rolled back, Qdrant is not.
Lose(u) ==
    /\ "database" \in Faults
    /\ pc[u] \in {"stored", "resolved"} \cup Locked
    /\ Release(u)
    /\ Goto(u, "lost")
    /\ UNCHANGED <<txn, pgVars, qdrantVars>>

\* The commit happened but its acknowledgement was lost.
CommitUnacknowledged(u) ==
    /\ "database" \in Faults
    /\ pc[u] = "activated"
    /\ PublishReady(u)
    /\ Release(u)
    /\ Goto(u, "lost")
    /\ UNCHANGED <<txn, qdrantVars>>

-----------------------------------------------------------------------------
Progress(u) ==
    \/ Save(u) \/ Reject(u)
    \/ \E d \in Uploads : ResolveExplicit(u, d) \/ ResolveCandidate(u, d)
    \/ ResolveNew(u)
    \/ CreateVersion(u) \/ StageRows(u) \/ UpsertBatch(u)
    \/ InvalidateKeywordCache(u) \/ IndexHierarchy(u)
    \/ Activate(u) \/ Commit(u) \/ MarkFailed(u)

Step(u) == Progress(u) \/ Fail(u) \/ Lose(u) \/ CommitUnacknowledged(u)

Next ==
    \/ \E u \in Uploads : Step(u)
    \/ \E v \in Uploads : ApplyActivation(v)

\* A coroutine goes on when it can: every call it makes is bounded by a client
\* timeout, except for the wait for a row lock, and Qdrant applies what it
\* acknowledged.  Nothing forces a request to arrive, or anything to fail.
Fairness ==
    /\ \A u \in Uploads : WF_vars(pc[u] # "idle" /\ Progress(u))
    /\ \A v \in Uploads : WF_vars(ApplyActivation(v))

Spec == Init /\ [][Next]_vars
FairSpec == Spec /\ Fairness

-----------------------------------------------------------------------------
(* Properties.                                                             *)

IsLatestReady(h, d) ==
    /\ h \in ReadyVersions(d)
    /\ \A v \in ReadyVersions(d) : txn[v].number <= txn[h].number

FlaggedLatest(u) == \E p \in Parts : points[u][p] = "latest"

\* The committed versions of a document are numbered 1, 2, ... without gap or
\* repetition, whatever failed or was rolled back on the way: the row lock of
\* create_processing_version, held until the transaction ends, is what makes
\* "max + 1" safe (uq_document_versions_document_version_number never fires).
VersionNumbersSequential ==
    \A d \in Uploads :
        /\ CommittedNumbers(d) = 1..MaxNumber(d)
        /\ \A v, w \in CommittedVersions(d) :
              txn[v].number = txn[w].number => v = w

\* No crash, failure or interleaving leaves a row in PROCESSING for other
\* transactions to see, and a committed document is READY exactly when one of
\* its versions is (mark_failed must not hide an earlier READY version).
DocumentStatusAgrees ==
    \A d \in Uploads :
        /\ versionStatus[d] # "processing"
        /\ docStatus[d] = "ready" <=> ReadyVersions(d) # {}
        /\ docStatus[d] = "failed" <=>
              CommittedVersions(d) # {} /\ ReadyVersions(d) = {}

\* The documents row describes the READY version with the highest number:
\* mark_ready runs in the order the versions were numbered.
CurrentIsLatestReady ==
    \A d \in Uploads :
        IF ReadyVersions(d) = {} THEN docCurrent[d] = None
                                 ELSE IsLatestReady(docCurrent[d], d)

\* PostgreSQL never announces a READY version whose chunk rows or chunk points
\* are missing: everything is indexed before the commit that publishes it.
ReadyIsIndexed ==
    \A u \in Uploads : versionStatus[u] = "ready" =>
        /\ txn[u].rows
        /\ \A b \in Batches : points[u][b] # "absent"
        /\ HierarchyMode = "fail_closed" => points[u][SummaryPart] # "absent"

\* Qdrant's latest flag of the newest READY version is only ever cleared by the
\* activation of a version with a higher number.
LatestReadyStaysLatest ==
    \A d, h \in Uploads :
        IsLatestReady(h, d) =>
            \/ \A p \in Parts : points[h][p] # "old"
            \/ \E w \in flagsApplied :
                  txn[w].doc = d /\ txn[w].number > txn[h].number

\* Once Qdrant has applied the activation of a READY version, no point of an
\* older version of that document, whether READY, FAILED or rolled back, is
\* flagged as the latest, and none becomes so again.
SupersededIsNotLatest ==
    \A h \in flagsApplied, v \in Uploads :
        (/\ versionStatus[h] = "ready"
         /\ v # h /\ txn[v].doc = txn[h].doc
         /\ txn[v].number \in 1..txn[h].number)
        => ~ FlaggedLatest(v)

\* Whatever fails or is lost, Qdrant's flags never run against the order of the
\* versions: the newest READY one keeps the flag until a higher number is
\* activated, and the older ones never get it back.
FlagsFollowHistory == LatestReadyStaysLatest /\ SupersededIsNotLatest

\* Activations reach Qdrant in the order of the version numbers of a document:
\* a late upload cannot demote the points of a newer version.
ActivationsInVersionOrder ==
    [][\A u \in flagsSent' \ flagsSent, v \in flagsSent :
          txn[v].doc = txn[u].doc => txn[v].number <= txn[u].number]_vars

\* Every upload that was stored comes to an end: waiting for a row lock cannot
\* last, since every holder finishes or fails and both release it.
UploadsTerminate ==
    \A u \in Uploads : pc[u] = "stored" ~> pc[u] \in Finished

\* The flags settle: for every document with a READY version, the older READY
\* ones end up without the flag, and the newest one ends up with it, unless an
\* upload with a higher number was activated and then failed or was lost.
FlagsConverge ==
    <>[](\A d, h \in Uploads : IsLatestReady(h, d) =>
            /\ \A v \in ReadyVersions(d) \ {h} : ~ FlaggedLatest(v)
            /\ \/ FlaggedLatest(h)
               \/ \E w \in flagsSent :
                     /\ txn[w].doc = d /\ txn[w].number > txn[h].number
                     /\ pc[w] \in {"failed", "lost"})

-----------------------------------------------------------------------------
(* Claims of the documentation that the code does not keep.                *)

\* "Write chunk and hierarchy indexes without activating the version." (docstring
\* of index_document): a version that failed is not flagged as the latest.
FailedVersionIsNotLatest ==
    \A u \in Uploads : versionStatus[u] = "failed" => ~ FlaggedLatest(u)

\* "Postgres is the source of truth for [...] version history. Qdrant is only
\* used as the vector index" (docstring of Document): while no upload works on a
\* document, Qdrant's latest version is the newest READY one in PostgreSQL.
LatestFlagFollowsPostgres ==
    \A d, h \in Uploads :
        IsLatestReady(h, d) /\ lock[d] = None => FlaggedLatest(h)

\* "Uploads with a matching title [...] are treated as the next version of the
\* existing logical document by default" (README.md): no two uploads that ran
\* version detection end up as documents of the same title.
MatchingTitlesShareADocument ==
    \A d, e \in Uploads :
        (/\ d # e /\ TitleOf[d] = TitleOf[e]
         /\ Target[d] = "detect" /\ Target[e] = "detect")
        => docStatus[d] = "absent" \/ docStatus[e] = "absent"
=============================================================================
