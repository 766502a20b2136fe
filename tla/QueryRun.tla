------------------------------ MODULE QueryRun ------------------------------
(***************************************************************************)
(* Queries next to uploads: ExecuteQueryHandler runs a pipeline inside one *)
(* PostgreSQL transaction and persists what it found, while Ingestion's    *)
(* uploads write the same documents.  A search sees the points of uploads  *)
(* that have not committed; the foreign keys of its evidence rows do not.  *)
(*                                                                         *)
(* Uploads and queries share the connection pool and PostgreSQL's row      *)
(* locks: an evidence row locks its documents row FOR KEY SHARE, which     *)
(* waits for, and keeps off, the FOR UPDATE of create_processing_version.  *)
(* One chunk stands for the chunks of a version.                           *)
(***************************************************************************)
EXTENDS Ingestion, Sequences

CONSTANTS
    Queries,        \* concurrent query requests
    MaxLookups,     \* successful lookups of one pipeline run
    Connections     \* DB_POOL_SIZE + DB_MAX_OVERFLOW

ASSUME QueryRunAssumption ==
    /\ MaxLookups \in Nat
    /\ Connections \in Nat \ {0}
    /\ Queries \cap Uploads = {}

VARIABLES
    qpc,            \* where each query's coroutine is
    evidence,       \* state.retrieved_evidence, by rank: versions of chunks
    trace,          \* state.trace: the status of each step
    inserted,       \* evidence rows that passed their foreign keys
    keyShared,      \* documents rows each query has locked FOR KEY SHARE
    records         \* committed query_runs rows, with their aggregate

qvars == <<qpc, evidence, trace, inserted, keyShared, records>>
allVars == <<vars, qvars>>

NoRecord == [status |-> "absent", evidence |-> <<>>, trace |-> <<>>]

QInit ==
    /\ Init
    /\ qpc = [q \in Queries |-> "requested"]
    /\ evidence = [q \in Queries |-> <<>>]
    /\ trace = [q \in Queries |-> <<>>]
    /\ inserted = [q \in Queries |-> 0]
    /\ keyShared = [q \in Queries |-> {}]
    /\ records = [q \in Queries |-> NoRecord]

-----------------------------------------------------------------------------
(* The connection pool.  A session holds a connection from its first       *)
(* statement to the end of its transaction.                                *)

\* Mutant: the run is reloaded before its connection is returned.
InTransactionAndReload == {"running", "persisting", "failing", "committed"}

InTransaction == {"running", "persisting", "failing"}

Holders ==
    {u \in Uploads : pc[u] \in {"resolved"} \cup Locked}
    \cup {q \in Queries : qpc[q] \in InTransaction}

ConnectionFree == Cardinality(Holders) < Connections

-----------------------------------------------------------------------------
(* One query.                                                              *)

At(q, label) == qpc[q] = label
To(q, label) == qpc' = [qpc EXCEPT ![q] = label]

\* The request ends and its objects with it.
EndAs(q, label) ==
    /\ To(q, label)
    /\ evidence' = [evidence EXCEPT ![q] = <<>>]
    /\ trace' = [trace EXCEPT ![q] = <<>>]
    /\ inserted' = [inserted EXCEPT ![q] = 0]
    /\ keyShared' = [keyShared EXCEPT ![q] = {}]
    /\ UNCHANGED <<vars, records>>

\* The registry has built the pipeline.  create_running flushes the RUNNING row,
\* which nobody else can see yet; select_pipeline is the trace's first step.
CreateRunning(q) ==
    /\ At(q, "requested")
    /\ ConnectionFree
    /\ trace' = [trace EXCEPT ![q] = <<"succeeded">>]
    /\ To(q, "running")
    /\ UNCHANGED <<vars, evidence, inserted, keyShared, records>>

\* The chunks a search can return: every point in Qdrant, whatever has become
\* of the upload that wrote it.
Searchable == {v \in Uploads : \E b \in Batches : points[v][b] # "absent"}

\* A node of the pipeline ran a lookup that found a chunk; the graph runners
\* append a step for it.
LookUp(q) ==
    /\ At(q, "running")
    /\ Len(evidence[q]) < MaxLookups
    /\ \E v \in Searchable :
          /\ \A i \in DOMAIN evidence[q] : evidence[q][i] # v
          /\ evidence' = [evidence EXCEPT ![q] = Append(@, v)]
    /\ trace' = [trace EXCEPT ![q] = Append(@, "succeeded")]
    /\ UNCHANGED <<vars, qpc, inserted, keyShared, records>>

\* The last node generated an answer.
Generate(q) ==
    /\ At(q, "running")
    /\ trace' = [trace EXCEPT ![q] = Append(@, "succeeded")]
    /\ To(q, "persisting")
    /\ UNCHANGED <<vars, evidence, inserted, keyShared, records>>

\* Mutant: the step that failed is missing from the trace.
NodeFailsSilently(q) ==
    /\ At(q, "running")
    /\ To(q, "failing")
    /\ UNCHANGED <<vars, evidence, trace, inserted, keyShared, records>>

\* A node raised: run_node_spec traces the failure and re-raises it, once more
\* if the node belongs to the information-need graph inside a node.
NodeFails(q) ==
    /\ At(q, "running")
    /\ \E failed \in {<<"failed">>, <<"failed", "failed">>} :
          trace' = [trace EXCEPT ![q] = @ \o failed]
    /\ To(q, "failing")
    /\ UNCHANGED <<vars, evidence, inserted, keyShared, records>>

NextChunk(q) == evidence[q][inserted[q] + 1]
RowsLeft(q) == At(q, "persisting") /\ inserted[q] < Len(evidence[q])

DocumentVisible(v) == docStatus[txn[v].doc] # "absent"
VersionVisible(v) == versionStatus[v] # "absent" /\ txn[v].rows

\* The foreign keys of the next evidence row, in the order of their triggers:
\* the documents row is found and locked (waiting for an upload that holds
\* it), then the version and chunk rows are looked for.
InsertEvidence(q) ==
    /\ RowsLeft(q)
    /\ DocumentVisible(NextChunk(q))
    /\ lock[txn[NextChunk(q)].doc] = None
    /\ VersionVisible(NextChunk(q))
    /\ keyShared' = [keyShared EXCEPT ![q] = @ \cup {txn[NextChunk(q)].doc}]
    /\ inserted' = [inserted EXCEPT ![q] = @ + 1]
    /\ UNCHANGED <<vars, qpc, evidence, trace, records>>

\* A referenced row does not exist for this transaction.  The error is raised
\* outside execute_selected_pipeline's try block: the request fails and the
\* session rolls everything back, the RUNNING row included.
ForeignKeyViolated(q) ==
    /\ RowsLeft(q)
    /\ \/ ~DocumentVisible(NextChunk(q))
       \/ lock[txn[NextChunk(q)].doc] = None /\ ~VersionVisible(NextChunk(q))
    /\ EndAs(q, "unrecorded")

Recorded(q, status, items) ==
    /\ records' = [records EXCEPT ![q] =
                      [status |-> status, evidence |-> items, trace |-> trace[q]]]
    /\ keyShared' = [keyShared EXCEPT ![q] = {}]

\* mark_succeeded's citations and trace steps, and the commit.
CommitSucceeded(q) ==
    /\ At(q, "persisting")
    /\ inserted[q] = Len(evidence[q])
    /\ Recorded(q, "succeeded", evidence[q])
    /\ To(q, "committed")
    /\ UNCHANGED <<vars, evidence, trace, inserted>>

\* mark_failed persists the error and the trace, not the evidence.
CommitFailed(q) ==
    /\ At(q, "failing")
    /\ Recorded(q, "failed", <<>>)
    /\ To(q, "committed")
    /\ UNCHANGED <<vars, evidence, trace, inserted>>

\* The commit returned the connection; reloading the run needs one again.
Reload(q) ==
    /\ At(q, "committed")
    /\ ConnectionFree
    /\ EndAs(q, "answered")

\* QueuePool gives up waiting for a connection.
PoolTimeout(q) ==
    /\ ~ConnectionFree
    /\ \/ At(q, "requested") /\ EndAs(q, "refused")
       \/ At(q, "committed") /\ EndAs(q, "unanswered")

\* A crash, or a statement or commit that failed: the transaction is rolled
\* back unless the commit had happened.
LoseQuery(q) ==
    /\ "database" \in Faults
    /\ \/ qpc[q] \in InTransaction /\ EndAs(q, "lost")
       \/ At(q, "committed") /\ EndAs(q, "unanswered")

QueryStep(q) ==
    \/ CreateRunning(q) \/ LookUp(q) \/ Generate(q) \/ NodeFails(q)
    \/ InsertEvidence(q) \/ ForeignKeyViolated(q)
    \/ CommitSucceeded(q) \/ CommitFailed(q) \/ Reload(q)
    \/ PoolTimeout(q) \/ LoseQuery(q)

-----------------------------------------------------------------------------
(* The uploads' steps, where they meet the queries.                        *)

\* Its first statement needs a connection (Reject covers the upload that gets
\* none in time), its FOR UPDATE lock a documents row that no query has locked
\* FOR KEY SHARE.
UploadStep(u) ==
    /\ Step(u)
    /\ pc[u] = "stored" /\ pc'[u] = "resolved" => ConnectionFree
    /\ \A d \in Uploads :
          lock'[d] = u /\ lock[d] # u => \A q \in Queries : d \notin keyShared[q]
    /\ UNCHANGED qvars

Activation(v) == ApplyActivation(v) /\ UNCHANGED qvars

QNext ==
    \/ \E q \in Queries : QueryStep(q)
    \/ \E u \in Uploads : UploadStep(u)
    \/ \E v \in Uploads : Activation(v)

QSpec == QInit /\ [][QNext]_allVars

-----------------------------------------------------------------------------
(* Properties.                                                             *)

QFinished == {"answered", "refused", "unanswered", "unrecorded", "lost"}

RunTypeOK ==
    /\ qpc \in [Queries -> {"requested", "committed"} \cup InTransaction \cup QFinished]
    /\ \A q \in Queries :
          /\ Len(evidence[q]) <= MaxLookups
          /\ \A i \in DOMAIN evidence[q] : evidence[q][i] \in Uploads
          /\ Len(trace[q]) <= MaxLookups + 3
          /\ inserted[q] \in 0..Len(evidence[q])
          /\ keyShared[q] \subseteq Uploads
          /\ records[q].status \in {"absent", "succeeded", "failed"}
    /\ Cardinality(Holders) <= Connections

\* What a client is answered, and what anybody can read afterwards, is a
\* finished run: one that succeeded has every chunk it retrieved, each with its
\* document, version and chunk rows, and a trace without failures; one that
\* failed says in its last steps where (execute_query.py, query_runs.py).
RecordsAreComplete ==
    \A q \in Queries :
        LET r == records[q] IN
        /\ At(q, "answered") => r # NoRecord
        /\ r.status = "succeeded" =>
              /\ At(q, "committed") => r.evidence = evidence[q]
              /\ \A i \in DOMAIN r.evidence :
                    DocumentVisible(r.evidence[i]) /\ VersionVisible(r.evidence[i])
              /\ \A i \in DOMAIN r.trace : r.trace[i] = "succeeded"
        /\ r.status = "failed" =>
              /\ Len(r.trace) > 1 /\ r.trace[Len(r.trace)] = "failed"
              /\ \A i \in DOMAIN r.trace, j \in DOMAIN r.trace :
                    r.trace[i] = "failed" /\ i <= j => r.trace[j] = "failed"

\* A query that found its answer is lost for one reason only: a chunk of a
\* document that is just being created, or of an upload that was rolled back.
\* If the document was committed, its lock makes the query wait until the
\* chunk's upload has ended, and an upload that failed has committed the
\* chunk's rows all the same.
OnlyUncommittedDocumentsLoseQueries ==
    [][\A q \in Queries :
          (qpc[q] = "persisting" /\ qpc'[q] = "unrecorded") =>
              LET v == NextChunk(q)
              IN pc[v] = "lost" \/ (pc[v] \in Locked /\ ~DocumentVisible(v))]_allVars

\* Whom a request waits for: the holders of the connections, or of a row lock.
Blockers(r) ==
    IF r \in Queries
    THEN IF qpc[r] \in {"requested", "committed"} /\ ~ConnectionFree THEN Holders
         ELSE IF RowsLeft(r) /\ DocumentVisible(NextChunk(r))
         THEN {lock[txn[NextChunk(r)].doc]} \ {None}
         ELSE {}
    ELSE IF pc[r] = "stored" /\ ~ConnectionFree THEN Holders
         ELSE IF pc[r] = "resolved"
         THEN ({lock[txn[r].doc]} \ {None}) \cup {q \in Queries : txn[r].doc \in keyShared[q]}
         ELSE {}

\* Nobody waits for a request that has ended, and there is no set of requests
\* that all wait for one another, although a query holds row locks while it
\* waits for others and everybody holds a connection meanwhile.
NobodyWaitsForEver ==
    LET requests == Queries \cup Uploads
        ended == {u \in Uploads : pc[u] \in Finished} \cup {q \in Queries : qpc[q] \in QFinished}
    IN /\ \A r \in requests : Blockers(r) \cap ended = {}
       /\ \A S \in SUBSET {r \in requests : Blockers(r) # {}} :
             S # {} => \E r \in S : Blockers(r) \cap S = {}

\* "persist answer, grader-approved evidence, citations, nested trace events"
\* (README.md): a pipeline that ran to its end leaves a record.  Refuted by a
\* search that meets the chunks of a new document's upload.
CompletedRunsArePersisted == \A q \in Queries : ~At(q, "unrecorded")
=============================================================================
