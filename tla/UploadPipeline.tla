--------------------------- MODULE UploadPipeline ---------------------------
(***************************************************************************)
(* The path of a metric from a collector to the remote: the SQLite table   *)
(* with its write-ahead log (internal/storage), the upload goroutine       *)
(* (runUploadLoop and uploadMetrics of cmd/tidewatch/main.go), the HTTP    *)
(* uploader with its chunks and retries (internal/uploader), the network,  *)
(* the remote, and the life of the process around them.                    *)
(*                                                                         *)
(* A row of the table is identified with its dedup key: the unique index   *)
(* makes the two one-to-one, so a metric here stands for its key, and its  *)
(* value is left out.  Uses of a row id become uses of the metric.         *)
(***************************************************************************)
EXTENDS Naturals, FiniteSets

CONSTANTS
  Metric,         \* the metrics collectors may produce, by dedup key
  Time,           \* timestamp_ms of each metric
  StringMetric,   \* those with value_type = 1
  Rejected,       \* those the remote never stores: it answers 400 to a
                  \* chunk that holds one
  BatchSize,      \* remote.batch_size
  ChunkSize,      \* remote.chunk_size
  MaxRetries,     \* retries after the first attempt of a chunk
  MaxLate         \* bound: requests per chunk still in the network after the
                  \* client has given up on them

ASSUME TimeAssumption == Time \in [Metric -> Nat]
ASSUME StringAssumption == StringMetric \subseteq Metric
ASSUME RejectedAssumption == Rejected \subseteq Metric
ASSUME SizeAssumption ==
  /\ BatchSize \in Nat \ {0}
  /\ ChunkSize \in Nat \ {0}
  /\ MaxRetries \in Nat
  /\ MaxLate \in Nat

Numeric == Metric \ StringMetric

VARIABLES
  db,         \* the committed table: its rows, and the rows with uploaded = 1
  wal,        \* the tables a power loss may leave behind (synchronous=NORMAL
              \* syncs the log only at a checkpoint)
  proc,       \* "running", "stopping" (context cancelled) or "down"
  pc,         \* where the upload goroutine is
  batch,      \* the result of QueryUnuploaded of the current tick
  todo,       \* included metrics of the batch not yet in an accepted chunk
  chunk,      \* the chunk being uploaded
  attempt,    \* attempts of this chunk that have failed
  accepted,   \* metrics the remote has stored at least once
  late,       \* abandoned requests that may still reach the remote
  known       \* history: every metric some StoreBatch committed

localVars  == <<batch, todo, chunk, attempt>>
remoteVars == <<accepted, late>>
vars == <<db, wal, proc, pc, localVars, remoteVars, known>>

DBState == [rows : SUBSET Metric, uploaded : SUBSET Metric]

-----------------------------------------------------------------------------
(* Queries and chunks *)

\* Mutant: the sort is missing.
Oldest_Unsorted(S, n) ==
  {T \in SUBSET S : Cardinality(T) = IF n < Cardinality(S) THEN n ELSE Cardinality(S)}

\* The n first of S in timestamp order; ties leave a choice.
Oldest(S, n) ==
  {T \in SUBSET S :
     /\ Cardinality(T) = IF n < Cardinality(S) THEN n ELSE Cardinality(S)
     /\ \A t \in T, s \in S \ T : Time[t] <= Time[s]}

\* Mutant: the condition uploaded = 0 is missing.
Unuploaded_Flagged == {m \in db.rows : m \in Numeric}

\* The rows QueryUnuploaded and GetPendingCount select.  Every row is
\* inserted with priority 1, so the order is by timestamp alone.
Unuploaded == {m \in db.rows : m \notin db.uploaded /\ m \in Numeric}

\* Mutant: the limit also counts rows that are not to be uploaded.
QueryUnuploaded_LimitFirst(limit) == {B \intersect Unuploaded : B \in Oldest(db.rows, limit)}

QueryUnuploaded(limit) == Oldest(Unuploaded, limit)

\* BuildVMJSONL skips string metrics and reports the ids it wrote.
IncludedIDs(S) == S \ StringMetric

\* The sizes a chunk can have while metrics remain behind it: the configured
\* one, or one of its halvings when the compressed chunk is over the limit.
ChunkSizes == {n \in 1..ChunkSize : \E k \in 0..ChunkSize : n = ChunkSize \div 2^k}

-----------------------------------------------------------------------------
Init ==
  /\ db = [rows |-> {}, uploaded |-> {}]
  /\ wal = {db}
  /\ proc = "running"
  /\ pc = "idle"
  /\ batch = {} /\ todo = {} /\ chunk = {} /\ attempt = 0
  /\ accepted = {}
  /\ late = [C \in SUBSET Metric |-> 0]
  /\ known = {}

Commit(newDB) ==
  /\ db' = newDB
  /\ wal' = wal \union {newDB}

(* The collectors, the meta-metrics loop and the clock skew loop.  A batch *)
(* is one transaction; a metric whose key is already there is skipped.     *)
(* After cancel() the context fails the transaction.  A failed StoreBatch  *)
(* rolls back and changes nothing here.                                    *)
StoreBatch(S) ==
  /\ proc = "running"
  /\ S # {}
  /\ Commit([db EXCEPT !.rows = @ \union S])
  /\ known' = known \union S
  /\ UNCHANGED <<proc, pc, localVars, remoteVars>>

CheckpointWAL ==
  /\ proc # "down"
  /\ wal' = {db}
  /\ UNCHANGED <<db, proc, pc, localVars, remoteVars, known>>

-----------------------------------------------------------------------------
(* The upload goroutine *)

\* The tick is over: the slices of uploadMetrics go out of scope.
EndTick ==
  /\ pc' = "idle"
  /\ batch' = {} /\ todo' = {} /\ chunk' = {} /\ attempt' = 0

\* A tick whose query fails or finds nothing changes nothing here.
Tick ==
  /\ pc = "idle"
  /\ proc = "running"
  /\ \E B \in QueryUnuploaded(BatchSize) :
       /\ IncludedIDs(B) # {}
       /\ batch' = B
       /\ todo' = IncludedIDs(B)
  /\ pc' = "next"
  /\ UNCHANGED <<db, wal, proc, chunk, attempt, remoteVars, known>>

\* The loop of UploadAndGetIDs over the chunks, each a run of metrics in
\* timestamp order.
NextChunk ==
  /\ pc = "next"
  /\ todo # {}
  /\ \E n \in ChunkSizes : chunk' \in Oldest(todo, n)
  /\ attempt' = 0
  /\ pc' = "attempt"
  /\ UNCHANGED <<db, wal, proc, batch, todo, remoteVars, known>>

\* Head of the retry loop: the request leaves only with a live context.
SendRequest ==
  /\ pc = "attempt"
  /\ proc = "running"
  /\ pc' = "sent"
  /\ UNCHANGED <<db, wal, proc, localVars, remoteVars, known>>

RemoteStores(C) ==
  /\ C \intersect Rejected = {}
  /\ accepted' = accepted \union C

\* 2xx: the whole chunk counts as stored.
ChunkAccepted(C) ==
  /\ pc = "sent"
  /\ C = chunk
  /\ RemoteStores(C)
  /\ todo' = todo \ C
  /\ chunk' = {}
  /\ attempt' = 0
  /\ pc' = IF todo' = {} THEN "mark" ELSE "next"
  /\ UNCHANGED <<db, wal, proc, batch, late, known>>

\* Mutant: a chunk that failed for good is skipped, not an error of the batch.
RetryOrGiveUp_SkipsChunk ==
  \/ /\ attempt < MaxRetries
     /\ pc' = "backoff"
     /\ UNCHANGED localVars
  \/ /\ attempt >= MaxRetries
     /\ todo' = todo \ chunk
     /\ pc' = IF todo' = {} THEN "mark" ELSE "next"
     /\ chunk' = {} /\ attempt' = 0
     /\ UNCHANGED batch

RetryOrGiveUp ==
  \/ /\ attempt < MaxRetries
     /\ pc' = "backoff"
     /\ UNCHANGED localVars
  \/ /\ attempt >= MaxRetries
     /\ EndTick

\* 429, 5xx or any other unexpected status: nothing was stored.
AttemptRefused ==
  /\ pc = "sent"
  /\ RetryOrGiveUp
  /\ UNCHANGED <<db, wal, proc, remoteVars, known>>

\* The remote stored the chunk and the answer was lost: a transport error,
\* the 30 s client timeout, a cancelled context or an unreadable body.
AnswerLost ==
  /\ pc = "sent"
  /\ RemoteStores(chunk)
  /\ RetryOrGiveUp
  /\ UNCHANGED <<db, wal, proc, late, known>>

\* The client gave up while the request was still on its way.
AttemptTimedOut ==
  /\ pc = "sent"
  /\ late[chunk] < MaxLate
  /\ late' = [late EXCEPT ![chunk] = @ + 1]
  /\ RetryOrGiveUp
  /\ UNCHANGED <<db, wal, proc, accepted, known>>

\* 400 and 401 abandon the chunk, and with it the batch.
NonRetryable ==
  /\ pc = "sent"
  /\ EndTick
  /\ UNCHANGED <<db, wal, proc, remoteVars, known>>

BackoffElapsed ==
  /\ pc = "backoff"
  /\ attempt' = attempt + 1
  /\ pc' = "attempt"
  /\ UNCHANGED <<db, wal, proc, batch, todo, chunk, remoteVars, known>>

\* ctx.Err() at the head of the loop, or ctx.Done() during the backoff.
AttemptCancelled ==
  /\ pc \in {"attempt", "backoff"}
  /\ proc = "stopping"
  /\ EndTick
  /\ UNCHANGED <<db, wal, proc, remoteVars, known>>

\* Mutant: the update is not restricted to the ids of the batch.
MarkUploaded_AllRows ==
  /\ pc = "mark"
  /\ proc = "running"
  /\ Commit([db EXCEPT !.uploaded = @ \union IncludedIDs(db.rows)])
  /\ EndTick
  /\ UNCHANGED <<proc, remoteVars, known>>

MarkUploaded ==
  /\ pc = "mark"
  /\ proc = "running"
  /\ Commit([db EXCEPT !.uploaded = @ \union (db.rows \intersect IncludedIDs(batch))])
  /\ EndTick
  /\ UNCHANGED <<proc, remoteVars, known>>

\* A failed mark is logged and the tick still counts as a success.
MarkFails ==
  /\ pc = "mark"
  /\ EndTick
  /\ UNCHANGED <<db, wal, proc, remoteVars, known>>

-----------------------------------------------------------------------------
(* The network: an abandoned request arrives after all, or is dropped *)

LateArrival(C) ==
  /\ late[C] > 0
  /\ RemoteStores(C)
  /\ late' = [late EXCEPT ![C] = @ - 1]
  /\ UNCHANGED <<db, wal, proc, pc, localVars, known>>

LateDropped(C) ==
  /\ late[C] > 0
  /\ late' = [late EXCEPT ![C] = @ - 1]
  /\ UNCHANGED <<db, wal, proc, pc, localVars, accepted, known>>

-----------------------------------------------------------------------------
(* The process *)

ShutdownSignal ==
  /\ proc = "running"
  /\ proc' = "stopping"
  /\ UNCHANGED <<db, wal, pc, localVars, remoteVars, known>>

\* Mutant: the loop wants to drain the table before it stops.
LoopExits_Drained ==
  /\ pc = "idle"
  /\ proc = "stopping"
  /\ Unuploaded = {}
  /\ pc' = "exited"
  /\ UNCHANGED <<db, wal, proc, localVars, remoteVars, known>>

\* The loop sees ctx.Done() between two ticks.
LoopExits ==
  /\ pc = "idle"
  /\ proc = "stopping"
  /\ pc' = "exited"
  /\ UNCHANGED <<db, wal, proc, localVars, remoteVars, known>>

\* wg.Wait() returns, store.Close() checkpoints; its error is ignored.
CloseStore ==
  /\ pc = "exited"
  /\ proc' = "down"
  /\ wal' \in {wal, {db}}
  /\ UNCHANGED <<db, pc, localVars, remoteVars, known>>

\* A request that was out when the process died may still arrive.
Abandon ==
  \/ UNCHANGED late
  \/ /\ pc = "sent"
     /\ late[chunk] < MaxLate
     /\ late' = [late EXCEPT ![chunk] = @ + 1]

\* The process dies; what it committed is in the page cache and survives.
Crash ==
  /\ proc # "down"
  /\ proc' = "down"
  /\ Abandon
  /\ EndTick
  /\ UNCHANGED <<db, wal, accepted, known>>

\* The machine dies: commits since the last synced one may be gone.
PowerLoss ==
  /\ db' \in wal
  /\ wal' = {db'}
  /\ proc' = "down"
  /\ Abandon
  /\ EndTick
  /\ UNCHANGED <<accepted, known>>

Restart ==
  /\ proc = "down"
  /\ proc' = "running"
  /\ EndTick
  /\ UNCHANGED <<db, wal, remoteVars, known>>

-----------------------------------------------------------------------------
AttemptFails == AttemptRefused \/ AnswerLost \/ AttemptTimedOut \/ NonRetryable

Next ==
  \/ \E S \in SUBSET Metric : StoreBatch(S)
  \/ CheckpointWAL
  \/ Tick \/ NextChunk \/ SendRequest
  \/ \E C \in SUBSET Metric : ChunkAccepted(C)
  \/ AttemptFails
  \/ BackoffElapsed \/ AttemptCancelled
  \/ MarkUploaded \/ MarkFails
  \/ \E C \in SUBSET Metric : LateArrival(C) \/ LateDropped(C)
  \/ ShutdownSignal \/ LoopExits \/ CloseStore
  \/ Crash \/ PowerLoss \/ Restart

Spec == Init /\ [][Next]_vars

(***************************************************************************)
(* Fairness.  The goroutine is scheduled and its ticker fires; a request   *)
(* ends, at the latest with the 30 s client timeout; a backoff elapses.    *)
(* Of the environment: a chunk that is offered again and again is accepted *)
(* again and again, and the database does not fail every mark.             *)
(***************************************************************************)
RequestEnds == AttemptFails \/ \E C \in SUBSET Metric : ChunkAccepted(C)

Scheduling ==
  /\ WF_vars(Tick)
  /\ WF_vars(NextChunk)
  /\ WF_vars(SendRequest)
  /\ WF_vars(RequestEnds)
  /\ WF_vars(BackoffElapsed)
  /\ WF_vars(AttemptCancelled)
  /\ WF_vars(MarkUploaded \/ MarkFails)
  /\ WF_vars(LoopExits)
  /\ WF_vars(CloseStore)

Environment ==
  /\ \A C \in SUBSET Numeric : SF_vars(ChunkAccepted(C))
  /\ SF_vars(MarkUploaded)

FairSpec == Spec /\ Scheduling /\ Environment

-----------------------------------------------------------------------------
(* Safety *)

\* Type invariant of the pipeline; a backoff always has an attempt left.
TypeOK ==
  /\ db \in DBState
  /\ wal \subseteq DBState
  /\ proc \in {"running", "stopping", "down"}
  /\ pc \in {"idle", "next", "attempt", "sent", "backoff", "mark", "exited"}
  /\ batch \in SUBSET Metric /\ todo \in SUBSET Metric /\ chunk \in SUBSET Metric
  /\ attempt \in 0..MaxRetries
  /\ pc = "backoff" => attempt < MaxRetries
  /\ accepted \in SUBSET Metric
  /\ late \in [SUBSET Metric -> 0..MaxLate]
  /\ known \in SUBSET Metric

\* A row is flagged as uploaded only when the remote has stored its metric:
\* not in the live table, and not in any table a power loss could bring back.
\* The flag is set by uploadMetrics, after the last chunk of the batch and
\* possibly after retries, from ids gathered before the first request.
UploadedWereAccepted == \A s \in wal \union {db} : s.uploaded \subseteq accepted

\* While a chunk is on offer, everything older in its batch has been stored
\* by the remote: BuildChunks sorts, and UploadAndGetIDs neither skips nor
\* reorders a chunk when one fails.
OldestFirst ==
  pc \in {"attempt", "sent", "backoff"} =>
    \A c \in chunk, m \in IncludedIDs(batch) \ chunk : Time[m] < Time[c] => m \in accepted

\* A metric flagged in the database is not offered to the remote again,
\* whatever was committed, checkpointed or lost since the flag was set.
FlaggedNotOffered ==
  pc \in {"next", "attempt", "sent", "backoff", "mark"} => batch \intersect db.uploaded = {}

-----------------------------------------------------------------------------
(* Liveness *)

\* Once the process stays up, no numeric metric stays pending for ever: not
\* behind string metrics, not behind a batch that failed half way.
PendingDrains ==
  (<>[](proc = "running")) =>
    \A m \in Numeric : []<>(m \in db.rows => m \in db.uploaded)

\* cancel() is followed by the end of the upload loop and of the process, in
\* whatever state of a tick, retry or backoff it comes.
ShutdownCompletes == proc = "stopping" ~> proc = "down"

-----------------------------------------------------------------------------
(* Refinement: rows are recordings, flags are confirmations *)

Outbox == INSTANCE AtLeastOnceOutbox WITH
  Item      <- Numeric,
  known     <- known \ StringMetric,
  recorded  <- db.rows \ StringMetric,
  confirmed <- db.uploaded,
  delivered <- accepted

\* Every step of the pipeline is a step of the outbox or leaves it alone.
ImplementsOutbox == Outbox!Spec
=============================================================================
