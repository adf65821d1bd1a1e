------------------------- MODULE UploadPipelineProofs -------------------------
(***************************************************************************)
(* Proofs about UploadPipeline for all metrics, timestamps, batch and      *)
(* chunk sizes and retry limits.                                           *)
(***************************************************************************)
EXTENDS UploadPipeline, TLAPS

\* The states of the upload goroutine in which it holds a batch.
Busy == {"next", "attempt", "sent", "backoff", "mark"}

\* The tables a power loss could bring back, the live one among them, are
\* older versions of the live one, with no string metric flagged.
LogInv ==
  /\ db \in wal
  /\ db.rows \subseteq known
  /\ \A s \in wal :
       /\ s.rows \subseteq db.rows
       /\ s.uploaded \subseteq db.uploaded
       /\ s.uploaded \subseteq s.rows \ StringMetric
       /\ s.uploaded \subseteq accepted

\* The batch in hand: which part of it the remote has, and the chunk taken
\* from the front of the rest.
BatchInv ==
  pc \in Busy =>
    /\ batch \subseteq db.rows \ db.uploaded
    /\ batch \subseteq Numeric
    /\ todo \subseteq batch
    /\ batch \ todo \subseteq accepted
    /\ pc = "mark" => todo = {}
    /\ pc \in {"attempt", "sent", "backoff"} =>
         /\ chunk \subseteq todo
         /\ \A c \in chunk, m \in todo \ chunk : Time[c] <= Time[m]

\* What the network may still deliver was recorded once.
LateInv == \A C \in SUBSET Metric : late[C] > 0 => C \subseteq known \ StringMetric

IInv == TypeOK /\ LogInv /\ BatchInv /\ LateInv
-----------------------------------------------------------------------------
\* What Oldest selects is part of S, and nothing it leaves out is older.
LEMMA OldestIsPrefix ==
  ASSUME NEW S, NEW n, NEW T \in Oldest(S, n)
  PROVE  T \subseteq S /\ \A t \in T, s \in S \ T : Time[t] <= Time[s]
BY DEF Oldest

\* A batch is numeric, stored and not flagged.
LEMMA BatchIsUnuploaded ==
  ASSUME TypeOK, NEW B \in QueryUnuploaded(BatchSize)
  PROVE  B \subseteq Numeric /\ B \subseteq db.rows \ db.uploaded
BY OldestIsPrefix DEF QueryUnuploaded, Unuploaded

\* Every step keeps every variable in its type.
LEMMA TypeStep == TypeOK /\ [Next]_vars => TypeOK'
<1> SUFFICES ASSUME TypeOK, [Next]_vars PROVE TypeOK'
  OBVIOUS
<1> USE SizeAssumption DEF TypeOK, DBState
<1>1. ASSUME NEW S \in SUBSET Metric, StoreBatch(S) PROVE TypeOK'
  BY <1>1 DEF StoreBatch, Commit, localVars, remoteVars
<1>2. CASE CheckpointWAL
  BY <1>2 DEF CheckpointWAL, localVars, remoteVars
<1>3. CASE Tick
  <2>1. PICK B \in QueryUnuploaded(BatchSize) : batch' = B /\ todo' = IncludedIDs(B)
    BY <1>3 DEF Tick
  <2>2. B \subseteq Metric
    BY <2>1, BatchIsUnuploaded DEF Numeric
  <2>. QED
    BY <1>3, <2>1, <2>2 DEF Tick, IncludedIDs, remoteVars
<1>4. CASE NextChunk
  <2>1. chunk' \subseteq todo
    BY <1>4, OldestIsPrefix DEF NextChunk
  <2>. QED
    BY <1>4, <2>1 DEF NextChunk, remoteVars
<1>5. CASE SendRequest
  BY <1>5 DEF SendRequest, localVars, remoteVars
<1>6. ASSUME NEW C \in SUBSET Metric, ChunkAccepted(C) PROVE TypeOK'
  BY <1>6 DEF ChunkAccepted, RemoteStores
<1>7. CASE AttemptRefused
  BY <1>7 DEF AttemptRefused, RetryOrGiveUp, EndTick, localVars, remoteVars
<1>8. CASE AnswerLost
  BY <1>8 DEF AnswerLost, RemoteStores, RetryOrGiveUp, EndTick, localVars
<1>9. CASE AttemptTimedOut
  <2>1. late' \in [SUBSET Metric -> 0..MaxLate]
    BY <1>9 DEF AttemptTimedOut
  <2>. QED
    BY <1>9, <2>1 DEF AttemptTimedOut, RetryOrGiveUp, EndTick, localVars
<1>10. CASE NonRetryable
  BY <1>10 DEF NonRetryable, EndTick, remoteVars
<1>11. CASE BackoffElapsed
  BY <1>11 DEF BackoffElapsed, remoteVars
<1>12. CASE AttemptCancelled
  BY <1>12 DEF AttemptCancelled, EndTick, remoteVars
<1>13. CASE MarkUploaded
  BY <1>13 DEF MarkUploaded, Commit, EndTick, remoteVars
<1>14. CASE MarkFails
  BY <1>14 DEF MarkFails, EndTick, remoteVars
<1>15. ASSUME NEW C \in SUBSET Metric, LateArrival(C) \/ LateDropped(C) PROVE TypeOK'
  BY <1>15 DEF LateArrival, LateDropped, RemoteStores, localVars
<1>16. CASE ShutdownSignal \/ LoopExits \/ CloseStore
  BY <1>16 DEF ShutdownSignal, LoopExits, CloseStore, localVars, remoteVars
<1>17. CASE Crash \/ PowerLoss
  BY <1>17 DEF Crash, PowerLoss, Abandon, EndTick
<1>18. CASE Restart
  BY <1>18 DEF Restart, EndTick, remoteVars
<1>19. CASE UNCHANGED vars
  BY <1>19 DEF vars, localVars, remoteVars
<1>. QED
  BY <1>1, <1>2, <1>3, <1>4, <1>5, <1>6, <1>7, <1>8, <1>9, <1>10, <1>11, <1>12,
     <1>13, <1>14, <1>15, <1>16, <1>17, <1>18, <1>19 DEF Next, AttemptFails

-----------------------------------------------------------------------------
\* An empty database and an idle uploader satisfy the invariant.
LEMMA InitIInv == Init => IInv
<1> SUFFICES ASSUME Init PROVE IInv
  OBVIOUS
<1>1. TypeOK
  BY SizeAssumption DEF Init, TypeOK, DBState
<1>2. LogInv /\ BatchInv /\ LateInv
  BY DEF Init, LogInv, BatchInv, LateInv, Busy
<1>. QED
  BY <1>1, <1>2 DEF IInv

\* The chunk on offer is recorded and numeric.
LEMMA ChunkIsKnown ==
  ASSUME IInv, pc \in {"attempt", "sent", "backoff"}
  PROVE  chunk \subseteq known \ StringMetric
BY DEF IInv, LogInv, BatchInv, Busy, Numeric

\* Only StoreBatch, MarkUploaded, CheckpointWAL, CloseStore and PowerLoss
\* change the database, its log or what is known.
LEMMA LogStep == IInv /\ [Next]_vars => LogInv'
<1> SUFFICES ASSUME IInv, [Next]_vars PROVE LogInv'
  OBVIOUS
<1> USE DEF IInv, TypeOK, LogInv, DBState
<1>1. ASSUME NEW S \in SUBSET Metric, StoreBatch(S) PROVE LogInv'
  BY <1>1 DEF StoreBatch, Commit, remoteVars
<1>2. CASE MarkUploaded
  <2>1. IncludedIDs(batch) \subseteq accepted /\ IncludedIDs(batch) \subseteq Numeric
    BY <1>2 DEF MarkUploaded, BatchInv, Busy, IncludedIDs
  <2>2. /\ db'.rows = db.rows
        /\ db'.uploaded = db.uploaded \union (db.rows \intersect IncludedIDs(batch))
        /\ wal' = wal \union {db'}
        /\ accepted' = accepted /\ known' = known
    BY <1>2 DEF MarkUploaded, Commit, remoteVars
  <2>. QED
    BY <2>1, <2>2 DEF Numeric
<1>3. CASE CheckpointWAL \/ CloseStore
  BY <1>3 DEF CheckpointWAL, CloseStore, remoteVars
<1>4. CASE PowerLoss
  BY <1>4 DEF PowerLoss
<1>5. CASE db' = db /\ wal' = wal /\ known' = known /\ accepted \subseteq accepted'
  BY <1>5
<1>6. ASSUME NEW C \in SUBSET Metric, ChunkAccepted(C) \/ LateArrival(C) \/ LateDropped(C)
      PROVE LogInv'
  BY <1>5, <1>6 DEF ChunkAccepted, LateArrival, LateDropped, RemoteStores
<1>7. CASE AttemptFails
  BY <1>5, <1>7 DEF AttemptFails, AttemptRefused, AnswerLost, AttemptTimedOut, NonRetryable,
       RemoteStores, remoteVars
<1>8. CASE Tick \/ NextChunk \/ SendRequest \/ BackoffElapsed \/ AttemptCancelled \/ MarkFails
  BY <1>5, <1>8 DEF Tick, NextChunk, SendRequest, BackoffElapsed, AttemptCancelled, MarkFails,
       remoteVars
<1>9. CASE ShutdownSignal \/ LoopExits \/ Crash \/ Restart
  BY <1>5, <1>9 DEF ShutdownSignal, LoopExits, Crash, Restart, remoteVars
<1>10. CASE UNCHANGED vars
  BY <1>5, <1>10 DEF vars, remoteVars
<1>. QED
  BY <1>1, <1>2, <1>3, <1>4, <1>6, <1>7, <1>8, <1>9, <1>10 DEF Next

\* The batch in hand loses metrics only from its front, to the remote.
LEMMA BatchStep == IInv /\ [Next]_vars => BatchInv'
<1> SUFFICES ASSUME IInv, [Next]_vars PROVE BatchInv'
  OBVIOUS
<1> USE DEF IInv, BatchInv, Busy
<1>1. CASE EndTick
  BY <1>1 DEF EndTick
<1>2. CASE /\ UNCHANGED <<localVars, pc>> /\ accepted \subseteq accepted'
           /\ db.rows \subseteq db'.rows /\ db'.uploaded = db.uploaded
  BY <1>2 DEF localVars
<1>3. ASSUME NEW S \in SUBSET Metric, StoreBatch(S) PROVE BatchInv'
  <2>1. db.rows \subseteq db'.rows /\ db'.uploaded = db.uploaded
    BY <1>3 DEF StoreBatch, Commit, TypeOK, DBState
  <2>. QED
    BY <1>2, <1>3, <2>1 DEF StoreBatch, remoteVars
<1>4. CASE Tick
  <2>1. PICK B \in QueryUnuploaded(BatchSize) : batch' = B /\ todo' = IncludedIDs(B)
    BY <1>4 DEF Tick
  <2>2. B \subseteq Numeric /\ B \subseteq db.rows \ db.uploaded
    BY BatchIsUnuploaded
  <2>. QED
    BY <1>4, <2>1, <2>2 DEF Tick, IncludedIDs, Numeric
<1>5. CASE NextChunk
  <2>1. PICK n \in ChunkSizes : chunk' \in Oldest(todo, n)
    BY <1>5 DEF NextChunk
  <2>2. chunk' \subseteq todo /\ \A c \in chunk', m \in todo \ chunk' : Time[c] <= Time[m]
    BY <2>1, OldestIsPrefix
  <2>. QED
    BY <1>5, <2>2 DEF NextChunk, remoteVars
<1>6. CASE SendRequest \/ BackoffElapsed
  BY <1>6 DEF SendRequest, BackoffElapsed, localVars, remoteVars
<1>7. ASSUME NEW C \in SUBSET Metric, ChunkAccepted(C) PROVE BatchInv'
  BY <1>7 DEF ChunkAccepted, RemoteStores
<1>8. CASE AttemptFails
  <2>1. /\ UNCHANGED db /\ accepted \subseteq accepted'
        /\ EndTick \/ (pc = "sent" /\ pc' = "backoff" /\ UNCHANGED localVars)
    BY <1>8 DEF AttemptFails, AttemptRefused, AnswerLost, AttemptTimedOut, NonRetryable,
         RetryOrGiveUp, RemoteStores, remoteVars
  <2>. QED
    BY <1>1, <2>1 DEF localVars
<1>9. CASE AttemptCancelled \/ MarkUploaded \/ MarkFails \/ Crash \/ PowerLoss \/ Restart
  BY <1>1, <1>9 DEF AttemptCancelled, MarkUploaded, MarkFails, Crash, PowerLoss, Restart
<1>10. ASSUME NEW C \in SUBSET Metric, LateArrival(C) \/ LateDropped(C) PROVE BatchInv'
  BY <1>2, <1>10 DEF LateArrival, LateDropped, RemoteStores
<1>11. CASE CheckpointWAL \/ ShutdownSignal
  BY <1>2, <1>11 DEF CheckpointWAL, ShutdownSignal, remoteVars
<1>12. CASE LoopExits \/ CloseStore
  BY <1>12 DEF LoopExits, CloseStore, localVars
<1>13. CASE UNCHANGED vars
  BY <1>2, <1>13 DEF vars, remoteVars
<1>. QED
  BY <1>3, <1>4, <1>5, <1>6, <1>7, <1>8, <1>9, <1>10, <1>11, <1>12, <1>13 DEF Next

\* A request outlives its attempt only with metrics that were recorded.
LEMMA LateStep == IInv /\ [Next]_vars => LateInv'
<1> SUFFICES ASSUME IInv, [Next]_vars, NEW C \in SUBSET Metric, late'[C] > 0
             PROVE  C \subseteq known' \ StringMetric
  BY DEF LateInv
<1>0. late \in [SUBSET Metric -> Nat] /\ chunk \in SUBSET Metric
  BY SizeAssumption DEF IInv, TypeOK
<1>1. known \subseteq known'
  BY DEF Next, StoreBatch, CheckpointWAL, Tick, NextChunk, SendRequest, ChunkAccepted,
     AttemptFails, AttemptRefused, AnswerLost, AttemptTimedOut, NonRetryable, BackoffElapsed,
     AttemptCancelled, MarkUploaded, MarkFails, LateArrival, LateDropped, ShutdownSignal,
     LoopExits, CloseStore, Crash, PowerLoss, Restart, vars
<1>2. CASE late[C] > 0
  BY <1>1, <1>2 DEF IInv, LateInv
<1>3. CASE pc = "sent" /\ C = chunk
  BY <1>1, <1>3, ChunkIsKnown
<1>4. CASE late' = late
  BY <1>2, <1>4
<1>5. CASE AttemptTimedOut \/ Crash \/ PowerLoss
  <2>1. late' = late \/ (pc = "sent" /\ late' = [late EXCEPT ![chunk] = @ + 1])
    BY <1>5 DEF AttemptTimedOut, Crash, PowerLoss, Abandon
  <2>. QED
    BY <1>0, <1>2, <1>3, <1>4, <2>1
<1>6. ASSUME NEW D \in SUBSET Metric, LateArrival(D) \/ LateDropped(D)
      PROVE late[C] > 0
  BY <1>0, <1>6 DEF LateArrival, LateDropped
<1>7. CASE AttemptRefused \/ AnswerLost \/ NonRetryable \/ UNCHANGED vars
  BY <1>4, <1>7 DEF AttemptRefused, AnswerLost, NonRetryable, vars, remoteVars
<1>8. CASE \/ \E S \in SUBSET Metric : StoreBatch(S) \/ ChunkAccepted(S)
           \/ CheckpointWAL \/ Tick \/ NextChunk \/ SendRequest
           \/ BackoffElapsed \/ AttemptCancelled \/ MarkUploaded \/ MarkFails
           \/ ShutdownSignal \/ LoopExits \/ CloseStore \/ Restart
  BY <1>4, <1>8 DEF StoreBatch, ChunkAccepted, CheckpointWAL, Tick, NextChunk, SendRequest,
     BackoffElapsed, AttemptCancelled, MarkUploaded, MarkFails, ShutdownSignal, LoopExits,
     CloseStore, Restart, remoteVars
<1>. QED
  BY <1>2, <1>5, <1>6, <1>7, <1>8 DEF Next, AttemptFails

-----------------------------------------------------------------------------
\* The inductive invariant holds in every reachable state.
THEOREM Invariance == Spec => []IInv
<1>1. IInv /\ [Next]_vars => IInv'
  BY TypeStep, LogStep, BatchStep, LateStep DEF IInv
<1>. QED
  BY InitIInv, <1>1, PTL DEF Spec

\* Every variable keeps its type, and no chunk is tried more than
\* MaxRetries + 1 times in a tick.
THEOREM TypeCorrect == Spec => []TypeOK
<1>1. IInv => TypeOK
  BY DEF IInv
<1>. QED
  BY Invariance, <1>1, PTL

\* No row is flagged as uploaded, in the live table or in one a power loss
\* may restore, unless the remote has stored its metric.
THEOREM UploadedImpliesAccepted == Spec => []UploadedWereAccepted
<1>1. IInv => UploadedWereAccepted
  BY DEF IInv, LogInv, UploadedWereAccepted
<1>. QED
  BY Invariance, <1>1, PTL

\* Within a batch the remote gets every older metric before a newer chunk is
\* offered, whatever fails in between.
THEOREM OldestGoesFirst == Spec => []OldestFirst
<1>1. IInv => OldestFirst
  <2> SUFFICES ASSUME IInv, pc \in {"attempt", "sent", "backoff"},
                      NEW c \in chunk, NEW m \in IncludedIDs(batch) \ chunk, Time[m] < Time[c]
               PROVE  m \in accepted
    BY DEF OldestFirst
  <2>1. c \in Metric /\ m \in Metric
    BY DEF IInv, TypeOK, IncludedIDs
  <2>2. Time[c] \in Nat /\ Time[m] \in Nat
    BY <2>1, TimeAssumption
  <2>3. m \notin todo
    BY <2>2 DEF IInv, BatchInv, Busy
  <2>. QED
    BY <2>3 DEF IInv, BatchInv, Busy, IncludedIDs
<1>. QED
  BY Invariance, <1>1, PTL

\* A flagged metric is in no batch being uploaded.
THEOREM FlaggedStaysHome == Spec => []FlaggedNotOffered
<1>1. IInv => FlaggedNotOffered
  BY DEF IInv, BatchInv, Busy, FlaggedNotOffered
<1>. QED
  BY Invariance, <1>1, PTL

-----------------------------------------------------------------------------
(* The pipeline implements the outbox *)

\* An empty database is an empty outbox.
LEMMA InitOutbox == Init => Outbox!Init
BY DEF Init, Outbox!Init

\* Every step is a step of the outbox or a stutter.
LEMMA NextOutbox == IInv /\ [Next]_vars => [Outbox!Next]_(Outbox!vars)
<1> SUFFICES ASSUME IInv, [Next]_vars PROVE [Outbox!Next]_(Outbox!vars)
  OBVIOUS
<1>1. ASSUME NEW S \in SUBSET Metric, StoreBatch(S) PROVE Outbox!Next
  <2>1. Outbox!Record(S \ StringMetric)
    BY <1>1 DEF StoreBatch, Commit, Outbox!Record, remoteVars, IInv, TypeOK, DBState
  <2>. QED
    BY <2>1 DEF Outbox!Next, Numeric
<1>2. CASE MarkUploaded
  <2> DEFINE S == db.rows \intersect IncludedIDs(batch)
  <2>1. S \subseteq (db.rows \ StringMetric) \intersect accepted
    BY <1>2 DEF MarkUploaded, IInv, BatchInv, Busy, IncludedIDs
  <2>2. Outbox!Confirm(S)
    BY <1>2, <2>1 DEF MarkUploaded, Commit, Outbox!Confirm, remoteVars, IInv, TypeOK, DBState
  <2>3. S \in SUBSET Numeric
    BY DEF IInv, TypeOK, DBState, IncludedIDs, Numeric
  <2>. QED
    BY <2>2, <2>3 DEF Outbox!Next
<1>3. ASSUME NEW C \in SUBSET Metric, RemoteStores(C), UNCHANGED <<db, known>>,
             C \subseteq known \ StringMetric
      PROVE Outbox!Next
  <2>1. Outbox!Deliver(C)
    BY <1>3 DEF RemoteStores, Outbox!Deliver
  <2>. QED
    BY <1>3, <2>1 DEF Outbox!Next, Numeric
<1>4. ASSUME NEW C \in SUBSET Metric, ChunkAccepted(C) \/ LateArrival(C) PROVE Outbox!Next
  <2>1. C \subseteq known \ StringMetric
    BY <1>4, ChunkIsKnown DEF ChunkAccepted, LateArrival, IInv, LateInv
  <2>. QED
    BY <1>3, <1>4, <2>1 DEF ChunkAccepted, LateArrival
<1>5. CASE AnswerLost
  <2>1. chunk \subseteq known \ StringMetric /\ chunk \in SUBSET Metric
    BY <1>5, ChunkIsKnown DEF AnswerLost, IInv, TypeOK
  <2>. QED
    BY <1>3, <1>5, <2>1 DEF AnswerLost
<1>6. CASE PowerLoss
  <2>1. /\ db' \in wal /\ accepted' = accepted /\ known' = known
        /\ db'.rows \subseteq db.rows /\ db'.uploaded \subseteq db.uploaded
        /\ db'.uploaded \subseteq db'.rows \ StringMetric
    BY <1>6 DEF PowerLoss, IInv, LogInv
  <2>2. Outbox!PowerLoss
    BY <2>1 DEF Outbox!PowerLoss
  <2>. QED
    BY <2>2 DEF Outbox!Next
<1>7. CASE UNCHANGED <<db, known, accepted>>
  BY <1>7 DEF Outbox!vars
<1>8. ASSUME NEW C \in SUBSET Metric, LateDropped(C) PROVE UNCHANGED Outbox!vars
  BY <1>8 DEF LateDropped, Outbox!vars
<1>9. CASE AttemptRefused \/ AttemptTimedOut \/ NonRetryable \/ AttemptCancelled
  BY <1>7, <1>9 DEF AttemptRefused, AttemptTimedOut, NonRetryable, AttemptCancelled, remoteVars
<1>10. CASE CheckpointWAL \/ Tick \/ NextChunk \/ SendRequest \/ BackoffElapsed \/ MarkFails
  BY <1>7, <1>10 DEF CheckpointWAL, Tick, NextChunk, SendRequest, BackoffElapsed, MarkFails,
     remoteVars
<1>11. CASE ShutdownSignal \/ LoopExits \/ CloseStore \/ Crash \/ Restart \/ UNCHANGED vars
  BY <1>7, <1>11 DEF ShutdownSignal, LoopExits, CloseStore, Crash, Restart, vars, remoteVars
<1>. QED
  BY <1>1, <1>2, <1>4, <1>5, <1>6, <1>8, <1>9, <1>10, <1>11 DEF Next, AttemptFails

\* Whatever is lost, repeated, delayed, killed or unplugged, the pipeline
\* only ever does what the outbox allows.
THEOREM PipelineImplementsOutbox == Spec => ImplementsOutbox
BY InitOutbox, NextOutbox, Invariance, PTL DEF Spec, Outbox!Spec, ImplementsOutbox
=============================================================================
