------------------------------ MODULE MCUploader ------------------------------
(***************************************************************************)
(* The uploader for TLC: its ticks in time, its settings and the building  *)
(* of chunks.  The three share nothing, so a behaviour of all is one of    *)
(* each side by side, and it is enough that in a behaviour one of them     *)
(* starts from more than a plain state.                                    *)
(***************************************************************************)
EXTENDS UploadTiming, Settings, ChunkBuilder

SetsExt == INSTANCE FiniteSetsExt

CONSTANT MaxTime    \* timestamps of metrics are 1..MaxTime

VARIABLE moves   \* the part that does

-----------------------------------------------------------------------------
(* Settings: every combination of the intervals with a plain retry block,   *)
(* and every retry block with plain intervals.                             *)

Durations == {Unset, Garbage, 0, 2}

Plain ==
  [remoteEnabled |-> TRUE, walInterval |-> Unset, uploadInterval |-> Unset,
   skewInterval |-> Unset, metricEnabled |-> TRUE, metricInterval |-> 2,
   retryEnabled |-> Unset, maxAttempts |-> 0, initialBackoff |-> Unset,
   maxBackoff |-> Unset, multiplier |-> 0, jitter |-> Unset]

Intervals ==
  {[Plain EXCEPT !.remoteEnabled = remote, !.walInterval = wal, !.uploadInterval = upload,
                 !.skewInterval = skew, !.metricEnabled = on, !.metricInterval = metric] :
     remote, on \in BOOLEAN, wal, upload, skew \in Durations, metric \in {Garbage, 0, 2}}

Retries ==
  {[Plain EXCEPT !.retryEnabled = on, !.maxAttempts = max, !.initialBackoff = first,
                 !.maxBackoff = cap, !.multiplier = multiplier, !.jitter = percent] :
     on \in {Unset, TRUE, FALSE}, max \in -1..3, first \in Durations \union {40},
     cap \in Durations, multiplier \in {-2, 0, 1, 2, 3, 4}, percent \in {Unset, -1, 0, 50, 100, 101}}

MCConfigs == Intervals \union Retries

-----------------------------------------------------------------------------
(* Chunks: metrics of a weight, up to one over the limit, and a compressor  *)
(* that gains when metrics share their time, so that a metric over the      *)
(* limit may hide behind another.                                          *)

MCSample ==
  [time : 1..MaxTime, numeric : {TRUE}, weight : 1..(Limit + 1)]
    \union [time : 1..MaxTime, numeric : {FALSE}, weight : {0}]

MCCompressedSize(metrics, ids) ==
  LET sum   == SetsExt!MapThenSumSet(LAMBDA m : metrics[m].weight, ids)
      times == {metrics[m].time : m \in ids}
  IN  IF sum > 1 /\ Cardinality(times) < Cardinality(ids) THEN sum - 2 ELSE sum

-----------------------------------------------------------------------------
uploaderVars == <<moves, vars, settingsVars, buildVars>>

UploaderInit ==
  /\ \/ moves = "timing" /\ config = Plain /\ batch = <<>> /\ asked = 0
     \/ moves = "settings" /\ batch = <<>> /\ asked = 0
     \/ moves = "chunks" /\ config = Plain
  /\ Init /\ SettingsInit /\ BuildInit

UploaderNext ==
  \/ moves = "timing" /\ Next /\ UNCHANGED <<moves, settingsVars, buildVars>>
  \/ moves = "settings" /\ SettingsNext /\ UNCHANGED <<moves, vars, buildVars>>
  \/ BuildNext /\ UNCHANGED <<moves, vars, settingsVars>>

\* A call of BuildChunks is not interrupted.
UploaderSpec == UploaderInit /\ [][UploaderNext]_uploaderVars /\ WF_buildVars(BuildNext)
=============================================================================
