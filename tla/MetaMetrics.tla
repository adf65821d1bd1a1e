----------------------------- MODULE MetaMetrics -----------------------------
(***************************************************************************)
(* The agent's metrics about itself (internal/monitoring/metrics.go): the  *)
(* loops of main record counts and durations under one mutex, and the      *)
(* meta-metrics loop turns them into series.                               *)
(*                                                                         *)
(* The collectors and the uploader are sources of durations; the uploader  *)
(* has fields of its own in the code, treated alike.  A result is the      *)
(* record of its series.                                                   *)
(***************************************************************************)
EXTENDS Naturals, Sequences, FiniteSets, FiniteSetsExt, Functions

CONSTANTS
  MetaCollector,        \* names of the collectors
  HistogramMaxSamples,  \* 100
  Duration,             \* durations a tick may take
  Gauge,                \* values of the sizes and of the skew, with 0
  MaxRecorded,          \* bound: calls of RecordXxx in a run
  NoSeries              \* a series that is not in the result

Source == MetaCollector \union {"uploader"}

ASSUME MetaAssumption ==
  /\ HistogramMaxSamples \in Nat \ {0} /\ MaxRecorded \in Nat
  /\ Duration \subseteq Nat /\ Gauge \subseteq Nat /\ 0 \in Gauge
  /\ IsFiniteSet(Source)

VARIABLES
  collected,   \* source -> metrics collected or uploaded
  failed,      \* source -> failures
  durations,   \* source -> window of durations
  gauges,      \* sizes of the database and clock skew, as last reported
  series,      \* the last result of CollectMetrics
  recorded     \* history: source -> all durations

metaVars == <<collected, failed, durations, gauges, series, recorded>>

-----------------------------------------------------------------------------
(* calculatePercentiles *)

\* int(n * P/100 - 0.5), which for the n and P at hand is exact in floating
\* point, cut to 0..n-1.  int truncates towards zero.
PercentileIndex(n, percent) ==
  LET index == IF 2 * n * percent < 100 THEN 0 ELSE (2 * n * percent - 100) \div 200
  IN  IF index >= n THEN n - 1 ELSE index

\* How many samples of a window are at most, and how many are below, a value.
UpTo(window, v) == Cardinality({j \in DOMAIN window : window[j] <= v})
Below(window, v) == Cardinality({j \in DOMAIN window : window[j] < v})

\* Element k of the sorted window.
Sorted(window, k) ==
  CHOOSE v \in Range(window) : Below(window, v) <= k /\ k < UpTo(window, v)

Percentiles(window) ==
  [p50 |-> Sorted(window, PercentileIndex(Len(window), 50)),
   p95 |-> Sorted(window, PercentileIndex(Len(window), 95)),
   p99 |-> Sorted(window, PercentileIndex(Len(window), 99))]

-----------------------------------------------------------------------------
(* The loops record *)

Latest(s) ==
  SubSeq(s, IF Len(s) > HistogramMaxSamples THEN Len(s) - HistogramMaxSamples + 1 ELSE 1, Len(s))

\* Mutant: the window keeps its first samples.
Keep_First(window, d) ==
  SubSeq(Append(window, d), 1,
         IF Len(window) + 1 > HistogramMaxSamples THEN HistogramMaxSamples ELSE Len(window) + 1)

\* The window after one more sample.
Keep(window, d) == Latest(Append(window, d))

\* The bound of the model.
CanRecord == MapThenSumSet(LAMBDA s : failed[s] + Len(recorded[s]), Source) < MaxRecorded

\* RecordCollectionSuccess, and RecordUploadSuccess, which main calls only
\* when something was uploaded.
RecordSuccess(s, count, d) ==
  /\ CanRecord
  /\ collected' = [collected EXCEPT ![s] = @ + count]
  /\ durations' = [durations EXCEPT ![s] = Keep(@, d)]
  /\ recorded' = [recorded EXCEPT ![s] = Append(@, d)]
  /\ UNCHANGED <<failed, gauges, series>>

\* RecordCollectionFailure, RecordUploadFailure: no duration.
RecordFailure(s) ==
  /\ CanRecord
  /\ failed' = [failed EXCEPT ![s] = @ + 1]
  /\ UNCHANGED <<collected, durations, gauges, series, recorded>>

UpdateStorageMetrics(sizes) ==
  /\ gauges' = [gauges EXCEPT !.storage = sizes]
  /\ UNCHANGED <<collected, failed, durations, series, recorded>>

UpdateTimeSkew(skewMs) ==
  /\ gauges' = [gauges EXCEPT !.timeSkewMs = skewMs]
  /\ UNCHANGED <<collected, failed, durations, series, recorded>>

-----------------------------------------------------------------------------
\* A collector has a series from its first call on, the uploader always; the
\* gauges too, also before anything was measured.
CollectMetrics ==
  /\ series' =
       [collected   |-> [s \in Source |-> IF s # "uploader" /\ durations[s] = <<>>
                                            THEN NoSeries ELSE collected[s]],
        failed      |-> [s \in Source |-> IF s # "uploader" /\ failed[s] = 0
                                            THEN NoSeries ELSE failed[s]],
        percentiles |-> [s \in Source |-> IF durations[s] = <<>>
                                            THEN NoSeries ELSE Percentiles(durations[s])],
        gauges      |-> gauges]
  /\ UNCHANGED <<collected, failed, durations, gauges, recorded>>

MetaInit ==
  /\ collected = [s \in Source |-> 0] /\ failed = [s \in Source |-> 0]
  /\ durations = [s \in Source |-> <<>>]
  /\ gauges = [storage |-> 0, timeSkewMs |-> 0]
  /\ series = NoSeries
  /\ recorded = [s \in Source |-> <<>>]

MetaNext ==
  \/ \E s \in Source, d \in Duration : RecordSuccess(s, 1, d)
  \/ \E s \in Source : RecordFailure(s)
  \/ \E g \in Gauge : UpdateStorageMetrics(g) \/ UpdateTimeSkew(g)
  \/ CollectMetrics

MetaSpec == MetaInit /\ [][MetaNext]_metaVars

-----------------------------------------------------------------------------
(* Properties *)

MetaTypeOK ==
  /\ collected \in [Source -> Nat] /\ failed \in [Source -> Nat]
  /\ durations \in [Source -> Seq(Duration)] /\ recorded \in [Source -> Seq(Duration)]
  /\ gauges \in [storage : Gauge, timeSkewMs : Gauge]

\* Percentiles of a window are samples of it and in order; at least half of
\* the samples are up to the median and at most half are below it, and of a
\* window of up to a hundred at most one is above the 99th percentile.
AreOf(p, window) ==
  /\ {p.p50, p.p95, p.p99} \subseteq Range(window)
  /\ 2 * UpTo(window, p.p50) >= Len(window) /\ 2 * Below(window, p.p50) <= Len(window)
  /\ Len(window) <= 100 => UpTo(window, p.p99) + 1 >= Len(window)
  /\ p.p50 <= p.p95 /\ p.p95 <= p.p99

\* A result speaks of the latest durations of its source and of no older one.
\* Failures in between and sources that fell silent change nothing in that.
PercentilesAreRecent ==
  [][\A s \in Source :
       series' # series /\ series'.percentiles[s] # NoSeries =>
         AreOf(series'.percentiles[s], Latest(recorded[s]))]_metaVars
=============================================================================
