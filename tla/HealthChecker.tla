---------------------------- MODULE HealthChecker ----------------------------
(***************************************************************************)
(* The loops of cmd/tidewatch/main.go that report to the health checker,   *)
(* over an environment whose parts fail and recover while they run.        *)
(*                                                                         *)
(* Each loop reports by itself and the checker keeps its last word, so the *)
(* overall status mixes reports of different times.  The time since the    *)
(* last upload is the subject of UploadTiming; here a report follows the   *)
(* upload it is about at once.                                             *)
(***************************************************************************)
EXTENDS HealthRules

VARIABLES
  components,   \* the component map of the checker
  failing,      \* collectors whose Collect fails
  empty,        \* collectors whose Collect returns no metrics
  dbDown,       \* statements on the database fail
  remoteDown,   \* uploads fail
  pending,      \* numeric rows not yet uploaded, by band: 0, the OK limit, the error limit
  walLarge,     \* the WAL file is above 64 MB
  clock,        \* what a clock skew check would find
  upload        \* the upload loop: "wait", or the outcome it has yet to report

env  == <<failing, empty, dbDown, remoteDown, pending, walLarge, clock>>
vars == <<components, env, upload>>

Bands == {0, PendingOKLimit, PendingErrorLimit}

Overall == CalculateOverallStatus(components)

Report(n, status) == components' = [components EXCEPT ![n] = status]

-----------------------------------------------------------------------------
Init ==
  /\ components = [n \in Component |-> Absent]
  /\ failing = {} /\ empty = {} /\ dbDown = FALSE /\ remoteDown = FALSE
  /\ pending = 0 /\ walLarge = FALSE /\ clock = "ok"
  /\ upload = "wait"

\* Mutant: no metrics is an early return without a report.
CollectAndStore_SilentWhenEmpty(c) ==
  /\ \/ /\ c \in empty
        /\ UNCHANGED components
     \/ /\ c \notin empty
        /\ Report(c, IF c \in failing \/ dbDown THEN "error" ELSE "ok")
  /\ UNCHANGED <<env, upload>>

\* collectAndStore: no metrics is a success, a failed StoreBatch is not.
CollectAndStore(c) ==
  /\ Report(c, IF c \in failing \/ (c \notin empty /\ dbDown) THEN "error" ELSE "ok")
  /\ UNCHANGED <<env, upload>>

\* Mutant: a query that fails reads as nothing to send.
UploadMetrics_QueryErrorDropped ==
  /\ upload = "wait"
  /\ upload' = IF ~dbDown /\ pending > 0 /\ remoteDown THEN "failed" ELSE "done"
  /\ UNCHANGED <<components, env>>

\* uploadMetrics: the query fails, there is nothing to send, or the requests
\* decide.
UploadMetrics ==
  /\ upload = "wait"
  /\ upload' = IF dbDown \/ (pending > 0 /\ remoteDown) THEN "failed" ELSE "done"
  /\ UNCHANGED <<components, env>>

\* The rest of the tick; an error of GetPendingCount is dropped and reads 0.
ReportUpload ==
  /\ upload # "wait"
  /\ Report("uploader", UploaderStatus(upload = "failed", 0, IF dbDown THEN 0 ELSE pending))
  /\ upload' = "wait"
  /\ UNCHANGED env

\* updateStorageHealth: a size that cannot be read counts as 0.  Whether it
\* can does not depend on the state of the tables alone.
UpdateStorageHealth ==
  /\ \E sizeRead \in {~dbDown, TRUE} :
       Report("storage", IF sizeRead /\ walLarge THEN "degraded" ELSE "ok")
  /\ UNCHANGED <<env, upload>>

\* checkClockSkew: the skew is reported whether or not it could be stored.
CheckClockSkew ==
  /\ Report("time", CASE clock = "unreachable" -> "error"
                      [] clock = "skewed" -> "degraded"
                      [] clock = "ok" -> "ok")
  /\ UNCHANGED <<env, upload>>

\* Anything may break, recover, grow or drain between two reports.
CollectorChanges(c) ==
  /\ \E now \in {"working", "failing", "empty"} :
       /\ failing' = IF now = "failing" THEN failing \union {c} ELSE failing \ {c}
       /\ empty'   = IF now = "empty"   THEN empty \union {c}   ELSE empty \ {c}
  /\ UNCHANGED <<components, upload, dbDown, remoteDown, pending, walLarge, clock>>

DatabaseChanges ==
  /\ dbDown' = ~dbDown
  /\ UNCHANGED <<components, upload, failing, empty, remoteDown, pending, walLarge, clock>>

SizesChange ==
  /\ \/ pending' \in Bands /\ UNCHANGED walLarge
     \/ walLarge' = ~walLarge /\ UNCHANGED pending
  /\ UNCHANGED <<components, upload, failing, empty, dbDown, remoteDown, clock>>

NetworkChanges ==
  /\ \/ remoteDown' = ~remoteDown /\ UNCHANGED clock
     \/ clock' \in {"ok", "skewed", "unreachable"} /\ UNCHANGED remoteDown
  /\ UNCHANGED <<components, upload, failing, empty, dbDown, walLarge, pending>>

Loops ==
  \/ \E c \in Collector : CollectAndStore(c)
  \/ UploadMetrics \/ ReportUpload \/ UpdateStorageHealth \/ CheckClockSkew

Next ==
  \/ Loops
  \/ \E c \in Collector : CollectorChanges(c)
  \/ DatabaseChanges \/ SizesChange \/ NetworkChanges

Spec == Init /\ [][Next]_vars

\* Every loop runs on its own ticker for as long as the process lives.
FairSpec ==
  /\ Spec
  /\ \A c \in Collector : WF_vars(CollectAndStore(c))
  /\ WF_vars(UploadMetrics) /\ WF_vars(ReportUpload)
  /\ WF_vars(UpdateStorageHealth) /\ WF_vars(CheckClockSkew)

-----------------------------------------------------------------------------
\* The component maps there can be: a collector is ok or in error.
Maps == {map \in [Component -> Status \union {Absent}] : \A c \in Collector : map[c] # "degraded"}

\* Type invariant.
TypeOK ==
  /\ components \in Maps
  /\ failing \subseteq Collector /\ empty \subseteq Collector
  /\ dbDown \in BOOLEAN /\ remoteDown \in BOOLEAN /\ walLarge \in BOOLEAN
  /\ pending \in Bands
  /\ clock \in {"ok", "skewed", "unreachable"}
  /\ upload \in {"wait", "failed", "done"}

\* How bad a status is; no report is worse than ok and better than trouble.
Severity(status) ==
  CASE status = "ok" -> 0
    [] status = Absent -> 1
    [] status = "degraded" -> 2
    [] status = "error" -> 3

\* Every component is at least as bad in b as in a.
NoBetter(a, b) == \A n \in Component : Severity(a[n]) <= Severity(b[n])

\* A further failure never makes the agent look better, and a recovery never
\* worse: whichever component it is, whatever the others last said, and
\* whether or not they have said anything yet.  A degraded component must not
\* hide the error of another, nor a healthy collector that of the uploader.
NoFailureHidesAnother ==
  [][components' # components =>
       /\ NoBetter(components, components') => Severity(Overall) <= Severity(Overall')
       /\ NoBetter(components', components) => Severity(Overall') <= Severity(Overall)]_vars

\* A database that stays broken ends in 503: not through the storage
\* component, which never leaves ok, but through the upload loop, and stays
\* so although other loops go on reporting ok.  This is an agent with an
\* enabled remote; without one main starts no upload loop.
DatabaseFailureIsReported == <>[]dbDown => <>[](HTTPHandler(Overall) = 503)

\* A collector that recovers, a reachable remote, a drained backlog: when all
\* is well for good, no stale report keeps the agent from being ready again.
RecoveryIsReported ==
  <>[](failing = {} /\ ~dbDown /\ ~remoteDown /\ pending = 0 /\ ~walLarge /\ clock = "ok")
    => <>[](ReadinessHandler(Overall) = 200)

-----------------------------------------------------------------------------
(* A claim of the monitoring guide that does not hold *)

\* "error ... triggered by any of": all collectors failing, the uploader, the
\* storage.  (The fourth of the list is an error of the uploader.)
OnlyListedErrors ==
  Overall = "error" /\ (\A c \in Collector : components[c] # Absent) =>
    \/ \A c \in Collector : components[c] = "error"
    \/ \E n \in {"uploader", "storage"} : components[n] = "error"
=============================================================================
