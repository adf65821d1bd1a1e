----------------------------- MODULE HealthRules -----------------------------
(***************************************************************************)
(* The rules of internal/health: how the status of one component follows   *)
(* from what its loop reports, and the overall status from the components. *)
(***************************************************************************)
EXTENDS Naturals, FiniteSets

CONSTANTS
  Collector,              \* names of the collectors that are running
  UploadInterval,         \* remote.upload_interval, in seconds
  UploadErrorInterval,    \* 600 in the code
  PendingOKLimit,         \* 5000 in the code
  PendingErrorLimit       \* 10000 in the code, PendingDegradedLimit as well

ASSUME LimitAssumption ==
  /\ UploadInterval \in Nat \ {0} /\ UploadErrorInterval \in Nat
  /\ PendingOKLimit \in Nat /\ PendingErrorLimit \in Nat
  /\ PendingOKLimit <= PendingErrorLimit

\* The names of collectors have a prefix of their own.
ASSUME NameAssumption == Collector \intersect {"uploader", "storage", "time"} = {}

Status == {"ok", "degraded", "error"}

\* A component is in the map from its first report on.
Absent == "absent"

Component == Collector \union {"uploader", "storage", "time"}

Max(a, b) == IF a > b THEN a ELSE b

\* ThresholdsFromUploadInterval
UploadOKInterval == 2 * Max(UploadInterval, 1)
UploadDegradedInterval == 10 * Max(UploadInterval, 1)

\* UpdateUploaderStatus: failed is lastUploadErr # nil, age the seconds since
\* lastUploadTime, pending the count of numeric rows to upload.
UploaderStatus(failed, age, pending) ==
  CASE failed -> "error"
    [] ~failed /\ age > UploadErrorInterval /\ pending > PendingErrorLimit -> "error"
    [] OTHER -> IF \/ age > UploadDegradedInterval
                   \/ age > UploadOKInterval
                   \/ pending >= PendingErrorLimit
                   \/ pending >= PendingOKLimit
                THEN "degraded"
                ELSE "ok"

\* Mutant: degraded is looked for before the errors of single components.
CalculateOverallStatus_DegradedFirst(components) ==
  LET present    == {n \in Component : components[n] # Absent}
      collectors == present \intersect Collector
      failing    == {n \in collectors : components[n] = "error"}
  IN  CASE present = {} -> "ok"
        [] collectors # {} /\ failing = collectors -> "error"
        [] OTHER -> IF \/ \E n \in present : components[n] = "degraded"
                       \/ failing # {}
                    THEN "degraded"
                    ELSE IF \E n \in present : components[n] = "error" THEN "error" ELSE "ok"

\* calculateOverallStatus
CalculateOverallStatus(components) ==
  LET present    == {n \in Component : components[n] # Absent}
      collectors == present \intersect Collector
      failing    == {n \in collectors : components[n] = "error"}
  IN  CASE present = {} -> "ok"
        [] collectors # {} /\ failing = collectors -> "error"
        [] \E n \in present \ Collector : components[n] = "error" -> "error"
        [] OTHER -> IF \/ \E n \in present : components[n] = "degraded"
                       \/ failing # {}
                    THEN "degraded"
                    ELSE "ok"

\* Answers of /health and /health/ready.
HTTPHandler(status) == IF status = "error" THEN 503 ELSE 200
ReadinessHandler(status) == IF status = "ok" THEN 200 ELSE 503
=============================================================================
