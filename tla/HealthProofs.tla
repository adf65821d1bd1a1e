----------------------------- MODULE HealthProofs -----------------------------
(***************************************************************************)
(* The overall status of the health checker, for any collectors and        *)
(* limits.                                                                 *)
(***************************************************************************)
EXTENDS HealthChecker, TLAPS

\* The uploader's status is one of the three, whatever it is computed from.
LEMMA UploaderStatusType ==
  ASSUME NEW failed, NEW age, NEW count
  PROVE  UploaderStatus(failed, age, count) \in Status
BY DEF UploaderStatus, Status

\* No component has reported when the checker is made.
LEMMA InitTypes == Init => TypeOK
BY DEF Init, TypeOK, Maps, Component, Absent, Bands

\* A report keeps the table of the components.
LEMMA ReportTypes ==
  ASSUME TypeOK, NEW n \in Component, NEW status \in Status, Report(n, status),
         n \in Collector => status # "degraded"
  PROVE  components' \in Maps
<1>1. components' \in [Component -> Status \union {Absent}]
  BY DEF TypeOK, Maps, Report
<1>2. ASSUME NEW c \in Collector PROVE components'[c] # "degraded"
  BY DEF TypeOK, Maps, Report, Component
<1>. QED
  BY <1>1, <1>2 DEF Maps

\* Every step of the agent keeps the types.
LEMMA StepTypes == TypeOK /\ [Next]_vars => TypeOK'
<1> SUFFICES ASSUME TypeOK, [Next]_vars PROVE TypeOK'
  OBVIOUS
<1>1. ASSUME NEW c \in Collector, CollectAndStore(c) PROVE TypeOK'
  <2>1. c \in Component
    BY DEF Component
  <2>2. components' \in Maps
    BY <1>1, <2>1, ReportTypes DEF CollectAndStore, Status
  <2>. QED
    BY <1>1, <2>2 DEF CollectAndStore, TypeOK, env
<1>2. CASE UploadMetrics
  BY <1>2 DEF UploadMetrics, TypeOK, env
<1>3. CASE ReportUpload
  <2>1. "uploader" \in Component \ Collector
    BY NameAssumption DEF Component
  <2>2. components' \in Maps
    BY <1>3, <2>1, ReportTypes, UploaderStatusType DEF ReportUpload
  <2>. QED
    BY <1>3, <2>2 DEF ReportUpload, TypeOK, env
<1>4. CASE UpdateStorageHealth
  <2>1. "storage" \in Component \ Collector
    BY NameAssumption DEF Component
  <2>2. components' \in Maps
    BY <1>4, <2>1, ReportTypes DEF UpdateStorageHealth, Status
  <2>. QED
    BY <1>4, <2>2 DEF UpdateStorageHealth, TypeOK, env
<1>5. CASE CheckClockSkew
  <2>1. "time" \in Component \ Collector
    BY NameAssumption DEF Component
  <2>2. clock \in {"ok", "skewed", "unreachable"}
    BY DEF TypeOK
  <2>3. components' \in Maps
    BY <1>5, <2>1, <2>2, ReportTypes DEF CheckClockSkew, Status
  <2>. QED
    BY <1>5, <2>3 DEF CheckClockSkew, TypeOK, env
<1>6. ASSUME NEW c \in Collector, CollectorChanges(c) PROVE TypeOK'
  BY <1>6 DEF CollectorChanges, TypeOK
<1>7. CASE DatabaseChanges \/ SizesChange \/ NetworkChanges
  BY <1>7 DEF DatabaseChanges, SizesChange, NetworkChanges, TypeOK
<1>8. CASE UNCHANGED vars
  BY <1>8 DEF vars, env, TypeOK
<1>. QED
  BY <1>1, <1>2, <1>3, <1>4, <1>5, <1>6, <1>7, <1>8 DEF Next, Loops

\* Types, for any collectors and limits.
THEOREM TypeCorrect == Spec => []TypeOK
BY InitTypes, StepTypes, PTL DEF Spec

-----------------------------------------------------------------------------
(* The precedence *)

\* What calculateOverallStatus calls an error, and what it calls degraded.
Severe(map) ==
  \/ /\ \E c \in Collector : map[c] = "error"
     /\ \A c \in Collector : map[c] \in {"error", Absent}
  \/ \E n \in Component \ Collector : map[n] = "error"
Impaired(map) == \E n \in Component : map[n] \in {"degraded", "error"}

\* The overall status in these words: whether a component that is neither in
\* error nor degraded is present makes no difference outside the collectors.
LEMMA OverallStatus ==
  ASSUME NEW map \in Maps
  PROVE  CalculateOverallStatus(map) =
           IF Severe(map) THEN "error" ELSE IF Impaired(map) THEN "degraded" ELSE "ok"
<1> DEFINE present == {n \in Component : map[n] # Absent}
           collectors == present \intersect Collector
           failures == {n \in collectors : map[n] = "error"}
<1>1. \A c \in Collector : c \in Component /\ (c \in present <=> map[c] # Absent)
  BY DEF Component
<1>2. collectors # {} /\ failures = collectors <=>
        /\ \E c \in Collector : map[c] = "error"
        /\ \A c \in Collector : map[c] \in {"error", Absent}
  BY <1>1 DEF Absent
<1>3. (\E n \in present \ Collector : map[n] = "error")
        <=> \E n \in Component \ Collector : map[n] = "error"
  BY DEF Absent
<1>4. (\E n \in present : map[n] = "degraded") <=> \E n \in Component : map[n] = "degraded"
  BY DEF Absent
<1>5. ~Severe(map) =>
        ((\E n \in present : map[n] = "degraded") \/ failures # {} <=> Impaired(map))
  BY <1>1, <1>3, <1>4 DEF Severe, Impaired, Absent
<1>6. present = {} => ~Severe(map) /\ ~Impaired(map)
  BY <1>1 DEF Severe, Impaired, Absent
<1>. QED
  BY <1>2, <1>3, <1>5, <1>6 DEF CalculateOverallStatus, Severe

\* Between two maps of which one is nowhere better the overall status is not
\* better either, whichever components have reported.
LEMMA Monotone ==
  ASSUME NEW a \in Maps, NEW b \in Maps, NoBetter(a, b)
  PROVE  Severity(CalculateOverallStatus(a)) <= Severity(CalculateOverallStatus(b))
<1>1. \A n \in Component :
        /\ a[n] = "error" => b[n] = "error"
        /\ a[n] = "degraded" => b[n] \in {"degraded", "error"}
        /\ a[n] = Absent => b[n] # "ok"
  BY DEF NoBetter, Severity, Maps, Status, Absent
<1>2. \A c \in Collector : c \in Component /\ b[c] \in {"ok", "error", Absent}
  BY DEF Maps, Status, Component
<1>3. Severe(a) => Severe(b)
  BY <1>1, <1>2 DEF Severe
<1>4. Impaired(a) => Impaired(b)
  BY <1>1 DEF Impaired
<1>. QED
  BY <1>3, <1>4, OverallStatus DEF Severity, Absent

\* However many components there are and in whatever order they report, a
\* failure makes the answer no better and a recovery makes it no worse.
THEOREM FailuresAddUp == Spec => NoFailureHidesAnother
<1>1. TypeOK /\ TypeOK' /\ [Next]_vars =>
        [components' # components =>
           /\ NoBetter(components, components') => Severity(Overall) <= Severity(Overall')
           /\ NoBetter(components', components) => Severity(Overall') <= Severity(Overall)]_vars
  BY Monotone DEF TypeOK, Overall
<1>. QED
  BY <1>1, TypeCorrect, PTL DEF Spec, NoFailureHidesAnother

-----------------------------------------------------------------------------
(* The answers *)

\* A ready agent is a healthy one, and none of its components is impaired;
\* the two endpoints never contradict each other.
THEOREM ReadyMeansHealthy ==
  ASSUME NEW map \in [Component -> Status \union {Absent}]
  PROVE  LET status == CalculateOverallStatus(map)
         IN  ReadinessHandler(status) = 200 =>
               HTTPHandler(status) = 200 /\ \A n \in Component : map[n] \in {"ok", Absent}
<1> DEFINE present == {n \in Component : map[n] # Absent}
           collectors == present \intersect Collector
           failures == {n \in collectors : map[n] = "error"}
<1>1. SUFFICES ASSUME CalculateOverallStatus(map) = "ok"
               PROVE  \A n \in Component : map[n] \in {"ok", Absent}
  BY DEF ReadinessHandler, HTTPHandler
<1>2. CASE present = {}
  BY <1>2
<1>3. CASE present # {}
  <2>1. ~\E n \in present \ Collector : map[n] = "error"
    BY <1>1, <1>3 DEF CalculateOverallStatus
  <2>2. ~((\E n \in present : map[n] = "degraded") \/ failures # {})
    BY <1>1, <1>3 DEF CalculateOverallStatus
  <2>. QED
    BY <2>1, <2>2 DEF Status
<1>. QED
  BY <1>2, <1>3
=============================================================================
