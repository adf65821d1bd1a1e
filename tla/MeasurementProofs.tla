--------------------------- MODULE MeasurementProofs ---------------------------
(***************************************************************************)
(* Proofs about the collectors that keep a baseline, NetworkCollector and  *)
(* CPUCollector, for any interfaces, cores, counters and cap, and for      *)
(* /proc files in any order; and about the percentiles of MetaMetrics.     *)
(***************************************************************************)
EXTENDS NetworkCollector, CPUCollector, MetaMetrics,
        FiniteSetTheorems, SequenceTheorems, WellFoundedInduction, TLAPS

-----------------------------------------------------------------------------
(* Numbers *)

\* A set of naturals that is not empty has a smallest member.
LEMMA SmallestExists ==
  ASSUME NEW S, S \subseteq Nat, S # {}
  PROVE  \E m \in S : \A s \in S : m <= s
<1>1. PICK m \in S : \A s \in S : ~ (<<s, m>> \in OpToRel(<, Nat))
  BY NatLessThanWellFounded, WFMin, Zenon
<1>2. \A s \in S : ~ (s < m)
  BY <1>1 DEF OpToRel
<1>3. QED
  BY <1>2

\* A bounded set of naturals that is not empty has a largest member.
LEMMA LargestExists ==
  ASSUME NEW S, NEW n \in Nat, S \subseteq 1..n, S # {}
  PROVE  \E m \in S : \A s \in S : s <= m
<1> DEFINE T == {x \in 0..n : n - x \in S}
<1>1. PICK s0 \in S : TRUE
  OBVIOUS
<1>2. \A s \in S : n - s \in T
  <2> SUFFICES ASSUME NEW s \in S PROVE n - s \in T
    OBVIOUS
  <2>1. s \in 1..n /\ n - (n - s) = s
    OBVIOUS
  <2>2. QED
    BY <2>1
<1>3. T # {} /\ T \subseteq Nat
  <2>1. n - s0 \in T
    BY <1>1, <1>2, Zenon
  <2>2. T \subseteq 0..n
    BY Zenon
  <2>3. QED
    BY <2>1, <2>2, 0..n \subseteq Nat, Zenon
<1> HIDE DEF T
<1>4. PICK x \in T : \A t \in T : x <= t
  BY <1>3, SmallestExists, Zenon
<1>5. \A s \in S : s <= n - x
  <2> SUFFICES ASSUME NEW s \in S PROVE s <= n - x
    OBVIOUS
  <2>1. x <= n - s
    BY <1>2, <1>4, Zenon
  <2>2. QED
    BY <2>1, <1>4 DEF T
<1>6. QED
  BY <1>4, <1>5 DEF T

-----------------------------------------------------------------------------
(* One reading of /proc/net/dev *)

\* A reading of /proc/net/dev is a finite sequence of lines.
LEMMA ReadingShape ==
  ASSUME NEW r \in Readings
  PROVE  \E n \in Nat :
           /\ DOMAIN r = 1..n
           /\ \A k \in 1..n : r[k].iface \in Iface /\ r[k].stats \in NetStat \union {None}
           /\ \A j, k \in 1..n : r[j].iface = r[k].iface => j = k
<1>1. PICK n \in 0..Cardinality(Iface) :
        r \in {f \in [1..n -> Line] : \A j, k \in 1..n : f[j].iface = f[k].iface => j = k}
  BY Zenon DEF Readings
<1>2. n \in Nat
  BY <1>1, FS_CardinalityType, NetworkAssumption
<1>3. r \in [1..n -> Line] /\ \A j, k \in 1..n : r[j].iface = r[k].iface => j = k
  BY <1>1, Zenon
<1>4. \A l \in Line : l.iface \in Iface /\ l.stats \in NetStat \union {None}
  BY Zenon DEF Line
<1>5. QED
  BY <1>2, <1>3, <1>4, Zenon

\* A tracked line is the one of its interface, and what is held comes from it.
LEMMA CurrentOf ==
  ASSUME NEW r \in Readings, NEW i \in Iface
  PROVE  \/ \E k \in Tracked(r) : r[k].iface = i /\ CurrentStats(r)[i] = r[k].stats
         \/ CurrentStats(r)[i] = None /\ \A k \in Tracked(r) : r[k].iface # i
BY Zenon DEF CurrentStats

\* A line that is tracked parses, and its interface is not excluded.
LEMMA TrackedLine ==
  ASSUME NEW r \in Readings, NEW k \in Tracked(r)
  PROVE  /\ k \in DOMAIN r
         /\ r[k].iface \in Iface \ Excluded
         /\ r[k].stats \in NetStat
         /\ CurrentStats(r)[r[k].iface] = r[k].stats
<1>1. k \in DOMAIN r /\ r[k].iface \notin Excluded /\ r[k].stats # None
  BY Zenon DEF Tracked, Wanted
<1>2. r[k].iface \in Iface /\ r[k].stats \in NetStat \union {None}
  BY <1>1, ReadingShape, Zenon
<1>3. PICK j \in Tracked(r) : r[j].iface = r[k].iface /\ CurrentStats(r)[r[k].iface] = r[j].stats
  BY <1>2, CurrentOf, Zenon
<1>4. j \in DOMAIN r
  BY <1>3, Zenon DEF Tracked, Wanted
<1>5. j = k
  BY <1>1, <1>3, <1>4, ReadingShape, Zenon
<1>6. QED
  BY <1>1, <1>2, <1>3, <1>5, Zenon

\* The counters kept are one record or nothing for each interface.
LEMMA CurrentType ==
  ASSUME NEW r \in Readings
  PROVE  CurrentStats(r) \in [Iface -> NetStat \union {None}]
<1>1. ASSUME NEW i \in Iface
      PROVE  CurrentStats(r)[i] \in NetStat \union {None}
  <2>1. CASE CurrentStats(r)[i] = None
    BY <2>1
  <2>2. CASE \E k \in Tracked(r) : CurrentStats(r)[i] = r[k].stats
    BY <2>2, TrackedLine, Zenon
  <2>3. QED
    BY <2>1, <2>2, CurrentOf, Zenon
<1>2. QED
  BY <1>1, Zenon DEF CurrentStats

\* The counters before the first collection are those of an empty reading.
LEMMA EmptyReading == <<>> \in Readings /\ CurrentStats(<<>>) = [i \in Iface |-> None]
<1>1. Cardinality(Iface) \in Nat
  BY FS_CardinalityType, NetworkAssumption
<1>2. <<>> \in [1..0 -> Line] /\ \A j, k \in 1..0 : j = k
  OBVIOUS
<1>3. <<>> \in Readings
  BY <1>1, <1>2 DEF Readings
<1>4. Tracked(<<>>) = {}
  BY DEF Tracked, Wanted
<1>5. QED
  BY <1>3, <1>4, Zenon DEF CurrentStats

-----------------------------------------------------------------------------
(* The cap *)

\* The lines that are tracked, and those before a line, can be counted.
LEMMA LinesFinite ==
  ASSUME NEW r \in Readings
  PROVE  /\ IsFiniteSet(Tracked(r)) /\ Cardinality(Tracked(r)) \in Nat
         /\ \A k : IsFiniteSet(Before(r, k)) /\ Cardinality(Before(r, k)) \in Nat
<1>1. IsFiniteSet(DOMAIN r)
  BY ReadingShape, FS_Interval
<1>2. Tracked(r) \subseteq DOMAIN r /\ \A k : Before(r, k) \subseteq DOMAIN r
  BY Zenon DEF Tracked, Before, Wanted
<1>3. QED
  BY <1>1, <1>2, FS_Subset, FS_CardinalityType, Zenon

\* The last tracked line found fewer than MaxInterfaces entries, and all other
\* tracked lines are before it.
LEMMA TrackedWithinCap ==
  ASSUME NEW r \in Readings
  PROVE  Cardinality(Tracked(r)) <= MaxInterfaces
<1>1. CASE Tracked(r) = {}
  BY <1>1, FS_EmptySet, NetworkAssumption
<1>2. CASE Tracked(r) # {}
  <2>1. PICK n \in Nat : DOMAIN r = 1..n
    BY ReadingShape, Zenon
  <2>2. Tracked(r) \subseteq 1..n
    BY <2>1, Zenon DEF Tracked, Wanted
  <2>3. PICK last \in Tracked(r) : \A k \in Tracked(r) : k <= last
    BY <1>2, <2>1, <2>2, LargestExists, Zenon
  <2>4. Tracked(r) \ {last} \subseteq Before(r, last)
    <3> SUFFICES ASSUME NEW k \in Tracked(r), k # last PROVE k \in Before(r, last)
      OBVIOUS
    <3>1. k < last
      BY <2>2, <2>3
    <3>2. QED
      BY <3>1, Zenon DEF Tracked, Before
  <2>5. ~ (Cardinality(Before(r, last)) >= MaxInterfaces)
    BY <2>3, Zenon DEF Tracked, Capped
  <2>6. Cardinality(Tracked(r) \ {last}) <= Cardinality(Before(r, last))
    BY <2>4, LinesFinite, FS_Subset, Zenon
  <2>7. Cardinality(Tracked(r) \ {last}) = Cardinality(Tracked(r)) - 1
    BY <2>3, LinesFinite, FS_RemoveElement, Zenon
  <2>8. QED
    BY <2>5, <2>6, <2>7, LinesFinite, NetworkAssumption
<1>3. QED
  BY <1>1, <1>2

\* The first line that is turned away has MaxInterfaces tracked ones before it.
LEMMA CappedMeansFull ==
  ASSUME NEW r \in Readings, Capped(r) # {}
  PROVE  Cardinality(Tracked(r)) >= MaxInterfaces
<1>1. PICK n \in Nat : DOMAIN r = 1..n
  BY ReadingShape, Zenon
<1>2. Capped(r) \subseteq 1..n
  BY <1>1, Zenon DEF Capped, Wanted
<1>3. PICK first \in Capped(r) : \A k \in Capped(r) : first <= k
  <2>1. Capped(r) \subseteq Nat
    BY <1>2
  <2>2. QED
    BY <2>1, SmallestExists, Zenon
<1>4. Before(r, first) \subseteq Tracked(r)
  <2> SUFFICES ASSUME NEW k \in Before(r, first) PROVE k \in Tracked(r)
    OBVIOUS
  <2>1. k \in Wanted(r) /\ k < first /\ r[k].stats # None /\ k \in 1..n
    BY <1>1, Zenon DEF Before, Wanted
  <2>2. k \notin Capped(r)
    BY <1>2, <1>3, <2>1
  <2>3. QED
    BY <2>1, <2>2, Zenon DEF Tracked
<1>5. Cardinality(Before(r, first)) >= MaxInterfaces
  BY <1>3, Zenon DEF Capped
<1>6. Cardinality(Before(r, first)) <= Cardinality(Tracked(r))
  BY <1>4, LinesFinite, FS_Subset, Zenon
<1>7. QED
  BY <1>5, <1>6, LinesFinite, NetworkAssumption

\* As many interfaces are held as lines are tracked.
Held(stats) == {i \in Iface : stats[i] # None}

\* The interfaces kept are those of the tracked lines, one each.
LEMMA HeldAreTracked ==
  ASSUME NEW r \in Readings
  PROVE  /\ Cardinality(Held(CurrentStats(r))) = Cardinality(Tracked(r))
         /\ Held(CurrentStats(r)) \intersect Excluded = {}
         /\ \A k \in Tracked(r) : r[k].iface \in Held(CurrentStats(r))
<1> DEFINE f == [k \in Tracked(r) |-> r[k].iface]
<1>1. \A k \in Tracked(r) : r[k].iface \in Held(CurrentStats(r)) /\ r[k].iface \notin Excluded
  <2> SUFFICES ASSUME NEW k \in Tracked(r)
               PROVE  r[k].iface \in Held(CurrentStats(r)) /\ r[k].iface \notin Excluded
    OBVIOUS
  <2>1. CurrentStats(r)[r[k].iface] # None /\ r[k].iface \in Iface \ Excluded
    BY TrackedLine, NoneIsNoStat, Zenon
  <2>2. QED
    BY <2>1, Zenon DEF Held
<1>2. \A i \in Held(CurrentStats(r)) : \E k \in Tracked(r) : r[k].iface = i
  BY CurrentOf, Zenon DEF Held
<1>3. \A j, k \in Tracked(r) : r[j].iface = r[k].iface => j = k
  BY ReadingShape, TrackedLine, Zenon
<1>4. f \in Bijection(Tracked(r), Held(CurrentStats(r)))
  <2>1. f \in [Tracked(r) -> Held(CurrentStats(r))] /\ \A k \in Tracked(r) : f[k] = r[k].iface
    BY <1>1, Zenon
  <2> HIDE DEF f
  <2>2. QED
    BY <1>2, <1>3, <2>1, Zenon DEF Bijection, Injection, Surjection, IsInjective
<1>5. QED
  BY <1>1, <1>2, <1>4, LinesFinite, FS_Bijection, Zenon DEF ExistsBijection

-----------------------------------------------------------------------------
(* The network collector *)

\* What is held is what the last reading had, and the last result is a part
\* of it.
NetInv ==
  /\ netReading \in Readings
  /\ previousStats = CurrentStats(netReading)
  /\ emitted \in [Iface -> NetStat \union {None}]
  /\ \A i \in Iface : emitted[i] # None => emitted[i] = previousStats[i]
  /\ interfacesDroppedTotal \in Nat
  /\ Capped(netReading) # {} => interfacesDroppedTotal > 0

\* A new collector satisfies the invariant.
LEMMA NetInitHolds == NetInit => NetInv
<1> SUFFICES ASSUME NetInit PROVE NetInv
  OBVIOUS
<1>1. netReading \in Readings /\ previousStats = CurrentStats(netReading)
  BY EmptyReading, Zenon DEF NetInit
<1>2. /\ emitted \in [Iface -> NetStat \union {None}]
      /\ \A i \in Iface : emitted[i] = None
  BY Zenon DEF NetInit
<1>3. Capped(netReading) = {}
  BY DEF NetInit, Capped, Wanted
<1>4. interfacesDroppedTotal \in Nat
  BY DEF NetInit
<1>5. QED
  BY <1>1, <1>2, <1>3, <1>4, Zenon DEF NetInv

\* What one Collect does, interface by interface.
LEMMA CollectStep ==
  ASSUME NEW r \in Readings, CollectNetwork(r)
  PROVE  /\ netReading' = r /\ previousStats' = CurrentStats(r)
         /\ emitted' \in [Iface -> NetStat \union {None}]
         /\ \A i \in Iface :
              emitted'[i] = IF Skipped(previousStats[i], CurrentStats(r)[i])
                              THEN None ELSE CurrentStats(r)[i]
         /\ interfacesDroppedTotal' = interfacesDroppedTotal + Cardinality(Capped(r))
<1>1. \A i \in Iface : CurrentStats(r)[i] \in NetStat \union {None}
  BY CurrentType, Zenon
<1>2. QED
  BY <1>1, Zenon DEF CollectNetwork

\* A collection keeps the invariant.
LEMMA NetInductive == NetInv /\ [NetNext]_netVars => NetInv'
<1> SUFFICES ASSUME NetInv, [NetNext]_netVars PROVE NetInv'
  OBVIOUS
<1>1. CASE NetNext
  <2>1. PICK r \in Readings : CollectNetwork(r)
    BY <1>1, Zenon DEF NetNext
  <2>2. Cardinality(Capped(r)) \in Nat /\ (Capped(r) # {} => Cardinality(Capped(r)) # 0)
    <3>1. PICK n \in Nat : DOMAIN r = 1..n
      BY ReadingShape, Zenon
    <3>2. IsFiniteSet(1..n)
      BY FS_Interval
    <3>3. Capped(r) \in SUBSET (1..n)
      BY <3>1, Zenon DEF Capped, Wanted
    <3>4. QED
      BY <3>2, <3>3, FS_Subset, FS_CardinalityType, FS_EmptySet, Zenon
  <2>3. /\ interfacesDroppedTotal' \in Nat
        /\ Capped(r) # {} => interfacesDroppedTotal' > 0
    <3>1. interfacesDroppedTotal \in Nat
      BY DEF NetInv
    <3>2. QED
      BY <2>1, <2>2, <3>1, CollectStep
  <2>4. \A i \in Iface : emitted'[i] # None => emitted'[i] = previousStats'[i]
    BY <2>1, CollectStep, Zenon
  <2>5. QED
    BY <2>1, <2>3, <2>4, CollectStep, Zenon DEF NetInv
<1>2. CASE UNCHANGED netVars
  BY <1>2, Zenon DEF netVars, NetInv
<1>3. QED
  BY <1>1, <1>2

\* The counters kept are those of the last reading, always.
LEMMA NetInvariance == NetSpec => []NetInv
<1>1. QED
  BY NetInitHolds, NetInductive, PTL DEF NetSpec

\* Never more interfaces than the cap, none that is excluded, and no loss that
\* is not counted: for every file.
THEOREM CapHolds == NetSpec => []CapIsHard
<1>1. NetInv => CapIsHard
  <2> SUFFICES ASSUME NetInv PROVE CapIsHard
    OBVIOUS
  <2> DEFINE r == netReading
  <2>1. r \in Readings /\ previousStats = CurrentStats(r)
    BY Zenon DEF NetInv
  <2>2. /\ Cardinality(Held(previousStats)) <= MaxInterfaces
        /\ Held(previousStats) \intersect Excluded = {}
    BY <2>1, HeldAreTracked, TrackedWithinCap, Zenon
  <2>3. {i \in Iface : emitted[i] # None} \subseteq Held(previousStats)
    BY Zenon DEF NetInv, Held
  <2>4. ASSUME NEW k \in Wanted(r), r[k].stats # None, r[k].iface \notin Held(previousStats)
        PROVE  interfacesDroppedTotal > 0 /\ Cardinality(Held(previousStats)) = MaxInterfaces
    <3>1. k \in Capped(r)
      BY <2>1, <2>4, HeldAreTracked, Zenon DEF Tracked
    <3>2. interfacesDroppedTotal > 0
      BY <3>1, Zenon DEF NetInv
    <3>3. Cardinality(Tracked(r)) >= MaxInterfaces /\ Cardinality(Tracked(r)) <= MaxInterfaces
      BY <2>1, <3>1, CappedMeansFull, TrackedWithinCap, Zenon
    <3>4. Cardinality(Held(previousStats)) = Cardinality(Tracked(r))
      BY <2>1, HeldAreTracked, Zenon
    <3>5. Cardinality(Tracked(r)) \in Nat
      BY <2>1, LinesFinite, Zenon
    <3>6. Cardinality(Tracked(r)) = MaxInterfaces
      BY <3>3, <3>5, NetworkAssumption
    <3>7. QED
      BY <3>2, <3>4, <3>6, Zenon
  <2>5. QED
    BY <2>2, <2>3, <2>4, Zenon DEF CapIsHard, Held
<1>2. QED
  BY <1>1, NetInvariance, PTL

\* No counter of a series ever goes back from one result to the next.
THEOREM SeriesGoForward == NetSpec => RestartLeavesGap
<1>1. ASSUME NetInv, [NetNext]_netVars
      PROVE  [\A i \in Iface :
                emitted[i] # None /\ emitted'[i] # None =>
                  emitted[i].rx <= emitted'[i].rx /\ emitted[i].tx <= emitted'[i].tx]_netVars
  <2> SUFFICES ASSUME NetNext, NEW i \in Iface, emitted[i] # None, emitted'[i] # None
               PROVE  emitted[i].rx <= emitted'[i].rx /\ emitted[i].tx <= emitted'[i].tx
    BY <1>1, Zenon
  <2>1. PICK r \in Readings : CollectNetwork(r)
    BY Zenon DEF NetNext
  <2>2. emitted[i] = previousStats[i] /\ previousStats[i] \in NetStat
    BY <1>1, CurrentType, Zenon DEF NetInv
  <2>3. /\ emitted'[i] = CurrentStats(r)[i] /\ CurrentStats(r)[i] \in NetStat
        /\ ~ Skipped(previousStats[i], CurrentStats(r)[i])
    BY <2>1, CollectStep, CurrentType, Zenon
  <2>4. ~ WentBack(previousStats[i], CurrentStats(r)[i])
    BY <2>2, <2>3, Zenon DEF Skipped
  <2>5. QED
    BY <2>2, <2>3, <2>4, NetworkAssumption DEF WentBack, NetStat
<1>2. QED
  BY <1>1, NetInvariance, PTL DEF NetSpec, RestartLeavesGap

\* An interface within the cap is left out only when one of its counters is
\* below that of the reading just before.
THEOREM GapsAreRestarts == NetSpec => GapOnlyAtRestart
<1> DEFINE Step ==
      \A k \in Tracked(netReading') :
        LET i == netReading'[k].iface
        IN  emitted'[i] = None =>
              \E j \in DOMAIN netReading :
                /\ netReading[j].iface = i /\ netReading[j].stats # None
                /\ \/ netReading'[k].stats.rx < netReading[j].stats.rx
                   \/ netReading'[k].stats.tx < netReading[j].stats.tx
<1>1. NetInv /\ [NetNext]_netVars => [Step]_netVars
  <2> SUFFICES ASSUME NetInv, NetNext PROVE Step
    BY Zenon
  <2>1. PICK r \in Readings : CollectNetwork(r)
    BY Zenon DEF NetNext
  <2>2. netReading' = r
    BY <2>1, CollectStep, Zenon
  <2>3. ASSUME NEW k \in Tracked(r), emitted'[r[k].iface] = None
        PROVE  \E j \in DOMAIN netReading :
                 /\ netReading[j].iface = r[k].iface /\ netReading[j].stats # None
                 /\ \/ r[k].stats.rx < netReading[j].stats.rx
                    \/ r[k].stats.tx < netReading[j].stats.tx
    <3> DEFINE i == r[k].iface
    <3>1. i \in Iface /\ CurrentStats(r)[i] = r[k].stats /\ r[k].stats # None
      BY TrackedLine, NoneIsNoStat, Zenon
    <3>2. Skipped(previousStats[i], r[k].stats)
      BY <2>1, <2>3, <3>1, CollectStep, Zenon
    <3>3. previousStats[i] # None /\ WentBack(previousStats[i], r[k].stats)
      BY <3>2, Zenon DEF Skipped
    <3>4. PICK j \in Tracked(netReading) :
            netReading[j].iface = i /\ previousStats[i] = netReading[j].stats
      <4>1. netReading \in Readings /\ previousStats[i] = CurrentStats(netReading)[i]
        BY Zenon DEF NetInv
      <4>2. \/ \E j \in Tracked(netReading) :
                  netReading[j].iface = i /\ CurrentStats(netReading)[i] = netReading[j].stats
            \/ CurrentStats(netReading)[i] = None
        BY <3>1, <4>1, CurrentOf
      <4>3. QED
        BY <3>3, <4>1, <4>2, Zenon
    <3>5. j \in DOMAIN netReading
      BY <3>4, Zenon DEF Tracked, Wanted
    <3>6. QED
      BY <3>3, <3>4, <3>5, Zenon DEF WentBack
  <2>4. QED
    BY <2>2, <2>3, Zenon
<1>2. NetSpec => [][Step]_netVars
  BY <1>1, NetInvariance, PTL DEF NetSpec
<1>3. QED
  BY <1>2, PTL DEF GapOnlyAtRestart

-----------------------------------------------------------------------------
(* The CPU collector *)

\* Words are numbers as long as nothing overflows.
LEMMA SmallWord == ASSUME NEW a \in 0..(Word - 1) PROVE a % Word = a
BY CPUAssumption

\* The unsigned subtraction is exact when nothing wraps.
LEMMA MinusIsMinus ==
  ASSUME NEW a \in 0..(Word - 1), NEW b \in 0..(Word - 1), b <= a
  PROVE  Minus(a, b) = a - b
BY CPUAssumption DEF Minus

\* The sums of a cpu line, as plain arithmetic.
LEMMA Totals ==
  ASSUME NEW s \in CPUStat
  PROVE  /\ Total(s) = s.idle + s.iowait + s.busy
         /\ Busy(s) = s.busy
         /\ s.idle \in Nat /\ s.iowait \in Nat /\ s.busy \in Nat
         /\ Total(s) \in 0..(Word - 1)
<1>1. s.idle \in 0..MaxTime /\ s.iowait \in 0..MaxTime /\ s.busy \in 0..MaxTime
  BY DEF CPUStat
<1>2. s.idle + s.iowait + s.busy \in 0..(Word - 1)
  BY <1>1, CPUAssumption
<1>3. Total(s) = s.idle + s.iowait + s.busy
  BY <1>2, SmallWord DEF Total
<1>4. Minus(Total(s), s.idle) = s.iowait + s.busy
  BY <1>1, <1>2, <1>3, MinusIsMinus, CPUAssumption
<1>5. Minus(s.iowait + s.busy, s.iowait) = s.busy
  BY <1>1, MinusIsMinus, CPUAssumption
<1>6. QED
  BY <1>1, <1>2, <1>3, <1>4, <1>5 DEF Busy

\* Once there is a baseline, it is the last reading.
CPUInv ==
  /\ cpuReading \in Reading
  /\ ~firstSample => previousCPU = cpuReading

\* A new collector satisfies the invariant.
LEMMA CPUInitHolds == CPUInit => CPUInv
BY DEF CPUInit, CPUInv, Reading

\* A collection keeps the invariant.
LEMMA CPUInductive == CPUInv /\ [CPUNext]_cpuVars => CPUInv'
<1> SUFFICES ASSUME CPUInv, [CPUNext]_cpuVars PROVE CPUInv'
  OBVIOUS
<1>1. CASE CPUNext
  BY <1>1, Zenon DEF CPUNext, Baseline, CollectCPU, NextReadings, CPUInv
<1>2. CASE UNCHANGED cpuVars
  BY <1>2, Zenon DEF cpuVars, CPUInv
<1>3. QED
  BY <1>1, <1>2

\* A core whose time went on has a usage in the result, and it is a
\* percentage.
THEOREM ProgressIsMeasured == CPUSpec => SampleAfterProgress
<1> DEFINE Step ==
      \A c \in Core :
        /\ ~firstSample
        /\ cpuReading[c] # NoCPU /\ cpuReading'[c] # NoCPU
        /\ Grew(cpuReading[c], cpuReading'[c]) /\ cpuReading[c] # cpuReading'[c]
        => usage'[c] # NoCPU /\ usage'[c].busy <= usage'[c].total
<1>1. CPUInv /\ [CPUNext]_cpuVars => [Step]_cpuVars
  <2> SUFFICES ASSUME CPUInv, CPUNext, NEW c \in Core, ~firstSample,
                      cpuReading[c] # NoCPU, cpuReading'[c] # NoCPU,
                      Grew(cpuReading[c], cpuReading'[c]), cpuReading[c] # cpuReading'[c]
               PROVE  usage'[c] # NoCPU /\ usage'[c].busy <= usage'[c].total
    BY Zenon
  <2> DEFINE prev == cpuReading[c]
             cur  == cpuReading'[c]
  <2>1. PICK r \in NextReadings : CollectCPU(r)
    BY Zenon DEF CPUNext, Baseline
  <2>2. previousCPU[c] = prev /\ r[c] = cur /\ prev \in CPUStat /\ cur \in CPUStat
    BY <2>1 DEF CollectCPU, CPUInv, NextReadings, Reading
  <2>3. usage'[c] = IF HasSample(prev, cur) THEN Usage(prev, cur) ELSE NoCPU
    BY <2>1, <2>2, Zenon DEF CollectCPU
  <2> HIDE DEF prev, cur
  <2>4. prev.idle <= cur.idle /\ prev.iowait <= cur.iowait /\ prev.busy <= cur.busy
    BY Zenon DEF Grew, prev, cur
  <2>5. prev.idle # cur.idle \/ prev.iowait # cur.iowait \/ prev.busy # cur.busy
    BY <2>2 DEF prev, cur, CPUStat
  <2>6. Total(cur) > Total(prev) /\ Minus(Total(cur), Total(prev)) = Total(cur) - Total(prev)
    BY <2>2, <2>4, <2>5, Totals, MinusIsMinus
  <2>7. HasSample(prev, cur)
    BY <2>2, <2>6, Totals DEF HasSample, prev, cur
  <2>8. Minus(Busy(cur), Busy(prev)) = cur.busy - prev.busy
    <3>1. cur.busy \in 0..(Word - 1) /\ prev.busy \in 0..(Word - 1)
      BY <2>2, CPUAssumption DEF CPUStat
    <3>2. QED
      BY <2>2, <2>4, <3>1, Totals, MinusIsMinus
  <2>9. cur.busy - prev.busy <= Total(cur) - Total(prev)
    BY <2>2, <2>4, Totals
  <2>10. usage'[c] = Usage(prev, cur) /\ Usage(prev, cur) \in Fraction
    <3>1. /\ Minus(Busy(cur), Busy(prev)) \in 0..(Word - 1)
          /\ Minus(Total(cur), Total(prev)) \in 0..(Word - 1)
      BY CPUAssumption, <2>2, <2>4, <2>6, <2>8, Totals
    <3>2. QED
      BY <2>3, <2>7, <3>1, Zenon DEF Usage, Fraction
  <2>11. QED
    BY <2>6, <2>8, <2>9, <2>10, NoCPUIsNoStat DEF Usage
<1>2. CPUSpec => [][Step]_cpuVars
  BY <1>1, CPUInitHolds, CPUInductive, PTL DEF CPUSpec
<1>3. QED
  BY <1>2, PTL DEF SampleAfterProgress

-----------------------------------------------------------------------------
(* The percentiles of the meta-metrics *)

\* The nearest rank, ceil(n * P/100) - 1, which the comment of the code holds
\* its formula to be.
NearestRank(n, percent) == (n * percent + 99) \div 100 - 1

\* The index that calculatePercentiles computes for any number of samples: it
\* is one of the window, in order, for the median that of the nearest rank,
\* and for the 95th and the 99th percentile that or the one before it.
THEOREM IndexIsNearRank ==
  ASSUME NEW n \in Nat \ {0}
  PROVE  /\ 0 <= PercentileIndex(n, 50)
         /\ PercentileIndex(n, 50) <= PercentileIndex(n, 95)
         /\ PercentileIndex(n, 95) <= PercentileIndex(n, 99)
         /\ PercentileIndex(n, 99) < n
         /\ PercentileIndex(n, 50) = NearestRank(n, 50)
         /\ PercentileIndex(n, 95) \in {NearestRank(n, 95) - 1, NearestRank(n, 95)}
         /\ PercentileIndex(n, 99) \in {NearestRank(n, 99) - 1, NearestRank(n, 99)}
BY DEF PercentileIndex, NearestRank

\* The bounds on the samples that those indexes leave on either side.
LEMMA IndexShares ==
  ASSUME NEW n \in Nat \ {0}
  PROVE  /\ \A p \in {50, 95, 99} : PercentileIndex(n, p) \in 0..(n - 1)
         /\ 2 * (PercentileIndex(n, 50) + 1) >= n
         /\ 2 * PercentileIndex(n, 50) <= n
         /\ n <= 100 => PercentileIndex(n, 99) + 2 >= n
BY DEF PercentileIndex

\* The samples up to a value, and those below it, can be counted.
LEMMA SamplesFinite ==
  ASSUME NEW w \in Seq(Nat), NEW v
  PROVE  /\ IsFiniteSet({j \in DOMAIN w : w[j] <= v}) /\ UpTo(w, v) \in 0..Len(w)
         /\ IsFiniteSet({j \in DOMAIN w : w[j] < v}) /\ Below(w, v) \in 0..Len(w)
<1>1. DOMAIN w = 1..Len(w) /\ Len(w) \in Nat
  OBVIOUS
<1>2. IsFiniteSet(DOMAIN w) /\ Cardinality(DOMAIN w) = Len(w)
  BY <1>1, FS_Interval
<1>3. ASSUME NEW T \in SUBSET DOMAIN w
      PROVE  IsFiniteSet(T) /\ Cardinality(T) \in 0..Len(w)
  <2>1. IsFiniteSet(T) /\ Cardinality(T) <= Len(w)
    BY <1>2, FS_Subset, Zenon
  <2>2. Cardinality(T) \in Nat
    BY <2>1, FS_CardinalityType, Zenon
  <2>3. QED
    BY <1>1, <2>1, <2>2
<1>4. /\ {j \in DOMAIN w : w[j] <= v} \in SUBSET DOMAIN w
      /\ {j \in DOMAIN w : w[j] < v} \in SUBSET DOMAIN w
  BY Zenon
<1>5. QED
  BY <1>3, <1>4, Zenon DEF UpTo, Below

\* How many samples are up to, or below, a value is a number.
LEMMA CountsAreNumbers ==
  ASSUME NEW w \in Seq(Nat), NEW v
  PROVE  UpTo(w, v) \in Nat /\ Below(w, v) \in Nat
<1>1. UpTo(w, v) \in 0..Len(w) /\ Below(w, v) \in 0..Len(w)
  BY SamplesFinite, Zenon
<1>2. QED
  BY <1>1

\* Of two samples, fewer are up to the smaller one.
LEMMA FewerUpTo ==
  ASSUME NEW w \in Seq(Nat), NEW i \in DOMAIN w, NEW v \in Nat, v < w[i]
  PROVE  UpTo(w, v) < UpTo(w, w[i])
<1> DEFINE A == {j \in DOMAIN w : w[j] <= v}
           B == {j \in DOMAIN w : w[j] <= w[i]}
<1>1. \A j \in DOMAIN w : w[j] \in Nat
  OBVIOUS
<1>2. A \subseteq B /\ i \in B /\ i \notin A
  BY <1>1
<1>3. IsFiniteSet(B) /\ UpTo(w, w[i]) \in Nat /\ UpTo(w, v) \in Nat
  BY SamplesFinite, CountsAreNumbers, Zenon
<1>4. Cardinality(A) <= Cardinality(B) /\ Cardinality(A) # Cardinality(B)
  <2> HIDE DEF A, B
  <2>1. A \in SUBSET B /\ A # B
    BY <1>2, Zenon
  <2>2. QED
    BY <1>3, <2>1, FS_Subset, Zenon
<1>5. UpTo(w, v) <= UpTo(w, w[i]) /\ UpTo(w, v) # UpTo(w, w[i])
  BY <1>4, Zenon DEF UpTo
<1>6. QED
  BY <1>3, <1>5

\* Among some samples of a window one is the longest: the one with the most
\* samples up to it.
LEMMA LongestExists ==
  ASSUME NEW w \in Seq(Nat), NEW T, T \subseteq DOMAIN w, T # {}
  PROVE  \E j \in T : \A i \in T : w[i] <= w[j]
<1> DEFINE C == {UpTo(w, w[j]) : j \in T}
<1>1. \A j \in DOMAIN w : w[j] \in Nat
  OBVIOUS
<1>2. C \subseteq 1..Len(w)
  <2> SUFFICES ASSUME NEW j \in T PROVE UpTo(w, w[j]) \in 1..Len(w)
    OBVIOUS
  <2>1. UpTo(w, w[j]) \in 0..Len(w) /\ IsFiniteSet({i \in DOMAIN w : w[i] <= w[j]})
    BY SamplesFinite, Zenon
  <2>2. {i \in DOMAIN w : w[i] <= w[j]} # {}
    BY <1>1
  <2>3. UpTo(w, w[j]) # 0
    BY <2>1, <2>2, FS_EmptySet, Zenon DEF UpTo
  <2>4. QED
    BY <2>1, <2>3
<1>3. C # {}
  BY Zenon
<1> HIDE DEF C
<1>4. Len(w) \in Nat
  OBVIOUS
<1>5. PICK c \in C : \A x \in C : x <= c
  BY <1>2, <1>3, <1>4, LargestExists, Zenon
<1>6. PICK j \in T : c = UpTo(w, w[j])
  BY <1>5, Zenon DEF C
<1>7. ASSUME NEW i \in T, ~ (w[i] <= w[j]) PROVE FALSE
  <2>1. w[i] \in Nat /\ w[j] \in Nat /\ i \in DOMAIN w
    BY <1>1, Zenon
  <2>2. w[j] < w[i]
    BY <1>7, <2>1
  <2>3. UpTo(w, w[j]) < UpTo(w, w[i])
    BY <2>1, <2>2, FewerUpTo, Zenon
  <2>4. UpTo(w, w[i]) <= UpTo(w, w[j])
    BY <1>5, <1>6, Zenon DEF C
  <2>5. QED
    BY <2>3, <2>4, CountsAreNumbers
<1>8. QED
  BY <1>7, Zenon

\* Every place of a sorted window holds a sample.
LEMMA PlaceIsTaken ==
  ASSUME NEW w \in Seq(Nat), NEW k \in 0..(Len(w) - 1)
  PROVE  \E v \in Range(w) : Below(w, v) <= k /\ k < UpTo(w, v)
<1> DEFINE S == {v \in Range(w) : k < UpTo(w, v)}
<1>1. /\ \A j \in DOMAIN w : w[j] \in Nat
      /\ DOMAIN w = 1..Len(w) /\ Len(w) \in Nat /\ DOMAIN w # {}
  <2>1. /\ \A j \in DOMAIN w : w[j] \in Nat
        /\ DOMAIN w = 1..Len(w) /\ Len(w) \in Nat
    OBVIOUS
  <2>2. 1 \in 1..Len(w)
    OBVIOUS
  <2>3. QED
    BY <2>1, <2>2, Zenon
<1>2. S # {}
  <2>1. PICK j \in DOMAIN w : \A i \in DOMAIN w : w[i] <= w[j]
    BY <1>1, LongestExists, Zenon
  <2>2. {i \in DOMAIN w : w[i] <= w[j]} = DOMAIN w
    BY <2>1, Zenon
  <2>3. UpTo(w, w[j]) = Len(w)
    <3>1. Cardinality(1..Len(w)) = Len(w)
      <4>1. \A n \in Nat : Cardinality(1..n) = n
        BY FS_Interval
      <4>2. QED
        BY <1>1, <4>1, Zenon
    <3>2. QED
      BY <1>1, <2>2, <3>1, Zenon DEF UpTo
  <2>4. k < Len(w)
    OBVIOUS
  <2>5. w[j] \in S
    BY <2>3, <2>4, Zenon DEF Range
  <2>6. QED
    BY <2>5, Zenon
<1>3. S \subseteq Nat
  BY <1>1, Zenon DEF Range
<1>4. PICK m \in S : \A v \in S : m <= v
  BY <1>2, <1>3, SmallestExists, Zenon
<1>5. ASSUME Below(w, m) > k PROVE FALSE
  <2> DEFINE T == {j \in DOMAIN w : w[j] < m}
  <2>1. Below(w, m) # 0 /\ IsFiniteSet(T)
    <3>1. Below(w, m) # 0
      BY <1>5, CountsAreNumbers
    <3>2. QED
      BY <3>1, SamplesFinite, Zenon
  <2>2. T # {} /\ T \subseteq DOMAIN w
    BY <2>1, FS_EmptySet, Zenon DEF Below
  <2>3. PICK j \in T : \A i \in T : w[i] <= w[j]
    BY <2>2, LongestExists, Zenon
  <2>4. m \in Nat /\ w[j] \in Nat /\ w[j] < m /\ j \in DOMAIN w
    BY <1>1, <1>3, <1>4, <2>3
  <2>5. {i \in DOMAIN w : w[i] <= w[j]} = T
    <3>1. ASSUME NEW i \in DOMAIN w, w[i] <= w[j] PROVE w[i] < m
      BY <1>1, <2>4, <3>1
    <3>2. QED
      BY <2>3, <3>1, Zenon
  <2>6. UpTo(w, w[j]) = Below(w, m)
    BY <2>5, Zenon DEF UpTo, Below
  <2>7. k < UpTo(w, w[j])
    BY <1>5, <2>6, CountsAreNumbers
  <2>8. w[j] \in S
    BY <2>4, <2>7, Zenon DEF Range
  <2>9. m <= w[j]
    BY <1>4, <2>8, Zenon
  <2>10. QED
    BY <2>4, <2>9
<1>6. Below(w, m) <= k
  BY <1>5, CountsAreNumbers
<1>7. QED
  BY <1>4, <1>6, Zenon

\* So sorting is well defined.
LEMMA SortedIsASample ==
  ASSUME NEW w \in Seq(Nat), NEW k \in 0..(Len(w) - 1)
  PROVE  /\ Sorted(w, k) \in Range(w) /\ Sorted(w, k) \in Nat
         /\ Below(w, Sorted(w, k)) <= k
         /\ k < UpTo(w, Sorted(w, k))
<1>1. Range(w) \subseteq Nat
  BY DEF Range
<1>2. QED
  BY <1>1, PlaceIsTaken, Zenon DEF Sorted

\* A place further up does not hold a shorter sample.
LEMMA SortedIsInOrder ==
  ASSUME NEW w \in Seq(Nat), NEW k \in 0..(Len(w) - 1), NEW l \in k..(Len(w) - 1)
  PROVE  Sorted(w, k) <= Sorted(w, l)
<1> SUFFICES ASSUME ~ (Sorted(w, k) <= Sorted(w, l)) PROVE FALSE
  OBVIOUS
<1>0. l \in 0..(Len(w) - 1) /\ Len(w) \in Nat
  OBVIOUS
<1> DEFINE a == Sorted(w, k)
           b == Sorted(w, l)
<1>1. a \in Nat /\ Below(w, a) <= k
  BY SortedIsASample, Zenon
<1>2. b \in Nat /\ l < UpTo(w, b)
  BY <1>0, SortedIsASample, Zenon
<1>3. b < a
  BY <1>1, <1>2
<1> HIDE DEF a, b
<1>4. {j \in DOMAIN w : w[j] <= b} \subseteq {j \in DOMAIN w : w[j] < a}
  <2>1. \A j \in DOMAIN w : w[j] \in Nat
    OBVIOUS
  <2>2. QED
    BY <1>1, <1>2, <1>3, <2>1
<1>5. UpTo(w, b) <= Below(w, a)
  BY <1>4, SamplesFinite, FS_Subset, Zenon DEF UpTo, Below
<1>6. UpTo(w, b) \in Nat /\ Below(w, a) \in Nat
  BY CountsAreNumbers, Zenon
<1>7. QED
  BY <1>0, <1>1, <1>2, <1>5, <1>6

\* The percentiles of any window that has a sample are its percentiles.
LEMMA PercentilesAreOf ==
  ASSUME NEW w \in Seq(Nat), w # <<>>
  PROVE  AreOf(Percentiles(w), w)
<1> DEFINE n   == Len(w)
           i(p) == PercentileIndex(n, p)
<1>1. n \in Nat \ {0}
  OBVIOUS
<1>2. /\ i(50) \in 0..(n - 1) /\ i(95) \in 0..(n - 1) /\ i(99) \in 0..(n - 1)
      /\ i(95) \in i(50)..(n - 1) /\ i(99) \in i(95)..(n - 1)
      /\ 2 * (i(50) + 1) >= n /\ 2 * i(50) <= n
      /\ n <= 100 => i(99) + 2 >= n
  <2> HIDE DEF n
  <2>1. /\ i(50) \in 0..(n - 1) /\ i(95) \in 0..(n - 1) /\ i(99) \in 0..(n - 1)
        /\ 2 * (i(50) + 1) >= n /\ 2 * i(50) <= n
        /\ n <= 100 => i(99) + 2 >= n
    BY <1>1, IndexShares, Zenon
  <2>2. i(50) <= i(95) /\ i(95) <= i(99)
    BY <1>1, IndexIsNearRank, Zenon
  <2>3. QED
    BY <1>1, <2>1, <2>2
<1>3. \A p \in {50, 95, 99} :
        /\ Sorted(w, i(p)) \in Range(w)
        /\ Below(w, Sorted(w, i(p))) <= i(p) /\ i(p) < UpTo(w, Sorted(w, i(p)))
  <2>1. \A p \in {50, 95, 99} : i(p) \in 0..(Len(w) - 1)
    BY <1>2, Zenon
  <2> HIDE DEF i
  <2>2. QED
    BY <2>1, SortedIsASample, Zenon
<1>4. Sorted(w, i(50)) <= Sorted(w, i(95)) /\ Sorted(w, i(95)) <= Sorted(w, i(99))
  <2> HIDE DEF i
  <2>1. QED
    BY <1>2, SortedIsInOrder, Zenon
<1>5. \A v : UpTo(w, v) \in Nat /\ Below(w, v) \in Nat
  BY CountsAreNumbers, Zenon
<1>6. Percentiles(w) = [p50 |-> Sorted(w, i(50)), p95 |-> Sorted(w, i(95)), p99 |-> Sorted(w, i(99))]
  BY Zenon DEF Percentiles
<1> HIDE DEF i
<1>7. /\ 2 * UpTo(w, Sorted(w, i(50))) >= n /\ 2 * Below(w, Sorted(w, i(50))) <= n
      /\ n <= 100 => UpTo(w, Sorted(w, i(99))) + 1 >= n
  <2> DEFINE a == UpTo(w, Sorted(w, i(50)))
             b == Below(w, Sorted(w, i(50)))
             c == UpTo(w, Sorted(w, i(99)))
  <2>1. a \in Nat /\ b \in Nat /\ c \in Nat /\ i(50) < a /\ b <= i(50) /\ i(99) < c
    BY <1>3, <1>5
  <2> HIDE DEF a, b, c, n
  <2>2. 2 * a >= n /\ 2 * b <= n /\ (n <= 100 => c + 1 >= n)
    BY <1>1, <1>2, <2>1
  <2>3. QED
    BY <2>2 DEF a, b, c
<1>8. QED
  BY <1>3, <1>4, <1>6, <1>7 DEF AreOf

-----------------------------------------------------------------------------
(* The windows of durations *)

\* The latest of some durations are durations.
LEMMA LatestType ==
  ASSUME NEW r \in Seq(Duration)
  PROVE  /\ Latest(r) \in Seq(Duration)
         /\ Len(Latest(r)) =
              IF Len(r) > HistogramMaxSamples THEN HistogramMaxSamples ELSE Len(r)
         /\ \A i \in 1..Len(Latest(r)) : Latest(r)[i] = r[Len(r) - Len(Latest(r)) + i]
<1> DEFINE m == IF Len(r) > HistogramMaxSamples THEN Len(r) - HistogramMaxSamples + 1 ELSE 1
<1>1. m \in Int /\ m >= 1 /\ Len(r) \in Nat /\ \A i \in m..Len(r) : r[i] \in Duration
  BY MetaAssumption
<1>2. /\ SubSeq(r, m, Len(r)) \in Seq(Duration)
      /\ Len(SubSeq(r, m, Len(r))) = IF m <= Len(r) THEN Len(r) - m + 1 ELSE 0
      /\ \A i \in 1..(Len(r) - m + 1) : SubSeq(r, m, Len(r))[i] = r[m + i - 1]
  <2> HIDE DEF m
  <2>1. QED
    BY <1>1, SubSeqProperties
<1>3. Latest(r) = SubSeq(r, m, Len(r))
  BY Zenon DEF Latest
<1>4. /\ Latest(r) \in Seq(Duration)
      /\ Len(Latest(r)) = IF m <= Len(r) THEN Len(r) - m + 1 ELSE 0
      /\ \A i \in 1..(Len(r) - m + 1) : Latest(r)[i] = r[m + i - 1]
  BY <1>2, <1>3, Zenon
<1>5. /\ Len(Latest(r)) = IF Len(r) > HistogramMaxSamples THEN HistogramMaxSamples ELSE Len(r)
      /\ m + Len(Latest(r)) - 1 = Len(r)
  <2> DEFINE h == HistogramMaxSamples
             l == Len(r)
             q == Len(Latest(r))
  <2>1. h \in Nat \ {0} /\ l \in Nat /\ q = (IF m <= l THEN l - m + 1 ELSE 0)
    BY <1>1, <1>4, MetaAssumption, Zenon
  <2> HIDE DEF h, l, q
  <2>2. m = IF l > h THEN l - h + 1 ELSE 1
    BY Zenon DEF h, l
  <2> HIDE DEF m
  <2>3. q = (IF l > h THEN h ELSE l) /\ m + q - 1 = l
    BY <2>1, <2>2
  <2>4. QED
    BY <2>3, Zenon DEF h, l, q
<1>6. ASSUME NEW i \in 1..Len(Latest(r))
      PROVE  Latest(r)[i] = r[Len(r) - Len(Latest(r)) + i]
  <2>1. i \in 1..(Len(r) - m + 1) /\ m + i - 1 = Len(r) - Len(Latest(r)) + i
    <3> HIDE DEF m
    <3>1. Len(Latest(r)) \in Nat /\ m \in Int /\ Len(r) \in Nat
      BY <1>1, <1>4
    <3>2. QED
      BY <1>5, <3>1
  <2>2. QED
    BY <1>4, <2>1, Zenon
<1>7. QED
  BY <1>4, <1>5, <1>6, Zenon

\* Keeping one more sample of the latest gives the latest.
LEMMA KeepIsLatest ==
  ASSUME NEW r \in Seq(Duration), NEW d \in Duration
  PROVE  Keep(Latest(r), d) = Latest(Append(r, d))
<1> DEFINE w == Latest(r)
           x == Append(w, d)
           y == Append(r, d)
<1>1. w \in Seq(Duration) /\ x \in Seq(Duration) /\ y \in Seq(Duration)
  BY LatestType
<1>2. /\ Len(w) = IF Len(r) > HistogramMaxSamples THEN HistogramMaxSamples ELSE Len(r)
      /\ \A i \in 1..Len(w) : w[i] = r[Len(r) - Len(w) + i]
  BY LatestType
<1> HIDE DEF w
<1>3. /\ Len(x) = Len(w) + 1 /\ x[Len(w) + 1] = d
      /\ \A i \in 1..Len(w) : x[i] = w[i]
      /\ Len(y) = Len(r) + 1 /\ y[Len(r) + 1] = d
      /\ \A i \in 1..Len(r) : y[i] = r[i]
  BY <1>1
<1>4. \A i \in 1..Len(x) : x[i] = y[Len(y) - Len(x) + i]
  <2> SUFFICES ASSUME NEW i \in 1..Len(x) PROVE x[i] = y[Len(y) - Len(x) + i]
    OBVIOUS
  <2>0. Len(r) \in Nat /\ Len(w) \in Nat /\ Len(w) <= Len(r)
    BY <1>1, <1>2, MetaAssumption
  <2>1. CASE i = Len(w) + 1
    BY <1>3, <2>0, <2>1
  <2>2. CASE i # Len(w) + 1
    <3>1. i \in 1..Len(w) /\ Len(y) - Len(x) + i = Len(r) - Len(w) + i
      BY <1>3, <2>0, <2>2
    <3>2. Len(r) - Len(w) + i \in 1..Len(r)
      BY <2>0, <3>1
    <3>3. QED
      BY <1>2, <1>3, <3>1, <3>2
  <2>3. QED
    BY <2>1, <2>2
<1> HIDE DEF x, y
<1>5. /\ Latest(x) \in Seq(Duration) /\ Latest(y) \in Seq(Duration)
      /\ Len(Latest(x)) = IF Len(x) > HistogramMaxSamples THEN HistogramMaxSamples ELSE Len(x)
      /\ Len(Latest(y)) = IF Len(y) > HistogramMaxSamples THEN HistogramMaxSamples ELSE Len(y)
      /\ \A i \in 1..Len(Latest(x)) : Latest(x)[i] = x[Len(x) - Len(Latest(x)) + i]
      /\ \A i \in 1..Len(Latest(y)) : Latest(y)[i] = y[Len(y) - Len(Latest(y)) + i]
  BY <1>1, LatestType
<1>6. Len(r) \in Nat /\ Len(w) \in Nat
  BY <1>1
<1>7. Len(Latest(x)) = Len(Latest(y))
  BY <1>2, <1>3, <1>5, <1>6, MetaAssumption
<1>8. ASSUME NEW i \in 1..Len(Latest(x)) PROVE Latest(x)[i] = Latest(y)[i]
  <2> DEFINE j == Len(x) - Len(Latest(x)) + i
  <2>1. j \in 1..Len(x)
    BY <1>3, <1>5, <1>6, <1>8, MetaAssumption
  <2>2. Len(y) - Len(x) + j = Len(y) - Len(Latest(y)) + i
    <3>1. Len(Latest(x)) \in Nat /\ Len(x) \in Nat /\ Len(y) \in Nat /\ i \in Nat
      BY <1>1, <1>5
    <3>2. QED
      BY <1>7, <3>1
  <2>3. x[j] = y[Len(y) - Len(x) + j]
    BY <1>4, <2>1
  <2>4. QED
    BY <1>5, <1>7, <1>8, <2>2, <2>3
<1>9. Latest(x) = Latest(y)
  BY <1>5, <1>7, <1>8, SeqEqual
<1>10. QED
  BY <1>9, Zenon DEF Keep, w, x, y

\* What is kept of each source is the latest of all that was recorded.
MetaInv ==
  /\ MetaTypeOK
  /\ \A s \in Source : durations[s] = Latest(recorded[s])

\* A new collector of meta-metrics satisfies the invariant.
LEMMA MetaInitHolds == MetaInit => MetaInv
<1> SUFFICES ASSUME MetaInit PROVE MetaInv
  OBVIOUS
<1>1. MetaTypeOK
  BY MetaAssumption DEF MetaInit, MetaTypeOK
<1>2. Latest(<<>>) = <<>>
  <2>1. <<>> \in Seq(Duration) /\ Len(<<>>) = 0
    OBVIOUS
  <2>2. /\ Latest(<<>>) \in Seq(Duration)
        /\ Len(Latest(<<>>)) =
             IF Len(<<>>) > HistogramMaxSamples THEN HistogramMaxSamples ELSE Len(<<>>)
    BY <2>1, LatestType, Zenon
  <2>3. Len(Latest(<<>>)) = 0
    BY <2>1, <2>2, MetaAssumption
  <2>4. QED
    BY <2>2, <2>3, EmptySeq
<1>3. QED
  BY <1>1, <1>2 DEF MetaInit, MetaInv

\* Every call of the loops keeps the invariant.
LEMMA MetaInductive == MetaInv /\ [MetaNext]_metaVars => MetaInv'
<1> SUFFICES ASSUME MetaInv, [MetaNext]_metaVars PROVE MetaInv'
  OBVIOUS
<1>1. ASSUME NEW s \in Source, NEW d \in Duration, RecordSuccess(s, 1, d) PROVE MetaInv'
  <2>1. MetaTypeOK'
    <3>1. Keep(durations[s], d) \in Seq(Duration)
      <4>1. recorded[s] \in Seq(Duration) /\ durations[s] = Latest(recorded[s])
        BY DEF MetaInv, MetaTypeOK
      <4>2. Append(recorded[s], d) \in Seq(Duration)
        BY <4>1
      <4>3. QED
        BY <4>1, <4>2, KeepIsLatest, LatestType
    <3>2. QED
      BY <1>1, <3>1 DEF RecordSuccess, MetaInv, MetaTypeOK
  <2>2. ASSUME NEW t \in Source PROVE durations'[t] = Latest(recorded'[t])
    <3>0. /\ durations \in [Source -> Seq(Duration)] /\ recorded \in [Source -> Seq(Duration)]
          /\ durations[t] = Latest(recorded[t])
      BY DEF MetaInv, MetaTypeOK
    <3>1. CASE t = s
      <4>1. durations'[t] = Keep(Latest(recorded[t]), d) /\ recorded'[t] = Append(recorded[t], d)
        BY <1>1, <3>0, <3>1 DEF RecordSuccess
      <4>2. QED
        BY <3>0, <4>1, KeepIsLatest
    <3>2. CASE t # s
      BY <1>1, <3>0, <3>2 DEF RecordSuccess
    <3>3. QED
      BY <3>1, <3>2
  <2>3. QED
    BY <2>1, <2>2 DEF MetaInv
<1>2. ASSUME NEW s \in Source, RecordFailure(s) PROVE MetaInv'
  BY <1>2 DEF RecordFailure, MetaInv, MetaTypeOK
<1>3. ASSUME NEW g \in Gauge, UpdateStorageMetrics(g) \/ UpdateTimeSkew(g) PROVE MetaInv'
  BY <1>3 DEF UpdateStorageMetrics, UpdateTimeSkew, MetaInv, MetaTypeOK
<1>4. CASE CollectMetrics
  BY <1>4, Zenon DEF CollectMetrics, MetaInv, MetaTypeOK
<1>5. CASE UNCHANGED metaVars
  BY <1>5, Zenon DEF metaVars, MetaInv, MetaTypeOK
<1>6. QED
  BY <1>1, <1>2, <1>3, <1>4, <1>5, Zenon DEF MetaNext

\* Every result of the meta-metrics is about the latest durations of each
\* source, for any cap on the window and any durations.
THEOREM ResultsAreRecent == MetaSpec => PercentilesAreRecent
<1> DEFINE Step ==
      \A s \in Source :
        series' # series /\ series'.percentiles[s] # NoSeries =>
          AreOf(series'.percentiles[s], Latest(recorded[s]))
<1>1. MetaInv /\ [MetaNext]_metaVars => [Step]_metaVars
  <2> SUFFICES ASSUME MetaInv, MetaNext, NEW s \in Source,
                      series' # series, series'.percentiles[s] # NoSeries
               PROVE  AreOf(series'.percentiles[s], Latest(recorded[s]))
    BY Zenon
  <2>1. CollectMetrics
    BY Zenon DEF MetaNext, RecordSuccess, RecordFailure, UpdateStorageMetrics, UpdateTimeSkew
  <2>2. series'.percentiles[s] =
          IF durations[s] = <<>> THEN NoSeries ELSE Percentiles(durations[s])
    BY <2>1 DEF CollectMetrics
  <2>3. durations[s] # <<>> /\ series'.percentiles[s] = Percentiles(durations[s])
    BY <2>2
  <2>4. durations[s] \in Seq(Nat) /\ durations[s] = Latest(recorded[s])
    <3>1. durations[s] \in Seq(Duration) /\ durations[s] = Latest(recorded[s])
      BY Zenon DEF MetaInv, MetaTypeOK
    <3>2. QED
      BY <3>1, SeqMonotonic, MetaAssumption
  <2>5. QED
    BY <2>3, <2>4, PercentilesAreOf, Zenon
<1>2. MetaSpec => [][Step]_metaVars
  BY <1>1, MetaInitHolds, MetaInductive, PTL DEF MetaSpec
<1>3. QED
  BY <1>2, PTL DEF PercentilesAreRecent
=============================================================================
