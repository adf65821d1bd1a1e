--------------------------- MODULE NetworkCollector ---------------------------
(***************************************************************************)
(* The network collector (network.go and network_linux.go of               *)
(* internal/collector): counters per interface, read from /proc/net/dev,   *)
(* compared with the previous reading and emitted unless one went back,    *)
(* for a bounded number of interfaces.                                     *)
(*                                                                         *)
(* Two counters stand for the six.  A line of /proc/net/dev is an input;   *)
(* interfaces come and go, in any order, and their counters may restart.   *)
(***************************************************************************)
EXTENDS Naturals, Sequences, FiniteSets

CONSTANTS
  Iface,          \* names of interfaces
  Excluded,       \* those an exclude pattern matches or the include pattern does not
  MaxInterfaces,  \* hard cap, 32
  MaxCount,       \* bound: values of a counter
  MaxDropped,     \* bound: values of the drop counter
  None            \* no entry in a map

ASSUME NetworkAssumption ==
  /\ Excluded \subseteq Iface /\ IsFiniteSet(Iface)
  /\ MaxInterfaces \in Nat \ {0} /\ MaxCount \in Nat /\ MaxDropped \in Nat

NetStat == [rx : 0..MaxCount, tx : 0..MaxCount]

ASSUME NoneIsNoStat == None \notin NetStat

VARIABLES
  previousStats,           \* interface -> stats of the last reading
  interfacesDroppedTotal,  \* interfaces over the cap, over all collections
  emitted,                 \* interface -> counters in the last result
  netReading               \* history: the last file read

netVars == <<previousStats, interfacesDroppedTotal, emitted, netReading>>

-----------------------------------------------------------------------------
(* One reading *)

\* A line; one with fewer than 16 fields has no stats, and those of an
\* excluded interface are not looked at.
Line == {l \in [iface : Iface, stats : NetStat \union {None}] :
           l.iface \in Excluded => l.stats = None}

\* The file lists an interface once.
Readings ==
  UNION {{f \in [1..n -> Line] : \A j, k \in 1..n : f[j].iface = f[k].iface => j = k} :
           n \in 0..Cardinality(Iface)}

Wanted(r) == {k \in DOMAIN r : r[k].iface \notin Excluded}

\* Lines before k whose interface went into currentStats, had there been room.
Before(r, k) == {j \in Wanted(r) : j < k /\ r[j].stats # None}

\* Mutant: the cap lets one interface too many in.
Capped_OneMore(r) == {k \in Wanted(r) : Cardinality(Before(r, k)) > MaxInterfaces}

\* The cap looks at the entries made so far, before the line is parsed.
Capped(r) == {k \in Wanted(r) : Cardinality(Before(r, k)) >= MaxInterfaces}

\* Lines that make an entry in currentStats.
Tracked(r) == {k \in Wanted(r) \ Capped(r) : r[k].stats # None}

CurrentStats(r) ==
  [i \in Iface |->
     IF \E k \in Tracked(r) : r[k].iface = i
       THEN r[CHOOSE k \in Tracked(r) : r[k].iface = i].stats
       ELSE None]

\* Mutant: only the byte counter is compared.
WentBack_BytesOnly(prev, cur) == cur.rx < prev.rx

WentBack(prev, cur) == cur.rx < prev.rx \/ cur.tx < prev.tx

Skipped(prev, cur) == prev # None /\ cur # None /\ WentBack(prev, cur)

-----------------------------------------------------------------------------
NetInit ==
  /\ previousStats = [i \in Iface |-> None]
  /\ interfacesDroppedTotal = 0
  /\ emitted = [i \in Iface |-> None]
  /\ netReading = <<>>

\* Mutant: the baseline of a skipped interface stays what it was.
CollectNetwork_KeepsBaseline(r) ==
  LET current == CurrentStats(r)
  IN  /\ interfacesDroppedTotal + Cardinality(Capped(r)) <= MaxDropped
      /\ interfacesDroppedTotal' = interfacesDroppedTotal + Cardinality(Capped(r))
      /\ emitted' = [i \in Iface |->
                       IF Skipped(previousStats[i], current[i]) THEN None ELSE current[i]]
      /\ previousStats' = [i \in Iface |->
                       IF Skipped(previousStats[i], current[i]) THEN previousStats[i] ELSE current[i]]
      /\ netReading' = r

\* A Collect that fails to read the file changes nothing.
CollectNetwork(r) ==
  LET current == CurrentStats(r)
  IN  /\ interfacesDroppedTotal + Cardinality(Capped(r)) <= MaxDropped
      /\ interfacesDroppedTotal' = interfacesDroppedTotal + Cardinality(Capped(r))
      /\ emitted' = [i \in Iface |->
                       IF Skipped(previousStats[i], current[i]) THEN None ELSE current[i]]
      /\ previousStats' = current
      /\ netReading' = r

NetNext == \E r \in Readings : CollectNetwork(r)

NetSpec == NetInit /\ [][NetNext]_netVars

-----------------------------------------------------------------------------
(* Properties *)

NetTypeOK ==
  /\ previousStats \in [Iface -> NetStat \union {None}]
  /\ interfacesDroppedTotal \in 0..MaxDropped
  /\ emitted \in [Iface -> NetStat \union {None}]
  /\ netReading \in Readings

\* What the series of an interface shows in two successive results never goes
\* back, in any of its counters: a restart is always marked by a gap.
RestartLeavesGap ==
  [][\A i \in Iface :
       emitted[i] # None /\ emitted'[i] # None =>
         emitted[i].rx <= emitted'[i].rx /\ emitted[i].tx <= emitted'[i].tx]_netVars

\* The gap is no longer than the restart: an interface whose line is within
\* the cap is left out only if one of its counters is below that of the
\* reading just before, be the counter still below older ones.
GapOnlyAtRestart ==
  [][\A k \in Tracked(netReading') :
       LET i == netReading'[k].iface
       IN  emitted'[i] = None =>
             \E j \in DOMAIN netReading :
               /\ netReading[j].iface = i /\ netReading[j].stats # None
               /\ \/ netReading'[k].stats.rx < netReading[j].stats.rx
                  \/ netReading'[k].stats.tx < netReading[j].stats.tx]_netVars

\* No reading makes the collector hold or emit more interfaces than the cap,
\* and none of an excluded interface; and one that is turned away for the cap
\* is counted, since everything wanted is held, counted or malformed.
CapIsHard ==
  LET held == {i \in Iface : previousStats[i] # None}
  IN  /\ Cardinality(held) <= MaxInterfaces
      /\ held \intersect Excluded = {}
      /\ {i \in Iface : emitted[i] # None} \subseteq held
      /\ (\E k \in Wanted(netReading) :
            netReading[k].stats # None /\ netReading[k].iface \notin held)
           => interfacesDroppedTotal > 0 /\ Cardinality(held) = MaxInterfaces
=============================================================================
