----------------------------- MODULE CPUCollector -----------------------------
(***************************************************************************)
(* The CPU collector (cpu.go and cpu_linux.go of internal/collector): the  *)
(* share of busy time between two readings of /proc/stat, per core.        *)
(*                                                                         *)
(* Time is counted in unsigned words; "busy" stands for user, nice,        *)
(* system, irq, softirq and steal.  A usage is kept as the fraction the    *)
(* code multiplies by 100.                                                 *)
(***************************************************************************)
EXTENDS Naturals

CONSTANTS
  Core,     \* "cpu" and the single cores
  Word,     \* 2^64 in the code
  MaxTime,  \* bound: values of a component
  NoCPU     \* no entry in a map

\* No machine runs long enough for a sum of its times to overflow.
ASSUME CPUAssumption == Word \in Nat /\ MaxTime \in Nat /\ 3 * MaxTime < Word

CPUStat == [idle : 0..MaxTime, iowait : 0..MaxTime, busy : 0..MaxTime]
Fraction == [busy : 0..(Word - 1), total : 0..(Word - 1)]

ASSUME NoCPUIsNoStat == NoCPU \notin CPUStat /\ NoCPU \notin Fraction

VARIABLES
  previousCPU,  \* core -> stats of the last reading
  firstSample,  \* until there is a baseline
  usage,        \* core -> fraction in the last result
  cpuReading    \* history: the last file read

cpuVars == <<previousCPU, firstSample, usage, cpuReading>>

-----------------------------------------------------------------------------
(* Words *)

Minus(a, b) == (a + Word - b) % Word

\* Mutant: a total that leaves the time spent waiting out.
Total_NoIOWait(s) == (s.idle + s.busy) % Word

Total(s) == (s.idle + s.iowait + s.busy) % Word

Busy(s) == Minus(Minus(Total(s), s.idle), s.iowait)

-----------------------------------------------------------------------------
(* /proc/stat: idle and busy time grow; iowait may also fall, as proc(5)   *)
(* says; a core that was offline may count from anew.                      *)

Grew(prev, cur) == prev.idle <= cur.idle /\ prev.iowait <= cur.iowait /\ prev.busy <= cur.busy

Follows(prev, cur) ==
  \/ prev = NoCPU \/ cur = NoCPU
  \/ prev.idle <= cur.idle /\ prev.busy <= cur.busy
  \/ Grew(cur, prev)

Reading == [Core -> CPUStat \union {NoCPU}]

NextReadings == {r \in Reading : \A c \in Core : Follows(cpuReading[c], r[c])}

-----------------------------------------------------------------------------
CPUInit ==
  /\ previousCPU = [c \in Core |-> NoCPU]
  /\ firstSample = TRUE
  /\ usage = [c \in Core |-> NoCPU]
  /\ cpuReading = [c \in Core |-> NoCPU]

\* The first result is empty; it only sets the baseline.
Baseline(r) ==
  /\ firstSample
  /\ firstSample' = FALSE
  /\ previousCPU' = r
  /\ usage' = [c \in Core |-> NoCPU]
  /\ cpuReading' = r

\* A new core, a total that went back and one that did not move give none.
HasSample(prev, cur) ==
  /\ prev # NoCPU /\ cur # NoCPU
  /\ Total(cur) >= Total(prev)
  /\ Minus(Total(cur), Total(prev)) # 0

Usage(prev, cur) ==
  [busy |-> Minus(Busy(cur), Busy(prev)), total |-> Minus(Total(cur), Total(prev))]

\* Mutant: the baseline moves only with a sample.
CollectCPU_KeepsBaseline(r) ==
  /\ ~firstSample
  /\ usage' = [c \in Core |->
                 IF HasSample(previousCPU[c], r[c]) THEN Usage(previousCPU[c], r[c]) ELSE NoCPU]
  /\ previousCPU' = [c \in Core |->
                 IF HasSample(previousCPU[c], r[c]) \/ previousCPU[c] = NoCPU
                   THEN r[c] ELSE previousCPU[c]]
  /\ cpuReading' = r
  /\ UNCHANGED firstSample

\* A Collect that fails to read the file changes nothing.
CollectCPU(r) ==
  /\ ~firstSample
  /\ usage' = [c \in Core |->
                 IF HasSample(previousCPU[c], r[c]) THEN Usage(previousCPU[c], r[c]) ELSE NoCPU]
  /\ previousCPU' = r
  /\ cpuReading' = r
  /\ UNCHANGED firstSample

CPUNext == \E r \in NextReadings : Baseline(r) \/ CollectCPU(r)

CPUSpec == CPUInit /\ [][CPUNext]_cpuVars

-----------------------------------------------------------------------------
(* Properties *)

CPUTypeOK ==
  /\ previousCPU \in Reading /\ cpuReading \in Reading
  /\ firstSample \in BOOLEAN
  /\ usage \in [Core -> Fraction \union {NoCPU}]

\* A core in two successive readings whose time went on, and in which no
\* component went back, is in the result, whatever happened before: a restart,
\* a core that went away, a skipped sample.  Its usage is a percentage.
SampleAfterProgress ==
  [][\A c \in Core :
       /\ ~firstSample
       /\ cpuReading[c] # NoCPU /\ cpuReading'[c] # NoCPU
       /\ Grew(cpuReading[c], cpuReading'[c]) /\ cpuReading[c] # cpuReading'[c]
       => usage'[c] # NoCPU /\ usage'[c].busy <= usage'[c].total]_cpuVars
=============================================================================
