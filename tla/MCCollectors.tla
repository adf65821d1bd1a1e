----------------------------- MODULE MCCollectors -----------------------------
(***************************************************************************)
(* The measuring parts that keep state: the network collector, the CPU     *)
(* collector and the collector of meta-metrics, each under a mutex of its  *)
(* own.  They share nothing, so a behaviour of all three is one of each    *)
(* side by side, and it is enough that in a behaviour one of them moves.   *)
(***************************************************************************)
EXTENDS NetworkCollector, CPUCollector, MetaMetrics

VARIABLE moves   \* the part that does

vars == <<moves, netVars, cpuVars, metaVars>>

Init ==
  /\ NetInit /\ CPUInit /\ MetaInit
  /\ moves \in {"network", "cpu", "meta"}

Next ==
  \/ moves = "network" /\ NetNext /\ UNCHANGED <<moves, cpuVars, metaVars>>
  \/ moves = "cpu" /\ CPUNext /\ UNCHANGED <<moves, netVars, metaVars>>
  \/ moves = "meta" /\ MetaNext /\ UNCHANGED <<moves, netVars, cpuVars>>

Spec == Init /\ [][Next]_vars
=============================================================================
