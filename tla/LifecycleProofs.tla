---------------------------- MODULE LifecycleProofs ----------------------------
(***************************************************************************)
(* The safety properties of Lifecycle for any number of goroutines and any *)
(* watchdog timeout: the stages of main determine what is open, and the    *)
(* clocks of the pinger what systemd has heard.                            *)
(***************************************************************************)
EXTENDS Lifecycle, TLAPS

\* Deferred calls run, from the first to the last.
Deferred == {"waited", "walCancelled", "checkpointed", "storeClosed", "unlocked"}
Running == {"looping", "ready", "cancelled"}

\* What main holds at each stage.
StageInv ==
  /\ lock <=> main \notin {"down", "start", "unlocked"}
  /\ store <=> main \notin {"down", "start", "locked", "pinging", "storeClosed", "unlocked"}
  /\ cancelled <=> main \in Deferred \union {"cancelled"}
  /\ signal => main # "down" /\ unit = "deactivating"
  /\ unit = "active" => main = "ready"

\* How far the goroutines have come at each stage of main; the health server
\* may end at any time.
LoopInv ==
  /\ main \in Running => \A l \in Loop : loops[l] # "off"
  /\ main \notin Running \union Deferred => \A l \in Loop : loops[l] = "off"
  /\ main \in Deferred => \A l \in Loop : loops[l] = "ended"
  /\ ~cancelled => \A l \in Loop : loops[l] # "ended"
  /\ main \in {"down", "start", "locked", "pinging"} => wal = "off"

\* Since the last word to systemd no more time has passed than the ticker and
\* the scheduler account for.
ClockInv == unit = "active" /\ ~frozen => silence + toPing <= PingInterval + late

IInv == TypeOK /\ StageInv /\ LoopInv /\ ClockInv

-----------------------------------------------------------------------------
\* The pinger wakes up with time to spare, even when the scheduler is late.
LEMMA PingMargin ==
  /\ PingInterval \in Nat /\ MaxLate \in Nat /\ WatchdogSec \in Nat
  /\ MaxLate <= PingInterval
  /\ PingInterval + MaxLate < WatchdogSec
<1>1. WatchdogSec \in Nat /\ MaxLate \in Nat /\ WatchdogSec \div 2 + MaxLate < WatchdogSec
  BY WatchdogAssumption
<1>2. /\ WatchdogSec \div 2 \in Nat
      /\ WatchdogSec <= 2 * (WatchdogSec \div 2) + 1
  BY <1>1
<1>. QED
  BY <1>1, <1>2 DEF PingInterval

\* A stopped unit satisfies the invariant.
LEMMA InitIInv == Init => IInv
<1> SUFFICES ASSUME Init PROVE IInv
  OBVIOUS
<1> USE DEF Init
<1>1. TypeOK
  <2>1. loops \in [Loop -> {"off", "ended"} \union Serving]
    OBVIOUS
  <2>2. toPing \in 0..PingInterval /\ late \in 0..MaxLate /\ silence \in 0..WatchdogSec
    BY PingMargin
  <2>. QED
    BY <2>1, <2>2 DEF TypeOK, Stages
<1>2. StageInv
  BY DEF StageInv, Deferred
<1>3. LoopInv
  BY DEF LoopInv, Running, Deferred
<1>4. ClockInv
  BY DEF ClockInv
<1>. QED
  BY <1>1, <1>2, <1>3, <1>4 DEF IInv

\* A death leaves what Init starts from, whatever it interrupts.
LEMMA DieIInv ==
  ASSUME NEW u \in {"inactive", "restarting"}, Die(u)
  PROVE  IInv'
<1> USE DEF Die
<1>1. TypeOK'
  <2>1. (loops \in [Loop -> {"off", "ended"} \union Serving])'
    OBVIOUS
  <2>2. (toPing \in 0..PingInterval /\ late \in 0..MaxLate /\ silence \in 0..WatchdogSec)'
    BY PingMargin DEF PingInterval
  <2>. QED
    BY <2>1, <2>2 DEF TypeOK, Stages
<1>2. StageInv'
  BY DEF StageInv, Deferred
<1>3. LoopInv'
  BY DEF LoopInv, Running, Deferred
<1>4. ClockInv'
  BY DEF ClockInv
<1>. QED
  BY <1>1, <1>2, <1>3, <1>4 DEF IInv

\* main's own steps, from the start to the last deferred call.
LEMMA MainKeepsIInv == IInv /\ MainStep => IInv'
<1> SUFFICES ASSUME IInv, MainStep PROVE IInv'
  OBVIOUS
<1>1. CASE Exit
  BY <1>1, DieIInv DEF Exit
<1> USE PingMargin
    DEF IInv, TypeOK, StageInv, LoopInv, ClockInv, Stages, Running, Deferred,
        Alive, goroutines, resources, clocks, Serving, InTick
<1>2. CASE AcquireLock
  BY <1>2 DEF AcquireLock
<1>3. CASE StartPinger
  BY <1>3 DEF StartPinger
<1>4. CASE OpenStore
  BY <1>4 DEF OpenStore
<1>5. CASE NotifySignals
  BY <1>5 DEF NotifySignals
<1>6. CASE StartLoops
  BY <1>6 DEF StartLoops
<1>7. CASE NotifyReady
  BY <1>7 DEF NotifyReady
<1>8. CASE HandleSignal
  BY <1>8 DEF HandleSignal
<1>9. CASE Wait
  BY <1>9 DEF Wait
<1>10. CASE CancelWAL
  BY <1>10 DEF CancelWAL
<1>11. CASE CloseCheckpoint
  BY <1>11 DEF CloseCheckpoint
<1>12. CASE CloseStore
  BY <1>12 DEF CloseStore
<1>13. CASE ReleaseLock
  BY <1>13 DEF ReleaseLock
<1>. QED
  BY <1>1, <1>2, <1>3, <1>4, <1>5, <1>6, <1>7, <1>8, <1>9, <1>10, <1>11, <1>12, <1>13
     DEF MainStep

\* The steps of the loops, of the checkpoint routine and of the ping.
LEMMA GoroutinesKeepIInv ==
  ASSUME IInv,
         \/ \E l \in Loop : Work(l) \/ Finish(l) \/ Query(l) \/ Return(l) \/ Hang(l) \/ LoopEnds(l)
         \/ ServerEnds
         \/ WALWork \/ WALFinish \/ WALQuery \/ WALReturn \/ WALEnds \/ Ping
  PROVE  IInv'
<1> USE PingMargin
    DEF IInv, TypeOK, StageInv, LoopInv, ClockInv, Stages, Running, Deferred,
        Alive, goroutines, resources, clocks, Serving, InTick
<1>1. ASSUME NEW l \in Loop, Work(l) \/ Finish(l) \/ Query(l) \/ Return(l) \/ Hang(l)
      PROVE  IInv'
  <2>1. PICK from \in Serving, to \in Serving : LoopStep(l, from, to)
    BY <1>1 DEF Work, Finish, Query, Return, Hang
  <2>. QED
    BY <2>1 DEF LoopStep
<1>2. ASSUME NEW l \in Loop, LoopEnds(l) PROVE IInv'
  BY <1>2 DEF LoopEnds, LoopStep
<1>3. CASE WALWork \/ WALFinish \/ WALQuery \/ WALReturn \/ WALEnds
  BY <1>3 DEF WALWork, WALFinish, WALQuery, WALReturn, WALEnds, WALStep
<1>4. CASE ServerEnds
  BY <1>4 DEF ServerEnds
<1>5. CASE Ping
  BY <1>5 DEF Ping, Pinging
<1>. QED
  BY <1>1, <1>2, <1>3, <1>4, <1>5

\* What systemd, a signal, a crash and the time do.
LEMMA SystemKeepsIInv ==
  ASSUME IInv,
         \/ Start \/ StartFails \/ Stop \/ Reload \/ Crash \/ Freeze \/ Elapse
         \/ WatchdogFires \/ Timeout
  PROVE  IInv'
<1>1. CASE StartFails \/ Reload \/ Crash \/ WatchdogFires \/ Timeout
  BY <1>1, DieIInv DEF StartFails, Reload, Crash, WatchdogFires, Timeout
<1>2. CASE Stop
  <2>1. CASE Die("inactive")
    BY <2>1, DieIInv
  <2>2. ASSUME main # "down", signal' = TRUE, unit' = "deactivating",
               UNCHANGED <<main, goroutines, resources, cancelled, clocks, frozen>>
        PROVE  IInv'
    BY <2>2 DEF IInv, TypeOK, StageInv, LoopInv, ClockInv, goroutines, resources, clocks
  <2>. QED
    BY <1>2, <2>1, <2>2 DEF Stop
<1> USE PingMargin
    DEF IInv, TypeOK, StageInv, LoopInv, ClockInv, Stages, Running, Deferred,
        Alive, goroutines, resources, clocks, Serving, InTick
<1>3. CASE Start
  BY <1>3 DEF Start
<1>4. CASE Freeze
  BY <1>4 DEF Freeze
<1>5. CASE Elapse
  BY <1>5 DEF Elapse, Pinging
<1>. QED
  BY <1>1, <1>2, <1>3, <1>4, <1>5

\* Every step keeps the invariant.
LEMMA StepIInv == IInv /\ [Next]_vars => IInv'
<1> SUFFICES ASSUME IInv, [Next]_vars PROVE IInv'
  OBVIOUS
<1>1. CASE UNCHANGED vars
  BY <1>1 DEF vars, goroutines, resources, clocks, IInv, TypeOK, StageInv, LoopInv, ClockInv
<1>. QED
  BY <1>1, MainKeepsIInv, GoroutinesKeepIInv, SystemKeepsIInv DEF Next

\* What is open, running and cancelled follows from the stage of main, and the
\* clocks of the pinger stay together, for any loops and timeouts.
THEOREM Invariance == Spec => []IInv
BY InitIInv, StepIInv, PTL DEF Spec

\* Types; the pinger's clocks stay in their ranges.
THEOREM TypeCorrect == Spec => []TypeOK
<1>1. IInv => TypeOK
  BY DEF IInv
<1>. QED
  BY Invariance, <1>1, PTL

\* The pool is closed by the deferred calls only, after every loop has ended.
THEOREM LoopsEndFirst == Spec => []NoUseAfterClose
<1>1. IInv => NoUseAfterClose
  BY DEF IInv, TypeOK, StageInv, LoopInv, NoUseAfterClose, InTick, Stages, Running, Deferred
<1>. QED
  BY Invariance, <1>1, PTL

\* Whatever the routine and the loops do while main is leaving, nothing but a
\* statement of the routine can outlive the lock, and it outlives only that.
THEOREM LockOutlivesStore == Spec => []OnlyCheckpointOutlivesLock
<1>1. ASSUME IInv, ~lock PROVE ~store
  BY <1>1 DEF IInv, StageInv
<1>2. ASSUME IInv, ~lock, ~Free
      PROVE  main = "unlocked" /\ wal = "querying" /\ \A l \in Loop : loops[l] = "ended"
  <2>1. main \in {"down", "start", "unlocked"}
    BY <1>2 DEF IInv, StageInv
  <2>2. CASE main \in {"down", "start"}
    BY <1>2, <2>2 DEF IInv, LoopInv, Running, Deferred, Free
  <2>3. CASE main = "unlocked"
    BY <1>2, <2>3 DEF IInv, LoopInv, Deferred, Free
  <2>. QED
    BY <2>1, <2>2, <2>3
<1>3. IInv => OnlyCheckpointOutlivesLock
  BY <1>1, <1>2 DEF OnlyCheckpointOutlivesLock
<1>. QED
  BY Invariance, <1>3, PTL

\* READY is sent when every loop with a ticker runs, and the unit leaves active
\* before any of them is stopped; the health server is no part of this.
THEOREM ReadyIsTrue == Spec => []ActiveMeansCollecting
<1>1. IInv => ActiveMeansCollecting
  BY DEF IInv, TypeOK, StageInv, LoopInv, ActiveMeansCollecting, Stages, Running, Deferred
<1>. QED
  BY Invariance, <1>1, PTL

\* Half the timeout is a safe interval whatever the timeout is, if the
\* scheduler is late by less than the other half.
THEOREM HealthyIsNotKilled == Spec => []PingsInTime
<1>1. IInv => PingsInTime
  BY PingMargin DEF IInv, TypeOK, ClockInv, PingsInTime
<1>. QED
  BY Invariance, <1>1, PTL
=============================================================================
