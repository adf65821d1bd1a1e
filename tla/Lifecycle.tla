------------------------------ MODULE Lifecycle ------------------------------
(***************************************************************************)
(* One agent under systemd: the order in which main of                     *)
(* cmd/tidewatch/main.go takes the lock, opens the store and starts its    *)
(* goroutines; READY, the watchdog pings of internal/watchdog/watchdog.go  *)
(* and STOPPING; the cancel, the wait and the deferred calls of a          *)
(* shutdown; crashes and restarts.  The unit is debian/tidewatch.service.  *)
(*                                                                         *)
(* What the loops do in a tick is the subject of the other modules; here   *)
(* they make statements on the one connection of the store's pool.         *)
(***************************************************************************)
EXTENDS Naturals, FiniteSets

CONSTANTS
  Loop,           \* goroutines of the wait group that have a ticker
  WatchdogSec,    \* of the unit
  MaxLate         \* bound: how late the scheduler runs the pinger

ASSUME WatchdogAssumption ==
  /\ WatchdogSec \in Nat \ {0, 1} /\ MaxLate \in Nat
  /\ WatchdogSec \div 2 + MaxLate < WatchdogSec

VARIABLES
  main,         \* how far main has come
  server,       \* state of the health server, which is in the wait group as well
  loops,        \* state of each goroutine of the wait group with a ticker
  wal,          \* state of the WAL checkpoint routine, which is not in it
  lock,         \* the process holds the lock
  store,        \* the pool of the store is open
  signal,       \* sigChan holds a signal
  cancelled,    \* ctx is cancelled
  unit,         \* state of the unit in systemd
  toPing,       \* time until the pinger's ticker; 0 when it is due
  late,         \* how long it has been due
  silence,      \* time since READY or the last ping
  frozen        \* the whole process makes no progress

goroutines == <<server, loops, wal>>
resources == <<lock, store>>
clocks == <<toPing, late, silence>>
vars == <<main, goroutines, resources, signal, cancelled, unit, clocks, frozen>>

Stages == {"down", "start", "locked", "pinging", "opened", "listening", "looping", "ready",
           "cancelled", "waited", "walCancelled", "checkpointed", "storeClosed", "unlocked"}
Pinging == Stages \ {"down", "start", "locked"}
Alive == main # "down" /\ ~frozen

\* States of a goroutine with a ticker: in its select, in a tick, in a statement
\* on the connection, the last two without end, or ended.
InTick == {"working", "querying", "hung", "stuck"}
Serving == {"waiting"} \union InTick

\* Nobody has the connection: SetMaxOpenConns(1).
Free == wal # "querying" /\ \A l \in Loop : loops[l] \notin {"querying", "stuck"}

\* Mutant: no margin.
PingInterval_Full == WatchdogSec

PingInterval == WatchdogSec \div 2

-----------------------------------------------------------------------------
Init ==
  /\ main = "down" /\ unit = "inactive"
  /\ server = "off" /\ loops = [l \in Loop |-> "off"] /\ wal = "off"
  /\ lock = FALSE /\ store = FALSE
  /\ signal = FALSE /\ cancelled = FALSE
  /\ toPing = 0 /\ late = 0 /\ silence = 0
  /\ frozen = FALSE

-----------------------------------------------------------------------------
(* main *)

AcquireLock ==
  /\ Alive /\ main = "start"
  /\ lock' = TRUE
  /\ main' = "locked"
  /\ UNCHANGED <<goroutines, store, signal, cancelled, unit, clocks, frozen>>

StartPinger ==
  /\ Alive /\ main = "locked"
  /\ toPing' = PingInterval
  /\ main' = "pinging"
  /\ UNCHANGED <<goroutines, resources, signal, cancelled, unit, late, silence, frozen>>

\* The store with its migrations, then the WAL routine.
OpenStore ==
  /\ Alive /\ main = "pinging"
  /\ store' = TRUE
  /\ wal' = "waiting"
  /\ main' = "opened"
  /\ UNCHANGED <<server, loops, lock, signal, cancelled, unit, clocks, frozen>>

NotifySignals ==
  /\ Alive /\ main = "opened"
  /\ main' = "listening"
  /\ UNCHANGED <<goroutines, resources, signal, cancelled, unit, clocks, frozen>>

StartLoops ==
  /\ Alive /\ main = "listening"
  /\ server' = "serving"
  /\ loops' = [l \in Loop |-> "waiting"]
  /\ main' = "looping"
  /\ UNCHANGED <<wal, resources, signal, cancelled, unit, clocks, frozen>>

\* Mutant: READY as soon as the signals are handled.
NotifyReady_Early ==
  /\ Alive /\ main = "listening"
  /\ main' = "ready"
  /\ unit' = IF unit = "activating" THEN "active" ELSE unit
  /\ silence' = 0
  /\ UNCHANGED <<goroutines, resources, signal, cancelled, toPing, late, frozen>>

NotifyReady ==
  /\ Alive /\ main = "looping"
  /\ main' = "ready"
  /\ unit' = IF unit = "activating" THEN "active" ELSE unit
  /\ silence' = 0
  /\ UNCHANGED <<goroutines, resources, signal, cancelled, toPing, late, frozen>>

\* <-sigChan, STOPPING, cancel().
HandleSignal ==
  /\ Alive /\ main = "ready" /\ signal
  /\ cancelled' = TRUE
  /\ unit' = "deactivating"
  /\ main' = "cancelled"
  /\ UNCHANGED <<goroutines, resources, signal, clocks, frozen>>

\* Mutant: main does not wait.
Wait_Not ==
  /\ Alive /\ main = "cancelled"
  /\ main' = "waited"
  /\ UNCHANGED <<goroutines, resources, signal, cancelled, unit, clocks, frozen>>

\* wg.Wait().
Wait ==
  /\ Alive /\ main = "cancelled"
  /\ server = "ended" /\ \A l \in Loop : loops[l] = "ended"
  /\ main' = "waited"
  /\ UNCHANGED <<goroutines, resources, signal, cancelled, unit, clocks, frozen>>

\* The deferred calls, last first: cancelWAL and walCancel ...
CancelWAL ==
  /\ Alive /\ main = "waited"
  /\ main' = "walCancelled"
  /\ UNCHANGED <<goroutines, resources, signal, cancelled, unit, clocks, frozen>>

\* ... store.Close: its checkpoint needs the connection ...
CloseCheckpoint ==
  /\ Alive /\ main = "walCancelled"
  /\ Free
  /\ main' = "checkpointed"
  /\ UNCHANGED <<goroutines, resources, signal, cancelled, unit, clocks, frozen>>

\* Mutant: the lock goes first.
CloseStore_UnlocksFirst ==
  /\ Alive /\ main = "checkpointed"
  /\ lock' = FALSE
  /\ main' = "storeClosed"
  /\ UNCHANGED <<goroutines, store, signal, cancelled, unit, clocks, frozen>>

\* ... but db.Close does not wait for one that is in use ...
CloseStore ==
  /\ Alive /\ main = "checkpointed"
  /\ store' = FALSE
  /\ main' = "storeClosed"
  /\ UNCHANGED <<goroutines, lock, signal, cancelled, unit, clocks, frozen>>

\* ... and lock.Release.
ReleaseLock ==
  /\ Alive /\ main = "storeClosed"
  /\ lock' = FALSE
  /\ main' = "unlocked"
  /\ UNCHANGED <<goroutines, store, signal, cancelled, unit, clocks, frozen>>

-----------------------------------------------------------------------------
(* Goroutines *)

LoopStep(l, from, to) ==
  /\ Alive
  /\ loops[l] = from
  /\ loops' = [loops EXCEPT ![l] = to]
  /\ UNCHANGED <<main, server, wal, resources, signal, cancelled, unit, clocks, frozen>>

\* select may take the ticker when the context is done as well.
Work(l) == LoopStep(l, "waiting", "working")
Finish(l) == LoopStep(l, "working", "waiting")

\* A statement; after Close there is only an error.
Query(l) == store /\ Free /\ LoopStep(l, "working", "querying")
Return(l) == LoopStep(l, "querying", "working")

\* A device or a statement that never answers.
Hang(l) == LoopStep(l, "working", "hung") \/ LoopStep(l, "querying", "stuck")

\* Mutant: the loop watches the context of the WAL routine.
LoopEnds_WrongContext(l) ==
  /\ main \in {"walCancelled", "checkpointed", "storeClosed", "unlocked"}
  /\ LoopStep(l, "waiting", "ended")

LoopEnds(l) ==
  /\ cancelled
  /\ LoopStep(l, "waiting", "ended")

\* Shutdown after the cancel, or ListenAndServe fails at any time, which is
\* logged.
ServerEnds ==
  /\ Alive /\ server = "serving"
  /\ server' = "ended"
  /\ UNCHANGED <<main, loops, wal, resources, signal, cancelled, unit, clocks, frozen>>

WALStep(from, to) ==
  /\ Alive
  /\ wal = from
  /\ wal' = to
  /\ UNCHANGED <<main, server, loops, resources, signal, cancelled, unit, clocks, frozen>>

\* A tick, which select may take after the cancel and after Close as well ...
WALWork == WALStep("waiting", "working")
WALFinish == WALStep("working", "waiting")

\* ... and its statements, whose context is the background one.
WALQuery == store /\ Free /\ WALStep("working", "querying")
WALReturn == WALStep("querying", "working")

WALEnds ==
  /\ main \in {"walCancelled", "checkpointed", "storeClosed", "unlocked"}
  /\ WALStep("waiting", "ended")

\* The pinger ends with ctx.
Ping ==
  /\ Alive /\ main \in Pinging /\ ~cancelled
  /\ toPing = 0
  /\ toPing' = PingInterval - late
  /\ late' = 0 /\ silence' = 0
  /\ UNCHANGED <<main, goroutines, resources, signal, cancelled, unit, frozen>>

-----------------------------------------------------------------------------
(* systemd, time, and death *)

Die(nextUnit) ==
  /\ main' = "down"
  /\ unit' = nextUnit
  /\ server' = "off" /\ loops' = [l \in Loop |-> "off"] /\ wal' = "off"
  /\ lock' = FALSE /\ store' = FALSE
  /\ signal' = FALSE /\ cancelled' = FALSE
  /\ toPing' = 0 /\ late' = 0 /\ silence' = 0
  /\ frozen' = FALSE

Start ==
  /\ main = "down" /\ unit \in {"inactive", "restarting"}
  /\ main' = "start"
  /\ unit' = "activating"
  /\ UNCHANGED <<goroutines, resources, signal, cancelled, clocks, frozen>>

\* Return from main ends the process, whatever goroutines are left.
Exit ==
  /\ Alive /\ main = "unlocked"
  /\ Die("inactive")

\* The lock is taken or the store does not open: os.Exit(1).
StartFails ==
  /\ Alive /\ main \in {"start", "pinging"}
  /\ Die("restarting")

\* systemctl stop: SIGTERM.  Before signal.Notify it ends the process.
Stop ==
  /\ main # "down" /\ unit \in {"activating", "active"}
  /\ \/ /\ main \in {"start", "locked", "pinging", "opened"}
        /\ Die("inactive")
     \/ /\ main \notin {"start", "locked", "pinging", "opened"}
        /\ signal' = TRUE
        /\ unit' = "deactivating"
        /\ UNCHANGED <<main, goroutines, resources, cancelled, clocks, frozen>>

\* systemctl reload: SIGHUP, which nobody handles, and which systemd takes
\* for a clean exit (Restart=on-failure).
Reload ==
  /\ main # "down" /\ unit = "active"
  /\ Die("inactive")

Crash ==
  /\ main # "down"
  /\ Die(IF unit = "deactivating" THEN "inactive" ELSE "restarting")

Freeze ==
  /\ Alive
  /\ frozen' = TRUE
  /\ UNCHANGED <<main, goroutines, resources, signal, cancelled, unit, clocks>>

\* A ping that is due waits for the scheduler, at most MaxLate.
Elapse ==
  /\ main \in Pinging /\ unit \in {"activating", "active"}
  /\ frozen \/ cancelled \/ toPing > 0 \/ late < MaxLate
  /\ toPing' = IF toPing = 0 THEN 0 ELSE toPing - 1
  /\ late' = IF toPing = 0 /\ late < MaxLate THEN late + 1 ELSE late
  /\ silence' = IF unit = "active" /\ silence < WatchdogSec THEN silence + 1 ELSE silence
  /\ UNCHANGED <<main, goroutines, resources, signal, cancelled, unit, frozen>>

WatchdogFires ==
  /\ main # "down" /\ unit = "active" /\ silence = WatchdogSec
  /\ Die("restarting")

\* TimeoutStartSec and TimeoutStopSec, long compared with a healthy process.
Timeout ==
  /\ main # "down" /\ unit \in {"activating", "deactivating"}
  /\ frozen \/ (unit = "deactivating" /\ \E l \in Loop : loops[l] \in {"hung", "stuck"})
  /\ Die(IF unit = "activating" THEN "restarting" ELSE "inactive")

-----------------------------------------------------------------------------
MainStep ==
  \/ AcquireLock \/ StartPinger \/ OpenStore \/ NotifySignals \/ StartLoops \/ NotifyReady
  \/ HandleSignal \/ Wait \/ CancelWAL \/ CloseCheckpoint \/ CloseStore \/ ReleaseLock \/ Exit

Next ==
  \/ MainStep
  \/ \E l \in Loop : Work(l) \/ Finish(l) \/ Query(l) \/ Return(l) \/ Hang(l) \/ LoopEnds(l)
  \/ ServerEnds
  \/ WALWork \/ WALFinish \/ WALQuery \/ WALReturn \/ WALEnds \/ Ping
  \/ Start \/ StartFails \/ Stop \/ Reload \/ Crash \/ Freeze \/ Elapse
  \/ WatchdogFires \/ Timeout

Spec == Init /\ [][Next]_vars

\* The scheduler runs what can run, a tick makes finitely many statements, each
\* gets the connection in its turn, select does not forget ctx.Done for ever,
\* time passes and systemd acts.
FairSpec ==
  /\ Spec
  /\ WF_vars(MainStep) /\ SF_vars(CloseCheckpoint)
  /\ \A l \in Loop : SF_vars(Finish(l)) /\ WF_vars(Return(l)) /\ SF_vars(LoopEnds(l))
  /\ WF_vars(cancelled /\ ServerEnds)
  /\ SF_vars(WALFinish) /\ WF_vars(WALReturn) /\ SF_vars(WALEnds)
  /\ WF_vars(Ping) /\ WF_vars(Elapse) /\ WF_vars(WatchdogFires) /\ WF_vars(Timeout)
  /\ WF_vars(unit = "restarting" /\ Start)

-----------------------------------------------------------------------------
\* Type invariant.
TypeOK ==
  /\ main \in Stages
  /\ server \in {"off", "serving", "ended"}
  /\ loops \in [Loop -> {"off", "ended"} \union Serving]
  /\ wal \in {"off", "waiting", "working", "querying", "ended"}
  /\ lock \in BOOLEAN /\ store \in BOOLEAN /\ signal \in BOOLEAN /\ cancelled \in BOOLEAN
  /\ unit \in {"inactive", "activating", "active", "deactivating", "restarting"}
  /\ toPing \in 0..PingInterval /\ late \in 0..MaxLate /\ silence \in 0..WatchdogSec
  /\ frozen \in BOOLEAN

\* No loop of the wait group is in the middle of a tick when the pool is closed
\* under it, nor before it is open, however the shutdown meets the tickers.
\* The WAL routine, which is not in the wait group, can be.
NoUseAfterClose == \A l \in Loop : loops[l] \in InTick => store

\* What still has the database open without the lock is at most one statement
\* of the WAL routine, which db.Close does not wait for and which found the
\* pool open, in a process that has nothing left to do but exit.
OnlyCheckpointOutlivesLock ==
  ~lock => /\ ~store
           /\ ~Free => main = "unlocked" /\ wal = "querying" /\ \A l \in Loop : loops[l] = "ended"

\* While systemd believes the service active and nobody has stopped it, the
\* store is open and every loop has been started and has not ended.  Of the
\* health server this is not so.
ActiveMeansCollecting ==
  unit = "active" => store /\ ~cancelled /\ \A l \in Loop : loops[l] \in Serving

\* A process that makes progress is never taken for dead: the first ping after
\* READY, and every ping that is late, still come before WatchdogSec.
PingsInTime == unit = "active" /\ ~frozen => silence < WatchdogSec

\* A stop ends the process, and the service is not started again by itself.
ShutdownEnds == unit = "deactivating" ~> main = "down" /\ unit = "inactive"
=============================================================================
