---------------------------- MODULE WalCheckpoint ----------------------------
(***************************************************************************)
(* The write-ahead log of the database and the goroutine that checkpoints  *)
(* it (StartWALCheckpointRoutine of internal/storage): how large the file  *)
(* gets, how long a commit stays unsynced, and how long a stop may take,   *)
(* from the cancel on, when another program (sqlite3, a backup) has the    *)
(* database open and everybody here shares one connection.                 *)
(*                                                                         *)
(* Time passes in units; a step of the program takes none, and what the    *)
(* loops do besides (requests, backoffs) ends with their context.  A frame *)
(* stands for what a burst of commits writes.  What a power loss takes     *)
(* back is the subject of UploadPipeline; here it is how long it could.    *)
(***************************************************************************)
EXTENDS Naturals

CONSTANTS
  CheckpointInterval,  \* storage.wal_checkpoint_interval, one hour by default
  SizeCheckInterval,   \* 30 s
  MaxWALSize,          \* storage.wal_checkpoint_size_mb, in frames
  BusyTimeout,         \* PRAGMA busy_timeout, 10 s
  AutoCheckpoint,      \* SQLite's wal_autocheckpoint, 1000 pages
  LateStatements,      \* bound: statements without a context after the cancel
  MaxRate,             \* bound: frames committed in a unit
  MaxFrames            \* bound: frames of the log

ASSUME WalAssumption ==
  /\ CheckpointInterval \in Nat \ {0} /\ SizeCheckInterval \in Nat \ {0}
  /\ MaxWALSize \in Nat /\ BusyTimeout \in Nat
  /\ AutoCheckpoint \in Nat \ {0} /\ LateStatements \in Nat /\ MaxRate \in Nat /\ MaxFrames \in Nat

VARIABLES
  agent,       \* "up", "cancelled", "stopping" (the loops have ended), "closing", "closed" or "down"
  routine,     \* "select", "sizing" or "wanting" (the connection), "checkpoint" or "ended"
  writer,      \* a transaction of a loop waits for the outsider, on the connection
  asks,        \* statements without a context that the loops still make
  queued,      \* one of them, or Close, is in the queue for the connection
  patience,    \* units the holder of the connection still waits for the outsider
  ticker,      \* units until the periodic ticker fires
  sizeTicker,  \* ... and the size ticker; 0 until it is created
  due,         \* tickers whose channel holds a tick
  outsider,    \* another program: "absent", "connected", or "busy" with a transaction
  frames,      \* frames in the log that no checkpoint has done with
  file,        \* size of the -wal file
  copied,      \* all frames are in the database file: the log may start over
  written,     \* frames committed in this unit
  atRisk,      \* 1 + units since the oldest commit no sync has covered; 0 for none
  calm,        \* units since an outsider's transaction, an error or a crash
  stopAge      \* units since the cancel

waits == <<writer, asks, queued, patience>>
tickers == <<ticker, sizeTicker, due>>
log == <<frames, file, copied>>
vars == <<agent, routine, waits, tickers, outsider, log, written, atRisk, calm, stopAge>>

LongestStop == (LateStatements + 3) * BusyTimeout

\* Bounds on the clocks of the model, beyond what any property asks of them.
ClockBound == CheckpointInterval + SizeCheckInterval + 1
StopBound == LongestStop + 1

\* SetMaxOpenConns(1).
Free == ~writer /\ routine # "checkpoint" /\ agent # "closing"

Larger(a, b) == IF a > b THEN a ELSE b
Tick(clock, bound) == IF clock < bound THEN clock + 1 ELSE clock

-----------------------------------------------------------------------------
(* SQLite *)

\* A checkpoint that nobody is in the way of copies and syncs everything; an
\* outsider's transaction may keep it from some or all of that.
Copies ==
  \/ copied' = TRUE /\ atRisk' = 0
  \/ /\ outsider = "busy"
     /\ copied' = FALSE
     /\ atRisk' \in {0, atRisk}

\* wal_checkpoint(TRUNCATE) that got its locks.
Truncates ==
  /\ frames' = 0 /\ file' = 0 /\ copied' = TRUE
  /\ atRisk' = 0

\* A log that was copied starts over, unless an outsider still reads it.
StartsOver(n) ==
  \/ n = frames + 1 /\ (outsider = "busy" \/ ~copied)
  \/ n = 1 /\ copied

(* A commit that leaves enough frames runs a checkpoint of its own, which   *)
(* does not shorten the file.                                              *)
Writes ==
  /\ \E n \in 1..MaxFrames :
       /\ StartsOver(n)
       /\ frames' = n
       /\ file' = Larger(file, n)
       /\ IF n >= AutoCheckpoint
            THEN \/ copied' = TRUE /\ atRisk' = 0
                 \/ /\ outsider = "busy"
                    /\ copied' = FALSE
                    /\ atRisk' \in {0, Larger(atRisk, 1)}
            ELSE copied' = FALSE /\ atRisk' = Larger(atRisk, 1)
  /\ written' = written + 1

-----------------------------------------------------------------------------
(* The loops *)

\* StoreBatch and MarkUploaded, while nobody else has the write lock ...
Commit ==
  /\ agent = "up" /\ Free
  /\ written < MaxRate
  /\ Writes
  /\ UNCHANGED <<agent, routine, waits, tickers, outsider, calm, stopAge>>

\* Mutant: the transaction does not have the context of the loop.
WriterWaits_NoContext ==
  /\ agent \in {"up", "cancelled"} /\ Free
  /\ written < MaxRate /\ outsider = "busy"
  /\ writer' = TRUE
  /\ patience' = BusyTimeout
  /\ UNCHANGED <<agent, routine, asks, queued, tickers, outsider, log, written, atRisk, calm, stopAge>>

\* ... or an outsider's transaction has it.  BeginTx refuses a context that is
\* done.
WriterWaits ==
  /\ agent = "up" /\ Free
  /\ written < MaxRate /\ outsider = "busy"
  /\ writer' = TRUE
  /\ patience' = BusyTimeout
  /\ UNCHANGED <<agent, routine, asks, queued, tickers, outsider, log, written, atRisk, calm, stopAge>>

\* The lock came, the busy timeout is over, or the cancel interrupts the wait,
\* which it need not do.
WriterReturns ==
  /\ writer
  /\ \/ outsider # "busy" /\ Writes
     \/ (patience = 0 \/ agent = "cancelled") /\ UNCHANGED <<log, written, atRisk>>
  /\ writer' = FALSE /\ patience' = 0
  /\ UNCHANGED <<agent, routine, asks, queued, tickers, outsider, calm, stopAge>>

\* cancel(), with some statements of updateStorageHealth (DBSize, GetWALSize)
\* still to come: three in the tick that is under way, and as many in a tick
\* that select takes in spite of the cancel.
Cancel ==
  /\ agent = "up"
  /\ agent' = "cancelled"
  /\ asks' \in 0..LateStatements
  /\ UNCHANGED <<routine, writer, queued, patience, tickers, outsider, log, written, atRisk, calm, stopAge>>

\* They have no context, so they wait for the connection ...
Statement ==
  /\ asks > 0 /\ Free
  /\ asks' = asks - 1
  /\ queued' = FALSE
  /\ UNCHANGED <<agent, routine, writer, patience, tickers, outsider, log, written, atRisk, calm, stopAge>>

\* ... as Close does.
Queue ==
  /\ asks > 0 \/ agent = "stopping"
  /\ ~Free /\ ~queued
  /\ queued' = TRUE
  /\ UNCHANGED <<agent, routine, writer, asks, patience, tickers, outsider, log, written, atRisk, calm, stopAge>>

\* wg.Wait returns, and cancelWAL is called.
LoopsEnd ==
  /\ agent = "cancelled" /\ ~writer /\ asks = 0
  /\ agent' = "stopping"
  /\ UNCHANGED <<routine, waits, tickers, outsider, log, written, atRisk, calm, stopAge>>

-----------------------------------------------------------------------------
(* The goroutine *)

\* Back in the select; the size ticker is created on the first way there.
ToSelect ==
  /\ routine' = "select"
  /\ sizeTicker' = IF sizeTicker = 0 THEN SizeCheckInterval ELSE sizeTicker

\* GetWALSize fails: an error is logged and that is all.
OnlyLogged == ToSelect /\ calm' = 0

\* Mutant: the threshold is compared with what the last commits added.
ReadSize_Frames ==
  /\ routine = "sizing" /\ Free
  /\ \/ frames > MaxWALSize /\ routine' = "wanting" /\ UNCHANGED <<sizeTicker, calm>>
     \/ frames <= MaxWALSize /\ ToSelect /\ UNCHANGED calm
     \/ OnlyLogged
  /\ UNCHANGED <<agent, waits, ticker, due, outsider, log, written, atRisk, stopAge>>

\* A large log calls for a checkpoint, at startup and at every size tick.
ReadSize ==
  /\ routine = "sizing" /\ Free
  /\ \/ file > MaxWALSize /\ routine' = "wanting" /\ UNCHANGED <<sizeTicker, calm>>
     \/ file <= MaxWALSize /\ ToSelect /\ UNCHANGED calm
     \/ OnlyLogged
  /\ UNCHANGED <<agent, waits, ticker, due, outsider, log, written, atRisk, stopAge>>

\* select may also take a tick when the context is done.
TakeTick(tick, next) ==
  /\ routine = "select"
  /\ tick \in due
  /\ due' = due \ {tick}
  /\ routine' = next
  /\ UNCHANGED <<agent, waits, ticker, sizeTicker, outsider, log, written, atRisk, calm, stopAge>>

\* Mutant: the hour has passed, but a small log is left alone.
PeriodicTick_OnlyLarge == TakeTick("periodic", "sizing")

PeriodicTick == TakeTick("periodic", "wanting")
SizeTick == TakeTick("size", "sizing")

\* performCheckpoint gets the connection.
BeginCheckpoint ==
  /\ routine = "wanting" /\ Free
  /\ \/ routine' = "checkpoint" /\ patience' = BusyTimeout /\ UNCHANGED <<sizeTicker, calm>>
     \/ OnlyLogged /\ UNCHANGED patience
  /\ UNCHANGED <<agent, writer, asks, queued, ticker, due, outsider, log, written, atRisk, stopAge>>

\* The connection goes to whoever is in the queue.
HandOver ==
  /\ queued' = FALSE
  /\ \/ ~queued /\ patience' = 0 /\ UNCHANGED <<agent, asks>>
     \/ queued /\ asks > 0 /\ asks' = asks - 1 /\ patience' = 0 /\ UNCHANGED agent
     \/ queued /\ agent = "stopping" /\ agent' = "closing" /\ patience' = BusyTimeout /\ UNCHANGED asks

\* performCheckpoint returns: done, given up after the busy timeout (the row
\* that says so is not read, so this counts as completed), or failed.
CheckpointReturns ==
  /\ routine = "checkpoint"
  /\ \/ outsider # "busy" /\ Truncates /\ UNCHANGED calm
     \/ outsider = "busy" /\ patience = 0 /\ Copies /\ UNCHANGED <<frames, file, calm>>
     \/ calm' = 0 /\ UNCHANGED <<log, atRisk>>
  /\ ToSelect
  /\ HandOver
  /\ UNCHANGED <<writer, ticker, due, outsider, written, stopAge>>

\* routineCtx.Done().  A checkpoint under way does not look at the context.
RoutineEnds ==
  /\ routine = "select" /\ agent \in {"stopping", "closing", "closed"}
  /\ routine' = "ended"
  /\ due' = {}
  /\ UNCHANGED <<agent, waits, ticker, sizeTicker, outsider, log, written, atRisk, calm, stopAge>>

-----------------------------------------------------------------------------
(* Close and the end of the process *)

CloseBegins ==
  /\ agent = "stopping" /\ Free
  /\ agent' = "closing"
  /\ queued' = FALSE /\ patience' = BusyTimeout
  /\ UNCHANGED <<routine, writer, asks, tickers, outsider, log, written, atRisk, calm, stopAge>>

\* Mutant: Close leaves the log to SQLite, whose last connection removes it.
CloseReturns_NoPragma ==
  /\ agent = "closing"
  /\ agent' = "closed" /\ patience' = 0
  /\ UNCHANGED <<routine, writer, asks, queued, tickers, outsider, log, written, atRisk, calm, stopAge>>

\* The PRAGMA of Close, its result ignored.  The routine may get the connection
\* after it.
CloseReturns ==
  /\ agent = "closing"
  /\ \/ outsider # "busy" /\ Truncates /\ UNCHANGED calm
     \/ outsider = "busy" /\ patience = 0 /\ Copies /\ UNCHANGED <<frames, file, calm>>
     \/ calm' = 0 /\ UNCHANGED <<log, atRisk>>
  /\ agent' = "closed" /\ patience' = 0
  /\ UNCHANGED <<routine, writer, asks, queued, tickers, outsider, written, stopAge>>

Die ==
  /\ agent' = "down" /\ routine' = "ended"
  /\ writer' = FALSE /\ asks' = 0 /\ queued' = FALSE /\ patience' = 0
  /\ ticker' = 0 /\ sizeTicker' = 0 /\ due' = {}
  /\ stopAge' = 0
  /\ UNCHANGED <<outsider, written>>

\* db.Close does not wait for a connection in use, nor does main for the
\* routine.  The last connection to be closed may take the log with it.
Exit ==
  /\ agent = "closed"
  /\ \/ outsider = "absent" /\ Free /\ Truncates
     \/ UNCHANGED <<log, atRisk>>
  /\ Die
  /\ UNCHANGED calm

Crash ==
  /\ agent # "down"
  /\ calm' = 0
  /\ Die
  /\ UNCHANGED <<log, atRisk>>

\* Whoever opens the file first after everybody has left it recovers the log.
\* The routine begins with the size of a log left by the previous run.
Start ==
  /\ agent = "down"
  /\ agent' = "up" /\ routine' = "sizing"
  /\ ticker' = CheckpointInterval
  /\ copied' = (frames = 0 \/ (copied /\ outsider # "absent"))
  /\ UNCHANGED <<waits, sizeTicker, due, outsider, frames, file, written, atRisk, calm, stopAge>>

-----------------------------------------------------------------------------
(* The outsider *)

OutsiderConnects == outsider = "absent" /\ outsider' = "connected" /\ UNCHANGED <<log, atRisk, calm>>
OutsiderBegins == outsider = "connected" /\ outsider' = "busy" /\ calm' = 0 /\ UNCHANGED <<log, atRisk>>
OutsiderEnds == outsider = "busy" /\ outsider' = "connected" /\ UNCHANGED <<log, atRisk, calm>>

\* The last one to leave empties the log.
OutsiderLeaves ==
  /\ outsider = "connected" /\ outsider' = "absent"
  /\ IF agent = "down" THEN Truncates ELSE UNCHANGED <<log, atRisk>>
  /\ UNCHANGED calm

OutsiderActs ==
  /\ OutsiderConnects \/ OutsiderBegins \/ OutsiderEnds \/ OutsiderLeaves
  /\ UNCHANGED <<agent, routine, waits, tickers, written, stopAge>>

-----------------------------------------------------------------------------
(* Time *)

\* A step of the program that needs no time is possible.
Urgent ==
  \/ routine \in {"sizing", "wanting"} /\ Free
  \/ routine = "select" /\ (agent \in {"stopping", "closing", "closed"} \/ due # {})
  \/ (asks > 0 \/ agent = "stopping") /\ (Free \/ ~queued)
  \/ agent = "cancelled" /\ ~writer /\ asks = 0
  \/ agent = "closed"
  \/ /\ writer \/ routine = "checkpoint" \/ agent = "closing"
     /\ outsider # "busy" \/ patience = 0

Fires(clock, interval) == IF clock = 1 THEN interval ELSE IF clock = 0 THEN 0 ELSE clock - 1

\* A tick that finds its channel full is dropped.
Elapse ==
  /\ ~Urgent
  /\ patience' = IF patience > 0 THEN patience - 1 ELSE 0
  /\ ticker' = Fires(ticker, CheckpointInterval)
  /\ sizeTicker' = Fires(sizeTicker, SizeCheckInterval)
  /\ due' = IF agent = "down" THEN {}
            ELSE due \union {t \in {"periodic"} : ticker = 1} \union {t \in {"size"} : sizeTicker = 1}
  /\ written' = 0
  /\ atRisk' = IF atRisk > 0 THEN Tick(atRisk, ClockBound) ELSE 0
  /\ calm' = IF outsider = "busy" \/ agent = "down" THEN calm ELSE Tick(calm, ClockBound)
  /\ stopAge' = IF agent \in {"cancelled", "stopping", "closing"} THEN Tick(stopAge, StopBound) ELSE 0
  /\ UNCHANGED <<agent, routine, writer, asks, queued, outsider, log>>

-----------------------------------------------------------------------------
Init ==
  /\ agent = "down" /\ routine = "ended"
  /\ writer = FALSE /\ asks = 0 /\ queued = FALSE /\ patience = 0
  /\ ticker = 0 /\ sizeTicker = 0 /\ due = {}
  /\ outsider = "absent"
  /\ frames = 0 /\ file = 0 /\ copied = TRUE
  /\ written = 0 /\ atRisk = 0 /\ calm = 0 /\ stopAge = 0

Next ==
  \/ Commit \/ WriterWaits \/ WriterReturns
  \/ Cancel \/ Statement \/ Queue \/ LoopsEnd
  \/ ReadSize \/ PeriodicTick \/ SizeTick \/ BeginCheckpoint \/ CheckpointReturns \/ RoutineEnds
  \/ CloseBegins \/ CloseReturns \/ Exit \/ Crash \/ Start
  \/ OutsiderActs
  \/ Elapse

Spec == Init /\ [][Next]_vars

-----------------------------------------------------------------------------
(* Properties *)

TypeOK ==
  /\ agent \in {"up", "cancelled", "stopping", "closing", "closed", "down"}
  /\ routine \in {"select", "sizing", "wanting", "checkpoint", "ended"}
  /\ writer \in BOOLEAN /\ asks \in 0..LateStatements /\ queued \in BOOLEAN
  /\ patience \in 0..BusyTimeout
  /\ ticker \in 0..CheckpointInterval /\ sizeTicker \in 0..SizeCheckInterval
  /\ due \subseteq {"periodic", "size"}
  /\ outsider \in {"absent", "connected", "busy"}
  /\ frames \in 0..MaxFrames /\ file \in 0..MaxFrames /\ copied \in BOOLEAN
  /\ written \in 0..MaxRate
  /\ atRisk \in 0..ClockBound /\ calm \in 0..ClockBound /\ stopAge \in 0..StopBound

\* When no outsider's transaction, no error and no crash came in between for
\* as long as the size is checked, the file is larger than the threshold by
\* one commit at the most, or no larger than what SQLite itself lets the log
\* grow to.  A file that grew behind a long read is cut at the next check,
\* which SQLite never does.
LogFileBounded ==
  agent # "down" /\ calm > SizeCheckInterval =>
    file <= Larger(MaxWALSize + 1, AutoCheckpoint)

\* ... and a commit is at the mercy of a power loss for one checkpoint
\* interval at the most, be the log ever so small.
CommitsGetSynced ==
  agent # "down" /\ calm > CheckpointInterval => atRisk <= CheckpointInterval + 1

\* A stop without such trouble leaves nothing at risk, with sqlite3 connected
\* or not: the routine and Close take turns on the one connection, whichever
\* comes first, and nobody writes after Close has emptied the log.
CleanStopSyncs == agent = "down" /\ calm > 0 => atRisk = 0 /\ file = 0

\* From the cancel to the exit, even a transaction that never ends costs a busy
\* timeout for the write that is under way, one for Close, one for a checkpoint
\* that gets the connection before it, and one more for a checkpoint before
\* each statement that the loops still make without a context.
StopIsBounded == stopAge <= LongestStop
=============================================================================
