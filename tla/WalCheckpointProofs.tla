-------------------------- MODULE WalCheckpointProofs --------------------------
(***************************************************************************)
(* Proofs about WalCheckpoint, for every interval, threshold, timeout and  *)
(* rate.  Three of the four invariants hold because of one observation:    *)
(* when time passes and the last trouble is over, the routine is in its    *)
(* select with no tick waiting, so a ticker that fires is followed by its  *)
(* checkpoint before the next unit begins.  The bound of a stop is the     *)
(* budget that each state of it still has.                                 *)
(***************************************************************************)
EXTENDS WalCheckpoint, TLAPS

-----------------------------------------------------------------------------
(* The inductive invariant *)

\* Each phase of the agent goes with what holds the connection and who waits.
Phases ==
  /\ agent = "up" => routine # "ended" /\ ticker # 0
  /\ agent = "closing" => routine # "checkpoint"
  /\ routine = "select" => sizeTicker # 0
  /\ writer => /\ agent \in {"up", "cancelled"} /\ routine # "checkpoint"
               /\ written < MaxRate
  /\ asks > 0 => agent = "cancelled"
  /\ queued => asks > 0 \/ (agent = "stopping" /\ routine = "checkpoint")

\* An outsider's transaction is trouble, and frames are part of the file.
Trouble == outsider = "busy" => calm = 0
FramesFit == frames <= file

\* Once Close has returned nothing is written.
Emptied == agent \in {"closed", "down"} /\ calm > 0 => atRisk = 0 /\ file = 0

\* A busy timeout for each statement still to come.
Rest(k) == k * BusyTimeout

\* How long the stop may last from here: what is left of the patience of
\* whoever has the connection, and a busy timeout for everybody who may get
\* it before Close has returned.
Left ==
  CASE agent = "cancelled" /\ writer -> patience + Rest(asks) + 2 * BusyTimeout
    [] agent = "cancelled" /\ ~writer /\ queued /\ routine = "checkpoint" ->
         patience + Rest(asks) + BusyTimeout
    [] agent = "cancelled" /\ ~writer /\ ~(queued /\ routine = "checkpoint") ->
         Rest(asks) + 2 * BusyTimeout
    [] agent = "stopping" /\ queued -> patience + BusyTimeout
    [] agent = "stopping" /\ ~queued -> 2 * BusyTimeout
    [] agent = "closing" -> patience
    [] OTHER -> 0

StopClock ==
  /\ agent \in {"up", "down"} => stopAge = 0
  /\ stopAge + Left <= LongestStop

\* Units since the periodic ticker fired last.
SinceTick == CheckpointInterval - ticker

\* Free of trouble since then, a commit is as old as that; at the moment the
\* ticker fires it may be older until the checkpoint returns.
Synced ==
  /\ agent = "up" /\ calm > SinceTick =>
       \/ atRisk <= SinceTick + 1
       \/ /\ ticker = CheckpointInterval
          /\ "periodic" \in due \/ routine \in {"wanting", "checkpoint"}
  /\ agent # "down" /\ calm > CheckpointInterval => atRisk <= CheckpointInterval + 1

\* Units since the size ticker fired last.
SinceSizeTick == IF sizeTicker = 0 THEN 0 ELSE SizeCheckInterval - sizeTicker

\* What the next commit cannot push over the limit: a log that SQLite starts
\* over, one that it has not yet checkpointed, or one below the threshold.
Low ==
  /\ file <= Larger(MaxWALSize + 1, AutoCheckpoint)
  /\ copied \/ frames < AutoCheckpoint \/ file <= MaxWALSize

Cut ==
  /\ agent = "up" /\ calm > SinceSizeTick =>
       \/ Low
       \/ /\ sizeTicker = SizeCheckInterval
          /\ "size" \in due \/ routine \in {"sizing", "wanting", "checkpoint"}
  /\ agent # "down" /\ calm > SizeCheckInterval => Low

IInv ==
  /\ TypeOK /\ Phases /\ Trouble /\ FramesFit /\ Emptied /\ StopClock
  /\ Synced /\ Cut

-----------------------------------------------------------------------------
Numbers ==
  /\ asks \in 0..LateStatements
  /\ patience \in 0..BusyTimeout
  /\ ticker \in 0..CheckpointInterval /\ sizeTicker \in 0..SizeCheckInterval
  /\ frames \in 0..MaxFrames /\ file \in 0..MaxFrames
  /\ written \in 0..MaxRate
  /\ atRisk \in 0..ClockBound /\ calm \in 0..ClockBound /\ stopAge \in 0..StopBound

Modes ==
  /\ agent \in {"up", "cancelled", "stopping", "closing", "closed", "down"}
  /\ routine \in {"select", "sizing", "wanting", "checkpoint", "ended"}
  /\ due \subseteq {"periodic", "size"}
  /\ outsider \in {"absent", "connected", "busy"}

Flags == writer \in BOOLEAN /\ queued \in BOOLEAN /\ copied \in BOOLEAN

\* The type invariant, part by part.
LEMMA TypeParts == TypeOK <=> Numbers /\ Modes /\ Flags
BY Zenon DEF TypeOK, Numbers, Modes, Flags

\* The bounds of the clocks are beyond every interval.
LEMMA ClockBoundLarge ==
  /\ ClockBound \in Nat
  /\ ClockBound > CheckpointInterval
  /\ ClockBound > SizeCheckInterval
BY WalAssumption DEF ClockBound

\* One statement fewer is one busy timeout less.
LEMMA RestFacts ==
  /\ \A k \in 0..LateStatements : Rest(k) \in Nat /\ Rest(k) <= Rest(LateStatements)
  /\ \A k \in 1..LateStatements : Rest(k - 1) + BusyTimeout = Rest(k)
  /\ LongestStop = Rest(LateStatements) + 3 * BusyTimeout
  /\ LongestStop \in Nat /\ StopBound = LongestStop + 1
<1> USE WalAssumption
<1>1. ASSUME NEW m \in Nat, NEW n \in Nat, m <= n PROVE m * BusyTimeout <= n * BusyTimeout
  BY <1>1
<1>2. ASSUME NEW k \in 0..LateStatements PROVE Rest(k) \in Nat /\ Rest(k) <= Rest(LateStatements)
  BY <1>1 DEF Rest
<1>3. ASSUME NEW k \in 1..LateStatements PROVE Rest(k - 1) + BusyTimeout = Rest(k)
  BY DEF Rest
<1>4. LongestStop = Rest(LateStatements) + 3 * BusyTimeout
  BY DEF Rest, LongestStop
<1>5. LongestStop \in Nat /\ StopBound = LongestStop + 1
  BY <1>4, <1>2 DEF StopBound
<1>6. QED
  BY <1>2, <1>3, <1>4, <1>5

\* An empty log satisfies the invariant.
LEMMA InitHolds == Init => IInv
<1> SUFFICES ASSUME Init PROVE IInv
  OBVIOUS
<1>1. TypeOK
  <2>1. Numbers /\ Modes
    BY WalAssumption, ClockBoundLarge, RestFacts DEF Init, Numbers, Modes
  <2>2. Flags
    BY Zenon DEF Init, Flags
  <2>3. QED
    BY <2>1, <2>2, TypeParts
<1>2. Phases /\ Trouble /\ FramesFit /\ Emptied /\ Synced /\ Cut
  BY DEF Init, Phases, Trouble, FramesFit, Emptied, Synced, Cut
<1>3. Left = 0
  BY DEF Init, Left
<1>4. QED
  BY <1>1, <1>2, <1>3, RestFacts DEF Init, IInv, StopClock

-----------------------------------------------------------------------------
(* Every step preserves every part *)

\* The counters stay naturals.
LEMMA NumbersStep == TypeOK /\ Phases /\ Next => Numbers'
<1> SUFFICES ASSUME Numbers, Modes, Flags, Phases, Next PROVE Numbers'
  BY TypeParts, Zenon
<1> USE WalAssumption, ClockBoundLarge, RestFacts DEF Numbers, Modes, Flags, Phases
<1>1. CASE Commit \/ WriterWaits \/ WriterReturns
  BY <1>1 DEF Commit, WriterWaits, WriterReturns, Writes, StartsOver, Larger, Free, waits, tickers, log
<1>2. CASE Cancel \/ Statement \/ Queue \/ LoopsEnd
  BY <1>2 DEF Cancel, Statement, Queue, LoopsEnd, Free, waits, tickers, log
<1>3. CASE ReadSize \/ PeriodicTick \/ SizeTick \/ BeginCheckpoint
  BY <1>3 DEF ReadSize, PeriodicTick, SizeTick, TakeTick, BeginCheckpoint, ToSelect, OnlyLogged,
              Free, waits, tickers, log
<1>4. CASE CheckpointReturns
  BY <1>4 DEF CheckpointReturns, HandOver, ToSelect, Truncates, Copies, log
<1>5. CASE RoutineEnds \/ CloseBegins \/ CloseReturns
  BY <1>5 DEF RoutineEnds, CloseBegins, CloseReturns, Truncates, Copies, Free, waits, tickers, log
<1>6. CASE Exit \/ Crash \/ Start
  BY <1>6 DEF Exit, Crash, Start, Die, Truncates, Free, waits, tickers, log
<1>7. CASE OutsiderActs
  BY <1>7 DEF OutsiderActs, OutsiderConnects, OutsiderBegins, OutsiderEnds, OutsiderLeaves,
              Truncates, waits, tickers, log
<1>8. CASE Elapse
  BY <1>8 DEF Elapse, Urgent, Fires, Tick, Free, waits, tickers, log
<1>9. QED
  BY <1>1, <1>2, <1>3, <1>4, <1>5, <1>6, <1>7, <1>8 DEF Next

\* The modes of the agent, its goroutine and the outsider keep their types.
LEMMA ModesStep == TypeOK /\ Next => Modes'
<1> SUFFICES ASSUME Numbers, Modes, Flags, Next PROVE Modes'
  BY TypeParts, Zenon
<1> USE WalAssumption, ClockBoundLarge DEF Numbers, Modes, Flags
<1>1. CASE Commit \/ WriterWaits \/ WriterReturns
  BY <1>1 DEF Commit, WriterWaits, WriterReturns, Writes, StartsOver, Larger, Free, waits, tickers, log
<1>2. CASE Cancel \/ Statement \/ Queue \/ LoopsEnd
  BY <1>2 DEF Cancel, Statement, Queue, LoopsEnd, Free, waits, tickers, log
<1>3. CASE ReadSize \/ PeriodicTick \/ SizeTick \/ BeginCheckpoint
  BY <1>3 DEF ReadSize, PeriodicTick, SizeTick, TakeTick, BeginCheckpoint, ToSelect, OnlyLogged,
              Free, waits, tickers, log
<1>4. CASE CheckpointReturns
  BY <1>4 DEF CheckpointReturns, HandOver, ToSelect, Truncates, Copies, log
<1>5. CASE RoutineEnds \/ CloseBegins \/ CloseReturns
  BY <1>5 DEF RoutineEnds, CloseBegins, CloseReturns, Truncates, Copies, Free, waits, tickers, log
<1>6. CASE Exit \/ Crash \/ Start
  BY <1>6 DEF Exit, Crash, Start, Die, Truncates, Free, waits, tickers, log
<1>7. CASE OutsiderActs
  BY <1>7 DEF OutsiderActs, OutsiderConnects, OutsiderBegins, OutsiderEnds, OutsiderLeaves,
              Truncates, waits, tickers, log
<1>8. CASE Elapse
  BY <1>8 DEF Elapse, Urgent, Fires, Tick, Free, waits, tickers, log
<1>9. QED
  BY <1>1, <1>2, <1>3, <1>4, <1>5, <1>6, <1>7, <1>8 DEF Next

\* ... and so do the flags.
LEMMA FlagsStep == TypeOK /\ Next => Flags'
<1> SUFFICES ASSUME Numbers, Modes, Flags, Next PROVE Flags'
  BY TypeParts, Zenon
<1> USE WalAssumption, ClockBoundLarge DEF Numbers, Modes, Flags
<1>1. CASE Commit \/ WriterWaits \/ WriterReturns
  BY <1>1 DEF Commit, WriterWaits, WriterReturns, Writes, StartsOver, Larger, Free, waits, tickers, log
<1>2. CASE Cancel \/ Statement \/ Queue \/ LoopsEnd
  BY <1>2 DEF Cancel, Statement, Queue, LoopsEnd, Free, waits, tickers, log
<1>3. CASE ReadSize \/ PeriodicTick \/ SizeTick \/ BeginCheckpoint
  BY <1>3 DEF ReadSize, PeriodicTick, SizeTick, TakeTick, BeginCheckpoint, ToSelect, OnlyLogged,
              Free, waits, tickers, log
<1>4. CASE CheckpointReturns
  BY <1>4 DEF CheckpointReturns, HandOver, ToSelect, Truncates, Copies, log
<1>5. CASE RoutineEnds \/ CloseBegins \/ CloseReturns
  BY <1>5 DEF RoutineEnds, CloseBegins, CloseReturns, Truncates, Copies, Free, waits, tickers, log
<1>6. CASE Exit \/ Crash \/ Start
  BY <1>6 DEF Exit, Crash, Start, Die, Truncates, Free, waits, tickers, log
<1>7. CASE OutsiderActs
  BY <1>7 DEF OutsiderActs, OutsiderConnects, OutsiderBegins, OutsiderEnds, OutsiderLeaves,
              Truncates, waits, tickers, log
<1>8. CASE Elapse
  BY <1>8 DEF Elapse, Urgent, Fires, Tick, Free, waits, tickers, log
<1>9. QED
  BY <1>1, <1>2, <1>3, <1>4, <1>5, <1>6, <1>7, <1>8 DEF Next

\* Whoever has the connection or waits for it may.
LEMMA PhasesStep == TypeOK /\ Phases /\ Next => Phases'
<1> SUFFICES ASSUME Numbers, Modes, Flags, Phases, Next PROVE Phases'
  BY TypeParts, Zenon
<1> USE WalAssumption, ClockBoundLarge DEF Numbers, Modes, Flags, Phases
<1>1. CASE Commit \/ WriterWaits \/ WriterReturns
  BY <1>1 DEF Commit, WriterWaits, WriterReturns, Writes, StartsOver, Larger, Free, waits, tickers, log
<1>2. CASE Cancel \/ Statement \/ Queue \/ LoopsEnd
  BY <1>2 DEF Cancel, Statement, Queue, LoopsEnd, Free, waits, tickers, log
<1>3. CASE ReadSize \/ PeriodicTick \/ SizeTick \/ BeginCheckpoint
  BY <1>3 DEF ReadSize, PeriodicTick, SizeTick, TakeTick, BeginCheckpoint, ToSelect, OnlyLogged,
              Free, waits, tickers, log
<1>4. CASE CheckpointReturns
  BY <1>4 DEF CheckpointReturns, HandOver, ToSelect, Truncates, Copies, log
<1>5. CASE RoutineEnds \/ CloseBegins \/ CloseReturns
  BY <1>5 DEF RoutineEnds, CloseBegins, CloseReturns, Truncates, Copies, Free, waits, tickers, log
<1>6. CASE Exit \/ Crash \/ Start
  BY <1>6 DEF Exit, Crash, Start, Die, Truncates, Free, waits, tickers, log
<1>7. CASE OutsiderActs
  BY <1>7 DEF OutsiderActs, OutsiderConnects, OutsiderBegins, OutsiderEnds, OutsiderLeaves,
              Truncates, waits, tickers, log
<1>8. CASE Elapse
  BY <1>8 DEF Elapse, Urgent, Fires, Tick, Free, waits, tickers, log
<1>9. QED
  BY <1>1, <1>2, <1>3, <1>4, <1>5, <1>6, <1>7, <1>8 DEF Next

\* A transaction of the outsider is trouble.
LEMMA TroubleStep == TypeOK /\ Trouble /\ Next => Trouble'
<1> SUFFICES ASSUME Numbers, Modes, Flags, Trouble, Next PROVE Trouble'
  BY TypeParts, Zenon
<1> USE WalAssumption, ClockBoundLarge DEF Numbers, Modes, Flags, Trouble
<1>1. CASE Commit \/ WriterWaits \/ WriterReturns
  BY <1>1 DEF Commit, WriterWaits, WriterReturns, Writes, StartsOver, Larger, Free, waits, tickers, log
<1>2. CASE Cancel \/ Statement \/ Queue \/ LoopsEnd
  BY <1>2 DEF Cancel, Statement, Queue, LoopsEnd, Free, waits, tickers, log
<1>3. CASE ReadSize \/ PeriodicTick \/ SizeTick \/ BeginCheckpoint
  BY <1>3 DEF ReadSize, PeriodicTick, SizeTick, TakeTick, BeginCheckpoint, ToSelect, OnlyLogged,
              Free, waits, tickers, log
<1>4. CASE CheckpointReturns
  BY <1>4 DEF CheckpointReturns, HandOver, ToSelect, Truncates, Copies, log
<1>5. CASE RoutineEnds \/ CloseBegins \/ CloseReturns
  BY <1>5 DEF RoutineEnds, CloseBegins, CloseReturns, Truncates, Copies, Free, waits, tickers, log
<1>6. CASE Exit \/ Crash \/ Start
  BY <1>6 DEF Exit, Crash, Start, Die, Truncates, Free, waits, tickers, log
<1>7. CASE OutsiderActs
  BY <1>7 DEF OutsiderActs, OutsiderConnects, OutsiderBegins, OutsiderEnds, OutsiderLeaves,
              Truncates, waits, tickers, log
<1>8. CASE Elapse
  BY <1>8 DEF Elapse, Urgent, Fires, Tick, Free, waits, tickers, log
<1>9. QED
  BY <1>1, <1>2, <1>3, <1>4, <1>5, <1>6, <1>7, <1>8 DEF Next

\* The frames of the log fit in its file.
LEMMA FramesStep == TypeOK /\ FramesFit /\ Next => FramesFit'
<1> SUFFICES ASSUME Numbers, Modes, Flags, FramesFit, Next PROVE FramesFit'
  BY TypeParts, Zenon
<1> USE WalAssumption, ClockBoundLarge DEF Numbers, Modes, Flags, FramesFit
<1>1. CASE Commit \/ WriterWaits \/ WriterReturns
  BY <1>1 DEF Commit, WriterWaits, WriterReturns, Writes, StartsOver, Larger, Free, waits, tickers, log
<1>2. CASE Cancel \/ Statement \/ Queue \/ LoopsEnd
  BY <1>2 DEF Cancel, Statement, Queue, LoopsEnd, Free, waits, tickers, log
<1>3. CASE ReadSize \/ PeriodicTick \/ SizeTick \/ BeginCheckpoint
  BY <1>3 DEF ReadSize, PeriodicTick, SizeTick, TakeTick, BeginCheckpoint, ToSelect, OnlyLogged,
              Free, waits, tickers, log
<1>4. CASE CheckpointReturns
  BY <1>4 DEF CheckpointReturns, HandOver, ToSelect, Truncates, Copies, log
<1>5. CASE RoutineEnds \/ CloseBegins \/ CloseReturns
  BY <1>5 DEF RoutineEnds, CloseBegins, CloseReturns, Truncates, Copies, Free, waits, tickers, log
<1>6. CASE Exit \/ Crash \/ Start
  BY <1>6 DEF Exit, Crash, Start, Die, Truncates, Free, waits, tickers, log
<1>7. CASE OutsiderActs
  BY <1>7 DEF OutsiderActs, OutsiderConnects, OutsiderBegins, OutsiderEnds, OutsiderLeaves,
              Truncates, waits, tickers, log
<1>8. CASE Elapse
  BY <1>8 DEF Elapse, Urgent, Fires, Tick, Free, waits, tickers, log
<1>9. QED
  BY <1>1, <1>2, <1>3, <1>4, <1>5, <1>6, <1>7, <1>8 DEF Next

\* What Close has emptied stays empty.
LEMMA EmptiedStep == TypeOK /\ Phases /\ Trouble /\ FramesFit /\ Emptied /\ Next => Emptied'
<1> SUFFICES ASSUME Numbers, Modes, Flags, Phases, Trouble, FramesFit, Emptied, Next PROVE Emptied'
  BY TypeParts, Zenon
<1> USE WalAssumption, ClockBoundLarge DEF Numbers, Modes, Flags, Phases, Trouble, FramesFit, Emptied
<1>1. CASE Commit \/ WriterWaits \/ WriterReturns
  BY <1>1 DEF Commit, WriterWaits, WriterReturns, Writes, StartsOver, Larger, Free, waits, tickers, log
<1>2. CASE Cancel \/ Statement \/ Queue \/ LoopsEnd
  BY <1>2 DEF Cancel, Statement, Queue, LoopsEnd, Free, waits, tickers, log
<1>3. CASE ReadSize \/ PeriodicTick \/ SizeTick \/ BeginCheckpoint
  BY <1>3 DEF ReadSize, PeriodicTick, SizeTick, TakeTick, BeginCheckpoint, ToSelect, OnlyLogged,
              Free, waits, tickers, log
<1>4. CASE CheckpointReturns
  BY <1>4 DEF CheckpointReturns, HandOver, ToSelect, Truncates, Copies, log
<1>5. CASE RoutineEnds \/ CloseBegins \/ CloseReturns
  BY <1>5 DEF RoutineEnds, CloseBegins, CloseReturns, Truncates, Copies, Free, waits, tickers, log
<1>6. CASE Exit \/ Crash \/ Start
  BY <1>6 DEF Exit, Crash, Start, Die, Truncates, Free, waits, tickers, log
<1>7. CASE OutsiderActs
  BY <1>7 DEF OutsiderActs, OutsiderConnects, OutsiderBegins, OutsiderEnds, OutsiderLeaves,
              Truncates, waits, tickers, log
<1>8. CASE Elapse
  BY <1>8 DEF Elapse, Urgent, Fires, Tick, Free, waits, tickers, log
<1>9. QED
  BY <1>1, <1>2, <1>3, <1>4, <1>5, <1>6, <1>7, <1>8 DEF Next

\* No step of a stop takes more than its share of the budget.
LEMMA StopStep == TypeOK /\ Phases /\ StopClock /\ Next => StopClock'
<1> SUFFICES ASSUME Numbers, Modes, Flags, Phases, StopClock, Next PROVE StopClock'
  BY TypeParts, Zenon
<1> USE WalAssumption, RestFacts DEF Numbers, Modes, Flags, Phases, StopClock, Left
<1>1. CASE Commit \/ WriterWaits \/ WriterReturns
  BY <1>1 DEF Commit, WriterWaits, WriterReturns, Writes, StartsOver, Larger, Free, waits, tickers, log
<1>2. CASE Cancel \/ Statement \/ Queue \/ LoopsEnd
  BY <1>2 DEF Cancel, Statement, Queue, LoopsEnd, Free, waits, tickers, log
<1>3. CASE ReadSize \/ PeriodicTick \/ SizeTick \/ BeginCheckpoint
  BY <1>3 DEF ReadSize, PeriodicTick, SizeTick, TakeTick, BeginCheckpoint, ToSelect, OnlyLogged,
              Free, waits, tickers, log
<1>4. CASE CheckpointReturns
  BY <1>4 DEF CheckpointReturns, HandOver, ToSelect, Truncates, Copies, log
<1>5. CASE RoutineEnds \/ CloseBegins \/ CloseReturns
  BY <1>5 DEF RoutineEnds, CloseBegins, CloseReturns, Truncates, Copies, Free, waits, tickers, log
<1>6. CASE Exit \/ Crash \/ Start
  BY <1>6 DEF Exit, Crash, Start, Die, Truncates, Free, waits, tickers, log
<1>7. CASE OutsiderActs
  BY <1>7 DEF OutsiderActs, OutsiderConnects, OutsiderBegins, OutsiderEnds, OutsiderLeaves,
              Truncates, waits, tickers, log
<1>8. CASE Elapse
  BY <1>8 DEF Elapse, Urgent, Fires, Tick, Free, waits, tickers, log
<1>9. QED
  BY <1>1, <1>2, <1>3, <1>4, <1>5, <1>6, <1>7, <1>8 DEF Next

\* When a unit passes without trouble while the agent is up, the routine is
\* in its select and nothing is due: the first disjunct holds and stays.
LEMMA SyncedStep == TypeOK /\ Phases /\ Trouble /\ Emptied /\ Synced /\ Next => Synced'
<1> SUFFICES ASSUME Numbers, Modes, Flags, Phases, Trouble, Emptied, Synced, Next PROVE Synced'
  BY TypeParts, Zenon
<1> USE WalAssumption, ClockBoundLarge DEF Numbers, Modes, Flags, Phases, Trouble, Emptied, Synced, SinceTick
<1>1. CASE Commit \/ WriterWaits \/ WriterReturns
  BY <1>1 DEF Commit, WriterWaits, WriterReturns, Writes, StartsOver, Larger, Free, waits, tickers, log
<1>2. CASE Cancel \/ Statement \/ Queue \/ LoopsEnd
  BY <1>2 DEF Cancel, Statement, Queue, LoopsEnd, Free, waits, tickers, log
<1>3. CASE ReadSize \/ PeriodicTick \/ SizeTick \/ BeginCheckpoint
  BY <1>3 DEF ReadSize, PeriodicTick, SizeTick, TakeTick, BeginCheckpoint, ToSelect, OnlyLogged,
              Free, waits, tickers, log
<1>4. CASE CheckpointReturns
  BY <1>4 DEF CheckpointReturns, HandOver, ToSelect, Truncates, Copies, log
<1>5. CASE RoutineEnds \/ CloseBegins \/ CloseReturns
  BY <1>5 DEF RoutineEnds, CloseBegins, CloseReturns, Truncates, Copies, Free, waits, tickers, log
<1>6. CASE Exit \/ Crash \/ Start
  BY <1>6 DEF Exit, Crash, Start, Die, Truncates, Free, waits, tickers, log
<1>7. CASE OutsiderActs
  BY <1>7 DEF OutsiderActs, OutsiderConnects, OutsiderBegins, OutsiderEnds, OutsiderLeaves,
              Truncates, waits, tickers, log
<1>8. CASE Elapse
  BY <1>8 DEF Elapse, Urgent, Fires, Tick, Free, waits, tickers, log
<1>9. QED
  BY <1>1, <1>2, <1>3, <1>4, <1>5, <1>6, <1>7, <1>8 DEF Next

\* ... likewise; besides, a commit onto a low log leaves a low log.
LEMMA CutStep == TypeOK /\ Phases /\ Trouble /\ FramesFit /\ Emptied /\ Cut /\ Next => Cut'
<1> SUFFICES ASSUME Numbers, Modes, Flags, Phases, Trouble, FramesFit, Emptied, Cut, Next PROVE Cut'
  BY TypeParts, Zenon
<1> USE WalAssumption, ClockBoundLarge DEF Numbers, Modes, Flags, Phases, Trouble, FramesFit, Emptied, Cut, SinceSizeTick, Low, Larger
<1>1. CASE Commit \/ WriterWaits \/ WriterReturns
  BY <1>1 DEF Commit, WriterWaits, WriterReturns, Writes, StartsOver, Larger, Free, waits, tickers, log
<1>2. CASE Cancel \/ Statement \/ Queue \/ LoopsEnd
  BY <1>2 DEF Cancel, Statement, Queue, LoopsEnd, Free, waits, tickers, log
<1>3. CASE ReadSize \/ PeriodicTick \/ SizeTick \/ BeginCheckpoint
  BY <1>3 DEF ReadSize, PeriodicTick, SizeTick, TakeTick, BeginCheckpoint, ToSelect, OnlyLogged,
              Free, waits, tickers, log
<1>4. CASE CheckpointReturns
  BY <1>4 DEF CheckpointReturns, HandOver, ToSelect, Truncates, Copies, log
<1>5. CASE RoutineEnds \/ CloseBegins \/ CloseReturns
  BY <1>5 DEF RoutineEnds, CloseBegins, CloseReturns, Truncates, Copies, Free, waits, tickers, log
<1>6. CASE Exit \/ Crash \/ Start
  BY <1>6 DEF Exit, Crash, Start, Die, Truncates, Free, waits, tickers, log
<1>7. CASE OutsiderActs
  BY <1>7 DEF OutsiderActs, OutsiderConnects, OutsiderBegins, OutsiderEnds, OutsiderLeaves,
              Truncates, waits, tickers, log
<1>8. CASE Elapse
  BY <1>8 DEF Elapse, Urgent, Fires, Tick, Free, waits, tickers, log
<1>9. QED
  BY <1>1, <1>2, <1>3, <1>4, <1>5, <1>6, <1>7, <1>8 DEF Next

\* Every step keeps the invariant.
LEMMA Inductive == IInv /\ [Next]_vars => IInv'
<1> SUFFICES ASSUME IInv, [Next]_vars PROVE IInv'
  OBVIOUS
<1> USE DEF IInv
<1>1. CASE Next
  <2>1. TypeOK'
    <3>1. Numbers' /\ Modes' /\ Flags'
      BY <1>1, NumbersStep, ModesStep, FlagsStep, Zenon
    <3>2. QED
      BY <3>1, Zenon DEF TypeOK, Numbers, Modes, Flags
  <2>2. Phases' /\ Trouble' /\ FramesFit' /\ Emptied'
    BY <1>1, PhasesStep, TroubleStep, FramesStep, EmptiedStep, Zenon
  <2>3. StopClock' /\ Synced' /\ Cut'
    BY <1>1, StopStep, SyncedStep, CutStep, Zenon
  <2>4. QED
    BY <2>1, <2>2, <2>3, Zenon
<1>2. CASE UNCHANGED vars
  <2>1. UNCHANGED <<agent, routine, writer, asks, queued, patience, ticker, sizeTicker, due,
                    outsider, frames, file, copied, written, atRisk, calm, stopAge>>
    BY <1>2, Zenon DEF vars, waits, tickers, log
  <2>2. TypeOK' /\ Phases' /\ Trouble' /\ FramesFit' /\ Emptied'
    BY <2>1, Zenon DEF TypeOK, Phases, Trouble, FramesFit, Emptied
  <2>3. Left' = Left
    BY <2>1 DEF Left
  <2>4. StopClock'
    BY <2>1, <2>3 DEF StopClock
  <2>5. Synced' /\ Cut'
    BY <2>1 DEF Synced, SinceTick, Cut, SinceSizeTick, Low
  <2>6. QED
    BY <2>2, <2>4, <2>5, Zenon
<1>3. QED
  BY <1>1, <1>2

\* What the invariant says of the properties of the run.
LEMMA Consequences ==
  IInv => StopIsBounded /\ CommitsGetSynced /\ LogFileBounded /\ CleanStopSyncs
<1> SUFFICES ASSUME Numbers, Modes, Flags, Phases, Emptied, StopClock, Synced, Cut
             PROVE  StopIsBounded /\ CommitsGetSynced /\ LogFileBounded /\ CleanStopSyncs
  BY TypeParts, Zenon DEF IInv
<1> USE WalAssumption DEF Numbers, Modes, Flags
<1>1. Left \in Nat
  BY RestFacts DEF Left
<1>2. StopIsBounded
  BY <1>1, RestFacts DEF StopClock, StopIsBounded
<1>3. CommitsGetSynced
  BY DEF Synced, CommitsGetSynced
<1>4. LogFileBounded
  BY DEF Cut, Low, LogFileBounded
<1>5. CleanStopSyncs
  BY DEF Emptied, CleanStopSyncs
<1>6. QED
  BY <1>2, <1>3, <1>4, <1>5

-----------------------------------------------------------------------------
(* The theorems *)

\* The inductive invariant holds in every reachable state.
THEOREM Invariance == Spec => []IInv
<1>1. QED
  BY InitHolds, Inductive, PTL DEF Spec

\* Every variable keeps its type.
THEOREM TypeCorrect == Spec => []TypeOK
<1>1. IInv => TypeOK
  BY DEF IInv
<1>2. QED
  BY Invariance, <1>1, PTL

\* Whatever the intervals, the -wal file comes back under its limit: the size
\* tick finds the routine free, and the file it leaves cannot outgrow the
\* limit by more than a commit.
THEOREM FileStaysSmall == Spec => []LogFileBounded
<1>1. QED
  BY Invariance, Consequences, PTL

\* Every commit is synced within a checkpoint interval after the last trouble.
THEOREM SyncedWithinInterval == Spec => []CommitsGetSynced
<1>1. QED
  BY Invariance, Consequences, PTL

\* A clean stop leaves an empty log.
THEOREM StopSyncs == Spec => []CleanStopSyncs
<1>1. QED
  BY Invariance, Consequences, PTL

\* Whoever holds the database, and for how long, a stop is over three busy
\* timeouts after the cancel, and one more for each statement that a loop
\* still makes without a context.
THEOREM StopDelay == Spec => []StopIsBounded
<1>1. QED
  BY Invariance, Consequences, PTL
=============================================================================
