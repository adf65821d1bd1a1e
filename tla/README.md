# tidewatch: specifications, model checking and proofs

tidewatch is a monitoring agent for small devices: collectors sample the
machine, the samples go into a SQLite file, and an upload loop sends them in
batches to VictoriaMetrics. This directory holds TLA+ modules of the parts of it
whose correctness depends on order, failure and time, the TLC configurations
that check them, and TLAPS proofs of the results that matter most.

## The system

| Component | State | Operations | Interacts with |
|---|---|---|---|
| SQLite store (`internal/storage`) | table `metrics` with a unique `dedup_key` and the flag `uploaded`; the write-ahead log | `StoreBatch`, `QueryUnuploaded`, `MarkUploaded`, `GetPendingCount`, `CheckpointWAL`, `Close` | every loop of `main.go` |
| Upload loop (`runUploadLoop`, `uploadMetrics`) | the batch of the tick, last upload time and error | one tick at a time: query, upload, mark, report | store, uploader, health, meta-metrics |
| HTTP uploader (`internal/uploader`) | the chunks of a call, attempt number | sort, split, compress; send, retry, back off | remote, context of the process |
| WAL checkpoint routine | two tickers | checkpoint hourly, or when the log exceeds 64 MB | store (on the one connection of all), other programs on the file |
| Schema migrations | `schema_version`, columns, unique index | versions 1 to 5, one transaction each | store at start |
| Process lock (`internal/lockfile`) | lock file, its `flock`, its PID | `Acquire`, `Release` | other starts of the agent |
| Health checker (`internal/health`) | last status of each component | `Update...Status`, `GetReport`, HTTP handlers | every loop |
| Collectors (`internal/collector`) | counters of the last reading (cpu, network) | `Collect` | operating system, store |
| Meta-metrics (`internal/monitoring`) | counters, duration samples | `Record...`, `CollectMetrics` | every loop, store |
| Clock skew check | none | one request per interval | remote, health, store |
| Lifecycle (`main`), watchdog | context, wait group | start order, READY, shutdown | systemd, all goroutines |
| Configuration, logging, models, receiver, packaging | | | |

What is hard here: one process with a goroutine per loop, all on one table; a
remote whose acknowledgement can be lost; a database that can be rolled back by
a power loss (`synchronous=NORMAL`); a cancel that can come at any point of a
batch; several starts of the service racing for one lock file; a health status
composed of reports of different ages; other programs on the database file;
counters of the system that restart, and interfaces and cores that come and go.

What makes each part correct:

* store and upload loop: a row is flagged only after the remote stored its
  metric; a flagged row is not offered again; the oldest goes first; pending
  rows drain; shutdown terminates.
* lock: at most one instance has the database open, the lock file names it, and
  no failed start keeps the lock.
* health: a further failure never makes the status better, lasting failures
  surface, recovered components return to ok, an ok is not too old.
* WAL routine: the log file does not grow for ever, commits get synced, a stop
  is not held up.
* migrations: a file is always of the version it says, and a metric is in it once.
* collectors: no series goes back without a gap, no gap lasts, the cap is hard.
* meta-metrics: a percentile is about the latest durations.
* lifecycle: no loop is in the middle of a tick when the store is closed, what may
  outlive the lock is known, READY is true, pings are in time.

## Modules

| Module | Models | Runs |
|---|---|---|
| `AtLeastOnceOutbox` | what the agent promises: record, deliver, confirm, lose | as a property of `pipeline` |
| `UploadPipeline` | store, upload goroutine, retries, network, remote, process | `pipeline` |
| `MCUploadPipeline` | the timestamps of the instance | `pipeline` |
| `UploadPipelineProofs` | theorems about `UploadPipeline` | |
| `LockFile`, `MCLockFile` | `Acquire` and `Release` over a file system with inodes | `lockfile` |
| `LockFileProofs` | theorems about `LockFile` | |
| `HealthRules` | thresholds, uploader status, overall status | through `HealthChecker`, `UploadTiming` |
| `HealthChecker` | the reporting loops over a failing environment | `health*` |
| `HealthProofs` | theorems about both | |
| `ChunkBuilder` | `BuildChunks`, its recursion a stack of loops | `uploader` |
| `UploadTiming` | ticker, timeouts, backoffs and the age of the upload status | `uploader`, `timing_late` |
| `Settings` | validation, wiring and defaults of intervals and retries | `uploader` |
| `MCUploader` | the three side by side: files, metrics with weights, a compressor | `uploader` |
| `Backoff` | the delay after a failed attempt | through `UploadTiming`, `Settings` |
| `UploaderProofs` | theorems about `UploadTiming`, `Settings` and `ChunkBuilder` | |
| `Migrations` | the versions of the database file and its dedup keys | `migrations*` |
| `MigrationsProofs` | theorems about `Migrations` | |
| `WalCheckpoint` | the write-ahead log, its routine, the one connection, the stop and another program, in time | `wal` |
| `WalCheckpointProofs` | theorems about `WalCheckpoint` | |
| `NetworkCollector`, `CPUCollector` | the two collectors that keep a baseline | `collectors` |
| `MetaMetrics` | windows of durations, percentiles, series of the agent about itself | `collectors` |
| `MCCollectors` | the three side by side | `collectors` |
| `MeasurementProofs` | theorems about the three | |
| `Lifecycle`, `MCLifecycle` | `main` from the lock to the last deferred call, under systemd | `lifecycle*` |
| `LifecycleProofs` | theorems about `Lifecycle` | |

Definitions named `X_Something` after a comment that starts with "Mutant" are
deliberately wrong versions of `X`; nothing uses them. Each shows that a
property fails when the code has that bug.

### UploadPipeline

A metric is its dedup key (the unique index makes rows and keys one-to-one), with
a timestamp and whether its value is a string. `db` is the committed table.
`wal` is the set of tables a power loss may leave: every commit adds one, a
checkpoint reduces it to the present one, because the connection runs with
`synchronous=NORMAL`, which syncs the log only at a checkpoint. A process crash
loses nothing that was committed. `pc` follows the upload goroutine:

| `pc` | in the code | left by |
|---|---|---|
| `idle` | `select` of `runUploadLoop` | `Tick`, `LoopExits` |
| `next` | between two chunks of `UploadAndGetIDs` | `NextChunk` |
| `attempt` | head of the retry loop | `SendRequest`, `AttemptCancelled` |
| `sent` | inside `client.Do` | `ChunkAccepted`, `AttemptRefused`, `AnswerLost`, `AttemptTimedOut`, `NonRetryable` |
| `backoff` | `select` on `time.After` | `BackoffElapsed`, `AttemptCancelled` |
| `mark` | before `MarkUploaded` | `MarkUploaded`, `MarkFails` |
| `exited` | after `return` | `CloseStore` |

The remote either stores a whole chunk or refuses it; a request the client has
given up on stays in `late` and may arrive at any later time, also after a
restart. The collectors' side is `StoreBatch` of any set of metrics at any time.

Left out: backoff durations (see `UploadTiming`), row ids (`AUTOINCREMENT` never reuses one, so
an id names one dedup key), values, and the failure of `BuildChunks` for a value JSON
cannot encode or a single metric over the size limit; for the rest of the batch
that failure is like that of a metric refused by the remote (`Rejected`).

### LockFile

`path` is the directory entry, `lock` and `content` belong to the file behind
it, since `flock` locks the file and not its name. This is what makes removing
the file on release wrong, as the comment in `Release` says; the mutant
`CloseFile_Removes` shows it. An instance may die at any step and start again.

### HealthRules and HealthChecker

`HealthRules` holds the pure rules. In `HealthChecker` each loop of `main.go`
reports what it sees of an environment that breaks and recovers at any time. The
agent has an enabled remote: without one `main` starts no upload loop
(main.go:313), and nobody reports a broken database. `NoFailureHidesAnother`
compares any two maps that follow each other: when no component got better, the
answer did not either. A component that has not reported ranks between ok and
trouble, for a healthy collector that reports first lets one that fails look like
some of them and not like all.

### ChunkBuilder

A batch is sorted (any order of equal timestamps, as `sort.Slice` is not stable)
and cut into runs. A run over the byte limit goes to a recursive call with half
the size, which sorts its slice again: `loops` is the stack of the calls under
way, each with the position it is at, and one step is one run of the innermost
(`SkipRun`, `AddChunk`, `Bisect`, `GiveUp`, `Return`). A chunk is kept as the
positions of its run. Of the compressor nothing is assumed but that sizes are
natural numbers: gzip may make less of a whole than of a part of it, so a metric
that is over the limit alone may be sent with others, and `FailsOnlyForGiant`
promises a failure for it only when that never happens (`PartsFit`).

### UploadTiming

One unit of time is as long as one wishes; program steps take none. The ticker
has a channel of one tick, so ticks that fall into a long upload are dropped.
`age` is the time since `lastUploadTime`, `status` what the checker holds. A tick
may last `LongestTick`: every chunk with every attempt timing out and every
backoff at its longest. `AgeBound` caps the clock one interval above the longest
age that `OkIsBounded` admits, so a violation would be seen. How many rows are
pending when a tick reports is any of the numbers that the thresholds tell apart.

### Settings

A value that is absent, unparsable, zero, negative or out of range goes through
three layers: `Config.Validate`, the wiring in `main` (where absent, `nil` and
zero differ) and `NewHTTPUploaderWithConfig`. `uploader` is what comes out, and a
chunk that is refused again and again shows how often and how fast it is tried.
Without a retry block the uploader's own default makes four attempts; any field
of the block, be it with its default value, makes it three. No document says
which is meant, so no property does; a negative `max_attempts` passes validation
and means one attempt, or four when it is the only field.

### Migrations

`disk` is the committed file: version, columns, unique index, rows with the
metric they show and their key. `tx` is the file as the connection sees it.
`log` is what a power loss may leave, as in `UploadPipeline`. A run starts from a
file that does not exist, from one of M1 (version 0 or 1: no tags, no keys,
nothing unique), or from one of an older M2 agent (version 3 or 4: keys without
the value type, which is what version 5 is there to replace). `Rekey` is one
iteration of the two backfill loops.

### WalCheckpoint

A frame stands for what a burst of commits writes, `file` is the size of the
`-wal` file, which SQLite does not shorten, `frames` what is in use of it.
`outsider` is another program on the file (sqlite3, as docs/deployment.md:397
suggests, or a backup): its transactions keep a checkpoint from finishing and a
transaction of a loop from beginning to write. The PRAGMA then waits for the busy
timeout (`patience`) and returns a row that says so; the code does not read the
row, so `CheckpointReturns` and `CloseReturns` go on as if it had worked. `due`
holds the ticks in the channels of the two tickers; the size ticker is created
after the startup check.

The pool has one connection. A loop that waits for the write lock (`writer`), a
checkpoint and `Close` hold it, and whoever else wants it stands in the queue
(`queued`): the loops with the statements they still make, then `Close`; the
routine, when it wants the connection, may come before or after them. The stop
begins with `Cancel`. Statements with the context of a loop are refused or
interrupted from then on (`WriterReturns`; that an interrupt takes effect is not
assumed, only that the busy timeout ends the wait). `DBSize` and `GetWALSize` have
no context (main.go:726-732): three in the tick of the storage loop that is under
way, and three in every tick that `select` takes in spite of the cancel.
`LateStatements` bounds them. `wg.Wait` returns (`LoopsEnd`) when they are done.

`Urgent` lets time pass only when no step of the program can be taken at once,
with one exception that the code allows: a writer need not write. `calm` is the
time since the last trouble (an outsider's transaction, an error, a crash) and is
what the first three properties are conditional on. `stopAge` runs from the cancel
to the return of `Close`. The bound on it is `LateStatements + 3` busy timeouts:
with three statements it is 60 s, with six 90 s, which is what systemd gives by
default, the unit having no `TimeoutStopSec`.

### NetworkCollector, CPUCollector and MetaMetrics

A reading of `/proc/net/dev` is a sequence of lines, each interface once, in any
order; two counters stand for the six. `CollectNetwork` is the whole of
`collect`: the cap, the parsing, the comparison with the previous reading and the
new baseline. In `CPUCollector` times are unsigned words and every difference is
one of words (`Minus`); `NextReadings` says what `/proc/stat` may do: `iowait` may
fall (proc(5)), a core that was offline may restart. In `MetaMetrics` `recorded`
is a history of all durations, against which the windows are judged. The uploader
is a source like the collectors. The three share nothing, so in a behaviour of
`MCCollectors` one of them moves.

### Lifecycle

`main` names how far the function has come; after `wg.Wait` the stages are its
deferred calls, last first. A loop of the wait group is waiting in its `select`, in
a tick, in a statement on the connection, hung in either, or ended. The health
server is in the wait group too but is no loop: `ListenAndServe` may fail at any
time (health.go:401-403), which is logged (main.go:298-300) and leaves the rest
running. The WAL routine and the pinger are not in the wait group.

`store` says that the pool is open. `db.Close` does not wait for a connection in
use: the routine's statement may go on after it, with the database file open,
until the process is gone. Its context is the background one, and it may take a
tick after the cancel and after `Close`, and then gets an error from the closed
pool: `WALWork` has no guard but the `select`, `WALQuery` needs an open pool and
the connection. `OnlyCheckpointOutlivesLock` says what can be left when the lock
has been released.

`unit` is the state that systemd has of `debian/tidewatch.service`. Time is counted
for the pinger only. `StartLimitBurst` is left out, and so are the reasons for
which a start may fail.

## Runs

| Run | Bounds | Shows |
|---|---|---|
| `pipeline` | 2 numeric metrics, 1 string metric as old as the first, batch 2, chunk 2, 1 retry, 1 late request per chunk; fair | safety, refinement of the outbox, draining, shutdown |
| `lockfile` | 3 instances, 2 files, symmetric | exclusion, PID, no orphan lock |
| `health` | 2 collectors, the thresholds of the code; fair | failures add up; lasting failures and recoveries are reported |
| `health_guide` | the same, without fairness | a claim that does not hold |
| `uploader` | timing: 2 chunks, 2 retries, interval and timeout 2, cap 2, Retry-After to 3 | how stale a status can be |
| | settings: all intervals with a plain retry block, all retry blocks with plain intervals | tickers, attempts, delays |
| | chunks: batches of up to 4, 2 timestamps, weights to one over the limit of 2, sizes 0 to 3 with 4 as default; a compressor that gains on equal timestamps; fair | completeness, limits, when it fails, what is not cut, that halving ends |
| `timing_late` | the timing of `uploader` | a claim that does not hold |
| `wal` | intervals 4 and 3, threshold 3, busy timeout 1, SQLite's own checkpoint at 2, 3 late statements, one commit per unit, 6 frames | size of the log, syncs, duration of a stop |
| `collectors` | 3 interfaces, one excluded, cap 1, counters to 2, 2 cores, times to 1; 2 sources, window of 3, 5 records | gaps, cap, samples, percentiles |
| `migrations` | 3 rows, 2 names, 2 tag sets, 2 types, all three origins; fair | files, keys, progress |
| `migrations_duplicates` | 2 rows | a claim that does not hold |
| `lifecycle` | 2 loops, watchdog of 4, pinger up to 1 late; fair | shutdown order, READY, pings |
| `lifecycle_hang` | 1 loop | a claim that does not hold |

Two numeric metrics are the smallest batch that can fail half way; one retry the
smallest retry loop that can be exhausted, cancelled or succeed late; one late
request per chunk the smallest network that can deliver it twice. The
table has more rows than a batch, so that a limit which counts a string or a flagged
row starves another (`QueryUnuploaded_LimitFirst`); the numeric rows alone fit into
one. A third
instance is needed in `lockfile` because the classical error has one releasing,
one holding the removed file and one creating a new file.

In `wal` the threshold lies above the size at which SQLite starts the log over,
as 64 MB lie above its 1000 pages: only a log that grew behind an outsider is
ever cut. A unit is 10 s for the busy timeout and the size check (30 s); the
checkpoint interval is not to scale, one unit longer than a size check is enough to
see which of the two brings a checkpoint. Three interfaces are an excluded one, one within the cap and one
without; counters up to 2 can fall and still be above an older value, which is
where a stale baseline shows; a window of three with five records moves twice.

Four metrics are enough for `BuildChunks` to cut a batch into a full and a short
run and to halve twice, and its compressor to hide a metric over the limit behind
another. Three rows are enough for two legacy rows to meet in the
index while a third is written. Intervals and retry settings are varied one
group at a time because no code looks at both.

In `uploader` the three parts share nothing, and in a behaviour one of them starts
from more than a plain state. Two of them describe a call that ends, so the run does
not look for deadlocks. In the other runs a process may always crash, be stopped or be
started, or time goes on.

## Where the code and its documents differ

Four claims have a run that refutes them:

* `migrations_duplicates`: "Schema migration from M1 to M2 succeeds"
  (docs/MILESTONE-2.md:2820). An M1 file with two rows of one name, time and
  device never opens.
* `lifecycle_hang`: "systemd will restart if process hangs"
  (docs/deployment.md:176). The pinger looks at nothing but its ticker.
* `health_guide`: "error - Critical Failure, triggered by any of" all collectors,
  the uploader, the storage, 10 minutes with a backlog
  (docs/health-monitoring.md:126-131). `calculateOverallStatus` takes the error of
  every component that is no collector: a clock-skew URL out of reach is enough.
* `timing_late`: degraded on "no successful upload between 2×-10× interval
  threshold" (docs/health-monitoring.md:120, also 111 and 159-160). A report comes
  at the end of a tick, with the error of the tick or with a `lastUploadTime` just
  set, so neither threshold of `UpdateUploaderStatus` is ever passed: lateness shows
  as an error or, as long as the tick lasts, as the ok of the tick before. `degraded`
  means a backlog. `OkIsBounded` gives the bound that holds for an ok.

Others were met while the models were written; they can be read off the models
and have no run:

* "Keep chunks small (50 metrics) to bound blast radius on failure"
  (docs/MILESTONE-2.md:641): a chunk that fails ends the batch, and the next tick
  starts with the same oldest rows, so a chunk the remote refuses for good keeps
  every younger metric at home.
* "1-2 uncommitted transactions at risk" (docs/MILESTONE-2.md:301): with
  `synchronous=NORMAL` everything since the last checkpoint is, up to the interval
  that `CommitsGetSynced` states.
* "WAL checkpoint runs and keeps WAL < 64 MB" (docs/MILESTONE-2.md:195): only while
  no other program holds a transaction, and then up to a commit above. The row in
  which the PRAGMA says that it was kept from its work is discarded, and the
  checkpoint is logged as completed.
* "values 0-100" for cpu usage (docs/MILESTONE-2.md:538): only the total is checked
  for going back (cpu_linux.go:49). When `iowait` falls by one while busy time grows
  by two, the total grows by one and the usage is 200 %. `SampleAfterProgress` asks
  for a percentage only when no component fell.
* "equivalent for our use case" (metrics.go:310): truncating `P * N - 0.5` is the
  nearest rank for the median, but the 95th percentile of 11 to 19 samples, for
  example, and the 99th of 51 to 99 are one rank lower. `IndexIsNearRank` is what
  holds.
* The gauges of the meta-metrics, `time.skew_ms` among them, are emitted as 0 until
  they are measured.
* "No duplicate metrics uploaded (even across crashes/retries)"
  (docs/MILESTONE-2.md:4009): delivery is at least once. `AnswerLost`, `MarkFails`
  or a crash before `MarkUploaded` lead to a second delivery, which is what the
  abstract specification allows.
* "Save checkpoint per successful chunk" (docs/milestone2/todo.md:47): a batch that
  fails at its second chunk flags nothing.
* "At least 1 collector failing (but not all)" is degraded
  (docs/health-monitoring.md:119): until the others have reported, one failing
  collector counts as all of them.
* "Error: Database I/O failures" for storage (docs/health-monitoring.md:169):
  `UpdateStorageStatus` has no error; the upload loop reports one instead
  (`DatabaseFailureIsReported`).
* "Maximum backoff delay" (uploader.go:56): Retry-After is not capped, and jitter
  is added after the cap.
* "No silent fallbacks" (README.md:262): `clock_skew_check_interval` is not
  validated, and an unparsable one becomes the default.
* `ExecReload=/bin/kill -HUP $MAINPID` (debian/tidewatch.service:14): SIGHUP is not
  handled and ends the agent.
* "returns 200 if the process is running" for `/health/live`
  (docs/health-monitoring.md:64, docs/deployment.md:202): the health server may have
  ended, on an address in use or any later error; the code logs it
  (main.go:298-300), nobody starts the server again, and the unit stays active
  (`ServerEnds`). `ActiveMeansCollecting` is about the loops only.
* "Wait for all goroutines to finish" (main.go:400): the WAL routine is not in the
  wait group. Its last statement may have the file open when the lock is released,
  and a stop waits for as many busy timeouts as `StopIsBounded` says.

## Fairness

`FairSpec` of `UploadPipeline` assumes of the program what the Go scheduler and
the timers give: the ticker fires, a request ends at the latest with the 30 s
timeout of the client, a backoff elapses, a cancelled loop reaches its `select`.
Of the environment it assumes that a chunk offered again and again is accepted
again and again (strong fairness, because the chunk is on offer only now and
then) and that marking does not fail every time. Crashes are not fair:
`PendingDrains` speaks of behaviours in which the process finally stays up.
`FairSpec` of `HealthChecker` says that every loop keeps its ticker.

`FairSpec` of `Migrations` runs every statement and restarts after a failed start;
crashes, power losses and I/O errors are not fair, and `MigrationEnds` excuses
behaviours in which they never cease. `FairSpec` of `Lifecycle` assumes that
`main` and a working goroutine go on, that a `select` with both channels ready
does not choose the ticker for ever (strong fairness of `LoopEnds` and `WALEnds`,
as Go chooses at random), that a tick makes finitely many statements (`Finish`,
`WALFinish`), that statements return, that the queue for the one connection is
served (`CloseCheckpoint`), that the health server follows the cancel, and that
time passes and systemd acts. A hung loop and a frozen process do not go on.
`UploaderSpec` says that a call of `BuildChunks` is not interrupted.

## Proofs

`UploadPipelineProofs` proves, for any set of metrics, timestamps, batch and chunk
sizes and retry counts, the type invariant, the three safety invariants and the
refinement. None of these is inductive. `IInv` adds:

* `LogInv`: in the live table and in every table the log may bring back, flags are
  on rows, rows were once committed, and flagged rows were accepted;
* `BatchInv`: what of the batch is no longer in `todo` or `chunk` has been accepted,
  what remains is younger than the chunk, and nothing of it is flagged;
* `LateInv`: a request that is still under way holds numeric metrics that were
  once committed.

The proof has one lemma per part, with one step per action, and the refinement
follows step by step from the invariant. `LockFileProofs` proves exclusion and
its companions for any number of instances and files, from an invariant that
says which instance has which file open at each point of `Acquire`.

`LifecycleProofs` proves the safety properties of `Lifecycle` for any number of
loops and any watchdog timeout. Its invariant ties lock, store, cancellation, the
state of systemd's unit and the loops to the stage of `main`; none of the four
properties says enough about the stage to be inductive. That the connection is
free at the release of the lock, save for the WAL routine, follows from the loops
having ended before the first deferred call; nothing in it is about the server. `ClockInv` is the
argument for the watchdog: silence and the time to the next ping together never
exceed the ping interval by more than the scheduler's delay, and `PingMargin`
that this is less than the timeout.

`HealthProofs`: the overall status depends on the map only. `OverallStatus` brings
the rule, which speaks of the components present, into two conditions on the map;
`Monotone` compares them for two maps. The difficult case is all collectors in
error: when one of them gets better the condition may go over into degraded, and
an absent one that reports ok does the same.

`UploaderProofs` has three parts.

* `UploadTiming`: `OkIsBounded` alone is not inductive, since it says nothing of
  what is still to come before the next report. `Budget` adds to the age what is
  left of the current request or backoff, of the attempts after it and of the
  chunks after that, at their worst; while the last report was ok the sum never
  exceeds an interval and the longest tick. Each step either moves time from the
  rest to the age or discards some of the rest. That delays are bounded needs
  facts about powers (`PowerDef`, `PowerPositive`, `PowerMonotone`), which are
  proved by induction: the numbers for which a fact holds form a set, and one
  that lacks a number lacks a smallest one (`AllNumbers`).
* `Settings`: whatever is configured, the uploader that comes out of the three
  layers is `SoundUploader`: its delays are positive, its jitter a percentage, its
  multiplier at least one, as `UploadTiming` assumes. The properties about
  tickers, attempts and delays follow for any durations and any limits, the last
  one with the lemmas about powers.
* `ChunkBuilder`: for any batch, order of equal timestamps, compressor, limit and
  size. `Complete` speaks of the end only, and the halving reorders slices of what
  is being cut, so `ChunkInv` says where everything is at every step:
  `LoopsNested`, that each loop of the stack lies in the run that its caller has
  just left, so the innermost is at the first position not yet dealt with;
  `ChunksInPlace`, that chunks are intervals before that position, in order,
  within the limits, and every numeric metric before it is in one; `FailedOnGiant`;
  `OnGrid`, that the outermost loop stands at a multiple of the size asked for, and
  the others within one of its runs; and `SentWhole`, that runs behind it which
  fit are chunks as they are. A slice sorted again keeps its metrics and lies
  beyond all chunks, hence `Bisect` disturbs none of this.

`MigrationsProofs`: `FileInv` says of a committed file, and of every file that a
power loss may bring back, which columns, index and keys go with its version,
`TxInv` what a transaction under way has changed of it. That all keys of versions
3 and 4 are of one format is what makes version 5's rewriting free of collisions.

`WalCheckpointProofs`: `StopClock` adds to the time a stop has taken what is `Left`:
the patience of whoever has the connection, and a busy timeout for everybody who
may get it before `Close` has returned, a checkpoint before each late statement
included; a step that hands the connection over pays for it out of this budget.
`Phases` says who may be in the queue and behind whom, without which a statement
could be overtaken by two checkpoints. `Synced` and `Cut` relate age and size to the time since their
ticker fired last; the step that matters is the passing of time, which finds the
routine in its `select` with nothing due unless there is trouble.

`MeasurementProofs`: what the network collector holds is a function of the last
reading (`NetInv`), so the cap is a fact about sequences of lines: the last tracked
line found fewer entries than the cap, the first one turned away found as many.
For the CPU the baseline is the last reading, and words are numbers as long as
`CPUAssumption` excludes an overflow. For the meta-metrics `MetaInv` says that a
window is the end of all that was recorded (`KeepIsLatest`), and `PlaceIsTaken`
that every place of a sorted window holds a sample: take the smallest one with
more samples up to it than come before the place. What the percentiles promise is
then counting, with the indexes bounded by `IndexShares`.

Assumptions are the named ones of the modules: timestamps are numbers, sizes are
positive, markers such as `None` are none of the values they stand beside
(`NoKeyAssumption`, `NoneIsNoStat`, `NoCPUIsNoStat`), no machine runs long enough to
overflow its counters of time, and the scheduler is late by less than the half of
the watchdog timeout that the pinger leaves. TLC evaluates all of them.

## Only model-checked

Liveness (`PendingDrains`, `ShutdownCompletes`, `MigrationEnds`, `ShutdownEnds`,
`Returns`, the health properties under fairness), which the prover does not reach,
and what the four runs that expect a violation show. Every invariant and every
action property that a passing run checks is also proved.

## Not modelled

Logging, the development receiver and packaging keep no state that a step could
break. The collectors without a baseline (disk, memory, load, uptime,
temperature, the SRT mock) translate one reading into metrics; their results are
the metrics of `StoreBatch`. On darwin all collectors are mocks. The arithmetic of
the clock skew check on one HTTP answer, the parsing of YAML, durations and `/proc`
and the wording of JSON are input and output. The statistics queries of the store
(`Count`, `GetMetricStats`, `DeleteBefore`, `Vacuum`) are called by tests only. Four
hazards have no property, as PROJECT.json says: a start that systemd times out
during a long version 5, a signal that nobody handles, the unsigned difference of a
time of a core that falls, and a chunk refused for good in front of all others. In
the last two the code does go wrong, as described above, and nothing that holds
could be stated about it.

## Plan

Done: the core (`UploadPipeline` with the outbox, `LockFile`, `HealthChecker`), what is
around it (`ChunkBuilder`, `UploadTiming`, `Settings`, `Migrations`, `Lifecycle`), the
parts that measure (`WalCheckpoint`, the collectors, `MetaMetrics`) and proofs about
all of them.

Left: a composition of `LockFile` and `Lifecycle` (several agents, each with its own
shutdown, and one database), and one of `WalCheckpoint` with `UploadPipeline`, in
which the set of tables a power loss may leave follows the frames of the log.
