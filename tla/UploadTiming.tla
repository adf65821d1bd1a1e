---------------------------- MODULE UploadTiming ----------------------------
(***************************************************************************)
(* The upload goroutine in time: ticker, request timeouts, backoffs, and   *)
(* the age of the uploader status it leaves in the health checker.  What   *)
(* is sent and stored is the subject of UploadPipeline.                    *)
(*                                                                         *)
(* Time passes in units; a step of the program takes none.  A delay of the *)
(* code is rounded to units.                                               *)
(***************************************************************************)
EXTENDS HealthRules, Backoff

CONSTANTS
  Timeout,            \* of one HTTP request, 30 s in the code
  InitialBackoff,     \* remote.retry.initial_backoff
  MaxBackoff,         \* remote.retry.max_backoff
  BackoffMultiplier,  \* remote.retry.backoff_multiplier, in halves
  JitterPercent,      \* remote.retry.jitter_percent
  MaxRetries,         \* remote.retry.max_attempts - 1
  MaxRetryAfter,      \* bound: largest Retry-After of the remote; the code has none
  MaxChunks           \* bound: chunks of one batch

ASSUME TimingAssumption ==
  /\ Timeout \in Nat \ {0} /\ InitialBackoff \in Nat \ {0} /\ MaxBackoff \in Nat \ {0}
  /\ BackoffMultiplier \in Nat \ {0} /\ JitterPercent \in 0..100
  /\ MaxRetries \in Nat /\ MaxRetryAfter \in Nat /\ MaxChunks \in Nat \ {0}

VARIABLES
  phase,      \* "waiting", "request", "backoff" or "report"
  left,       \* units until the request times out or the backoff ends
  ticker,     \* units until the ticker fires
  due,        \* the ticker's channel holds a tick
  chunks,     \* chunks still to be accepted, the current one included
  attempt,    \* number of the current attempt
  failed,     \* the tick ended in an error (lastUploadErr # nil)
  age,        \* units since lastUploadTime
  status      \* the uploader component of the health checker

tick == <<chunks, attempt, failed>>
vars == <<phase, left, ticker, due, tick, age, status>>

Bands == {0, PendingOKLimit, PendingErrorLimit}

-----------------------------------------------------------------------------
(* Delays *)

\* Longest delay between two attempts, and longest tick.
LongestDelay == Max((MaxBackoff * (100 + JitterPercent)) \div 100, MaxRetryAfter + 1)
LongestTick == MaxChunks * ((MaxRetries + 1) * Timeout + MaxRetries * LongestDelay)

\* Bound on the clock of the model: beyond this, an age is not told apart.
AgeBound == UploadInterval + LongestTick + UploadInterval

Exponential(k) == ExponentialBackoff(InitialBackoff, BackoffMultiplier, MaxBackoff, k)

\* calculateBackoff for an error without Retry-After.
Jittered(k) ==
  {d \in 0..(2 * Exponential(k)) :
     /\ 100 * d >= Exponential(k) * (100 - JitterPercent)
     /\ 100 * d <= Exponential(k) * (100 + JitterPercent)}

\* ... and for a 429 that asks to wait; up to one second of jitter is added.
AfterRateLimit == UNION {{r, r + 1} : r \in 1..MaxRetryAfter}

-----------------------------------------------------------------------------
Init ==
  /\ phase = "waiting" /\ left = 0
  /\ ticker = UploadInterval /\ due = FALSE
  /\ chunks = 0 /\ attempt = 0 /\ failed = FALSE
  /\ age = 0
  /\ status = Absent

\* One unit passes when no step of the program is possible at once.  A tick
\* that finds the channel full is dropped.
Elapse ==
  /\ \/ phase = "waiting" /\ ~due
     \/ phase \in {"request", "backoff"} /\ left > 0
  /\ left' = IF left > 0 THEN left - 1 ELSE 0
  /\ ticker' = IF ticker = 1 THEN UploadInterval ELSE ticker - 1
  /\ due' = (due \/ ticker = 1)
  /\ age' = IF age < AgeBound THEN age + 1 ELSE age
  /\ UNCHANGED <<phase, tick, status>>

Finish(error) ==
  /\ phase' = "report"
  /\ failed' = error
  /\ left' = 0 /\ chunks' = 0 /\ attempt' = 0

Send(k) ==
  /\ phase' = "request"
  /\ left' = Timeout
  /\ attempt' = k

\* The query fails, finds nothing, or yields a batch of some chunks.
StartTick ==
  /\ phase = "waiting" /\ due
  /\ due' = FALSE
  /\ \/ \E error \in BOOLEAN : Finish(error)
     \/ /\ chunks' \in 1..MaxChunks
        /\ Send(0)
        /\ UNCHANGED failed
  /\ UNCHANGED <<ticker, age, status>>

ChunkAccepted ==
  /\ phase = "request"
  /\ \/ /\ chunks = 1
        /\ Finish(FALSE)
     \/ /\ chunks > 1
        /\ chunks' = chunks - 1
        /\ Send(0)
        /\ UNCHANGED failed
  /\ UNCHANGED <<ticker, due, age, status>>

\* Mutant: a delay also after the last attempt.
AttemptFails_SleepsFirst ==
  /\ phase = "request"
  /\ \/ /\ attempt <= MaxRetries
        /\ left' \in Jittered(attempt) \union AfterRateLimit
        /\ phase' = "backoff"
        /\ UNCHANGED tick
     \/ Finish(TRUE)
  /\ UNCHANGED <<ticker, due, age, status>>

\* An error answer, a transport error or the timeout; not retryable, the
\* last attempt, or a delay before the next one.
AttemptFails ==
  /\ phase = "request"
  /\ \/ /\ attempt < MaxRetries
        /\ left' \in Jittered(attempt) \union AfterRateLimit
        /\ phase' = "backoff"
        /\ UNCHANGED tick
     \/ Finish(TRUE)
  /\ UNCHANGED <<ticker, due, age, status>>

BackoffElapsed ==
  /\ phase = "backoff" /\ left = 0
  /\ Send(attempt + 1)
  /\ UNCHANGED <<ticker, due, chunks, failed, age, status>>

\* A tick without error moves lastUploadTime, also when nothing was sent.
Report ==
  /\ phase = "report"
  /\ age' = IF failed THEN age ELSE 0
  /\ \E pending \in Bands : status' = UploaderStatus(failed, age', pending)
  /\ phase' = "waiting"
  /\ UNCHANGED <<left, ticker, due, tick>>

Next ==
  \/ Elapse
  \/ StartTick \/ ChunkAccepted \/ AttemptFails \/ BackoffElapsed \/ Report

Spec == Init /\ [][Next]_vars

-----------------------------------------------------------------------------
\* Type invariant.
TypeOK ==
  /\ phase \in {"waiting", "request", "backoff", "report"}
  /\ left \in 0..Max(Timeout, LongestDelay)
  /\ ticker \in 1..UploadInterval /\ due \in BOOLEAN
  /\ chunks \in 0..MaxChunks /\ attempt \in 0..MaxRetries /\ failed \in BOOLEAN
  /\ age \in 0..AgeBound
  /\ status \in Status \union {Absent}

\* How stale an ok can be: the status is only written at the end of a tick,
\* so it may be as old as an interval and the longest series of timeouts and
\* backoffs of all chunks, and no older.
OkIsBounded == status = "ok" => age <= UploadInterval + LongestTick

-----------------------------------------------------------------------------
(* A claim of the monitoring guide that does not hold *)

\* "No successful upload between 2x-10x interval threshold" makes the agent
\* degraded.  UpdateUploaderStatus has these two degrees of lateness, but the
\* loop calls it right after it has set lastUploadTime, or with the error that
\* takes precedence; during a long tick it does not call it at all.
LateIsDegraded ==
  status # Absent /\ age > UploadOKInterval /\ age <= UploadDegradedInterval
    => status \in {"degraded", "error"}
=============================================================================
