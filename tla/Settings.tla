------------------------------ MODULE Settings ------------------------------
(***************************************************************************)
(* From the configuration file to the tickers and the retries of the       *)
(* running agent: Validate of internal/config/config.go, the wiring in     *)
(* main of cmd/tidewatch/main.go and the defaults of                       *)
(* NewHTTPUploaderWithConfig of internal/uploader/uploader.go.  Three      *)
(* layers have their own idea of what an absent value means.               *)
(*                                                                         *)
(* Durations are seconds.  backoff_multiplier is given in halves, so that  *)
(* values below 1.0 exist.                                                 *)
(***************************************************************************)
EXTENDS Backoff

CONSTANTS
  Configs,    \* the configuration files considered
  Unset,      \* the value of a field that the file does not have
  Garbage     \* a string that time.ParseDuration refuses

Duration == Int \union {Unset, Garbage}

\* An empty interval of a metric is refused by time.ParseDuration, not absent.
ASSUME ConfigAssumption ==
  /\ Unset \notin Int \union BOOLEAN /\ Garbage \notin Int /\ Garbage # Unset
  /\ Configs \subseteq
       [remoteEnabled : BOOLEAN, walInterval : Duration, uploadInterval : Duration,
        skewInterval : Duration, metricEnabled : BOOLEAN, metricInterval : Duration \ {Unset},
        retryEnabled : BOOLEAN \union {Unset}, maxAttempts : Int, initialBackoff : Duration,
        maxBackoff : Duration, multiplier : Int, jitter : Int \union {Unset}]

VARIABLES
  config,     \* the file
  stage,      \* "start", "rejected", "wired", "backoff" or "gaveUp"
  tickers,    \* interval of each ticker that has been made
  uploader,   \* the fields of HTTPUploader
  attempts,   \* attempts of a chunk that the remote keeps refusing
  delay       \* the delay before the next one

settingsVars == <<config, stage, tickers, uploader, attempts, delay>>

OrDefault(value, default) == IF value = Unset THEN default ELSE value

Parses(duration) == duration # Garbage
Positive(duration) == Parses(duration) /\ OrDefault(duration, 1) > 0

-----------------------------------------------------------------------------
\* Mutant: the sign of a metric's interval is not looked at.
Valid_AnySign(c) ==
  /\ Positive(c.walInterval) /\ Positive(c.uploadInterval)
  /\ Positive(c.initialBackoff) /\ Positive(c.maxBackoff)
  /\ c.multiplier # 0 => c.multiplier >= 2
  /\ OrDefault(c.jitter, 20) \in 0..100
  /\ c.metricEnabled => Parses(c.metricInterval)

\* Mutant: any positive multiplier will do.
Valid_AnyMultiplier(c) ==
  /\ Positive(c.walInterval) /\ Positive(c.uploadInterval)
  /\ Positive(c.initialBackoff) /\ Positive(c.maxBackoff)
  /\ c.multiplier >= 0
  /\ OrDefault(c.jitter, 20) \in 0..100
  /\ c.metricEnabled => Positive(c.metricInterval)

\* Config.Validate.  max_attempts and clock_skew_check_interval are not in it.
Valid(c) ==
  /\ Positive(c.walInterval) /\ Positive(c.uploadInterval)
  /\ Positive(c.initialBackoff) /\ Positive(c.maxBackoff)
  /\ c.multiplier # 0 => c.multiplier >= 2
  /\ OrDefault(c.jitter, 20) \in 0..100
  /\ c.metricEnabled => Positive(c.metricInterval)

-----------------------------------------------------------------------------
RetryConfigured(c) ==
  \/ c.retryEnabled # Unset \/ c.maxAttempts > 0
  \/ c.initialBackoff # Unset \/ c.maxBackoff # Unset
  \/ c.multiplier > 0 \/ c.jitter # Unset

\* Mutant: attempts are taken for retries.
RetriesAsked_Attempts(c) == OrDefault(IF c.maxAttempts = 0 THEN Unset ELSE c.maxAttempts, 3)

\* max_attempts counts the first attempt, MaxRetries does not.
RetriesAsked(c) ==
  LET attemptsAsked == IF c.maxAttempts = 0 THEN 3 ELSE c.maxAttempts
  IN  IF attemptsAsked < 1 THEN 0 ELSE attemptsAsked - 1

\* What main puts into the HTTPUploaderConfig; 0 and Unset for what it leaves.
UploaderConfig(c) ==
  CASE ~RetryConfigured(c) ->
         [maxRetries |-> Unset, retryDelay |-> 0, maxBackoff |-> 0, multiplier |-> 0,
          jitter |-> Unset]
    [] RetryConfigured(c) /\ c.retryEnabled = FALSE ->
         [maxRetries |-> 0, retryDelay |-> 1, maxBackoff |-> 0, multiplier |-> 0, jitter |-> 0]
    [] OTHER ->
         [maxRetries |-> RetriesAsked(c),
          retryDelay |-> OrDefault(c.initialBackoff, 1),
          maxBackoff |-> OrDefault(c.maxBackoff, 30),
          multiplier |-> c.multiplier,
          jitter |-> OrDefault(c.jitter, 20)]

\* NewHTTPUploaderWithConfig.
Uploader(u) ==
  [maxRetries |-> OrDefault(u.maxRetries, 3),
   retryDelay |-> IF u.retryDelay <= 0 THEN 1 ELSE u.retryDelay,
   maxBackoff |-> IF u.maxBackoff <= 0 THEN 30 ELSE u.maxBackoff,
   multiplier |-> IF u.multiplier = 0 THEN 4 ELSE u.multiplier,
   jitter |-> OrDefault(u.jitter, 20)]

\* Here, and only here, an invalid duration is replaced.  The clock skew loop
\* is taken to be configured.
SkewInterval(c) ==
  IF Positive(c.skewInterval) THEN OrDefault(c.skewInterval, 300) ELSE 300

Tickers(c) ==
  {SkewInterval(c), OrDefault(c.walInterval, 3600)}
    \union (IF c.remoteEnabled THEN {OrDefault(c.uploadInterval, 30)} ELSE {})
    \union (IF c.metricEnabled THEN {c.metricInterval} ELSE {})

Capped(k) ==
  ExponentialBackoff(uploader.retryDelay, uploader.multiplier, uploader.maxBackoff, k)

\* The two ends of the jittered range, rounded outwards.
Delays(k) ==
  {(Capped(k) * (100 - uploader.jitter)) \div 100,
   (Capped(k) * (100 + uploader.jitter) + 99) \div 100}

-----------------------------------------------------------------------------
SettingsInit ==
  /\ config \in Configs
  /\ stage = "start"
  /\ tickers = {} /\ uploader = Unset
  /\ attempts = 0 /\ delay = 0

Reject ==
  /\ stage = "start" /\ ~Valid(config)
  /\ stage' = "rejected"
  /\ UNCHANGED <<config, tickers, uploader, attempts, delay>>

Wire ==
  /\ stage = "start" /\ Valid(config)
  /\ tickers' = Tickers(config)
  /\ uploader' = IF config.remoteEnabled THEN Uploader(UploaderConfig(config)) ELSE Unset
  /\ stage' = "wired"
  /\ UNCHANGED <<config, attempts, delay>>

\* One refused attempt of uploadChunkWithRetry, and the delay if more remain.
AttemptRefused ==
  /\ stage \in {"wired", "backoff"} /\ uploader # Unset
  /\ attempts' = attempts + 1
  /\ \/ /\ attempts < uploader.maxRetries
        /\ stage' = "backoff"
        /\ delay' \in Delays(attempts)
     \/ /\ attempts >= uploader.maxRetries
        /\ stage' = "gaveUp"
        /\ delay' = 0
  /\ UNCHANGED <<config, tickers, uploader>>

SettingsNext == Reject \/ Wire \/ AttemptRefused

SettingsSpec == SettingsInit /\ [][SettingsNext]_settingsVars

-----------------------------------------------------------------------------
\* No ticker of a running agent panics: time.NewTicker wants a positive
\* interval, and some intervals are checked by one layer, some by another.
TickersRun == \A interval \in tickers : interval > 0

\* A chunk is tried as often as the file says, through two conversions and
\* three sets of defaults: max_attempts times, or once if retry is disabled.
AttemptsAsConfigured ==
  stage = "gaveUp" =>
    /\ config.retryEnabled = FALSE => attempts = 1
    /\ config.retryEnabled # FALSE /\ config.maxAttempts > 0 => attempts = config.maxAttempts
    /\ attempts >= 1

\* No file makes the agent hammer the remote: no delay is shorter than the
\* first one asked for, or the cap if that is less, but for the jitter.
NoHammering ==
  stage = "backoff" =>
    LET least == IF uploader.retryDelay < uploader.maxBackoff
                 THEN uploader.retryDelay ELSE uploader.maxBackoff
    IN  /\ least > 0
        /\ delay >= (least * (100 - uploader.jitter)) \div 100
        /\ delay * 100 <= uploader.maxBackoff * (100 + uploader.jitter) + 99
=============================================================================
