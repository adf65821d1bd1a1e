SPECIFICATION UploaderSpec
CHECK_DEADLOCK FALSE
CONSTANTS
  Collector = {}
  UploadInterval = 2
  UploadErrorInterval = 30
  PendingOKLimit = 1
  PendingErrorLimit = 2
  Timeout = 2
  InitialBackoff = 1
  MaxBackoff = 2
  BackoffMultiplier = 4
  JitterPercent = 50
  MaxRetries = 2
  MaxRetryAfter = 3
  MaxChunks = 2
  Unset = Unset
  Garbage = Garbage
  Configs <- MCConfigs
  Limit = 2
  DefaultSize = 4
  MaxLength = 4
  MaxSize = 3
  MaxTime = 2
  Sample <- MCSample
  CompressedSize <- MCCompressedSize
INVARIANTS
  OkIsBounded
  TickersRun AttemptsAsConfigured NoHammering
  Complete WithinLimits FailsOnlyForGiant WholeRuns
PROPERTY Returns
