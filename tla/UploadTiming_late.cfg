SPECIFICATION Spec
CONSTANTS
  Collector = {}
  UploadInterval = 2
  UploadErrorInterval = 30
  PendingOKLimit = 1
  PendingErrorLimit = 2
  Timeout = 2
  InitialBackoff = 1
  MaxBackoff = 2
  BackoffMultiplier = 4
  JitterPercent = 50
  MaxRetries = 2
  MaxRetryAfter = 3
  MaxChunks = 2
INVARIANT LateIsDegraded
