SPECIFICATION Spec
CONSTANTS
  Collector = {c1, c2}
  UploadInterval = 30
  UploadErrorInterval = 600
  PendingOKLimit = 5000
  PendingErrorLimit = 10000
INVARIANT OnlyListedErrors
