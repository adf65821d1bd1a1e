SPECIFICATION FairSpec
CONSTANTS
  m1 = m1
  m2 = m2
  m3 = m3
  Metric = {m1, m2, m3}
  Time <- TimeLine
  StringMetric = {m3}
  Rejected = {}
  BatchSize = 2
  ChunkSize = 2
  MaxRetries = 1
  MaxLate = 1
INVARIANTS UploadedWereAccepted OldestFirst FlaggedNotOffered
PROPERTIES ImplementsOutbox PendingDrains ShutdownCompletes
