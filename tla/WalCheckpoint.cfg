SPECIFICATION Spec
CONSTANTS
  CheckpointInterval = 4
  SizeCheckInterval = 3
  MaxWALSize = 3
  BusyTimeout = 1
  AutoCheckpoint = 2
  LateStatements = 3
  MaxRate = 1
  MaxFrames = 6
INVARIANTS LogFileBounded CommitsGetSynced CleanStopSyncs StopIsBounded
