SPECIFICATION FairSpec
CONSTANTS
  Loop = {l1, l2}
  WatchdogSec = 4
  MaxLate = 1
INVARIANTS NoUseAfterClose OnlyCheckpointOutlivesLock ActiveMeansCollecting PingsInTime
PROPERTY ShutdownEnds
