SPECIFICATION FairSpec
CONSTANTS
  Loop = {l1}
  WatchdogSec = 4
  MaxLate = 1
PROPERTY HangIsRestarted
