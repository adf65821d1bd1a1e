SPECIFICATION Spec
CONSTANTS
  Iface = {eth0, wlan0, lo}
  Excluded = {lo}
  MaxInterfaces = 1
  MaxCount = 2
  MaxDropped = 2
  None = None
  Core = {cpu, cpu0}
  Word = 8
  MaxTime = 1
  NoCPU = NoCPU
  MetaCollector = {temperature}
  HistogramMaxSamples = 3
  Duration = {1, 2}
  Gauge = {0, 1}
  MaxRecorded = 5
  NoSeries = NoSeries
INVARIANTS CapIsHard
PROPERTIES RestartLeavesGap GapOnlyAtRestart SampleAfterProgress PercentilesAreRecent
