CONSTANTS
  Experiments = {e1}
  Workers = {w1}
  MetricNames = {m1}
  Values = {1}
  NotFinite = NaN
  AnyRun = AnyRun
  NoWorker = NoWorker
  NoResult = NoResult
  StaleAfter = 3
  LockWait = 1
  MaxRuns = 2
  MaxClock = 5
  Processes = {p1, p2}
  BeatEvery = 1
  ValidateTime = 0
SPECIFICATION SchedSpec
SYMMETRY Symmetry
INVARIANTS
  PunctualLeaseSurvives
  ReturnMeansRecorded
  LeasesAreNotShared
CHECK_DEADLOCK FALSE
