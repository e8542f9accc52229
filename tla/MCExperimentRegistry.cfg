CONSTANTS
  Experiments = {e1, e2}
  Workers = {w1}
  MetricNames = {m1}
  Values = {1}
  NotFinite = NaN
  AnyRun = AnyRun
  NoWorker = NoWorker
  NoResult = NoResult
  StaleAfter = 1
  LockWait = 1
  MaxRuns = 3
  MaxClock = 3
SPECIFICATION Spec
SYMMETRY Symmetry
INVARIANTS
  OneLiveOrCompletedRun
  AttemptsAreConsecutive
PROPERTIES
  TerminalRunsAreFrozen
  ExpiredRunsAreRequeued
  ImplementsLifecycle
CHECK_DEADLOCK FALSE
