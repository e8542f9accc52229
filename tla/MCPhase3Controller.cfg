CONSTANTS
  pilot = pilot
  accept = accept
  screen = screen
  other = other
  spare = spare
  Tasks <- ChainAndOthers
  Deps <- ChainDeps
  Lane <- ChainLane
  Listed <- ChainListed
  Priority <- ChainPriority
  GpuWorkers = 1
  CpuWorkers = 1
  MaxEdits = 1
SPECIFICATION CtrlSpec
INVARIANTS
  DependenciesFirst
  IndependentWorkContinues
  CompletedUnderOneSource
  NoWorkerIsLeft
PROPERTIES
  OutcomesAreFinal
  StopEnds
  ScheduleEnds
CHECK_DEADLOCK FALSE
