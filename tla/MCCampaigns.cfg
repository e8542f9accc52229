CONSTANTS
  StudyJobs <- StudyJobsMC
  Needs <- NeedsMC
  StudyWorkers <- StudyWorkersMC
  MaxLaunches <- MaxLaunchesMC
  MaxFaults = 1
  Ceiling = 3
  Margin = 1
  Reservations = {2}
  MaxAttempts = 2
  MaxBridgeStarts = 2
  MaxBridgeFaults = 1
  CaseOrder <- OneCase
  Target <- TargetMC
  Costs <- CostsMC
  Limit = 3
  ExtensionLimit = 2
  Sunk = 0
  MaxQualityStarts = 2
  MaxQualityFaults = 1
  MaxOverrun = 1
  MaxTotalFaults = 1
  Programmes <- Together
SPECIFICATION CampaignsSpec
INVARIANTS
  OneCampaignComputes
  StudiesInOrder
  BridgeBudgetIsKept
  CounterpartsAreThere
  AllowanceIsKept
  StagesAreComplete
CHECK_DEADLOCK FALSE
