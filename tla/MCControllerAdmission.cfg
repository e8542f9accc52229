CONSTANTS
  cuda1 = cuda1
  cuda2 = cuda2
  cpu1 = cpu1
  Tasks <- Three
  Lane <- ThreeLanes
  GpuWorkers = 2
  RamPerWorker = 2
  RamReserve = 4
  GpuReserve = 2
  Ram = 9
  Gpu = 3
SPECIFICATION AdmSpec
SYMMETRY SameLane
INVARIANTS
  OvercommitIsDrift
  FreshSnapshotsKeepReserves
