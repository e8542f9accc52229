CONSTANTS
  Processes = {p1, p2, p3, p4, p5, p6}
  j1 = j1
  j2 = j2
  j3 = j3
  Jobs <- MCJobs
  JobPool <- MCJobPool
  NoJob = NoJob
SPECIFICATION LocksSpec
SYMMETRY Symmetry
INVARIANTS
  OneWriterPerJob
  WritersShareOnePoolOwner
  ControllerIsAlone
