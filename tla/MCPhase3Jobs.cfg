CONSTANTS
  Experiments = {j1}
  Measurements = {m1}
  NoResult = NoResult
  Processes = {p1, p2}
  Direct = {p2}
  Images = 2
  Backends = 2
  Corrupt = Corrupt
  NoProcess = NoProcess
  MaxMishaps = 4
SPECIFICATION JobsSpec
INVARIANTS
  LiveOwnerKeepsLease
PROPERTIES
  CompletionIsBacked
  CompletedAnswersAreBacked
  CorruptRecordsStay
  
