CONSTANTS
  c1 = c1
  wide = wide
  control = control
  Cases <- OneCase
  CaseOrder <- OneOrder
  WCert <- SevenBits
  Wide = wide
  Static <- NoStatic
  Others <- OneOther
  Truths <- OneTruth
  Jobs = 2
  Retries = 0
  MaxStarts <- RestartLocation
  MaxFaults = 1
SPECIFICATION SweepSpec
CHECK_DEADLOCK FALSE
INVARIANTS
  LaneLimit
  NoRangeTwice
  BracketIsExact
  ScreenStaysInBracket
PROPERTIES
  LocationEndsComplete
  RunnersEnd
