CONSTANTS
  c1 = c1
  wide = wide
  control = control
  Cases <- OneCase
  CaseOrder <- OneOrder
  WCert <- SevenBits
  Wide = wide
  Static <- NoStatic
  Others <- OneOther
  Truths <- OneTruth
  Jobs = 2
  Retries = 0
  MaxStarts <- Once
  MaxFaults = 0
SPECIFICATION SweepSpec
CHECK_DEADLOCK FALSE
PROPERTIES
  ExtensionsAreRun
