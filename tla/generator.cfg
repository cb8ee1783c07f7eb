CONSTANTS
  Jobs = 4
  Backend = "filesystem"
SPECIFICATION FairSpec
INVARIANTS FailuresReported NoStraggler
PROPERTIES ServeReturns
CHECK_DEADLOCK FALSE
