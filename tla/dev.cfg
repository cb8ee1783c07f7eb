CONSTANTS
  Flows = {f1, f2}
  Calls = {c1}
  BusSize = 1
  MaxAttempts = 2
  Faults = TRUE
SPECIFICATION FairSpec
INVARIANTS DeletedStaysDeleted RefusalJustified EveryAddressTried
PROPERTIES VerdictReached ShutdownEnds TokenPromiseHolds
CHECK_DEADLOCK FALSE
