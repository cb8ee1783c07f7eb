CONSTANTS
  Validities = {24, 34}
  Unit = 2
  MaxFlow = 2
  RetryAfter = 1
  Horizon = 44
  MaxFailures = 1
  MaxReloads = 1
  MaxBoots = 2
  MaxDeploys = 1
SPECIFICATION Spec
INVARIANTS TokenFresh
PROPERTIES NotMuchOlder
CHECK_DEADLOCK FALSE
