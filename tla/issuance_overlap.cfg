CONSTANTS
  Flows = {f1}
  Addresses = {ip4}
  MaxRetries = 1
  MaxAttempts = 1
  Invocations = {i1, i2}
  Calls = {c1}
  Faults = {"lambda", "network", "exit"}
SPECIFICATION FairSpec
INVARIANTS TokenOnlyAfterProof RefusalJustified
PROPERTIES ExecutionTerminates
CHECK_DEADLOCK FALSE
