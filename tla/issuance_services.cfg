CONSTANTS
  Flows = {f1}
  Addresses = {ip4, ip6}
  MaxRetries = 1
  MaxAttempts = 0
  Invocations = {i1}
  Calls = {c1}
  Faults = {"store", "stale", "signer", "launch", "network", "gateway"}
SPECIFICATION FairSpec
INVARIANTS MarkedOnlyUnproved SuccessReachesFinalizer
PROPERTIES TokenPromiseHolds ClientTerminates
CHECK_DEADLOCK FALSE
