CONSTANTS
  SigBuffer = 1
  Flows = {f1}
  RaceOutcomes = {"abort", "found"}
  DiskFaults = TRUE
SPECIFICATION DaemonFairSpec
PROPERTIES ReloadServed StopTerminates RetryHonoured ListenersReleased
CHECK_DEADLOCK FALSE
