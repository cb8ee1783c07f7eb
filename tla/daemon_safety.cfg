CONSTANTS
  SigBuffer = 1
  Flows = {f1, f2}
  RaceOutcomes = {"abort", "found", "missing"}
  DiskFaults = TRUE
SYMMETRY Interchangeable
SPECIFICATION DaemonSpec
INVARIANTS DaemonTypeOK SweepNeverRaces ServersUpWhilePolling OverIsReleased FileWholeAtRest
PROPERTIES ClosedAtReturn
CHECK_DEADLOCK FALSE
