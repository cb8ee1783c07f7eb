CONSTANTS
  Machines = {m1, m2}
  Ids = {i1, i2, i3}
  Names = {"client", "server", "spare"}
  Blocks = {1, 2, 3}
  Ports = {1, 2}
  MaxFlows = 2
  MaxChanges = 2
SPECIFICATION Spec
INVARIANTS AnsweredByNode StableNodeVerified
PROPERTY IdentityPromiseHolds
CHECK_DEADLOCK FALSE
