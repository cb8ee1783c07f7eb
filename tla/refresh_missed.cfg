CONSTANTS
  Daemons = {d1}
  Commands = {c1}
  Tokens = {t1, t2}
  FileFaults = FALSE
SYMMETRY Interchangeable
SPECIFICATION Spec
INVARIANTS TimeoutMeansNoToken
CHECK_DEADLOCK FALSE
