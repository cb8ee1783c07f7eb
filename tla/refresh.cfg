CONSTANTS
  Daemons = {d1, d2, d3}
  Commands = {c1}
  Tokens = {t1, t2}
  FileFaults = TRUE
SYMMETRY Interchangeable
SPECIFICATION Spec
INVARIANTS RunningIsFindable OnlyDaemonsSignalled 
CHECK_DEADLOCK FALSE
