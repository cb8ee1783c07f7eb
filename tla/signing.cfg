CONSTANTS
  Keys = {k1, k2}
  Finalizers = {f1, gateway}
  Generators = {g1, gateway}
  MaxMoves = 1
SPECIFICATION SigningSpec
INVARIANTS PublishedKeyVerifies UnverifiableOnlyAfterMove
CHECK_DEADLOCK FALSE
