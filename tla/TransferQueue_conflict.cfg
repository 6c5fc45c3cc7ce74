SPECIFICATION Spec
CONSTANTS
  f = f
  g = g
  Name = {f, g}
  Call = {1}
  Batch <- MCBatch
  MaxOperations = 2
  Deletion = {}
  MaxConns = 1
  MaxRunning = 1
  Slots = 1
CHECK_DEADLOCK FALSE
INVARIANTS SkipIsChosen
