SPECIFICATION FairSpec
CONSTANTS
  Device = {d1, d2}
  Key = {k1}
  Group = {1}
  Host = {}
  Keep = 2
  Shared = {1}
  Legacy = {d2}
  MaxClock = 2
  MaxNames = 7
  MaxResets = 0
  MaxFailures = 1
  Caller = {c1, c2}
  MaxGenerations = 2
  MaxEdits = 2
  MaxReloads = 1
CHECK_DEADLOCK FALSE
PROPERTIES Convergence CallsReturn
