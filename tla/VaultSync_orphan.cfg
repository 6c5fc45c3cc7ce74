SPECIFICATION Spec
CONSTANTS
  Device = {d1, d2}
  Key = {k1}
  Group = {1}
  Host = {2}
  Keep = 2
  Shared = {1, 2}
  Legacy = {}
  MaxClock = 3
  MaxNames = 2
  MaxResets = 0
INVARIANTS NoOrphans
