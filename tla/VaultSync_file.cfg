SPECIFICATION Spec
CONSTANTS
  Device = {d1}
  Key = {k1}
  Group = {1}
  Host = {}
  Keep = 2
  Shared = {1}
  Legacy = {}
  MaxClock = 2
  MaxNames = 3
  MaxResets = 1
PROPERTIES RestoreIsFinal
