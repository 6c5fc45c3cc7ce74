SPECIFICATION Spec
CONSTANTS
  Device = {d1, d2}
  Key = {k1, k2}
  Group = {1}
  Host = {2}
  Keep = 2
  Shared = {1, 2}
  Legacy = {}
  MaxClock = 2
  MaxNames = 3
  MaxResets = 1
SYMMETRY Symmetry
INVARIANTS TypeOK SeenIsAbsorbed AcknowledgedIsStored
PROPERTIES PendingRestoreKept
