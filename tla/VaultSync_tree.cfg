SPECIFICATION Spec
CONSTANTS
  Device = {d1, d2}
  Key = {k1}
  Group = {1, 2}
  Host = {3}
  Keep = 2
  Shared = {1, 2}
  Legacy = {}
  MaxClock = 3
  MaxNames = 2
  MaxResets = 0
SYMMETRY Symmetry
INVARIANTS NoGroupCycles
PROPERTIES LastWriterWins
