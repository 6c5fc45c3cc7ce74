SPECIFICATION Spec
CONSTANTS
  Caller = {c1, c2, c3}
  MaxGenerations = 3
  MaxEdits = 2
  MaxReloads = 1
SYMMETRY Symmetry
CHECK_DEADLOCK FALSE
INVARIANTS TypeOK NoLeak ReloadEndsAll StatusHasOwner QuietIsFresh
 
