SPECIFICATION FairSpec
CONSTANTS
  MaxConnects = 2
  MaxPages = 1
CHECK_DEADLOCK FALSE
INVARIANTS TypeOK NoLeak NoDeadConnection
PROPERTIES  ClosingReleases
