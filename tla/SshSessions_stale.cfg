SPECIFICATION Spec
CONSTANTS
  MaxConnects = 2
  MaxPages = 2
CHECK_DEADLOCK FALSE
PROPERTIES StaleSparesNew
