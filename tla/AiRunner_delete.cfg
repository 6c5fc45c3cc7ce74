SPECIFICATION Spec
CONSTANTS
  Chat = {c1}
  Stored = {c1}
  None = None
  Kind = {"change", "run"}
  Operation = {"change", "run"}
  Manual = {}
  Untrusted = {"run"}
  Images = {FALSE}
  MaxSteps = 1
  MaxAttempts = 0
  MaxCalls = 1
  MaxRuns = 1
  MaxGets = 1
  MaxRestarts = 0
CHECK_DEADLOCK FALSE
PROPERTIES DeletedRunStops
