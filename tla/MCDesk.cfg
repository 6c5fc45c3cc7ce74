SPECIFICATION Spec
CONSTANTS
  None = None
  Local = {l1}
  Remote = {r1}
  Dirs = {home, docs}
  Home = home
  MaxTabs = 1
  HistoryLimit = 2
  MaxLoads = 3
  MaxOpenings = 2
  readme = readme
  notes = notes
  MaxOperations = 2
  MaxConns = 1
  MaxRunning = 1
  Slots = 1
  Text = {t0, t1}
  MaxOpens = 2
  MaxSaves = 2
  Chat = {c1}
  Stored = {}
  Kind = {run}
  Operation = {run}
  Manual = {}
  Untrusted = {run}
  Images = {FALSE}
  MaxSteps = 1
  MaxAttempts = 0
  MaxCalls = 1
  MaxRuns = 2
  MaxGets = 1
  MaxRestarts = 1
  MaxSessions = 3
  MaxFiles = 1
  MaxRow = 2
  MaxColumn = 2
  MaxRestored = 10
  MaxDepth = 20
  MaxBytes = 3
  MaxInputs = 4
  MaxPrompts = 2
  Value = {a, b}
  Unset = unset
  MaxChoices = 3
  MaxDirect = 2
  newHost = newHost
  open = open
  zoomIn = zoomIn
  Binding = {n1, o1, z1, x1}
  n1 = n1
  o1 = o1
  z1 = z1
  Disabled = disabled
  Inherited = inherited
  MaxOverrides = 6
  Endpoint = {e1, e2}
  Blank = blank
CHECK_DEADLOCK FALSE
INVARIANTS TypeOK PanesAreTrue TransfersServe TextSurvives HistoryIsAccepted ChatsAgree
  TabsHoldTogether SessionServes ChoiceSurvives 
PROPERTIES EditsSurvive OperationsAreAllowed
