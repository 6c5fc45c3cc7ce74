SPECIFICATION Spec
CONSTANTS
  None = None
  dir = dir
  file = file
  Old = old
  Device = {d1}
  Peer = {d2}
  Key = {k}
  Identity = {i}
  Host = {1, 2, 3}
  Forward = {f}
  Bookmark = {b}
  Profile = {p}
  First = {k, i, 1, 2, p}
  JumpDepthLimit = 2
  MaxClock = 3
  c1 = c1
  c2 = c2
  s1 = s1
  s2 = s2
  k1 = k1
  k2 = k2
  k3 = k3
  Task = {t}
  Schedule = {s}
  Steps = 1
  MaxTime = 2
  MaxRuns = 2
  MaxChanges = 1
  Prompt = {p, q}
  Attempts = 3
  MaxReloads = 1
  MaxOpens = 2
  MaxLoads = 2
  Provider = {gist, gdrive}
  FirstProvider = gist
  MaxClicks = 3
  Version = {v1}
  MaxEvents = 5
  MaxMounts = 3
  h1 = h1
  h2 = h2
CHECK_DEADLOCK FALSE
INVARIANTS TypeOK NothingIsLost  ReferencesHold TrustBeforeSecrets
  ScheduleIsKept StoreServes OwnersAreTrue ViewIsTrue
