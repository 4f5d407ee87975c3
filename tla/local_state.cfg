SPECIFICATION MCSpec
CONSTANTS
  a = a
  b = b
  c = c
  planned = b1
  BigTasks = {b1, b2}
  Subtasks = {a, b, c}
  Processes = {p1, p2}
  Candidates <- Plans
  Contents = {"x", "y"}
  ManualEdges <- GivenEdges
  MaxVersions = 2
  MaxTime = 2
  ExecTasks = {t1, t2}
  Attempts = {x1, x2}
  ProviderThreads = {pt1, pt2}
  MaxActiveRuns = 2
  LatestTime = 2
  Items = {i1, i2, i3}
  Digests = {d1, d2}
  Scopes = {s1, s2}
  Writers = {p1, p2}
  Programs = {o1, o2, o3}
  MaxTries = 2
  Trouble = {"KILL", "FAIL", "REUSE"}
SYMMETRY AnyName
INVARIANTS
  GraphReadable
  AttemptsSound
  ContextReadable
  OneDaemon
  SessionUnderLock
CHECK_DEADLOCK FALSE
