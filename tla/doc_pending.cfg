SPECIFICATION Spec
CONSTANTS
    t1 = t1  t2 = t2  i1 = i1  i2 = i2  p1 = p1  p2 = p2
    Tasks = {t1}
    Procs = {p1, p2}
    Ids = {i1, i2}
    None = None
    Planned <- OnePlanned
    Paused = {}
    MaxActive = 2
    MaxMoves = 1
    MaxCommits = 1
    MaxGen = 2
    MaxFaults = 1
    Events <- AllEvents
SYMMETRY Symmetry
CHECK_DEADLOCK FALSE
INVARIANT PendingIsReconcilable
