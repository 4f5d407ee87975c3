SPECIFICATION Spec
CONSTANTS
  a = a
  b = b
  Order <- TwoSubtasks
  Callers = {c1, c2}
  Profile <- HighAndLow
  Edges <- Hardened
  Limit <- RepairOfA
  Writers <- Both
  Manual <- OnlyB
  Reviewed = FALSE
  Works = {TRUE}
  MaxActive = 1
  MaxDisturbed = 1
SYMMETRY AnyCaller
INVARIANTS
  OneProvider
  CandidateChain
  OneWriteDispatch
  HistoryReadable
CHECK_DEADLOCK FALSE
