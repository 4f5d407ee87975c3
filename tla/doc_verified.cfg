SPECIFICATION DrivenSpec
CONSTANTS
  a = a
  b = b
  Order <- TwoSubtasks
  Callers = {c1}
  Profile <- LowAndStandard
  Edges <- Verified
  Limit <- OneRepair
  Writers <- OnlyA
  Manual = {}
  Reviewed = FALSE
  Works = {TRUE}
  MaxActive = 2
  MaxDisturbed = 0
PROPERTIES
  ReadyWorkStarts
CHECK_DEADLOCK FALSE
