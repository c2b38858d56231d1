SPECIFICATION Spec
CONSTANTS
  n1 = n1
  n2 = n2
  n3 = n3
  Node = {n1, n2}
  Link <- Full
  Established <- Full
  Timer = FALSE
  Renames = TRUE
  Id = {n1, n2, "p", "p1", "q", "q1"}
  UserPath = {"p", "q"}
  Path = {"p", "p1", "q", "q1"}
  MaxKey = 2
  CopyPathFor <- CopyName
  MaxCopyDepth = 2
  NoPath = NoPath
  MaxCalls = 4
  MaxOps <- TwoAndOne
  MaxDrops = 0
  MaxSkips = 1
CHECK_DEADLOCK FALSE
INVARIANTS RecordedIsAbsorbed ComponentsBacked
