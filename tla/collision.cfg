SPECIFICATION Spec
CONSTANTS
  n1 = n1
  n2 = n2
  n3 = n3
  Node = {n1, n2}
  Link <- Full
  Established <- Full
  Timer = FALSE
  Renames = FALSE
  Id = {n1, n2, "p", "p1", "p11", "p111"}
  UserPath = {"p", "p1", "p11"}
  Path = {"p", "p1", "p11", "p111"}
  MaxKey = 2
  CopyPathFor <- CopyName
  MaxCopyDepth = 2
  NoPath = NoPath
  MaxCalls = 4
  MaxOps <- TwoEach
  MaxDrops = 0
  MaxSkips = 0
CHECK_DEADLOCK FALSE
INVARIANTS NoSilentLoss
SYMMETRY Symmetry
