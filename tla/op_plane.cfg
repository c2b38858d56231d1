SPECIFICATION FairSpec
CONSTANTS
  n1 = n1
  n2 = n2
  n3 = n3
  Node = {n1, n2}
  Link <- Full
  Established <- Full
  Timer = FALSE
  Renames = FALSE
  Id = {n1, n2, "p", "p1"}
  UserPath = {"p"}
  Path = {"p", "p1"}
  MaxKey = 2
  CopyPathFor <- CopyName
  MaxCopyDepth = 2
  NoPath = NoPath
  MaxCalls = 4
  MaxOps <- TwoEach
  MaxDrops = 0
  MaxSkips = 0
CHECK_DEADLOCK FALSE
PROPERTY StreamConverges
INVARIANTS EqualVVSameRow VVTracksCausality
