SPECIFICATION Spec
CONSTANTS
  n1 = n1
  n2 = n2
  n3 = n3
  Node = {n1, n2}
  Link <- Full
  Established <- NoLinks
  Timer = TRUE
  Renames = FALSE
  Id = {n1, n2, "p", "p1"}
  UserPath = {"p"}
  Path = {"p", "p1"}
  MaxKey = 2
  CopyPathFor <- CopyName
  MaxCopyDepth = 2
  NoPath = NoPath
  MaxCalls = 4
  MaxOps <- OneEach
  MaxDrops = 1
  MaxSkips = 1
CHECK_DEADLOCK FALSE
INVARIANTS TypeOK CursorCovered NoSilentLoss RecordedOnce
PROPERTY RowsNeverRegress
SYMMETRY Symmetry
