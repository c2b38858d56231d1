CONSTANTS
  Local = Local
  Remote = Remote
  None = None
  a = a
  b = b
  Path = {a, b}
  Id <- MCId
  MaxKey = 6
  CopyPathFor <- MCCopyPathFor
  MaxCopyDepth = 1
  HashOf <- MCHashOf
  Xattr <- MCXattr
  Base <- MCBase
  UserVal = {5}
  PeerVal = {2, 3}
  Strips = FALSE
  QueueCap = 1
  MaxCalls = 2
  Budget <- OneEach
  MaxTotal = 2
SPECIFICATION Spec
INVARIANTS
  TypeOK
  Mirrored
  StoreBacksRows
SYMMETRY Symmetry
