CONSTANTS
  Local = Local
  Remote = Remote
  None = None
  a = a
  Path = {a}
  Id <- MCId
  MaxKey = 6
  CopyPathFor <- MCCopyPathFor
  MaxCopyDepth = 1
  HashOf <- MCHashOf
  Xattr <- MCXattr
  Base <- MCBase
  UserVal = {3}
  PeerVal = {3}
  Strips = FALSE
  QueueCap = 1
  MaxCalls = 2
  Budget <- NoLeaf
  MaxTotal = 3
SPECIFICATION Spec
PROPERTIES
  DiskSettles
  StreamDrains
