SPECIFICATION Spec
CONSTANTS
  Name = {1, 2, 3}
  Index <- MCIndex
  TreePage = 2
INVARIANTS
  TypeOK
  Complete
  OnlyDifferences
CHECK_DEADLOCK FALSE
