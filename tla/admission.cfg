SPECIFICATION Spec
CONSTANTS
  t1 = t1
  t2 = t2
  t3 = t3
  t4 = t4
  Transfer = {t1, t2, t3, t4}
  Session = {t4}
  Priority = {t1, t4}
  Need <- NeedOne
  Largest = 1
  Margin = 1
  Room = 1
  Permits = 2
  MaxCommands = 2
  MaxFreed = 1
  MaxAborts = 1
CHECK_DEADLOCK FALSE
INVARIANTS TypeOK  PhantomsBounded
