SPECIFICATION Spec
CONSTANTS
  m1 = m1
  m2 = m2
  Member = {m1, m2}
  MaxKey = 2
  SeedChoices <- EitherSeeds
  Entries <- TwoMembers
  Task = {t1}
  Direction = {}
  MaxReloads = 2
  MaxRestarts = 1
INVARIANTS
  TypeOK
PROPERTIES
  RosterNeverRegresses
CHECK_DEADLOCK FALSE
