SPECIFICATION SettledSpec
CONSTANTS
  m1 = m1
  m2 = m2
  Member = {m1}
  MaxKey = 2
  SeedChoices <- Seeded
  Entries <- RekeyRemove
  Task = {t1, t2}
  Direction = {"in", "out"}
  MaxReloads = 0
  MaxRestarts = 0
INVARIANTS
  DurableFirst
PROPERTIES
  RemovalSevers
  DialsFollow
CHECK_DEADLOCK FALSE
