SPECIFICATION Spec
CONSTANTS
  p1 = p1
  p2 = p2
  Peer = {p1, p2}
  Dead = {p2}
  Boot = {p1, p2}
  MaxSeq <- ThreeOps
  PushBatch = 2
  MaxFaults = 2
  MaxChanges = 2
CHECK_DEADLOCK FALSE
INVARIANTS TypeOK HonestAcksAccepted Seamless
PROPERTIES DeliversInOrder EveryOpArrives BecomesActive
