SPECIFICATION Spec
CONSTANTS
  b1 = b1
  b2 = b2
  b3 = b3
  r1 = r1
  w = w
  Worker = w
  Batches <- MCThree
  Large <- MCNone
  Requests <- MCOneRequest
  MaxAttempts = 3
  MaxEntries = 2
  MaxReloads = 0
  MaxFaults = 1
INVARIANTS
  NothingLost
  AttemptBound
PROPERTIES
  AcceptedOnce
CHECK_DEADLOCK FALSE
