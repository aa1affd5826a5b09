SPECIFICATION FairSpec
CONSTANTS
  b1 = b1
  b2 = b2
  b3 = b3
  r1 = r1
  w = w
  Worker = w
  Batches <- MCThree
  Large <- MCNone
  Requests <- MCNone
  MaxAttempts = 3
  MaxEntries = 2
  MaxReloads = 1
  MaxFaults = 1

  
PROPERTIES
  WorkerEmptiesItsQueue
CHECK_DEADLOCK FALSE
