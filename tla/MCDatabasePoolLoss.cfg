SPECIFICATION Spec
CONSTANTS
  w1 = w1
  w2 = w2
  Workers = {w1, w2}
  NoWorker = NoWorker
  MaxPosted = 1
  Length = 2
  MaxFailures = 0
  MaxLosses = 1
CHECK_DEADLOCK FALSE
INVARIANT DoneIsWhole
