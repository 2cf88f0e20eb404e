SPECIFICATION FairSpec
CONSTANTS
  w1 = w1
  w2 = w2
  Workers = {w1, w2}
  NoWorker = NoWorker
  MaxPosted = 2
  Length = 2
  MaxFailures = 2
  MaxLosses = 2
CHECK_DEADLOCK FALSE
INVARIANTS TypeOK AtomicUnlessLost OneWorkerKeepsOrder
PROPERTIES EventuallyAnswered
