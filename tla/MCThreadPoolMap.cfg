SPECIFICATION FairSpec
CONSTANTS
  w1 = w1
  w2 = w2
  Workers <- MCWorkers
  MaxTasks = 5
INVARIANTS TypeOK RequestCountExact WaitIsBarrier AtMostOnce OnlyLateWorkersSleep
PROPERTIES WaitReturns StopReturnsUnlessLate
CHECK_DEADLOCK FALSE
