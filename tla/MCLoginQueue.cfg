SPECIFICATION Spec
CONSTANTS
  a = a
  b = b
  c = c
  a1 = a1
  a2 = a2
  b1 = b1
  c1 = c1
  NoSession = NoSession
  Accounts = {a, b, c}
  Sessions <- MCSessions
  AccountOf <- MCAccountOf
  StaffSets <- MCStaffSets
  Limit = 1
  Threads = {t1}
  Modulus = 8
INVARIANTS TypeOK QueueConsistent CountIsSessions LimitRespected
SYMMETRY Symmetry
CHECK_DEADLOCK FALSE
