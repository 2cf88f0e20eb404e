SPECIFICATION Spec
CONSTANTS
  m1 = m1
  m2 = m2
  s1 = s1
  s2 = s2
  Sessions = {s1}
  NoSession = NoSession
  Maps = {m1, m2}
  NoMap = NoMap
  World = World
  MaxHanded = 1
INVARIANT SavedAtStop
CHECK_DEADLOCK FALSE
