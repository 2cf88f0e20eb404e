SPECIFICATION FairSpec
CONSTANTS
  p1 = p1
  p2 = p2
  p3 = p3
  n1 = n1
  n2 = n2
  n3 = n3
  n4 = n4
  v1 = v1
  v2 = v2
  Null = Null
  NoValue = NoValue
  Producers <- MCProducers
  Nodes <- MCNodes
  Values <- MCValues
INVARIANTS TypeOK NoUseAfterFree NoLeak
PROPERTIES ImplementsFifo EventuallyTaken
