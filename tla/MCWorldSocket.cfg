SPECIFICATION FairSpec
CONSTANTS
  s1 = s1
  Senders = {s1}
  MaxPackets = 3
  BufferRoom = 2
  Settings <- MCSettings
CHECK_DEADLOCK FALSE
INVARIANTS TypeOK StreamIntact DelayedCloseFlushes
PROPERTIES DelayedCloseClosesInOrder EventuallyWritten
