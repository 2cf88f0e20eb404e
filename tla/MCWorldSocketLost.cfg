SPECIFICATION Spec
CONSTANTS
  s1 = s1
  Senders = {s1}
  MaxPackets = 1
  BufferRoom = 1
  Settings <- MCInOrder
CHECK_DEADLOCK FALSE
INVARIANTS NothingLostByDelayedClose
