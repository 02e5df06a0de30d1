CONSTANTS
  p1 = p1
  p2 = p2
  p3 = p3
  p4 = p4
  Peers <- MCPeers
  Settings <- MCSettings
  BUFFER_LENGTH = 2
  SmallBuffer = 1
  Response = page
  Threads = {t1, t2}
SPECIFICATION FairSpec
INVARIANTS
  
  EventsAreCurrent
PROPERTIES
  ClosedForReason
  LossHasCause
  WatchedAreServed
CHECK_DEADLOCK FALSE
