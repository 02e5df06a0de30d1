CONSTANTS
  p1 = p1
  p2 = p2
  p3 = p3
  p4 = p4
  Peers <- MCPeers
  Settings <- ThreadsSettings
  BUFFER_LENGTH = 2
  SmallBuffer = 1
  Response = page
  Threads = {t1, t2}
SPECIFICATION Spec
INVARIANTS
  OwnThread
CHECK_DEADLOCK FALSE
