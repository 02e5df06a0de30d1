CONSTANTS
  Adders = {a1, a2}
  Poppers = {c1, c2}
  Nodes = {n1, n2, n3}
  NULL = null
  HEAD = head
SPECIFICATION FairSpec
INVARIANTS
  MutualExclusion
  ListIsContent
  NodesOwnedOnce
PROPERTIES
  ImplementsFifo
  LockReleased
