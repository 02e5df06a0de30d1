CONSTANTS
  Producers = {p1, p2}
  Consumers = {c1, c2}
  Controller = ctl
  Main = main
  Msgs = {m1, m2, m3}
  MaxLen = 1
  MaxUpsets = 1
  SizeMax = 3
  NULL = null
SPECIFICATION FairSpec
INVARIANTS
  ListsAreContent
  PendingBound
  OneGetWaiter
  NothingLeftBehind
PROPERTIES
  NullOnlyWhenEmpty
  NobodyWaitsForEver
  NonblockReleases
CHECK_DEADLOCK FALSE
