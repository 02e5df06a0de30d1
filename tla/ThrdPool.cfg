CONSTANTS
  Owner = owner
  NULL = null
  Workers = {w1, w2}
  Posters = {p1}
  Tasks = {k1, k2}
  Terminators = {k2}
  MaxSpurious = 1
SPECIFICATION FairSpec
INVARIANTS
  NoUseAfterFree
  NoSleeperAfterShutdown
  NothingLeftBehind
PROPERTIES
  ImplementsTaskPool
  ShutdownCompletes
  ReachedTaskIsTaken
