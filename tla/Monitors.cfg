CONSTANTS
  Kinds = {"pool", "pc", "locked", "peek", "cv"}
  Workers = {w1, w2}
  EvenWorkers = {w1}
  Producers = {p1, p2}
  Owner = owner
  Items = {1, 2, 3}
  MaxSpurious = 1
  NULL = null
SPECIFICATION FairSpec
INVARIANTS
  NoSleeperBesideWork
  NothingForgotten
PROPERTIES
  CallsReturn
CHECK_DEADLOCK FALSE
