CONSTANTS
  Owner = owner
  NULL = null
  Workers = {w1, w2}
  Posters = {p1}
  Tasks = {k1, k2}
  Terminators = {}
  MaxSpurious = 1
SPECIFICATION FairSpec
PROPERTIES
  QueuedTaskTaken
