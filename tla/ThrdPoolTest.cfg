CONSTANTS
  Owner = owner
  NULL = null
  Workers = {w1, w2}
  Posters = {p1, p2}
  Tasks = {k1, k2}
  Terminators = {}
  MaxSpurious = 1
  PerProducer = 1
SPECIFICATION TestSpec
INVARIANTS
  ProducersDone
