CONSTANTS
  Keys = {1, 2, 3}
  Writer = writer
  Readers = {r1}
  MaxHeight = 2
  Head = 0
  NULL = null
  UNSET = unset
SPECIFICATION FairSpec
INVARIANTS
  LevelsAreSorted
  SearchesAreRight
  IteratorIsRight
PROPERTIES
  SearchEnds
