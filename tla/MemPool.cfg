CONSTANTS
  Kinds = {"paged", "block"}
  PageSizes = {6, 7}
  Sizes = {1, 2, 3, 8}
  Header = 3
  MinBlock = 2
  MaxPages = 3
  NULL = null
  JUNK = junk
SPECIFICATION Spec
INVARIANTS
  BlocksApart
  SpaceIsFound
CHECK_DEADLOCK FALSE
