CONSTANTS
  Kinds = {"relaxed", "acquire_release", "seq_cst", "relaxed_test", "spinlock",
           "trylock", "mutex", "publish", "atomic", "atomic_demo"}
  Rounds = 2
SPECIFICATION FairSpec
INVARIANTS
  FinalValues
  NoDataRace
PROPERTIES
  EveryThreadEnds
CHECK_DEADLOCK FALSE
