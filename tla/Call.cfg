SPECIFICATION FairSpec
CONSTANTS
  MaxTurns = 1
  Filming = {"a", "b"}
INVARIANTS CallConsistent
PROPERTIES CallSettles
CHECK_DEADLOCK FALSE
