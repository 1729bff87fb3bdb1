SPECIFICATION Spec
CONSTANTS
  Addr = {p1, p2, p3, p4}
  NULL = NULL
CHECK_DEADLOCK FALSE
INVARIANTS
  NoUseAfterFree
  ListIsAllocated
PROPERTY
  PoolSpec
