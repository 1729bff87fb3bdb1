SPECIFICATION Spec
CONSTANTS
  NULL = NULL
  MaxOps = 3
  MaxSize = 3
  ZeroEntry <- MCZeroEntry
  Entry <- MCEntry
  Position <- MCPosition
INVARIANTS
  TypeOK
  RingInv
  FindsTheByte
  SizeIsTotal
PROPERTY
  LogSpec
