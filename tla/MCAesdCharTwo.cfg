SPECIFICATION FairSpec
CONSTANTS
  NULL = NULL
  ZERO_SIZE_PTR = ZERO_SIZE_PTR
  Junk = Junk
  a = a
  NL = NL
  MaxOps = 1
  KMALLOC_MAX_SIZE = 2
  LoffMax = 2
  MaxRead = 1
  File = {f1, f2}
  Ptr = {p1, p2}
  ZeroEntry <- MCZeroEntry
  Byte <- MCByte
  Offset <- EdgeOffset
  UserData <- ShortData
INVARIANTS
  PositionsValid
PROPERTIES
  DeviceSpec
  CallsReturn
