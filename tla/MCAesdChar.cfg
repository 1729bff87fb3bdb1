SPECIFICATION Spec
CONSTANTS
  NULL = NULL
  ZERO_SIZE_PTR = ZERO_SIZE_PTR
  Junk = Junk
  a = a
  NL = NL
  MaxOps = 2
  KMALLOC_MAX_SIZE = 3
  LoffMax = 6
  MaxRead = 3
  File = {f1}
  Ptr = {p1, p2, p3, p4}
  ZeroEntry <- MCZeroEntry
  Byte <- MCByte
  Offset <- AnyOffset
  UserData <- MCUserData
SYMMETRY Symmetry
INVARIANTS
  TypeOK
  Ownership
  CommandsComplete
PROPERTIES
  OnlyEvictionLoses
  DeviceSpec
