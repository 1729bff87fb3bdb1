SPECIFICATION Spec
CONSTANTS
  a = a
  NULL = NULL
  Block = {b1, b2}
  NL = NL
  NUL = NUL
  Cmd = Cmd
  Args = Args
  BufSize = 2
  INT_MAX = 7
  MaxMixed = 4
  MaxText = 8
  Byte <- MCByte
  Stream <- MCStream
CHECK_DEADLOCK FALSE
INVARIANTS
  InBounds
  NothingLeft
  WritesFirstLine
  IdleOnlyAtEnd
