SPECIFICATION Exercises
CONSTANTS
  MaxCalls = 3
  Arguments <- MCArguments
  Thread = {t1, t2, t3}
  Struct = {p1, p2, p3}
  Program = Program
  None = None
CHECK_DEADLOCK FALSE
INVARIANT
  SomeCommentHolds
