SPECIFICATION Spec
CONSTANTS
  NULL = NULL
  Main = Main
  Stamper = Stamper
  old = old
  Client = {c1, c2}
  Device = FALSE
  MaxOps = 1
  MaxStamps = 1
  Earlier <- NothingEarlier
  Request <- FileRequests
SYMMETRY Symmetry
CHECK_DEADLOCK FALSE
INVARIANTS
  TypeOK
  ThreadDataLives
  CleanExit
  PacketsWhole
