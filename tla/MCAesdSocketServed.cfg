SPECIFICATION FairSpec
CONSTANTS
  NULL = NULL
  Main = Main
  Stamper = Stamper
  old = old
  Client = {c1, c2}
  Device = TRUE
  MaxOps = 1
  MaxStamps = 1
  Earlier <- NothingEarlier
  Request <- StallRequests
CHECK_DEADLOCK FALSE
PROPERTIES
  ClientsServed
  AcceptsAgain
  SignalNoticed
