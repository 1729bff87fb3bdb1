SPECIFICATION FairSpec
CONSTANTS
  NULL = NULL
  Main = Main
  Stamper = Stamper
  old = old
  Client = {c1}
  Device = TRUE
  MaxOps = 1
  MaxStamps = 1
  Earlier <- OneEarlier
  Request <- PatientRequests
CHECK_DEADLOCK FALSE
PROPERTY
  CleanupCompletes
