SPECIFICATION Spec
CONSTANTS
  NULL = NULL
  Main = Main
  Stamper = Stamper
  old = old
  Client = {c1, c2}
  Device = TRUE
  MaxOps = 1
  MaxStamps = 1
  Earlier <- OneEarlier
  Request <- AllRequests
SYMMETRY Symmetry
CHECK_DEADLOCK FALSE
INVARIANTS
  ReplyIsSnapshot
  OwnPacketInReply
  ReplyFollowsSeek
PROPERTY
  UsesDevice
