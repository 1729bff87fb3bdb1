SPECIFICATION FairSpec
CONSTANTS
  Char = {a, b}
  MaxLen = 3
  String <- MCString
INVARIANTS
  FileIsPrefix
  ExitTellsTruth
PROPERTY
  RunsEnd
