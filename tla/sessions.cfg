SPECIFICATION Spec
CONSTANTS
  Kinds = {"tunnel", "shell"}
  Addresses = 2
  MaxPerPeer = 1
  Buffered = 2
  InLen = 2
  OutLen = 3
  MaxPolls = 2
  MaxLog = 3
  MaxOpens = 2
  MaxLosses = 1
INVARIANTS
  StreamsAreKept
  EndsAreWhole
  EndsAreRecorded
PROPERTIES
  SessionsEnd
CHECK_DEADLOCK FALSE
