SPECIFICATION Spec
CONSTANTS
  Kinds = {"tunnel"}
  Addresses = 2
  MaxPerPeer = 1
  Buffered = 2
  InLen = 2
  OutLen = 1
  MaxPolls = 2
  MaxLog = 3
  MaxOpens = 1
  MaxLosses = 1
INVARIANT
  StreamIsUnchanged
CHECK_DEADLOCK FALSE
