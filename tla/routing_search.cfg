SPECIFICATION FairSpec
CONSTANTS
  Nodes = {a, b, c, d}
  Origin = a
  Dest = d
  Liar = c
  Reports <- Tales
  Worlds <- Circumstances
INVARIANTS
  SearchIsComplete
  SpentIsForwarded
  DeliveredOnce
  EachSearchIsBounded
PROPERTIES
  SearchEnds
CHECK_DEADLOCK FALSE
