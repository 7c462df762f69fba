SPECIFICATION FairSpec
CONSTANTS
  Peers = {p1, p2}
  Slots = {s1, s2, s3}
  MaxServices = 2
  MaxPerPeer = 1
  Reporting = {TRUE, FALSE}
  Forks = TRUE
  Discards = TRUE
INVARIANTS
  CapsHold
  NothingIsStranded
PROPERTIES
  NothingRunsForever
CHECK_DEADLOCK FALSE
