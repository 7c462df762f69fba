SPECIFICATION FairSpec
CONSTANTS
  Procs = {p1, p2, p3}
  MaxCalls = 1
CHECK_DEADLOCK FALSE
INVARIANTS
  LossIsAnnounced
PROPERTIES
  UpdatesAreAtomic
  EveryCallReturns
