SPECIFICATION MCSpec
CONSTANTS
  o1 = o1
  o2 = o2
  k1 = k1
  Origins = {o1, o2}
  Callers = {c1, c2}
  Ids = {1, 2}
  OriginOf <- MCOriginOf
  SealKeys = {k1, k2}
  NoKey = NoKey
  Absent = Absent
  MaxMarked = 1
  MaxInFlight = 2
  MaxPerCaller = 1
  MaxEvents = 1
PROPERTIES
  PromiseKept
  FloorHolds
  DataIsSealed
  SlotsComeBack
CHECK_DEADLOCK FALSE
