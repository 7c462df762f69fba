SPECIFICATION Spec
CONSTANTS
  o1 = o1
  o2 = o2
  a = a
  b = b
  Origins = {o1, o2}
  Ids = {a, b}
  Manifests <- SomeManifests
  None = None
  MaxValidity = 1
  Skew = 1
  MaxEntries = 2
  MaxPerOrigin = 1
  Lines <- SomeLines
  MaxTime = 5
INVARIANTS
  AtMostOnce
  Accounted
  ReservationsEnd
  RefusedForLiveOnes
PROPERTIES
  StartKeepsReservations
