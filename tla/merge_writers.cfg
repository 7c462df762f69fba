SPECIFICATION MCSpec
CONSTANTS
  Clis = {c1, c2}
  Ids = {i1, i2, i3}
  Seals = {s1, s2}
  Profiles = {p1, p2}
  Name = Name
  None = None
  Fates = {"admitted", "forgotten"}
  MaxConflicts = 1
  MaxChanges = 3
SYMMETRY Interchangeable
INVARIANTS
  SealBelongsToIdentity
PROPERTIES
  FloorsStay
  ChangesAreSwapped
