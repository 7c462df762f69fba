SPECIFICATION FairSpec
CONSTANTS
  Peers = {p}
  Keys = {k1, k2}
  Clis = {c1}
  Conflicts = TRUE
  None = None
  MaxEntries = 1
  MaxRetirements = 1
  MaxFaults = 1
  PowerLosses = TRUE
  OrderedFS = TRUE
INVARIANTS
  NeitherLost
  ConflictSurvives
PROPERTIES
  StartupServesNoRetired
  RecoveredMeansDurable
  DegradedHeals
