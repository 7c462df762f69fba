SPECIFICATION Spec
CONSTANTS
  Peers = {p}
  Keys = {k1, k2}
  Clis = {c1, c2}
  Conflicts = FALSE
  None = None
  MaxEntries = 1
  MaxRetirements = 2
  MaxFaults = 0
  PowerLosses = FALSE
  OrderedFS = TRUE
SYMMETRY Symmetry
INVARIANTS
  GenerationInv
  PendingOutranksUnseen
PROPERTIES
  RetirementsOnlyAdvance
  StartupKeepsSeen
