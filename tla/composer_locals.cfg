SPECIFICATION ComposerSpec
CONSTANTS
  Launches = {l1, l2}
  MaxLaunches = 1
  Remotes = TRUE
  Gates = TRUE
  Controls = TRUE
  Loses = TRUE
  Faults = TRUE
SYMMETRY Interchangeable
INVARIANTS
  LocalsAreHeld
