SPECIFICATION Spec
CONSTANTS
  Files = {1, 2}
  Digests = {d1, d2}
  Snapshots = {s1, s2}
  None = None
  YearOf <- MCYearOf
  Tries <- Twice
  Saves = 1
  Asks = 0
  Late = 1
SYMMETRY Symmetry
CHECK_DEADLOCK FALSE
INVARIANTS YearKeepsItsFiles
