SPECIFICATION MCSpec
CONSTANTS
  Files = {1, 2}
  Digests = {d1, d2}
  Snapshots = {s1, s2}
  None = None
  YearOf <- MCYearOf
  Tries <- Tried
  Saves = 1
  Asks = 1
  Late = 1
CHECK_DEADLOCK FALSE
INVARIANTS RecordedWasAccepted CommittedIsACut
PROPERTIES ForcedSyncIsComplete EverySyncEnds
