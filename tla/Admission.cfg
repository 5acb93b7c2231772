SPECIFICATION Spec
CONSTANTS
  Window = 2
  Limit = 4
  Skew = 1
  NonceTtl = 2
  Delays <- MCDelays
  Calls = {2, 3}
  Beat = 2
  Offsets <- MCOffsets
  MaxTime = 4
  MaxRequests = 6
  Copies = 1
CHECK_DEADLOCK FALSE
INVARIANTS AdmittedWithinLimit AdmittedOnce BackoffOutlastsLimit
