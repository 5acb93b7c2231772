SPECIFICATION FairSpec
CONSTANTS
  Jobs = 2
  Readers = {r1, r2}
  Flush = Flush
  None = None
CHECK_DEADLOCK FALSE
INVARIANTS ReadsGoForward
PROPERTIES ReloadSurvives EventuallyFresh
