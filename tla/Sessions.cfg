SPECIFICATION FairSpec
CONSTANTS
  r1 = r1  r2 = r2  r3 = r3
  Requests = {r1, r2, r3}
  AtOnce = 2
  Known = 1
  None = None
CHECK_DEADLOCK FALSE
INVARIANTS OneLivePerFamily DeletedHasNoSession DeadlockNeedsDeletionOrReuse SecretIsTheOneShown
PROPERTIES EndedStaysEnded SurvivorsWereInFlight EveryRequestEnds
