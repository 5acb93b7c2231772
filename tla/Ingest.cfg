SPECIFICATION FairSpec
CONSTANTS
  Keys = {k1}
  Snapshots = {s1}
  Files = {f1, f2}
  Digests = {d1, d2}
  Requests = {r1, r2, r3}
  None = None
CHECK_DEADLOCK FALSE
INVARIANTS FileCountExact RowsAreStored JobReadsManifest OneJob
PROPERTIES SealedIsFrozen ImplementsContract Answered
