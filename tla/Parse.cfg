SPECIFICATION FairSpec
CONSTANTS
  s1 = s1  s2 = s2  s3 = s3  b1 = b1
  old = old  new = new  other = other  yearless = yearless
  c1 = c1  c2 = c2  c12 = c12  unreadable = unreadable
  j1 = j1  j2 = j2
  Snapshots = {s1, s2}
  Files = {old, new, other, yearless}
  Contents = {c1, c2, c12, unreadable}
  JobNos = {j1, j2}
  Years <- MCYears
  None = None
  YearOf <- MCYearOf
  Today = 2024
  JobsIn <- MCJobsIn
  Uploads <- Mixed
  Workers = 2
  Reruns = 1
  Boots = {b1}
  AtOnce = 2
  SeedYear = 2024
  SeedJobs = {j1}
CHECK_DEADLOCK FALSE
INVARIANTS YearIsComplete OnlyParsedIsShown SerialYearIsOneSnapshot LatestWins
PROPERTIES EveryJobEnds NoJobDropped
