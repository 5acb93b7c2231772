SPECIFICATION Spec
CONSTANTS
  Months = 2
  PerQuarter = 1
  Cells <- MCCells
  Columns <- MCColumns
  Sums = {400, None}
  MaxBooks = 2
  MaxRows = 5
  None = None
  Other = Other
CHECK_DEADLOCK FALSE
INVARIANTS StrayRowsAreSkipped
