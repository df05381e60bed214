SPECIFICATION FairSpec
CONSTANTS
  Parts = {plain, printed}
  Printed = {printed}
  BatchSize = 1
  Items = {red}
  Calls = {parts}
  Paged = {parts}
  MaxPages = 2
  None = None
  MaxDeeds = 3
INVARIANTS  MarksAreRequests
CHECK_DEADLOCK FALSE
PROPERTIES WaitsEnd
