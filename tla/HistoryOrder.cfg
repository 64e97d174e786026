\* Two calls record at the same time.
SPECIFICATION Spec
CONSTANTS
  None = None
  Torn = Torn
  p1 = p1
  p2 = p2
  Calls = {p1, p2}
  Depth = 2
  MaxRecords = 2
INVARIANTS
  OldestFirst
