\* Two calls record five interactions in a history of two, with crashes and full disks.
SPECIFICATION FairSpec
CONSTANTS
  None = None
  Torn = Torn
  p1 = p1
  p2 = p2
  Calls = {p1, p2}
  Depth = 2
  MaxRecords = 5
INVARIANTS
  TypeOK
  LockIsHeldToWrite
PROPERTIES
  ImplementsLog
  RecordsEnd
