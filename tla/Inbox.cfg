\* Two agents, four entries, and a clock that outlives the first of them.
SPECIFICATION Spec
CONSTANTS
  None = None
  a1 = a1
  a2 = a2
  Aliases = {a1, a2}
  TTL = 2
  MaxTime = 5
  MaxDeposits = 4
INVARIANTS
  TypeOK
  Chronological
PROPERTIES
  ImplementsMailboxes
