\* A client, a directory of up to three cards that changes twice, and its server.
SPECIFICATION FairSpec
CONSTANTS
  None = None
  Garbled = Garbled
  NumNames = 3
  MaxLimit = 2
  MaxChanges = 2
  MaxRetries = 1
  MaxOthers = 1
INVARIANTS
  TypeOK
  MissesAreRemovals
  RepeatsAreAdditions
  PagesAddUp
  GracefulReturn
PROPERTIES
  ReadingEnds
  PagesRunOut
  ServerReturns
