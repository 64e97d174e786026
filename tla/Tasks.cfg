\* Two calls of any kind, which may be about one task.
SPECIFICATION FairSpec
CONSTANTS
  None = None
  p1 = p1
  p2 = p2
  t1 = t1
  Calls = {p1, p2}
  TaskIds = {t1}
  DefaultLimited = TRUE
  StreamLimited = TRUE
INVARIANTS
  TypeOK
  OneOutcome
  OutcomeIsSettled
  GivenUpIsResumable
PROPERTIES
  LimitedEnds
  EndedTaskEndsPolling
  SettledTaskEndsStream
