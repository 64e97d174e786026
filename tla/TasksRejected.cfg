\* One call, and an agent that may reject its task.
SPECIFICATION FairSpec
CONSTANTS
  None = None
  p1 = p1
  p2 = p2
  t1 = t1
  Calls = {p1}
  TaskIds = {t1}
  DefaultLimited = TRUE
  StreamLimited = TRUE
PROPERTIES
  TerminalEndsPolling
