\* The client of a broadcast goes away while its goroutines are waiting for agents.
SPECIFICATION FairSpec
CONSTANTS
  None = None
  direct = direct
  streaming = streaming
  stranger = stranger
  Aliases = {direct, streaming, stranger}
  Registered = {direct, streaming}
  Streaming = {streaming}
  Lists <- TwoOfEachKind
  MaxAliases = 2
  Burst = 1
  MaxRefills = 1
  Threshold = 1
PROPERTIES
  CancellingBlamesNobody
CHECK_DEADLOCK FALSE
