\* An agent of a broadcast fails, is skipped, is limited or is not registered.
SPECIFICATION Spec
CONSTANTS
  None = None
  direct = direct
  streaming = streaming
  stranger = stranger
  Aliases = {direct, streaming, stranger}
  Registered = {direct, streaming}
  Streaming = {streaming}
  Lists <- TwoOfEachKind
  MaxAliases = 2
  Burst = 1
  MaxRefills = 1
  Threshold = 1
INVARIANTS
  EveryAliasIsAnswered
CHECK_DEADLOCK FALSE
