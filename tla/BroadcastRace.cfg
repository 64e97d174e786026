\* Two goroutines add the caller card to the metadata of one broadcast.
SPECIFICATION Spec
CONSTANTS
  None = None
  direct = direct
  streaming = streaming
  stranger = stranger
  Aliases = {direct, streaming, stranger}
  Registered = {direct, streaming}
  Streaming = {streaming}
  Lists <- TwoOfEachKind
  MaxAliases = 2
  Burst = 1
  MaxRefills = 1
  Threshold = 1
INVARIANTS
  NoRace
CHECK_DEADLOCK FALSE
