\* Lists of two, with a streaming and a direct agent, in buckets of one token.
SPECIFICATION FairSpec
CONSTANTS
  None = None
  direct = direct
  streaming = streaming
  stranger = stranger
  Aliases = {direct, streaming, stranger}
  Registered = {direct, streaming}
  Streaming = {streaming}
  Lists <- TwoOfEachKind
  MaxAliases = 2
  Burst = 1
  MaxRefills = 1
  Threshold = 1
INVARIANTS
  TypeOK
  ResponsesAreAnswered
  HistoryAgrees
  AdmittedWithinLimit
  DepositsAgree
PROPERTIES
  DispatchedIsDeposited
  CallAnswers
CHECK_DEADLOCK FALSE
