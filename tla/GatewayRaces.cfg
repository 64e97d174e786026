\* A change of an alias with two possible agents overlaps any other call.
SPECIFICATION Spec
CONSTANTS
  None = None
  p1 = p1
  p2 = p2
  a1 = a1
  u1 = u1
  u2 = u2
  h1 = h1
  l1 = l1
  Calls = {p1, p2}
  Aliases = {a1}
  Urls = {u1, u2}
  RawUrls = {u1}
  UrlsOf <- OneAlias
  Headers = {h1}
  Limits = {l1}
  StreamingUrls = {u2}
  ExplicitContexts = {}
  Threshold = 1
  Setups <- EachSetup
INVARIANTS
  TypeOK
  NoResidue
  ContextGoesHome
  HeadersApplied
  
  ClientKnowsCard
  CardOfEntry
  HealthOfAgent
  TrackedWhileRegistered
PROPERTIES
  StepsRunOut
