CONSTANTS
  a = a
  b = b
  Nothing = Nothing
  Endpoint = {a, b}
  Request <- MCRequest
  MaxRequests = 2
  RuleTables <- MCRuleTables
  MoreRules <- MCMoreRules
  MaxAlerts = 2
  MaxPoints = 1
  GivenPoints <- MCGivenPoints
  RateScale = 2
  Shape <- MCShape
  Sample <- MCSample
  Pace = {1, 2}
  MaxTicks = 6
  DefaultPhase = 2
  SpikeMinDuration = 2
  CriticalDuration = 5
  Slo = 9
  m = m
  h1 = h1
  h2 = h2
  c1 = c1
  c2 = c2
  c3 = c3
  k1 = k1
  k2 = k2
  s1 = s1
  s2 = s2
  None = None
  Greenlet = {m, h1, h2}
  Main = m
  Connection = {c1, c2, c3}
  MaxConnections = 1
  Channel = {k1, k2}
  Stub = {s1, s2}
  t1 = t1
  t2 = t2
  NoToken = NoToken
  TestToken = TestToken
  Credential = {t1, t2}
  UserClass = {"APIUser", "GraphQLUser", "SoakUser", "SpikeUser", "StressUser", "WebUIUser"}
  AuthConfig <- MCAuthConfig
  Lifetime = 2
  MaxSeconds = 3
  Document <- MCDocument
  Option <- MCOption
  Spelling <- MCSpelling
  PathName <- MCPathName
  Placeholders <- MCPlaceholders
  Defined <- MCDefined
  LocalHost = LocalHost
  NotAName = NotAName
  Truncated = Truncated
  Missing = Missing
SPECIFICATION LoadTestSpec
SYMMETRY Symmetry
CHECK_DEADLOCK FALSE
INVARIANTS
  PoolBound
  OnlyAStopLeaks
  OneChannel
  RefusedForAReason
  UserIsTheDocuments
  AlertsMatchBreaches
  SustainedSpikeIsOneWindow
  KneeIsTheBend
  CapacityIsBeyondTheLoad
PROPERTIES
  PointIsBracketed
  LoadFollowsPlan
