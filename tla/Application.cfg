SPECIFICATION MCSpec
CONSTANTS
  Id = {ping, order}
  PingTopic = ping
  Version = {v1, v2}
  NoVersion = NoVersion
  NoId = NoId
  repository = repository  connection = connection
  Service = {repository, connection}  DependsOn <- OneOnOther
  Scope = {s1, s2}  Thread = {t1, t2, t3}  ScopeOf <- TwoInOne
  MaxCalls = 2  MaxResolves = 1
  Key = {"k1", "k2", "anon"}  Keyless = {"anon"}
  KeySets = {{"k1"}, {"k1", "k2"}, {"k2", "anon"}}
  MinRefetch = 2  FetchTime = 1  MaxRotations = 2
  s1 = s1  s2 = s2  t1 = t1  t2 = t2  t3 = t3
INVARIANTS SelectionIsSafe DefaultsAreExact OneInstance
PROPERTIES SelectionStable RefetchIsFair ResolutionEnds
CHECK_DEADLOCK FALSE
