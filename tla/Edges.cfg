SPECIFICATION MCSpec
CONSTANTS
  Caller = {one, two}
  TTLs = {0, 2}
  MaxVersion = 1
  MaxClock = 5
  LoadTime = 1
  Configs <- Buckets  Costs <- Charges  MaxSecond = 3  MaxGrants = 5
  AttemptOptions = {0, 1, 2}  Retryables <- Predicates
  Env = {e, f}  Message = {1, 2, 3}  Unmatched = {2}  MaxFaults = 2  IgnoreUnmatchedTopics = TRUE
  Chain <- Chains  Source <- Sources  Response <- Answers  MaxDeliveries = 2
  Failure <- TimedOut  Pair = {p, q}  MaxExemplars = 2  MaxIssueErrors = 1  MaxPendingIssueErrors = 2
  MaxOccurrences = 3  MaxWire = 1
  Service = {"web", "shop"}  Topic = {"orders", "bills"}  Instance = {"i", "j"}
  Status = {"ok", "timeout", "gone"}  Failing = {"timeout", "gone"}  Hash = {"none", "h1", "h2"}  None = "none"
  Event <- TracedEvents  Capacity = 2  MaxFleetTraces = 1  MaxMessages = 3
INVARIANTS QuotaIsExact MeshViewsAreTrue EdgesAreExact
PROPERTIES CacheIsHonest CallsAreHonest EventsAreAnswered EventsAreLetGo
CHECK_DEADLOCK FALSE
