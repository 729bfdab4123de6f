SPECIFICATION MCSpec
CONSTANTS
  Caller = {c1, c2, c3}
  MaxConcurrency = 1
  MaxQueue = 1
  Client = {"one", "two"}  Apps <- Chains  Retries = 1  TripAfter = 2  Probes = 1
  Message = {"keyed", "plain"}  Unkeyed = {"plain"}  Delivery = {"d1", "d2"}
  LeaseTTL = 2  CompletedTTL = 2
INVARIANTS SlotsAreBounded AnswersAreTrue DedupIsSafe
PROPERTIES RejectOnlyWhenFull BreakerActsOnEvidence DuplicatesSuppressed Live
CHECK_DEADLOCK FALSE
