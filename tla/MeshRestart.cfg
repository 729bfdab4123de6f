SPECIFICATION MCSpec
CONSTANTS
  none = none
  Instance = {"first", "second"}  Doc = {"deploy 1", "deploy 2"}  DocOf <- Deploys
  RegisterAttempts = 2  MaxRestarts = 1
  Service = {"web", "shop"}  Topic = {"orders", "probe"}  Reserved = {"probe"}
  Span = {"s1", "s2", "s3"}  Event <- FlowEvents  Document <- Contracts
  Capacity = 2  MaxTraced = 4
  Closer = {c1, c2}
  BatchSize = 2
  BufferSize = 3
  MaxEvents = 1
PROPERTIES CollectorRelearns
CHECK_DEADLOCK FALSE
