SPECIFICATION Spec
CONSTANTS
  Partition = {orders}
  Delivery = "AtLeastOnce"
  IgnoreUnmatchedTopics = FALSE
  NMessages = 2
  Unmatched = {}
  SameSource = TRUE
INVARIANTS CommittedCovers
