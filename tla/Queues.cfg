SPECIFICATION MCSpec
CONSTANTS
  Message = {m1, m2}
  Worker = {w1, w2}
  Nobody = Nobody
  Delivery = "AtLeastOnce"
  IgnoreUnmatchedTopics = FALSE
  Unmatched = {m2}
  MaxMessages = 2
  MaxReceives = 2
  Setups <- MCSetups
  Prefetch = 1
INVARIANTS NothingIsLost SetAsideIsEarned
PROPERTIES AllDrained
CHECK_DEADLOCK FALSE
