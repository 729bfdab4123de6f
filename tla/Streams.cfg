SPECIFICATION MCSpec
CONSTANTS
  Delivery = "AtLeastOnce"
  IgnoreUnmatchedTopics = TRUE
  NEvents = 4
  MaxBatchSize = 2
  Unmatched = {2}
  HasCheckpoint = TRUE
  Setups <- MCSetups
  Partition <- MCPartition
  NMessages = 2
  Unserved <- MCUnserved
  Poison <- MCPoison
  Last = 5
  Gaps = {2, 3}
INVARIANTS CheckpointCovers NothingSkipped PositionsCover
PROPERTIES ImplementsOrderedStream OthersAreOrdered EverythingSettles
CHECK_DEADLOCK FALSE
