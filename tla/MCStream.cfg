CONSTANTS
  sub = sub
  filter = filter
  segmentSize = 3
  capacity = 2
  minQueueLen = 1
  Subscribers = {sub}
  Filters = {filter}
  MaxItems = 10
  MaxBatch = 2
SPECIFICATION QSpec
INVARIANTS
  PositionsAreIds
  RetainsCapacity
  QueueHoldsSegments
PROPERTIES
  ReadsInOrder
  CatchesUp
