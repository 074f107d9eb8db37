CONSTANTS
  sub = sub
  filter = filter
  segmentSize = 2
  capacity = 3
  minQueueLen = 1
  Subscribers = {sub}
  Filters = {filter}
  MaxItems = 4
  MaxBatch = 2
SPECIFICATION QSpec
PROPERTY SubscribersNotified
