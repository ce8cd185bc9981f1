SPECIFICATION Spec
CONSTANTS
  QueueMax = 3
  BatchSize = 2
  MaxRecords = 6
  MaxPosts = 4
INVARIANTS
  QueueIsBounded
  OrderSurvivesARetry
  GapsAreCounted
CHECK_DEADLOCK FALSE
