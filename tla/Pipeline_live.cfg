\* Liveness and the refinement of ClickDelivery: two workers, one malformed click, two disruptions.
SPECIFICATION FairSpec
CONSTANTS
  Events = {1, 2}
  Publishers = {p1}
  Workers = {w1, w2}
  Malformed = {2}
  ClaimLimit = 1
  Prefetch = 1
  BatchSize = 1
  MaxDisruptions = 2
  BrokerRestarts = FALSE
PROPERTIES
  EventuallySettled
  EventuallyMarked
  DeliverySpec
CHECK_DEADLOCK FALSE
