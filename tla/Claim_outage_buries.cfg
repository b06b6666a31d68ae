\* Expected violation: a database outage dead-letters a good click.
SPECIFICATION Spec
CONSTANTS
  Events = {1}
  Publishers = {p1}
  Workers = {w1}
  Malformed = {}
  ClaimLimit = 1
  Prefetch = 1
  BatchSize = 1
  MaxDisruptions = 2
  BrokerRestarts = FALSE
INVARIANTS
  OutageNeverBuries
CHECK_DEADLOCK FALSE
