\* Two publishers race over one outbox row, and the copies of its retries fill a
\* batch of two in one worker; broker restarts, crashes and failures, two in all.
SPECIFICATION Spec
SYMMETRY ProcessSymmetry
CONSTANTS
  Events = {1}
  Publishers = {p1, p2}
  Workers = {w1}
  Malformed = {}
  ClaimLimit = 2
  Prefetch = 2
  BatchSize = 2
  MaxDisruptions = 2
  BrokerRestarts = TRUE
INVARIANTS
  IInv
  NoClickLost
  OnePlacePerCopy
  DeadLetterJustified
  NoForgottenDelivery
  NoStrandedBatch
  AnnouncedAfterStored
PROPERTIES
  AckedOnlyWhenSettled
\* Every click may be settled and every budget spent.
CHECK_DEADLOCK FALSE
