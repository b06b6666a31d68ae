\* Freshness: one link, its updates, deactivation and faults, two requests at once.
SPECIFICATION FairSpec
CONSTANTS
  Codes = {c1}
  Targets = {u1, u2}
  Deadlines = {d1}
  Requests = {r1, r2}
  MaxTries = 1
  Updates = TRUE
  Faults = TRUE
INVARIANTS
  IInv
PROPERTIES
  EventuallyFresh
