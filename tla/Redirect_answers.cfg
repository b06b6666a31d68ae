SPECIFICATION HSpec
CONSTANTS
  Codes = {c1, c2}
  Targets = {u1}
  Deadlines = {d1}
  Requests = {r1, r2}
  MaxTries = 2
  Updates = FALSE
  Faults = TRUE
INVARIANTS
  EntriesAreHistoric
PROPERTIES
  HistorySpec
