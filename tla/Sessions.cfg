\* One tab, two accounts, two tokens and two requests in flight.
SPECIFICATION FairSpec
CONSTANTS
  Users = {u1, u2}
  Tokens = {k1, k2}
  Requests = {r1, r2}
  MaxReloads = 1
  None = None
INVARIANTS
  IInv
  ShownUserOwnsSession
PROPERTIES
  LiveSessionKept
  CheckingEnds
