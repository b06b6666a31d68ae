\* Two tabs and two guests over two free codes and a legacy row.
SPECIFICATION Spec
SYMMETRY GuestSymmetry
CONSTANTS
  Codes = {c1, c2, l1}
  Aliases = {c1}
  Legacy = {l1}
  Guests = {g1, g2}
  Users = {u1}
  Tabs = {t1, t2}
  MaxTries = 2
  Faults = TRUE
  None = None
  Corrupt = Corrupt
INVARIANTS
  IInv
  ClaimedCompletely
  StrandedOnlyIfLost
PROPERTIES
  OwnedForGood
