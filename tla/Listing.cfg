SPECIFICATION Spec
CONSTANTS
  Ids = {1, 2, 3}
  Users = {u1, u2}
  Limits <- MCLimits
  Faults = TRUE
  None = None
INVARIANTS
  IInv
  NothingSkipped
  DeactivationShown
CHECK_DEADLOCK FALSE
