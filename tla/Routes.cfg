SPECIFICATION FairSpec
CONSTANTS
  Budgets <- MCBudgets
  Addresses = {c1}
  Clients = {c1}
  Private = {edge}
  Edge = edge
  MaxRequests = 2
  Window = 3
  Requests = {r1}
  Routes <- MCRoutes
  Codes <- MCCodes
  Production = TRUE
  Nginx = FALSE
  None = None
INVARIANTS
  IInv
  AtMostTwoBursts
  OneBudgetEach
  NeverDowngraded
  LinksReachable
PROPERTY BlockEnds
CHECK_DEADLOCK FALSE
