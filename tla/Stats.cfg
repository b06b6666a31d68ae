\* One click of each of two links, and one purging instance, over months of
\* eight days.
SPECIFICATION FairStatsSpec
CONSTANTS
  Clicks = {1, 2}
  Anonymous = {2}
  Links <- MCLinks
  LinkOf <- MCLinkOf
  Account = account
  Instances = {i1}
  Retention = 8
  Month = 8
  Horizon = 9
INVARIANT FiguresRight
PROPERTY PurgedAnyway
