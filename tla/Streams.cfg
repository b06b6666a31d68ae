SPECIFICATION FairSpec
CONSTANTS
  Codes = {c1}
  Browsers = {b1}
  Streams = {s1, s2, s3}
  MaxConnections = 2
  MaxClicks = 2
  MaxFailures = 1
INVARIANTS
  IInv
  NewsReachesDashboard
PROPERTY
  DashboardConnects
