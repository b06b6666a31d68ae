\* Two containers of different releases against an empty database.
SPECIFICATION FairSpec
CONSTANTS
  api = api
  api2 = api2
  Containers = {api, api2}
  Release <- MCRelease
  Dependencies = {postgres, rabbitmq}
  Postgres = postgres
  MaxFaults = 2
INVARIANTS
  IInv
  SchemaBeforeTraffic
PROPERTIES
  ComesUp
