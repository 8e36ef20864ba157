SPECIFICATION FairSpec
CONSTANTS
  Directories = {"www"}
  Ports = {1, 2, 3}
  RouteIds = {"r1", "r2"}
  Startup <- MCStartup
  Posts <- MCPosts
  Puts <- MCPuts
  Reloads <- MCReloads
  Endpoints = {"e3"}
  Reports = {"alive"}
  MaxCalls = 2
  MaxPending = 1
  MaxReported = 1
  MaxCrashes = 1
INVARIANTS
  TypeOK
  FileHoldsLastChange
  ListenersOutliveOtherCalls
PROPERTIES
  DroppedPortStops
  ReloadKeepsPorts
CHECK_DEADLOCK FALSE
