SPECIFICATION FairSpec
CONSTANTS
  Directories = {"www"}
  Ports = {1, 2, 3}
  RouteIds = {"r1", "r2"}
  Startup <- MCStartup
  Posts <- MCNone
  Puts <- MCNone
  Reloads <- MCReloads
  Endpoints = {"e2"}
  Reports = {}
  MaxCalls = 1
  MaxPending = 1
  MaxReported = 0
  MaxCrashes = 0
PROPERTY ReloadKeepsListeners
CHECK_DEADLOCK FALSE
