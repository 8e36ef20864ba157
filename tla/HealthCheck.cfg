SPECIFICATION FairSpec
CONSTANTS
  a = a
  bare = bare
  c = c
  mysql = mysql
  NoCheck = NoCheck
  RouteIds = {"r1"}
  Endpoints = {a, bare}
  Parsable = {a}
  Checks = {c, mysql}
  HttpChecks = {c}
  Routes <- MCRoutes
  Tasks = {1, 2, 3}
  MaxEdits = 2
INVARIANTS
  TypeOK
  NoDoubleProbing
PROPERTIES
  TasksFollowConfig
  FailedNodesRemoved
  RecoveredNodesReturn
