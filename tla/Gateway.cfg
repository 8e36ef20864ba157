SPECIFICATION FairSpec
CONSTANTS
  Requests = {"r1", "r2"}
  Heads <- MCHeads
  Sends <- MCSends
  Versions = {"v1", "v2", "v3"}
  Config <- MCConfig
  Replies <- MCReplies
  Startups <- MCStartups
  OpenDuration = 1
INVARIANTS
  TypeOK
  OnlyAdmittedGetThrough
  RepliesDescribeBodies
  UpstreamLearnsPeer
PROPERTIES
  EachBreakerKeepsContract
  LongestMatchServes
  HttpRequestsEnd
CHECK_DEADLOCK FALSE
