SPECIFICATION Spec
CONSTANTS
  Requests = {r1, r2, r3}
  ConsecutiveFailureThreshold = 1
  RateNum = 1
  RateDen = 2
  MinRequests = 4
  OpenDuration = 1
  HalfOpenMaxRequests = 1
  MaxOutcomes = 3
INVARIANT ProbeLimit
