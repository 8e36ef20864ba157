SPECIFICATION Spec
CONSTANTS
  Requests = {r1, r2}
  ConsecutiveFailureThreshold = 3
  RateNum = 1
  RateDen = 2
  MinRequests = 4
  OpenDuration = 1
  HalfOpenMaxRequests = 1
  MaxOutcomes = 4
INVARIANT UnansweredRequestsTrip
