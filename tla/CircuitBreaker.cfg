SPECIFICATION FairSpec
CONSTANTS
  Requests = {r1, r2, r3}
  ConsecutiveFailureThreshold = 3
  RateNum = 1
  RateDen = 2
  MinRequests = 4
  OpenDuration = 2
  HalfOpenMaxRequests = 1
  MaxOutcomes = 6
INVARIANTS
  TypeOK
  CountersMatchLog
  TripsExactlyWhenDue
PROPERTIES
  ImplementsContract
  OpenEventuallyProbes
