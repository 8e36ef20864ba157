SPECIFICATION Spec
CONSTANTS
  N = 3
  Endpoints = {"a", "b", "c"}
  EndpointOf <- MCEndpointOf
  Weight <- MCWeight
  Rule <- MCRule
  Requests <- MCRequests
  Garbled <- MCGarbled
  Kinds = {"Poll", "Random", "WeightBased", "HeaderBased"}
  Listeners = {"http", "tcp"}
  MaxPicks = 7
  MaxIndex = 3
INVARIANTS
  TypeOK
  PicksAlive
  PickSucceeds
  RoundRobin
  WeightedShare
PROPERTIES
  RouterDeals
