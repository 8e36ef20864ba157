SPECIFICATION FairSpec
CONSTANTS
  Clients = {"renewal", "endpoint"}
  MaxCerts = 2
  MaxIncidents = 1
INVARIANTS
  TypeOK
  PairsMatchUnlessInterrupted
PROPERTIES
  RenewedIsServed
  DueIsRenewed
  PortIsFreed
CHECK_DEADLOCK FALSE
