SPECIFICATION Spec
CONSTANTS
  Limiters = {"token_bucket", "fixed_window"}
  Rate = 3
  Unit = 2
  Capacity = 2
  IntHalf = 8
  MapSize = 3
  MaxTime = 8
  MaxAdmitted = 4
INVARIANTS
  TypeOK
  TokensArePaidFor
  BurstBound
  MapIsBounded
  WindowCountsExactly
