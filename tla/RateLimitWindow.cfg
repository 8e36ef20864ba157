SPECIFICATION Spec
CONSTANTS
  Limiters = {"fixed_window"}
  Rate = 3
  Unit = 2
  Capacity = 2
  IntHalf = 8
  MapSize = 3
  MaxTime = 8
  MaxAdmitted = 4
INVARIANT WindowLimit
