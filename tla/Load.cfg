SPECIFICATION Spec
CONSTANTS
  Size = 4
  Values = {1, 2, 3, 4, 5, 6}
  Requests = {q1, q2, q3}
  InactivityPeriod = 1
  MaxTime = 6
INVARIANTS
  TypeOK
  LoadIsExact
PROPERTY
  ImplementsSortedWindow
CHECK_DEADLOCK FALSE
