SPECIFICATION Spec
CONSTANTS
  Hosts = {h1, h2, h3, h4}
  Size = 3
  MaxLive = 1
  Uses = {"update", "close"}
INVARIANTS
  PoolIsExact
  PoolIsFull
  GoneHostsLeave
  ClosedStaysEmpty
CHECK_DEADLOCK FALSE
