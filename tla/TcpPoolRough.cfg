SPECIFICATION Spec
CONSTANTS
  Hosts = {h1, h2}
  Size = 1
  MaxLive = 2
  Uses = {"update", "impatient", "late", "close"}
INVARIANTS
  TypeOK
  FreeFollowsList
CHECK_DEADLOCK FALSE
