SPECIFICATION Spec
CONSTANTS
  Hosts = {h1, h2}
  Size = 1
  MaxLive = 1
  Uses = {"update"}
INVARIANT HostsAreKept
CHECK_DEADLOCK FALSE
