SPECIFICATION FairSpec
CONSTANTS
  MaxStreamId = 1
  ErrorClasses = {"UNKNOWN", "CONNECTION"}
  Listeners = {}
  Uses = {"lease", "keepalive", "close"}
  LeaseBudget = 1
  PeriodicCap = 1
PROPERTIES
  RequestsTerminate
  ClosePropagates
  EventuallyReady
CHECK_DEADLOCK FALSE
