SPECIFICATION Spec
CONSTANTS
  MaxStreamId = 2
  ErrorClasses = {"SETUP", "CONNECTION", "STREAM", "UNKNOWN"}
  Listeners = {"CONNECTION"}
  Uses = {"close", "reset", "cancel", "serverRequests"}
  LeaseBudget = 1
  PeriodicCap = 1
INVARIANTS
  TypeOK
  SettledOnce
  WaitingIsTimed
  TableIsAccountedFor
  IdsAreOwned
  OnlyLateErrorsCrash
PROPERTIES
  CloseSettles
  ImplementsRequestResponse
CHECK_DEADLOCK FALSE
