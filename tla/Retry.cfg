SPECIFICATION FairSpec
CONSTANTS
  Requests = {r1, r2}
  MaxReEnqueue = 3
  Full = 2
INVARIANTS
  TypeOK
  AtMostOnce
  AccountedOnce
PROPERTIES
  ImplementsRequestResponse
  RequestsEnd
  Recovers
CHECK_DEADLOCK FALSE
