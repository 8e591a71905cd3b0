SPECIFICATION Spec
CONSTANTS
  Factories = {f1, f2}
  Sockets = {s1, s2}
  InitialAperture = 2
  MinAperture = 1
  MaxAperture = 2
  MaxCopies = 2
  MaxOpen = 2
  Uses = {"remove", "removeBusy", "again", "protocolError", "transportError", "lateError", "close", "closeBusy"}
SYMMETRY Symmetry
INVARIANTS
  TypeOK
  PoolIsOpen
  NoneForgotten
PROPERTY OnlyFailuresEvict
CHECK_DEADLOCK FALSE
