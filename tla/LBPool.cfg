SPECIFICATION FairSpec
CONSTANTS
  Factories = {f1, f2, f3}
  Sockets = {s1, s2}
  InitialAperture = 2
  MinAperture = 1
  MaxAperture = 2
  MaxCopies = 2
  MaxOpen = 3
  Uses = {"remove", "close"}
INVARIANTS
  HeldOnce
  ApertureKept
 
CHECK_DEADLOCK FALSE
