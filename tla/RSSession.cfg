SPECIFICATION Spec
CONSTANTS
  MaxStreamId = 1
  ErrorClasses = {"CONNECTION", "STREAM"}
  Listeners = {"CONNECTION"}
  Uses = {"lease", "setup", "follows", "refuse", "reset"}
  LeaseBudget = 2
  PeriodicCap = 1
INVARIANTS
  SetupFirst
  ReadyIsLeased
  OutcomeHasCause
CHECK_DEADLOCK FALSE
