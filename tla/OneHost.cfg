SPECIFICATION Spec
CONSTANTS
  EnvFaults = TRUE
  CallsFail = TRUE
  Workers = 2
  VMs = {vm1, vm2}
  MaxRuns = 3
INVARIANTS
  TypeOK
  BuiltMeansFilled
  AnnouncedMeansBooted
  StartedWithDrive
PROPERTIES
  StuckUntilUnmounted
  TakenForGood
  NotStartedTwice
CHECK_DEADLOCK FALSE
