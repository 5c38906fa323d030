SPECIFICATION FairSpec
CONSTANTS
  NodeCount = 3
  Persistent = FALSE
  EnvFaults = TRUE
INVARIANTS
  TypeOK
  OneSurvivor
  NeverSucceeds
PROPERTIES
  NothingLeftRunning
  ImplementsBarrier
CHECK_DEADLOCK FALSE
