SPECIFICATION Spec
CONSTANTS
  NodeCount = 2
  MaxRuns = 3
  Persistent = FALSE
  Kills = TRUE
  Signals = FALSE
  EnvFaults = TRUE
  SshPortResolves = TRUE
INVARIANTS
  NoBootFromPartialCopy
  
PROPERTIES
  ImplementsBarrier
CHECK_DEADLOCK FALSE
