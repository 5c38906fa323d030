SPECIFICATION FairGuestSpec
CONSTANTS
  NodeCount = 3
  MaxRuns = 1
  Persistent = FALSE
  Kills = FALSE
  Signals = FALSE
  EnvFaults = FALSE
  SshPortResolves = TRUE
INVARIANTS
  WorkersJoinAfterMaster
PROPERTIES
  EventuallyReady
CHECK_DEADLOCK FALSE
