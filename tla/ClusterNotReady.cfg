SPECIFICATION FairGuestSpec
CONSTANTS
  NodeCount = 2
  MaxRuns = 1
  Persistent = FALSE
  Kills = FALSE
  Signals = FALSE
  EnvFaults = FALSE
  SshPortResolves = FALSE
PROPERTIES
  EventuallyReady
CHECK_DEADLOCK FALSE
