SPECIFICATION FairSpec
CONSTANTS
  NodeCount = 2
  MaxRuns = 1
  Persistent = FALSE
  Kills = FALSE
  Signals = TRUE
  EnvFaults = TRUE
  SshPortResolves = TRUE
INVARIANTS
  TypeOK
  SurvivorsAreCutOff
  FailureCleanedUp
  UnseenMeansFailed
  ReadyMeansAssembled
PROPERTIES
  WaitReturns
  CleanupEndsRun
CHECK_DEADLOCK FALSE
