SPECIFICATION Spec
CONSTANTS
  MaxVMs = 1
  Faults = FALSE
INVARIANTS
  CleanupStopsFirst
