SPECIFICATION Spec
CONSTANTS
  Creates = {c1, c2, c3}
  Stops = {s1, s2}
  EnvFaults = TRUE
  None = None
  c1 = c1
  c2 = c2
  c3 = c3
  s1 = s1
  s2 = s2
SYMMETRY Symmetry
INVARIANTS
  TypeOK
  StoppedForGood
  LostOnlyByCollision
  OneRunsPerId
PROPERTIES
  FreshUntilStop
CHECK_DEADLOCK FALSE
