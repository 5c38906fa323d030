SPECIFICATION SequentialSpec
CONSTANTS
  Creates = {c1, c2, c3}
  Stops = {s1}
  EnvFaults = FALSE
  None = None
  c1 = c1
  c2 = c2
  c3 = c3
  s1 = s1
SYMMETRY Symmetry
INVARIANTS
  ListIsComplete
CHECK_DEADLOCK FALSE
