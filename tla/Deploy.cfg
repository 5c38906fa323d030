SPECIFICATION Spec
CONSTANTS
  Deploys = {d1, d2}
  Deletes = {x1, x2}
  Keys = {own, other}
  InDefault = {own}
  EnvFaults = TRUE
INVARIANTS
  TypeOK
PROPERTIES
  ImplementsClaim
CHECK_DEADLOCK FALSE
