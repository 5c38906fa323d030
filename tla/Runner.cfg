SPECIFICATION Spec
CONSTANTS
  MaxVMs = 3
  Faults = TRUE
INVARIANTS
  TypeOK
  BuiltMeansCopied
  LonelyStartBinds
PROPERTIES
  WedgedForGood
