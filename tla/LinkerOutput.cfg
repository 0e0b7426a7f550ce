CONSTANTS
  Linkers = {a, b}
  Paths = {p, q}
  User = user
SPECIFICATION OutputSpec
CHECK_DEADLOCK FALSE
INVARIANTS
  SuccessIsWhole
PROPERTIES
  NeverOverwrites
