CONSTANTS
  Names = {f}
  Types = {t, u}
  Qualifiers = {inline}
  MaxDeclarations = 3
SPECIFICATION Spec
CHECK_DEADLOCK FALSE
INVARIANT BodiesSurvive
