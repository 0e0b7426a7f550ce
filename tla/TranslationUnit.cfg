CONSTANTS
  Names = {f, g}
  Types = {t, u}
  Qualifiers = {inline}
  MaxDeclarations = 3
SYMMETRY Symmetric
SPECIFICATION Spec
CHECK_DEADLOCK FALSE
INVARIANTS
  ConflictsHiddenOnlyByPredecessor
  ValidDiagnosedOnlyForSpecifiers
  DefinitionsSurvive
  BindingIsLinkage
  StaticsResolvedHere
