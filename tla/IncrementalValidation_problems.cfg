SPECIFICATION Spec
CONSTANTS
  MaxFunctionDepth = 2
  Stored <- Documents
  Registries <- Snapshots
  Insertable <- Palette
  NodePool <- Clipboard
  ParameterTypes = {"number", "string"}
  VariablePool <- NewVariables
  NewNames <- Renamings
  MaxPast = 1
  MaxUnrendered = 1
  MaxEdges = 4
INVARIANTS
  ProblemsAreCurrent
  ValidatorsAgree
  SearchesAreExact
PROPERTIES
  CheckedEditsBreakNothing
