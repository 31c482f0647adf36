CONSTANTS
  Documents <- Projects
  MaxGraphs = 4
  MaxHistory = 2
  MaxDepth = 2
  MaxParameters = 2
  MaxSelection = 2
  MaxCommands = 2
SPECIFICATION Spec
INVARIANTS
  DocumentIsSound
  CleanIsSaved
PROPERTIES
  ImplementsLinearHistory
  OnlyKnownOperationsSpoil
