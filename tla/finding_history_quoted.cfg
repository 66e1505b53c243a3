SPECIFICATION Spec
CONSTANTS
  None = None
  Nodes <- Functions
  MaxNodes = 3
  Fold <- Folding
  MaxDepth = 3
  FileOrder <- Files
  Under <- Paths
  Printed <- Quoting
  DefaultLimit = 4
  PathOrder <- Files
  IdOrder <- Ids
  Selects <- Branches
  MaxFiles = 2
  Possible <- HistoryWorld
  Requests <- AllAsks
INVARIANTS
  PathHistory
