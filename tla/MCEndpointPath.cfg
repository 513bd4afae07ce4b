SPECIFICATION Spec
CONSTANTS
  MaxDecodePasses = 2
  Paths <- MCPaths
INVARIANTS
  ClearMeansItself
  RefusedForAReason
PROPERTIES
  Decides
CHECK_DEADLOCK FALSE
