SPECIFICATION Spec
CONSTANTS
  q = q
  Database = {}
  Path = {q}
  DumpTo <- MCDumpTo
  Unusable = {}
  Paths <- MCPaths
  Files <- MCFiles
  MaxEdits = 2
INVARIANTS
  DefaultConfigIsUsed
CHECK_DEADLOCK FALSE
