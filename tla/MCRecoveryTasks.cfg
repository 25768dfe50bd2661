SPECIFICATION Spec
CONSTANTS
  d1 = d1
  d2 = d2
  p1 = p1
  p2 = p2
  q = q
  Database = {d1, d2}
  Path = {p1, p2, q}
  DumpTo <- MCDumpTo
  Unusable = {}
  Config <- MCConfig
  SavedByOther <- MCSavedByOther
  MaxVersion = 2
  MaxBackups = 2
INVARIANTS
  EveryDatabaseSaved
CHECK_DEADLOCK FALSE
