SPECIFICATION ServiceSpec
CONSTANTS
  a1 = a1
  a2 = a2
  b = b
  Job <- MCJob
  Names <- MCNames
  NameOf <- MCNameOf
  JobLists <- MCLists
  Fragile = {b}
  MaxCrons = 4
  MaxRuns = 1
  Unreadable = Unreadable
  MaxSignals = 3
  MaxEdits = 2
INVARIANTS
  ReadsAfterDraining
CHECK_DEADLOCK FALSE
