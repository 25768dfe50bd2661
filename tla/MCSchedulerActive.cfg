SPECIFICATION Spec
CONSTANTS
  a1 = a1
  a2 = a2
  b = b
  Job <- MCJob
  Names <- MCNames
  NameOf <- MCNameOf
  JobLists <- MCLists
  Fragile = {b}
  MaxCrons = 3
  MaxRuns = 2
INVARIANTS
  ActiveIsScheduled
CHECK_DEADLOCK FALSE
