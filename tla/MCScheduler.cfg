SPECIFICATION FairSpec
CONSTANTS
  a1 = a1
  a2 = a2
  b = b
  Job <- MCJob
  Names <- MCNames
  NameOf <- MCNameOf
  JobLists <- MCLists
  Fragile = {b}
  MaxCrons = 3
  MaxRuns = 2
INVARIANTS
  TypeOK
  OneGeneration
  GracefulStopDrains
  RestAgrees
  ReplaceOutcome
  ActiveCoversRuns
PROPERTIES
  QuietWhileStopped
  CallsReturn
  KeepsPromise
CHECK_DEADLOCK FALSE
