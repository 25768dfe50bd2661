SPECIFICATION Spec
CONSTANTS
  r1 = r1
  r2 = r2
  m = m
  a = a
  b = b
  repo = repo
  db1 = db1
  db2 = db2
  Run = {r1, r2, m}
  Refresher = {m}
  Job = {a, b}
  Name = {a, b}
  NameOf <- MCNameOf
  Repo = {repo}
  RepoOf <- MCRepoOf
  Path = {db1, db2}
  Plan <- MCPlan
  Forgets = {b}
  SharedEnv = {}
  MaxFaults = 1
INVARIANTS
  TypeOK
  FailsOnlyForCause
  SnapshotCountCurrent
PROPERTIES
  SnapshotsHoldOwnDumps
  PruneAfterBackup
SYMMETRY Runs
CHECK_DEADLOCK FALSE
