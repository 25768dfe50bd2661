SPECIFICATION FairSpec
CONSTANTS
  a = a
  b = b
  c = c
  x = x
  y = y
  z = z
  r = r
  s = s
  Job = {a, b, c}
  Name = {x, y, z}
  NameOf <- MCNameOf
  Repo = {r, s}
  RepoOf <- MCRepoOf
  JobLists <- MCJobLists
  CommandLines <- MCCommandLines
  MaxSnapshots = 2
  MaxFaults = 2
INVARIANTS
  BatchTypeOK
  FollowsAgenda
  FatalHasCause
  InitsOnlyOnReport
  CountsAreListed
PROPERTIES
  CommandLineEnds
CHECK_DEADLOCK FALSE
