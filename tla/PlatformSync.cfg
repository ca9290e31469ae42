SPECIFICATION MCFairSpec
CONSTANTS
  a1 = a1  a2 = a2
  apex1 = apex1  www1 = www1  dev1 = dev1  api2 = api2
  Platforms = {1, 2}
  Assets = {a1, a2}
  PlatformOf <- MCPlatformOf
  Roots = {1, 2}
  Hosts = {apex1, www1, dev1, api2}
  Under <- MCUnder
  Results <- MCResults
  Scopes <- MCScopes
  Absent = Absent
  Incremental = {TRUE, FALSE}
  Resuming = {TRUE, FALSE}
  MaxRuns = 2
  MaxFaults = 2
  MaxChanges = 1
INVARIANTS
  TypeOK
  ChangeIsExpanded
  KnownIsKept
  EveryTargetIsScanned
PROPERTY EveryRunEnds
CHECK_DEADLOCK FALSE
