SPECIFICATION Spec
CONSTANTS
  Root = "root"
  Names <- MCNames
  Sources <- MCSources
  Reported <- MCReported
  Records <- MCRecords
  Zone <- MCZone
  Aliases <- MCAliases
  Reverse <- MCReverse
  Pages <- MCPages
  Words <- MCWords
  Alterations <- MCAlterations
  Resolving <- MCResolving
  Wild <- MCWild
  Modes <- MCModes
  Limits <- MCLimits
  MaxLaunches = 2
  MaxFaults = 0
  MaxInterrupts = 1
INVARIANT NothingNamedIsLost
