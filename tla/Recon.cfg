SPECIFICATION Spec
CONSTANTS
  Root = "root"
  Names <- MCNames
  Sources <- MCSources
  Reported <- MCReported
  Records <- MCRecords
  Zone <- MCZone
  Aliases <- MCAliases
  Reverse <- MCReverse
  Pages <- MCPages
  Words <- MCWords
  Alterations <- MCAlterations
  Resolving <- MCResolving
  Wild <- MCWild
  Modes <- MCModes
  Limits <- MCLimits
  MaxLaunches = 3
  MaxFaults = 2
  MaxInterrupts = 1
INVARIANTS KeptStaysActive NamedIsKept RowsAreTrue
