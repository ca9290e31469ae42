SPECIFICATION Spec
CONSTANTS
  h1 = h1  h2 = h2  h3 = h3  h4 = h4
  bucket = bucket  zone = zone  address = address
  Hosts = {h1, h2, h3, h4}
  Resources = {bucket, zone, address}
  ResourceOf <- MCResourceOf
  Kind <- MCKind
  Reconciler = Reconciler
  Free = Free
  Homonyms <- MCBothHomonyms
  MaxAudits = 4
  MaxFaults = 3
INVARIANTS
  TypeOK
  Recoverable
  QuietMeansClean
  AdoptsOnlyItsOwn
PROPERTIES
  HaltedCreatesNothing
  ImplementsLedger
CHECK_DEADLOCK FALSE
