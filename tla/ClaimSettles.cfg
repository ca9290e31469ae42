SPECIFICATION FairSpec
CONSTANTS
  h1 = h1  h2 = h2  h3 = h3  h4 = h4
  bucket = bucket  zone = zone  address = address
  Hosts = {h1, h2, h3}
  Resources = {bucket, zone, address}
  ResourceOf <- MCResourceOf
  Kind <- MCKind
  Reconciler = Reconciler
  Free = Free
  Homonyms = {}
  MaxAudits = 2
  MaxFaults = 3
PROPERTIES
  EveryAttemptSettles
CHECK_DEADLOCK FALSE
