SPECIFICATION FairSpec
CONSTANTS
  a = a  b = b  v1 = v1  v2 = v2  s1 = s1
  Hosts = {a, b}
  Found = {"HEALTHY", "DELEGATION_TAKEOVER_CANDIDATE", "TAKEOVERABLE"}
  Subject <- MCSubject
  Verifiers = {v1, v2}
  Senders = {s1}
  Notifiers = {"discord"}
  Minimum = 3
  Capacity = 1
  MaxRuns = 2
  MaxFaults = 1
  main = main
  None = None
INVARIANTS
  TypeOK
  AlertIsStored
  ChangeIsAnnounced
  CleanRunAgrees
PROPERTIES
  RunEnds
CHECK_DEADLOCK FALSE
