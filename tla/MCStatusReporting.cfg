CONSTANTS
  b1 = b1
  u1 = u1
  s1 = s1
  s2 = s2
  Absent = Absent
  NoSlot = NoSlot
  Backends = {b1}
  Urls = {u1}
  Slots = {s1, s2}
  BreakerEnabled = FALSE
  FailureThreshold = 1
  UnhealthyThreshold = 1
  MaxCount = 1
  Revisions = {"r1"}
  MaxVersion = 3
SPECIFICATION FairReportingSpec
INVARIANTS
  FirstReportHasData
  ReadyFromTheStart
PROPERTIES
  RegistryReachesMonitor
CHECK_DEADLOCK FALSE
