CONSTANTS
  b1 = b1
  u1 = u1
  u2 = u2
  s1 = s1
  s2 = s2
  Absent = Absent
  NoSlot = NoSlot
  Backends = {b1}
  Urls = {u1, u2}
  Slots = {s1, s2}
  BreakerEnabled = TRUE
  FailureThreshold = 2
  UnhealthyThreshold = 2
  MaxCount = 3
  Revisions = {"r1"}
SPECIFICATION FairSpec
INVARIANTS
  NoGhostBackend
  LiveCheckIsCurrent
  CountersAgree
PROPERTIES
  InitialChecksComplete
  StopTerminates
  HalfOpenResolves
  OpenCircuitIsTested
CHECK_DEADLOCK FALSE
