SPECIFICATION FairSpec
CONSTANTS
  SessionIDs = {s1}
  Backends = {b1}
  Pods = {p1, p2}
  Objects = {o1, o2, o3}
  Capacity = 1
  Clients = {}
  StorageFails = FALSE
  PodsCrash = FALSE
  BackendsExpire = FALSE
PROPERTIES
  FailedSessionEnds
  EvictionsEnd
CHECK_DEADLOCK FALSE
