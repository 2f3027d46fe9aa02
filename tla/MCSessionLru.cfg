SPECIFICATION Spec
CONSTANTS
  SessionIDs = {s1, s2}
  Backends = {b1}
  Pods = {p1}
  Objects = {o1, o2, o3}
  Capacity = 1
  Clients = {}
  StorageFails = FALSE
  PodsCrash = FALSE
  BackendsExpire = FALSE
INVARIANTS
  TypeOK
  LeakIsBounded
CHECK_DEADLOCK FALSE
