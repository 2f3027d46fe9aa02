SPECIFICATION Spec
CONSTANTS
  SessionIDs = {s1}
  Backends = {b1}
  Pods = {p1, p2}
  Objects = {o1, o2, o3}
  Capacity = 1
  Clients = {c1}
  StorageFails = FALSE
  PodsCrash = FALSE
  BackendsExpire = TRUE
PROPERTIES
  ExpiredBackendStaysOut
CHECK_DEADLOCK FALSE
