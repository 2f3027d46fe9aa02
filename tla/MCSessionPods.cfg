SPECIFICATION Spec
CONSTANTS
  SessionIDs = {s1}
  Backends = {b1}
  Pods = {p1, p2}
  Objects = {o1, o2, o3}
  Capacity = 1
  Clients = {c1}
  StorageFails = TRUE
  PodsCrash = TRUE
  BackendsExpire = TRUE
INVARIANTS
  CachedIsOpen
  ServedWasAlive
  ServedIsOpen
PROPERTIES
  GoneStaysGone
SYMMETRY Symmetry
CHECK_DEADLOCK FALSE
