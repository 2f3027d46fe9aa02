SPECIFICATION Spec
CONSTANTS
  SessionIDs = {s1}
  Backends = {b1}
  Pods = {p1}
  Objects = {o1, o2}
  Capacity = 1
  Clients = {c1}
  StorageFails = FALSE
  PodsCrash = FALSE
  BackendsExpire = FALSE
PROPERTIES
  TerminatedIsFinal
CHECK_DEADLOCK FALSE
