SPECIFICATION FairQueueSpec
CONSTANTS
  Calls = {r1, r2, r3}
  Closers = {c1}
  Backends = {b1, b2}
INVARIANTS
  NoCallOnClosed
PROPERTIES
  CloseEnds
