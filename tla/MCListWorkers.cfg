SPECIFICATION FairSpec
CONSTANTS
  Registry <- MCTwoBackends
  Kinds <- MCOneKind
  ListsOf <- MCListsOf
  Derived <- MCOneDerived
  Installed <- MCOneInstalled
  Goroutines = {g1, g2}
  Requests = {r1}
  Registration = reg
  Bounds <- MCBounds
  MaxChanges = 2
  Caching = TRUE
CHECK_DEADLOCK FALSE
INVARIANTS
  TypeOK
  NoLostNotification
  QuietMeansCurrent
PROPERTIES
  CacheCatchesUp
  UnmissedChangesArrive
