SPECIFICATION FairSpec
CONSTANTS
  Registry <- MCOneBackend
  Kinds <- MCTools
  ListsOf <- MCListsOf
  Derived <- MCToolsOnly
  Installed <- MCToolsOnly
  Goroutines = {g1, g2}
  Requests = {r1}
  Registration = reg
  Bounds <- MCOneChange
  MaxChanges = 1
  Caching = TRUE
CHECK_DEADLOCK FALSE
PROPERTIES
  ChangesReachTheClient
