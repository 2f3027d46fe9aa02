CONSTANTS
  a = a
  b = b
  c = c
  d = d
  Steps = {a, b, c, d}
  Definitions <- AllDefinitions
  MaxParallel = 2
  MaxRetryCount = 1
SPECIFICATION FairSpec
INVARIANTS
  TypeOK
  DependenciesFirst
  AtMostMaxParallel
  CompletedIsEarned
  RecordedIsTrue
  ReturnedIsRecorded
PROPERTIES
  WorkflowEnds
CHECK_DEADLOCK FALSE
