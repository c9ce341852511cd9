SPECIFICATION Spec
CONSTANTS
  p1 = p1
  p2 = p2
  e1 = e1
  bad = bad
  odd = odd
  None = None
  Pods <- MCPods
  Events <- MCEvents
  Kind <- MCKind
  Log <- MCLog
  Attempts = 2
  MayFail <- Faults
  MaxFaults = 3
CHECK_DEADLOCK FALSE
INVARIANTS
  TypeOK
  NotifiedOnce
  FailuresAreRetried
PROPERTY EventuallyConsumed
