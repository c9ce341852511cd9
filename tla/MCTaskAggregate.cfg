SPECIFICATION Spec
CONSTANTS
  r1 = r1
  r2 = r2
  r3 = r3
  r4 = r4
  t1 = t1
  t2 = t2
  u1 = u1
  None = None
  Requests <- MCRequests
  Titles <- MCTitles
  Users <- MCUsers
  Commands <- MCCommands
  MaxAborts = 1
  StartLegacy = FALSE
SYMMETRY RequestSymmetry
CHECK_DEADLOCK FALSE
INVARIANTS
  TypeOK
  StreamWellFormed
  ProjectionFollowsStream
  RecordsFollowStream
  DanglingFileExplained
PROPERTY ImplementsAbstractTask
