SPECIFICATION Spec
CONSTANTS
  e1 = e1
  e2 = e2
  r1 = r1
  r2 = r2
  None = None
  Events <- MCEvents
  Replicas <- MCReplicas
  MaxAttempts = 2
  BatchSize = 2
  MaxFaults = 1
INVARIANTS
  TypeOK
  AttemptsHonoured
  ClaimsExclusive
PROPERTY EventuallySettled
