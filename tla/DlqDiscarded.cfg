SPECIFICATION Spec
CONSTANTS
  d1 = d1
  d2 = d2
  w1 = w1
  w2 = w2
  None = None
  Records <- MCRecords
  Category <- MCCategory
  Workers <- MCWorkers
  MaxRetries <- MCMaxRetries
  MaxManual = 0
  MaxFaults = 0
CHECK_DEADLOCK FALSE
PROPERTY DiscardedIsTerminal
