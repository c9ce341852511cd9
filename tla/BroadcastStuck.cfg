SPECIFICATION BroadcastSpec
CONSTANTS
  k1 = k1
  p1 = p1
  JobKeys <- MCJobKeys
  Pods <- MCPods
  MaxUsers = 3
  BatchSize = 2
  MaxBroadcastFaults = 0
CHECK_DEADLOCK FALSE
PROPERTY BroadcastFinishes
