SPECIFICATION ServicesSpec
CONSTANTS
  a1 = a1
  a2 = a2
  x1 = x1
  x2 = x2
  x3 = x3
  y1 = y1
  y2 = y2
  z1 = z1
  z2 = z2
  here = here
  JobKeys <- MCOne
  Pods <- MCPair
  MaxUsers = 3
  BatchSize = 2
  MaxBroadcastFaults = 1
  Notifications <- MCTriple
  InboxRequests <- MCPair
  NotCached = NotCached
  MaxInboxCalls = 4
  TaskIds <- MCOne
  Writers <- MCPair
  MaxWrites = 2
  MaxMoves = 2
  MaxSweepFaults = 1
  CommentRequests <- MCPair
  Commenters <- MCKeys
  Nobody = Nobody
  MaxComments = 1
  MaxSaves = 4
  Visits <- MCPair
  MaxVisits = 5
  NotKept = NotKept
  AnalyticsFeeds <- MCFeeds
  AnalyticsConsumers <- MCPair
  Statuses <- MCStatuses
  MaxAnalyticsFaults = 2
  MaxMarkLapses = 1
  KeyRequests <- MCTriple
  MaxKeyCalls = 4
  PipelineEvents <- MCOne
  Groups <- MCGroups
  Lenient <- MCLenient
  RetryBudget = 1
  MaxLog = 2
  MaxPipelineFaults = 1
  Clients <- MCPair
  Limit = 2
  Ttl = 2
  PruneAbove = 1
  MaxClock = 3
  MaxArrivals = 8
  Streams <- MCOne
  StreamPods <- MCPair
  Shut = Shut
  MaxAlerts = 2
  MaxRealtimeFaults = 2
SYMMETRY ServiceSymmetry
CHECK_DEADLOCK FALSE
INVARIANTS
  ServicesTypeOK
  CompletedReachedEveryone
  NotificationsExplained
  ContentExplained
  CommentsExplained
  DirectoryKept
  CountsAddUp
  RepeatsExplained
  EventsAccounted
  LimitHonoured
