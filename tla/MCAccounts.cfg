SPECIFICATION AccountsSpec
CONSTANTS
  a1 = a1
  a2 = a2
  x1 = x1
  x2 = x2
  x3 = x3
  y1 = y1
  y2 = y2
  here = here
  SessionRequests <- MCPair
  Passwords <- MCKeys
  FirstPassword = y1
  ResetKeys <- MCKeys
  NoValue = NoValue
  MaxTokens = 3
  MaxSessionCalls = 4
  AccountRequests <- MCPair
  Codes <- MCTriple
  NoCode = NoCode
  ResendMaxAttempts = 2
  MaxAccountCalls = 4
  RedisSites <- MCRedis
  MemorySites <- MCMemory
  PlainSites <- MCPlain
  AdminSites <- MCAdmin
  CacheTtl <- MCCacheTtl
  LiteTtl = 2
  TokenEnd = 3
  Verifications <- MCPair
  MaxDelay = 1
  MaxTime = 6
  Edits <- MCPair
  Lookups <- MCOne
  MaxReplicaCalls = 4
  RoleRequests <- MCPair
  RoleIds <- MCKeys
  SeededRole = y1
  RoleNames <- MCRoleNames
  NoName = NoName
  Accounts <- MCOne
  MaxTurns = 4
  Accesses <- MCPair
  Fields <- MCKeys
  MaxSettingSaves = 2
SYMMETRY AccountSymmetry
CHECK_DEADLOCK FALSE
INVARIANTS
  AccountsTypeOK
  SessionsExplained
  RegistrationKept
  RolesExplained
  VerdictsFounded
  CopiesExplained
  SettingsExplained
