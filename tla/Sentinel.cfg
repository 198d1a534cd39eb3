CONSTANTS
  m1 = m1
  RequestIds = {0, 1, 2}
  ModelDigests = {m1}
  Verdicts <- MCVerdicts
  Policies <- MCPolicies
  Times <- MCTimes
  Retention = 6
  MaxRegress = 0
  U64 = 64
  Heartbeat = 2
  Ttl = 3
  IdSpace = 3
  MaxTicks = 7
  MaxLate = 1
  Start = 0
SPECIFICATION SentinelSpec
INVARIANTS
  ReplayOnlyAfterWrap
  ExpiredOnlyByLag
  ReplayMeansRecentlyEnforced
CHECK_DEADLOCK FALSE
