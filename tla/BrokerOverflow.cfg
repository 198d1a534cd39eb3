CONSTANTS
  a = a
  b = b
  m1 = m1
  m2 = m2
  MaxEnforced = 4
  RequestIds = {a, b}
  ModelDigests = {m1, m2}
  Verdicts <- MCVerdicts
  Policies <- MCPolicies
  Times = {0, 1, 2, 3, 4, 5, 6}
  Retention = 2
  MaxRegress = 2
  U64 = 16
SPECIFICATION BoundedSpec
INVARIANT
  NoRepeatedAction
