CONSTANTS
  a = a
  m1 = m1
  RequestIds = {a}
  ModelDigests = {m1}
  Verdicts <- MCVerdicts
  Policies <- MCPolicies
  Times = {0, 1, 2, 3, 4}
  Retention = 2
  MaxRegress = 2
  U64 = 16
  Calls = {k1, k2, k3}
  ClockStep = 1
  MaxHold = 2
  MaxWindow = 3
SPECIFICATION DispatchSpec
SYMMETRY CallSymmetry
INVARIANTS
  AnswersMatchEffects
PROPERTIES
  BrokerSpec
  EnforcedByDeadline
CHECK_DEADLOCK FALSE
