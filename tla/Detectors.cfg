CONSTANTS
  f1 = f1
  f2 = f2
  Users = {u1, u2}
  EventIds = {"LogonSuccess", "LogonFailure"}
  EventWindow = 3
  FailureSpan = 2
  FailureLimit = 2
  MaxSkew = 1
  MaxTime = 7
  MaxInputs = 5
  Packets <- MCPackets
  FlowWindow = 3
  MinBeacon = 1
  Targets = {t1, t2}
  GuestPaths <- MCGuestPaths
  PathBytes <- MCPathBytes
  Drives = {"c"}
SYMMETRY MCSymmetry
SPECIFICATION DetectorsSpec
INVARIANTS
  BruteForceIsReal
  MissedOnlyByFlood
  FlaggedIsRegular
  EvenTrafficIsFlagged
  QuarantineIsExact
  DecodedInOrder
  LossesShowAsGaps
CHECK_DEADLOCK FALSE
