CONSTANTS
  MaxRtt = 2
  MaxUncertainty = 1
  Validity = 2
  SampleCap = 1
  FailureLimit = 1
  MaxTime = 3
  MaxChallenges = 1
  MaxAnswers = 1
  MaxRestarts = 1
  GuestPids = {p1}
  GuestPaths <- MCGuestPaths
  PlainPaths <- MCPlainPaths
  PathBytes <- MCPathBytes
  Drives = {"c"}
  WindowsPaths <- MCWindowsPaths
  WinPath <- MCWinPath
  MaxOrigin = 1
  MaxLag = 1
  Window = 2
  EventCap = 2
  U64 = 64
  MaxWrites = 2
  MaxRecords = 1
SPECIFICATION Spec
INVARIANT
  MediumIsUnique
CHECK_DEADLOCK FALSE
