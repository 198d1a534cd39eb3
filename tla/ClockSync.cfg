CONSTANTS
  MaxRtt = 3
  MaxUncertainty = 2
  Validity = 3
  SampleCap = 2
  FailureLimit = 2
  MaxTime = 5
  MaxChallenges = 2
  MaxAnswers = 2
  MaxRestarts = 1
SPECIFICATION ClockSpec
INVARIANTS
  ClockTypeOK
  EstimateAccurate
PROPERTIES
  ValidOnlyByAcceptance
CHECK_DEADLOCK FALSE
