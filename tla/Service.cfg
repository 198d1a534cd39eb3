CONSTANTS
  MaxFaults = 2
SPECIFICATION Spec
INVARIANTS
  TypeOK
  StoppedMeansNoWorker
PROPERTIES
  StopIsFinal
  StopCompletesWithoutWorker
CHECK_DEADLOCK FALSE
