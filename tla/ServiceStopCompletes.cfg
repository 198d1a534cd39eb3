CONSTANTS
  MaxFaults = 0
SPECIFICATION Spec
PROPERTY StopCompletes
CHECK_DEADLOCK FALSE
