SPECIFICATION Spec
CONSTANTS
  MaxRecords = 3
  MaxFaults = 2
  MaxErrors = 0
  MaxInodes = 6
  Events = {"crash", "power"}
  Torn = Torn
  Journaled = FALSE
INVARIANT AckSurvives
CHECK_DEADLOCK FALSE
