SPECIFICATION Spec
CONSTANTS
  MaxRecords = 3
  MaxFaults = 2
  MaxErrors = 1
  MaxInodes = 6
  Events = {"crash", "power"}
  Torn = Torn
  Journaled = TRUE
INVARIANTS
  AckSurvives
  NeverRefused
CHECK_DEADLOCK FALSE
