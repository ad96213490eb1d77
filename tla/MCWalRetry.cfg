SPECIFICATION Spec
CONSTANTS
  MaxRecords = 2
  MaxFaults = 2
  MaxErrors = 0
  MaxInodes = 6
  Events = {"crash", "retry"}
  Torn = Torn
  Journaled = TRUE
INVARIANT AckFsynced
CHECK_DEADLOCK FALSE
