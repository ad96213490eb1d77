SPECIFICATION FairSpec
CONSTANTS
  MaxRecords = 2
  MaxFaults = 2
  MaxErrors = 1
  MaxInodes = 6
  Events = {"power", "retry"}
  Torn = Torn
  Journaled = FALSE
PROPERTY PreviousGoes
INVARIANTS
  AckSurvives
  ExactHistory
CHECK_DEADLOCK FALSE
