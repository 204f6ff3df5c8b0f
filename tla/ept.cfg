SPECIFICATION EptSpec
CONSTANTS
  MaxEntries = 2
  Levels = 3
  MaxFaults = 2
INVARIANT EptTraceExact
INVARIANT GuestMemorySurvives
PROPERTY EptRunCompletes
CHECK_DEADLOCK FALSE
