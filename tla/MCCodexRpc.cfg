\* Safety and liveness together.
SPECIFICATION FairSpec
CONSTANTS
  Cap = 2
  MaxThread = 2
  MaxNote = 4
INVARIANTS
  CleanStream
  NoStrayAnswer
PROPERTIES
  EndsOrWedged
CHECK_DEADLOCK FALSE
