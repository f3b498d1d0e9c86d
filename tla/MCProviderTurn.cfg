\* A turn ends, so the system may stop.
SPECIFICATION FairSpec
CONSTANTS
  MaxBlock = 3
  MaxPiece = 2
  MaxPing = 1
  MaxAgain = 1
INVARIANTS
  SuccessIsWhole
  ProcessReaped
PROPERTIES
  TurnImplementsStream
  TurnReturns
CHECK_DEADLOCK FALSE
