\* A response that its token limit cuts before a call is finished.
SPECIFICATION Spec
CONSTANTS
  Item = {i, j}
  MaxPiece = 2
  MaxPing = 1
  NoEvent = NoEvent
INVARIANT
  NoPartialCall
CHECK_DEADLOCK FALSE
