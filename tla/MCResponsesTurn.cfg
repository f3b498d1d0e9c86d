\* Two items of any type, with up to two deltas each, for either client.
SPECIFICATION FairSpec
CONSTANTS
  Item = {i, j}
  MaxPiece = 2
  MaxPing = 1
  NoEvent = NoEvent
INVARIANTS
  ShownIsSent
  SuccessIsTerminal
PROPERTIES
  ImplementsBlockStream
  TimeoutIsIdle
  TurnEnds
CHECK_DEADLOCK FALSE
