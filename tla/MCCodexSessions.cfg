\* Every request ends, so the system may stop.
SPECIFICATION OrderedSpec
CONSTANTS
  Req = {1, 2, 3}
  Key = {1, 2}
  Limit = 2
  NoKey = NoKey
  NoTurn = NoTurn
INVARIANTS
  ReservedSlot
  OneDriver
  NothingOrphaned
  ReuseAfterUse
  CloseLeavesNothingParked
PROPERTIES
  RequestEnds
  SlotReturned
CHECK_DEADLOCK FALSE
