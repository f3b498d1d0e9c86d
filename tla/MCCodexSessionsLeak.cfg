\* A parked slot that no turn will ever give back.
SPECIFICATION Spec
CONSTANTS
  Req = {r1, r2, r3}
  Key = {k1}
  Limit = 3
  NoKey = NoKey
  NoTurn = NoTurn
SYMMETRY Symmetry
INVARIANT ParkedSlotHasTurn
CHECK_DEADLOCK FALSE
