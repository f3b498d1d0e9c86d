\* Two calls in one or two processes, and an agent that takes the lock or not.
SPECIFICATION FirstSpec
CONSTANTS
  Call = {a, b}
  Proc = {p, q}
  Agent = Agent
  NoCall = NoCall
  MaxGen = 2
  MaxTaken = 1
INVARIANTS
  Exclusive
  TokenSpentOnce
  FileCurrent
PROPERTIES
  SingleFlight
  NoStaleReplace
  OwnLockOnly
  CallEnds
CHECK_DEADLOCK FALSE
