\* Processes end, so the system may stop.
SPECIFICATION Spec
CONSTANTS
  Proc = {p, q, r}
  MaxVersion = 3
  NoLock = NoLock
SYMMETRY Symmetry
INVARIANTS
  NeverLost
  Exclusive
  ReportedInstalled
CHECK_DEADLOCK FALSE
