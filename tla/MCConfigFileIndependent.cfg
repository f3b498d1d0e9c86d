SPECIFICATION Spec
CONSTANTS
  Proc = {p, q}
  Claude = Claude
  Codex = Codex
  Model = {m}
  Builtin = Builtin
  NoProfile = NoProfile
  NoFile = NoFile
INVARIANTS
  ClientsIndependent
CHECK_DEADLOCK FALSE
