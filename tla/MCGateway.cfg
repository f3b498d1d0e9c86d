\* Handlers end and the server closes, so the system may stop.
SPECIFICATION OrderedSpec
CONSTANTS
  Req = {1, 2, 3}
  Session = {s1}
  Model <- MCModel
  Lists <- MCLists
  PublicSlug <- MCSlug
  Numbered <- MCNumbered
  ModelMap <- MCModelMap
  DefaultAlias <- MCDefault
  AliasesIn <- MCAliasesIn
  Mode = {"account", "key", "anthropic", "codex"}
  MaxPage = 1
  Limit = 2
  None = None
INVARIANTS
  TurnOrder
  FanOut
  GateTable
  RetryBudget
  CatalogFaithful
PROPERTIES
  RequestsEnd
CHECK_DEADLOCK FALSE
