\* An OpenAI-compatible endpoint that offers a model with a Claude name.
\* Handlers end, so the system may stop.
SPECIFICATION Spec
CONSTANTS
  Req = {1, 2, 3}
  Session = {s1}
  Model <- MCClaudeModel
  Lists <- MCClaudeLists
  PublicSlug <- MCClaudeSlug
  Numbered <- MCNumbered
  ModelMap <- MCModelMap
  DefaultAlias <- MCDefault
  AliasesIn <- MCClaudeAliasesIn
  Mode = {"key"}
  MaxPage = 1
  Limit = 2
  None = None
INVARIANTS
  ModelKept
CHECK_DEADLOCK FALSE
