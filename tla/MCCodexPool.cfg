\* Safety, the refinement of ServerLease and liveness; no symmetry.
SPECIFICATION OrderedSpec
CONSTANTS
  Req = {r1, r2, r3}
  Server = {1, 2, 3}
  Catalog = {c1, c2}
  Limit = 2
  NoReq = NoReq
  NoServer = NoServer
  NoCatalog = NoCatalog
INVARIANTS
  IdleHasRoom
  NoServerOutlivesClose
  OneCatalog
PROPERTIES
  ImplementsLease
  FirstGranted
