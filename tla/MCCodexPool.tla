----------------------------- MODULE MCCodexPool -----------------------------
(***************************************************************************)
(* A small pool for TLC: more callers than slots, and enough servers for   *)
(* one replacement after an unhealthy release.                             *)
(*                                                                         *)
(* Requests, servers and catalogs are only ever compared for equality.  A  *)
(* SYMMETRY would forbid liveness, so the symmetry is broken here instead: *)
(* the servers start in their order, the first catalog is there first, and *)
(* one request speaks for all of them in FirstGranted.  Codex rewrites its *)
(* cache once, or the provider is closed, or a third server starts; that   *)
(* all of it together harms no invariant either is proved in               *)
(* CodexPool_proofs.                                                       *)
(***************************************************************************)
EXTENDS CodexPool

FirstCatalog == CHOOSE c \in Catalog : TRUE

InOrder ==
  /\ \A s, t \in Server : s < t /\ proc'[t] # "unborn" => proc'[s] # "unborn"
  /\ cache # FirstCatalog => cache' = cache
  /\ cache' # FirstCatalog => pcClose' = "open"
  /\ proc'[3] # "unborn" => cache' = FirstCatalog /\ pcClose' = "open"

OrderedNext == Next /\ InOrder

OrderedInit == Init /\ cache = FirstCatalog

OrderedSpec == OrderedInit /\ [][OrderedNext]_vars /\ Fairness

\* A request that keeps waiting for a slot gets one: no path of
\* acquireServer or release forgets the token it took (pool.go:339-400).
FirstGranted == SlotGranted(CHOOSE r \in Req : TRUE)
=============================================================================
