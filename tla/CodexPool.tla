------------------------------ MODULE CodexPool ------------------------------
(***************************************************************************)
(* The bounded pool of Codex app-servers of provider/codexcli/pool.go:     *)
(* Provider.acquireServer, the release closure it hands out,               *)
(* Provider.startAppServer with the pinned model catalog, and the pool     *)
(* half of Provider.Close.                                                 *)
(*                                                                         *)
(* Every section the code runs under poolMu or catalogMu is one action,    *)
(* and so is every channel operation; between two of them any other        *)
(* goroutine may run.  A request is the goroutine of one Generate call; it *)
(* goes back to "away" when the call is over and may come again.           *)
(***************************************************************************)
EXTENDS Integers, FiniteSets

CONSTANTS
  Req,         \* goroutines that call Generate
  Server,      \* the app-server processes that can be started
  Catalog,     \* contents of the Codex model caches on disk
  Limit,       \* cfg.MaxConcurrentCLI, already raised to 1 by New
  NoReq, NoServer, NoCatalog

ASSUME PoolAssumption ==
  /\ Limit \in Nat \ {0}
  /\ NoReq \notin Req
  /\ NoServer \notin Server
  /\ NoCatalog \notin Catalog
  /\ Catalog # {}

VARIABLES
  slots,       \* p.slots: the requests whose token is in the channel
  idle,        \* p.idle
  servers,     \* p.servers
  closed,      \* p.closed
  proc,        \* each appServer: not started, started, or Close has run
  catalogMu,   \* holder of p.catalogMu across a first start
  pinned,      \* p.directCatalog
  cache,       \* models_cache.json, which Codex rewrites on its own
  snapshot,    \* the local catalog of each startAppServer call
  loaded,      \* the catalog each server was started with
  pc,          \* where each request is
  srv,         \* the local server of each request
  dirty,       \* servers whose last turn was abandoned: its notifications
               \* may still be queued in the server's event stream
  pcClose,     \* where Provider.Close is
  closing      \* the local servers of Provider.Close

vars == <<slots, idle, servers, closed, proc, catalogMu, pinned, cache,
          snapshot, loaded, pc, srv, dirty, pcClose, closing>>

catalogVars == <<catalogMu, pinned, cache, snapshot, loaded>>
closeVars == <<closed, pcClose, closing>>

Stages == {"away", "waiting", "admitted", "select", "start", "load",
           "spawnFirst", "spawn", "register", "using", "putIdle",
           "retire", "discard", "drop"}

(***************************************************************************)
(* The type invariant.                                                     *)
(***************************************************************************)
TypeOK ==
  /\ slots \in SUBSET Req
  /\ idle \in SUBSET Server
  /\ servers \in SUBSET Server
  /\ closed \in BOOLEAN
  /\ proc \in [Server -> {"unborn", "open", "closed"}]
  /\ catalogMu \in Req \cup {NoReq}
  /\ pinned \in Catalog \cup {NoCatalog}
  /\ cache \in Catalog
  /\ snapshot \in [Req -> Catalog \cup {NoCatalog}]
  /\ loaded \in [Server -> Catalog \cup {NoCatalog}]
  /\ pc \in [Req -> Stages]
  /\ srv \in [Req -> Server \cup {NoServer}]
  /\ dirty \in SUBSET Server
  /\ pcClose \in {"open", "closing", "done"}
  /\ closing \in SUBSET Server

Init ==
  /\ slots = {}
  /\ idle = {}
  /\ servers = {}
  /\ closed = FALSE
  /\ proc = [s \in Server |-> "unborn"]
  /\ catalogMu = NoReq
  /\ pinned = NoCatalog
  /\ cache \in Catalog
  /\ snapshot = [r \in Req |-> NoCatalog]
  /\ loaded = [s \in Server |-> NoCatalog]
  /\ pc = [r \in Req |-> "away"]
  /\ srv = [r \in Req |-> NoServer]
  /\ dirty = {}
  /\ pcClose = "open"
  /\ closing = {}

Go(r, from, to) ==
  /\ pc[r] = from
  /\ pc' = [pc EXCEPT ![r] = to]

----------------------------------------------------------------------------
(* acquireServer                                                           *)

Arrive(r) ==
  /\ Go(r, "away", "waiting")
  /\ UNCHANGED <<slots, idle, servers, proc, srv, dirty, catalogVars, closeVars>>

\* case p.slots <- struct{}{}
TakeSlot(r) ==
  /\ Go(r, "waiting", "admitted")
  /\ Cardinality(slots) < Limit
  /\ slots' = slots \cup {r}
  /\ UNCHANGED <<idle, servers, proc, srv, dirty, catalogVars, closeVars>>

\* case <-ctx.Done()
GiveUp(r) ==
  /\ Go(r, "waiting", "away")
  /\ UNCHANGED <<slots, idle, servers, proc, srv, dirty, catalogVars, closeVars>>

CheckClosed(r) ==
  /\ Go(r, "admitted", IF closed THEN "drop" ELSE "select")
  /\ UNCHANGED <<slots, idle, servers, proc, srv, dirty, catalogVars, closeVars>>

\* case server = <-p.idle
TakeIdle(r) ==
  /\ Go(r, "select", "using")
  /\ \E s \in idle : idle' = idle \ {s} /\ srv' = [srv EXCEPT ![r] = s]
  /\ UNCHANGED <<slots, servers, proc, dirty, catalogVars, closeVars>>

\* bugs: start a server whatever p.idle holds; forget the slot on an error
FindIdleEmpty_Always(r) ==
  /\ Go(r, "select", "start") \/ Go(r, "select", "drop")
  /\ UNCHANGED <<slots, idle, servers, proc, srv, dirty, catalogVars, closeVars>>

FindIdleEmpty_LeakSlot(r) ==
  /\ idle = {}
  /\ Go(r, "select", "start") \/ Go(r, "select", "away")
  /\ UNCHANGED <<slots, idle, servers, proc, srv, dirty, catalogVars, closeVars>>

\* default: LookPath finds the executable, or it does not
FindIdleEmpty(r) ==
  /\ idle = {}
  /\ Go(r, "select", "start") \/ Go(r, "select", "drop")
  /\ UNCHANGED <<slots, idle, servers, proc, srv, dirty, catalogVars, closeVars>>

----------------------------------------------------------------------------
(* startAppServer                                                          *)

\* a snapshot is already pinned: start outside catalogMu
UsePinned(r) ==
  /\ Go(r, "start", "spawn")
  /\ catalogMu = NoReq
  /\ pinned # NoCatalog
  /\ snapshot' = [snapshot EXCEPT ![r] = pinned]
  /\ UNCHANGED <<slots, idle, servers, proc, srv, dirty, catalogMu, pinned,
                 cache, loaded, closeVars>>

\* bug: unlock catalogMu before the first server answers
LockCatalog_Unlocked(r) ==
  /\ Go(r, "start", "load")
  /\ catalogMu = NoReq
  /\ pinned = NoCatalog
  /\ UNCHANGED <<slots, idle, servers, proc, srv, dirty, catalogVars, closeVars>>

\* nothing pinned: keep catalogMu until the first server answers
LockCatalog(r) ==
  /\ Go(r, "start", "load")
  /\ catalogMu = NoReq
  /\ pinned = NoCatalog
  /\ catalogMu' = r
  /\ UNCHANGED <<slots, idle, servers, proc, srv, dirty, pinned, cache,
                 snapshot, loaded, closeVars>>

LoadCatalog(r) ==
  /\ \/ /\ Go(r, "load", "spawnFirst")
        /\ snapshot' = [snapshot EXCEPT ![r] = cache]
        /\ UNCHANGED catalogMu
     \/ /\ Go(r, "load", "drop")
        /\ catalogMu' = NoReq
        /\ UNCHANGED snapshot
  /\ UNCHANGED <<slots, idle, servers, proc, srv, dirty, pinned, cache, loaded,
                 closeVars>>

Launch(r, s) ==
  /\ proc[s] = "unborn"
  /\ proc' = [proc EXCEPT ![s] = "open"]
  /\ loaded' = [loaded EXCEPT ![s] = snapshot[r]]
  /\ srv' = [srv EXCEPT ![r] = s]

SpawnFirst(r) ==
  /\ Go(r, "spawnFirst", "register")
  /\ \E s \in Server : Launch(r, s)
  /\ pinned' = snapshot[r]
  /\ catalogMu' = NoReq
  /\ UNCHANGED <<slots, idle, servers, dirty, cache, snapshot, closeVars>>

SpawnFirstFails(r) ==
  /\ Go(r, "spawnFirst", "drop")
  /\ catalogMu' = NoReq
  /\ UNCHANGED <<slots, idle, servers, proc, srv, dirty, pinned, cache,
                 snapshot, loaded, closeVars>>

Spawn(r) ==
  /\ Go(r, "spawn", "register")
  /\ \E s \in Server : Launch(r, s)
  /\ UNCHANGED <<slots, idle, servers, dirty, catalogMu, pinned, cache,
                 snapshot, closeVars>>

\* bug: take a failed start for a server
SpawnFails_Ignored(r) ==
  /\ Go(r, "spawn", "register")
  /\ UNCHANGED <<slots, idle, servers, proc, srv, dirty, catalogVars, closeVars>>

SpawnFails(r) ==
  /\ Go(r, "spawn", "drop")
  /\ UNCHANGED <<slots, idle, servers, proc, srv, dirty, catalogVars, closeVars>>

\* the Codex CLI refreshes models_cache.json asynchronously
RefreshCache ==
  /\ \E c \in Catalog \ {cache} : cache' = c
  /\ UNCHANGED <<slots, idle, servers, closed, proc, catalogMu, pinned,
                 snapshot, loaded, pc, srv, dirty, pcClose, closing>>

----------------------------------------------------------------------------
(* acquireServer again, after the start; then release                      *)

\* bug: forget the second look at p.closed
Register_IgnoreClosed(r) ==
  /\ Go(r, "register", "using")
  /\ servers' = servers \cup {srv[r]}
  /\ UNCHANGED <<slots, idle, proc, srv, dirty, catalogVars, closeVars>>

Register(r) ==
  /\ \/ /\ ~closed
        /\ Go(r, "register", "using")
        /\ servers' = servers \cup {srv[r]}
     \/ /\ closed
        /\ Go(r, "register", "discard")
        /\ UNCHANGED servers
  /\ UNCHANGED <<slots, idle, proc, srv, dirty, catalogVars, closeVars>>

\* the server of a start that lost the race with Close
Discard(r) ==
  /\ Go(r, "discard", "drop")
  /\ proc' = [proc EXCEPT ![srv[r]] = "closed"]
  /\ UNCHANGED <<slots, idle, servers, srv, dirty, catalogVars, closeVars>>

\* bug: put an unhealthy server back into the pool
ReleaseUnhealthy_Reuse(r) ==
  /\ Go(r, "using", "putIdle")
  /\ dirty' = dirty \cup {srv[r]}
  /\ UNCHANGED <<slots, idle, servers, proc, srv, catalogVars, closeVars>>

ReleaseUnhealthy(r) ==
  /\ Go(r, "using", "retire")
  /\ dirty' = dirty \cup {srv[r]}
  /\ servers' = servers \ {srv[r]}
  /\ UNCHANGED <<slots, idle, proc, srv, catalogVars, closeVars>>

\* the healthy branch reads p.closed and unlocks before it acts on it
ReleaseHealthy(r) ==
  /\ Go(r, "using", IF closed THEN "retire" ELSE "putIdle")
  /\ UNCHANGED <<slots, idle, servers, proc, srv, dirty, catalogVars, closeVars>>

Retire(r) ==
  /\ Go(r, "retire", "drop")
  /\ proc' = [proc EXCEPT ![srv[r]] = "closed"]
  /\ UNCHANGED <<slots, idle, servers, srv, dirty, catalogVars, closeVars>>

\* p.idle <- server, a channel with room for Limit servers
PutIdle(r) ==
  /\ Go(r, "putIdle", "drop")
  /\ Cardinality(idle) < Limit
  /\ idle' = idle \cup {srv[r]}
  /\ UNCHANGED <<slots, servers, proc, srv, dirty, catalogVars, closeVars>>

\* <-p.slots
DropSlot(r) ==
  /\ Go(r, "drop", "away")
  /\ slots' = slots \ {r}
  /\ srv' = [srv EXCEPT ![r] = NoServer]
  /\ snapshot' = [snapshot EXCEPT ![r] = NoCatalog]
  /\ UNCHANGED <<idle, servers, proc, dirty, catalogMu, pinned, cache, loaded,
                 closeVars>>

----------------------------------------------------------------------------
(* Provider.Close, after closePending                                      *)

CloseBegin ==
  /\ pcClose = "open"
  /\ pcClose' = "closing"
  /\ closed' = TRUE
  /\ closing' = servers
  /\ servers' = {}
  /\ UNCHANGED <<slots, idle, proc, catalogVars, pc, srv, dirty>>

CloseOne ==
  /\ pcClose = "closing"
  /\ \E s \in closing :
       /\ closing' = closing \ {s}
       /\ proc' = [proc EXCEPT ![s] = "closed"]
  /\ UNCHANGED <<slots, idle, servers, closed, catalogVars, pc, srv, dirty,
                 pcClose>>

CloseEnd ==
  /\ pcClose = "closing"
  /\ closing = {}
  /\ pcClose' = "done"
  /\ UNCHANGED <<slots, idle, servers, closed, proc, catalogVars, pc, srv, dirty,
                 closing>>

----------------------------------------------------------------------------
\* what a request does without waiting for another goroutine's choice
Advance(r) ==
  \/ CheckClosed(r) \/ TakeIdle(r) \/ FindIdleEmpty(r)
  \/ LoadCatalog(r)
  \/ SpawnFirst(r) \/ SpawnFirstFails(r) \/ Spawn(r) \/ SpawnFails(r)
  \/ Register(r) \/ Discard(r)
  \/ ReleaseUnhealthy(r) \/ ReleaseHealthy(r) \/ Retire(r) \/ PutIdle(r)
  \/ DropSlot(r)

Next ==
  \/ \E r \in Req :
       \/ Arrive(r) \/ TakeSlot(r) \/ GiveUp(r)
       \/ UsePinned(r) \/ LockCatalog(r)
       \/ Advance(r)
  \/ RefreshCache
  \/ CloseBegin \/ CloseOne \/ CloseEnd

Spec == Init /\ [][Next]_vars

(***************************************************************************)
(* Senders blocked on a Go channel and goroutines blocked on a sync.Mutex  *)
(* are served in FIFO order (the mutex after 1ms of starvation), hence     *)
(* strong fairness on taking a slot and on entering catalogMu.  Everything *)
(* else is weakly fair: starting a server and a whole turn end by their    *)
(* own timeouts or with the request's context.  Nothing makes a request    *)
(* arrive, give up, or makes anyone close the provider.                    *)
(***************************************************************************)
Fairness ==
  /\ \A r \in Req :
       /\ SF_vars(TakeSlot(r))
       /\ SF_vars(UsePinned(r) \/ LockCatalog(r))
       /\ WF_vars(Advance(r))
  /\ WF_vars(CloseOne \/ CloseEnd)

FairSpec == Spec /\ Fairness
----------------------------------------------------------------------------
(* Properties                                                              *)

\* A release never blocks on p.idle: whenever a request is about to send its
\* server back (pool.go:394) the channel has room.  The send runs before the
\* slot is dropped, so a full channel would hold the slot for ever.
IdleHasRoom ==
  \A r \in Req : pc[r] = "putIdle" => Cardinality(idle) < Limit

\* Once Provider.Close has returned, the only app-servers still running are
\* those whose request is itself about to close or register them: a start or
\* a release that raced with Close leaves no Codex process behind.
NoServerOutlivesClose ==
  pcClose = "done" =>
    \A s \in Server : proc[s] = "open" =>
      \E r \in Req : srv[r] = s /\ pc[r] \in {"register", "retire", "discard"}

\* All app-servers run on one snapshot of the model catalog, however often
\* Codex rewrites its caches between two starts (pool.go:411-414).
OneCatalog ==
  \A s, t \in Server :
    proc[s] # "unborn" /\ proc[t] # "unborn" => loaded[s] = loaded[t]

\* The pool keeps the promise of ServerLease: a request holds a server from
\* the end of acquireServer to the moment release hands it back or closes it.
Holding(r) == pc[r] \in {"using", "putIdle", "retire"}

LeaseOf == [r \in Req |-> IF Holding(r) THEN srv[r] ELSE NoServer]

Lease == INSTANCE ServerLease WITH lease <- LeaseOf, spoiled <- dirty

ImplementsLease == Lease!LeaseSpec

\* A request that keeps waiting for a slot gets one: no path of
\* acquireServer or release forgets the token it took (pool.go:339-400).
SlotGranted(r) == pc[r] = "waiting" ~> pc[r] # "waiting"
=============================================================================
