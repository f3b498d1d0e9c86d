--------------------------- MODULE CodexPool_proofs ---------------------------
(***************************************************************************)
(* Theorems about CodexPool for any number of requests, servers, catalogs  *)
(* and slots.  The inductive invariant is the conjunction of five parts,   *)
(* each preserved by every step given the type invariant and the parts it  *)
(* names: who holds a slot, how much of the pool is spoken for, who owns   *)
(* which server, what Close has still to do, and which catalog is pinned.  *)
(***************************************************************************)
EXTENDS CodexPool, FiniteSetTheorems, TLAPS

\* requests that have found p.idle empty and have no server yet
Starting == {"start", "load", "spawnFirst", "spawn"}

\* requests whose local server is theirs alone
Owning == {"register", "using", "putIdle", "retire", "discard"}

\* requests that use, or are about to add, a server that may enter p.idle
Busy == {r \in Req : pc[r] \in Starting \cup {"register", "using", "putIdle"}}

SlotInv ==
  /\ slots = {r \in Req : pc[r] \notin {"away", "waiting"}}
  /\ IsFiniteSet(slots)
  /\ Cardinality(slots) <= Limit

CapacityInv ==
  /\ IsFiniteSet(idle)
  /\ Cardinality(idle) + Cardinality(Busy) <= Limit

HasServer == \A r \in Req : pc[r] \in Owning => srv[r] \in Server

OwnerInv ==
  /\ \A r \in Req : pc[r] \in Owning => srv[r] \notin idle /\ proc[srv[r]] # "unborn"
  /\ \A r, q \in Req :
       r # q /\ pc[r] \in Owning /\ pc[q] \in Owning => srv[r] # srv[q]
  /\ \A s \in idle \cup servers \cup closing : proc[s] # "unborn"
  /\ \A s \in dirty :
       /\ proc[s] # "unborn"
       /\ s \notin idle
       /\ \A r \in Req : pc[r] \in {"register", "using", "putIdle"} => srv[r] # s

CloseInv ==
  /\ closed <=> pcClose # "open"
  /\ closed => servers = {}
  /\ pcClose # "closing" => closing = {}
  /\ \A s \in Server : proc[s] = "open" =>
       \/ s \in servers
       \/ s \in closing
       \/ \E r \in Req : srv[r] = s /\ pc[r] \in {"register", "retire", "discard"}

CatalogInv ==
  /\ \A s \in Server : proc[s] # "unborn" => pinned # NoCatalog /\ loaded[s] = pinned
  /\ \A r \in Req : pc[r] = "spawn" => pinned # NoCatalog /\ snapshot[r] = pinned
  /\ \A r \in Req : pc[r] \in {"load", "spawnFirst"} =>
       catalogMu = r /\ pinned = NoCatalog
  /\ \A r \in Req : pc[r] = "spawnFirst" => snapshot[r] \in Catalog

IInv ==
  /\ TypeOK /\ HasServer /\ SlotInv /\ CapacityInv /\ OwnerInv /\ CloseInv /\ CatalogInv

----------------------------------------------------------------------------
(* Type correctness.  It is not inductive alone: Register and PutIdle put  *)
(* srv[r] into a set of servers, so a request in those stages has one.     *)
LEMMA TypeInit == Init => TypeOK /\ HasServer
  BY PoolAssumption DEF Init, TypeOK, Stages, HasServer, Owning

LEMMA TypeNext == TypeOK /\ HasServer /\ [Next]_vars => TypeOK' /\ HasServer'
<1> SUFFICES ASSUME TypeOK, HasServer, [Next]_vars PROVE TypeOK' /\ HasServer'
  OBVIOUS
<1> USE PoolAssumption DEF TypeOK, Stages, Go, HasServer, Owning
<1>1. ASSUME NEW r \in Req,
             Arrive(r) \/ TakeSlot(r) \/ GiveUp(r) \/ CheckClosed(r) \/ TakeIdle(r)
               \/ FindIdleEmpty(r)
      PROVE  TypeOK' /\ HasServer'
  BY <1>1 DEF Arrive, TakeSlot, GiveUp, CheckClosed, TakeIdle, FindIdleEmpty,
              catalogVars, closeVars
<1>2. ASSUME NEW r \in Req, UsePinned(r) \/ LockCatalog(r) \/ LoadCatalog(r)
      PROVE  TypeOK' /\ HasServer'
  BY <1>2 DEF UsePinned, LockCatalog, LoadCatalog, closeVars
<1>3. ASSUME NEW r \in Req, SpawnFirst(r) \/ Spawn(r)
      PROVE  TypeOK' /\ HasServer'
  BY <1>3 DEF SpawnFirst, Spawn, Launch, closeVars
<1>4. ASSUME NEW r \in Req, SpawnFirstFails(r) \/ SpawnFails(r)
      PROVE  TypeOK' /\ HasServer'
  BY <1>4 DEF SpawnFirstFails, SpawnFails, catalogVars, closeVars
<1>5. ASSUME NEW r \in Req, Register(r)
      PROVE  TypeOK' /\ HasServer'
  BY <1>5 DEF Register, catalogVars, closeVars
<1>6. ASSUME NEW r \in Req, Discard(r) \/ Retire(r)
      PROVE  TypeOK' /\ HasServer'
  BY <1>6 DEF Discard, Retire, catalogVars, closeVars
<1>7. ASSUME NEW r \in Req, ReleaseUnhealthy(r) \/ ReleaseHealthy(r) \/ PutIdle(r)
      PROVE  TypeOK' /\ HasServer'
  BY <1>7 DEF ReleaseUnhealthy, ReleaseHealthy, PutIdle, catalogVars, closeVars
<1>8. ASSUME NEW r \in Req, DropSlot(r)
      PROVE  TypeOK' /\ HasServer'
  BY <1>8 DEF DropSlot, closeVars
<1>9. CASE RefreshCache \/ CloseBegin \/ CloseOne \/ CloseEnd
  BY <1>9 DEF RefreshCache, CloseBegin, CloseOne, CloseEnd, catalogVars
<1>10. CASE UNCHANGED vars
  BY <1>10 DEF vars
<1> QED
  BY <1>1, <1>2, <1>3, <1>4, <1>5, <1>6, <1>7, <1>8, <1>9, <1>10 DEF Next, Advance

\* The actions that touch neither slots nor the set of slot holders, and the
\* ones that do, are named once for the lemmas below.
Inside(r) ==
  \/ CheckClosed(r) \/ TakeIdle(r) \/ FindIdleEmpty(r)
  \/ UsePinned(r) \/ LockCatalog(r) \/ LoadCatalog(r)
  \/ SpawnFirst(r) \/ SpawnFirstFails(r) \/ Spawn(r) \/ SpawnFails(r)
  \/ Register(r) \/ Discard(r)
  \/ ReleaseUnhealthy(r) \/ ReleaseHealthy(r) \/ Retire(r) \/ PutIdle(r)

LEMMA StepCases ==
  ASSUME [Next]_vars
  PROVE  \/ \E r \in Req : Arrive(r) \/ GiveUp(r)
         \/ \E r \in Req : TakeSlot(r)
         \/ \E r \in Req : Inside(r)
         \/ \E r \in Req : DropSlot(r)
         \/ RefreshCache \/ CloseBegin \/ CloseOne \/ CloseEnd
         \/ UNCHANGED vars
  BY DEF Next, Advance, Inside

----------------------------------------------------------------------------
(* Who holds a slot.                                                       *)
LEMMA SlotInit == Init => SlotInv
<1>1. IsFiniteSet({}) /\ Cardinality({}) = 0
  BY FS_EmptySet
<1> QED
  BY <1>1, PoolAssumption DEF Init, SlotInv

LEMMA SlotNext == TypeOK /\ SlotInv /\ [Next]_vars => SlotInv'
<1> SUFFICES ASSUME TypeOK, SlotInv, [Next]_vars PROVE SlotInv'
  OBVIOUS
<1>1. ASSUME NEW r \in Req, Arrive(r) \/ GiveUp(r)
      PROVE  SlotInv'
  BY <1>1 DEF SlotInv, TypeOK, Stages, Arrive, GiveUp, Go
<1>2. ASSUME NEW r \in Req, TakeSlot(r)
      PROVE  SlotInv'
  <2>1. slots' = slots \cup {r} /\ r \notin slots /\ Cardinality(slots) < Limit
    BY <1>2 DEF SlotInv, TakeSlot, Go
  <2>2. IsFiniteSet(slots') /\ Cardinality(slots') = Cardinality(slots) + 1
    BY <2>1, FS_AddElement DEF SlotInv
  <2>3. Cardinality(slots) \in Nat
    BY FS_CardinalityType DEF SlotInv
  <2>4. slots' = {q \in Req : pc'[q] \notin {"away", "waiting"}}
    BY <1>2 DEF SlotInv, TypeOK, Stages, TakeSlot, Go
  <2> QED
    BY <2>1, <2>2, <2>3, <2>4, PoolAssumption DEF SlotInv
<1>3. ASSUME NEW r \in Req, Inside(r)
      PROVE  SlotInv'
  <2>1. slots' = slots
    BY <1>3 DEF Inside, CheckClosed, TakeIdle, FindIdleEmpty, UsePinned,
      LockCatalog, LoadCatalog, SpawnFirst, SpawnFirstFails, Spawn, SpawnFails,
      Register, Discard, ReleaseUnhealthy, ReleaseHealthy, Retire, PutIdle
  <2>2. \E to \in Stages \ {"away", "waiting"} :
          pc[r] \notin {"away", "waiting"} /\ pc' = [pc EXCEPT ![r] = to]
    BY <1>3 DEF Inside, CheckClosed, TakeIdle, FindIdleEmpty, UsePinned,
      LockCatalog, LoadCatalog, SpawnFirst, SpawnFirstFails, Spawn, SpawnFails,
      Register, Discard, ReleaseUnhealthy, ReleaseHealthy, Retire, PutIdle,
      Go, Stages
  <2> QED
    BY <2>1, <2>2 DEF SlotInv, TypeOK
<1>4. ASSUME NEW r \in Req, DropSlot(r)
      PROVE  SlotInv'
  <2>1. slots' = slots \ {r} /\ r \in slots
    BY <1>4 DEF SlotInv, DropSlot, Go
  <2>2. IsFiniteSet(slots') /\ Cardinality(slots') = Cardinality(slots) - 1
    BY <2>1, FS_RemoveElement DEF SlotInv
  <2>3. Cardinality(slots) \in Nat
    BY FS_CardinalityType DEF SlotInv
  <2>4. slots' = {q \in Req : pc'[q] \notin {"away", "waiting"}}
    BY <1>4 DEF SlotInv, TypeOK, Stages, DropSlot, Go
  <2> QED
    BY <2>2, <2>3, <2>4, PoolAssumption DEF SlotInv
<1>5. CASE RefreshCache \/ CloseBegin \/ CloseOne \/ CloseEnd \/ UNCHANGED vars
  BY <1>5 DEF SlotInv, RefreshCache, CloseBegin, CloseOne, CloseEnd, vars
<1> QED
  BY <1>1, <1>2, <1>3, <1>4, <1>5, StepCases

----------------------------------------------------------------------------
(* How much of the pool is spoken for: servers in p.idle, servers in use   *)
(* that may return there, and requests about to start one.  A request only *)
(* joins Busy by taking a server out of p.idle, or when p.idle is empty    *)
(* and every other member of Busy holds a slot beside it.                  *)
LEMMA BusyHoldSlots ==
  ASSUME SlotInv
  PROVE  Busy \subseteq slots /\ IsFiniteSet(Busy) /\ Cardinality(Busy) \in Nat
<1>1. Busy \subseteq slots
  BY DEF SlotInv, Busy, Starting
<1> QED
  BY <1>1, FS_Subset, FS_CardinalityType DEF SlotInv

LEMMA CapacityInit == Init => CapacityInv
<1> SUFFICES ASSUME Init PROVE CapacityInv
  OBVIOUS
<1>1. IsFiniteSet({}) /\ Cardinality({}) = 0
  BY FS_EmptySet
<1>2. idle = {} /\ Busy = {}
  BY DEF Init, Busy, Starting
<1> QED
  BY <1>1, <1>2, PoolAssumption DEF CapacityInv

LEMMA CapacityNext ==
  TypeOK /\ HasServer /\ SlotInv /\ OwnerInv /\ CapacityInv /\ [Next]_vars => CapacityInv'
<1> SUFFICES ASSUME TypeOK, HasServer, SlotInv, OwnerInv, CapacityInv, [Next]_vars
             PROVE  CapacityInv'
  OBVIOUS
<1>b. /\ Busy \subseteq slots /\ IsFiniteSet(Busy) /\ Cardinality(Busy) \in Nat
      /\ Cardinality(idle) \in Nat /\ Limit \in Nat /\ IsFiniteSet(idle)
  BY BusyHoldSlots, FS_CardinalityType, PoolAssumption DEF CapacityInv
<1>1. ASSUME idle' = idle, Busy' \subseteq Busy
      PROVE  CapacityInv'
  <2>1. Cardinality(Busy') <= Cardinality(Busy) /\ Cardinality(Busy') \in Nat
    BY <1>1, <1>b, FS_Subset, FS_CardinalityType
  <2> QED
    BY <1>1, <1>b, <2>1 DEF CapacityInv
<1>2. ASSUME NEW r \in Req, TakeIdle(r)
      PROVE  CapacityInv'
  <2>1. PICK s \in idle : idle' = idle \ {s}
    BY <1>2 DEF TakeIdle
  <2>2. r \notin Busy /\ Busy' = Busy \cup {r}
    BY <1>2 DEF TakeIdle, Go, Busy, Starting, TypeOK
  <2>3. Cardinality(idle') = Cardinality(idle) - 1 /\ IsFiniteSet(idle')
    BY <2>1, <1>b, FS_RemoveElement
  <2>4. Cardinality(Busy') = Cardinality(Busy) + 1
    BY <2>2, <1>b, FS_AddElement
  <2> QED
    BY <2>3, <2>4, <1>b DEF CapacityInv
<1>3. ASSUME NEW r \in Req, FindIdleEmpty(r)
      PROVE  CapacityInv'
  <2>1. CASE pc' = [pc EXCEPT ![r] = "start"]
    <3>1. Busy' \subseteq slots
      BY <2>1, <1>3, <1>b DEF FindIdleEmpty, Go, Busy, Starting, TypeOK, SlotInv
    <3>2. Cardinality(Busy') <= Cardinality(slots) /\ Cardinality(Busy') \in Nat
      BY <3>1, FS_Subset, FS_CardinalityType DEF SlotInv
    <3>3. idle' = {} /\ Cardinality({}) = 0 /\ IsFiniteSet({})
      BY <1>3, FS_EmptySet DEF FindIdleEmpty
    <3>4. Cardinality(slots) \in Nat /\ Cardinality(slots) <= Limit
      BY FS_CardinalityType DEF SlotInv
    <3> QED
      BY <3>2, <3>3, <3>4, <1>b DEF CapacityInv
  <2>2. CASE pc' = [pc EXCEPT ![r] = "drop"]
    BY <2>2, <1>3, <1>1 DEF FindIdleEmpty, Busy, Starting, TypeOK
  <2> QED
    BY <2>1, <2>2, <1>3 DEF FindIdleEmpty, Go
<1>4. ASSUME NEW r \in Req, PutIdle(r)
      PROVE  CapacityInv'
  <2>1. idle' = idle \cup {srv[r]} /\ srv[r] \notin idle
    BY <1>4 DEF PutIdle, Go, OwnerInv, Owning
  <2>2. r \in Busy /\ Busy' = Busy \ {r}
    BY <1>4 DEF PutIdle, Go, Busy, Starting, TypeOK
  <2>3. Cardinality(idle') = Cardinality(idle) + 1 /\ IsFiniteSet(idle')
    BY <2>1, <1>b, FS_AddElement
  <2>4. Cardinality(Busy') = Cardinality(Busy) - 1
    BY <2>2, <1>b, FS_RemoveElement
  <2> QED
    BY <2>3, <2>4, <1>b DEF CapacityInv
<1>5. ASSUME NEW r \in Req,
             Arrive(r) \/ TakeSlot(r) \/ GiveUp(r) \/ CheckClosed(r) \/ DropSlot(r)
               \/ Discard(r) \/ Retire(r)
      PROVE  CapacityInv'
  BY <1>5, <1>1 DEF Arrive, TakeSlot, GiveUp, CheckClosed, DropSlot, Discard,
    Retire, Go, Busy, Starting, TypeOK
<1>6. ASSUME NEW r \in Req,
             UsePinned(r) \/ LockCatalog(r) \/ LoadCatalog(r)
               \/ SpawnFirst(r) \/ SpawnFirstFails(r) \/ Spawn(r) \/ SpawnFails(r)
               \/ Register(r) \/ ReleaseUnhealthy(r) \/ ReleaseHealthy(r)
      PROVE  CapacityInv'
  <2>1. idle' = idle
    BY <1>6 DEF UsePinned, LockCatalog, LoadCatalog, SpawnFirst, SpawnFirstFails,
      Spawn, SpawnFails, Register, ReleaseUnhealthy, ReleaseHealthy
  <2>2. pc[r] \in Starting \cup {"register", "using"} /\ \E to \in Stages : pc' = [pc EXCEPT ![r] = to]
    BY <1>6 DEF UsePinned, LockCatalog, LoadCatalog, SpawnFirst, SpawnFirstFails,
      Spawn, SpawnFails, Register, ReleaseUnhealthy, ReleaseHealthy, Go, Starting, Stages
  <2>3. Busy' \subseteq Busy
    BY <2>2 DEF Busy, TypeOK
  <2> QED
    BY <2>1, <2>3, <1>1
<1>7. CASE RefreshCache \/ CloseBegin \/ CloseOne \/ CloseEnd \/ UNCHANGED vars
  <2>1. idle' = idle /\ pc' = pc
    BY <1>7 DEF RefreshCache, CloseBegin, CloseOne, CloseEnd, vars
  <2> QED
    BY <2>1, <1>1 DEF Busy
<1> QED
  BY <1>2, <1>3, <1>4, <1>5, <1>6, <1>7 DEF Next, Advance

----------------------------------------------------------------------------
(* Which request owns which server.                                        *)
LEMMA OwnerInit == Init => OwnerInv
  BY DEF Init, OwnerInv, Owning

LEMMA OwnerNext == TypeOK /\ HasServer /\ OwnerInv /\ [Next]_vars => OwnerInv'
<1> SUFFICES ASSUME TypeOK, HasServer, OwnerInv, [Next]_vars
             PROVE  OwnerInv'
  OBVIOUS
\* steps that neither add an owner nor move a server
<1>0. ASSUME UNCHANGED <<idle, servers, closing, srv, proc, dirty>>,
             NEW r \in Req, NEW to \in Stages, pc' = [pc EXCEPT ![r] = to],
             to \in Owning => pc[r] \in Owning,
             to \in {"register", "using", "putIdle"} =>
               pc[r] \in {"register", "using", "putIdle"}
      PROVE  OwnerInv'
  BY <1>0 DEF OwnerInv, TypeOK
<1>1. ASSUME NEW r \in Req,
             Arrive(r) \/ TakeSlot(r) \/ GiveUp(r) \/ CheckClosed(r) \/ FindIdleEmpty(r)
      PROVE  OwnerInv'
  BY <1>1, <1>0 DEF Arrive, TakeSlot, GiveUp, CheckClosed, FindIdleEmpty, Go,
    Owning, Stages, closeVars
<1>2. ASSUME NEW r \in Req,
             UsePinned(r) \/ LockCatalog(r) \/ LoadCatalog(r) \/ SpawnFirstFails(r)
               \/ SpawnFails(r)
      PROVE  OwnerInv'
  BY <1>2, <1>0 DEF UsePinned, LockCatalog, LoadCatalog, SpawnFirstFails,
    SpawnFails, Go, Owning, Stages, closeVars
<1>3. ASSUME NEW r \in Req, Register(r)
      PROVE  OwnerInv'
  BY <1>3 DEF Register, Go, OwnerInv, Owning, TypeOK, closeVars
<1>3a. ASSUME NEW r \in Req, ReleaseHealthy(r)
      PROVE  OwnerInv'
  BY <1>3a, <1>0 DEF ReleaseHealthy, Go, Owning, Stages, closeVars
<1>4. ASSUME NEW r \in Req, TakeIdle(r)
      PROVE  OwnerInv'
  BY <1>4 DEF TakeIdle, Go, OwnerInv, Owning, TypeOK, closeVars
<1>5. ASSUME NEW r \in Req, NEW s \in Server, Launch(r, s),
             UNCHANGED <<idle, servers, closing, dirty>>,
             pc' = [pc EXCEPT ![r] = "register"]
      PROVE  OwnerInv'
  BY <1>5 DEF Launch, OwnerInv, Owning, TypeOK, HasServer, closeVars
<1>6. ASSUME NEW r \in Req, SpawnFirst(r) \/ Spawn(r)
      PROVE  OwnerInv'
  BY <1>6, <1>5 DEF SpawnFirst, Spawn, Go, closeVars
<1>7. ASSUME NEW r \in Req, Discard(r) \/ Retire(r)
      PROVE  OwnerInv'
  BY <1>7 DEF Discard, Retire, Go, OwnerInv, Owning, TypeOK, HasServer, closeVars
<1>8. ASSUME NEW r \in Req, ReleaseUnhealthy(r)
      PROVE  OwnerInv'
  BY <1>8 DEF ReleaseUnhealthy, Go, OwnerInv, Owning, TypeOK, HasServer, closeVars
<1>9. ASSUME NEW r \in Req, PutIdle(r)
      PROVE  OwnerInv'
  BY <1>9 DEF PutIdle, Go, OwnerInv, Owning, TypeOK, HasServer, closeVars
<1>10. ASSUME NEW r \in Req, DropSlot(r)
       PROVE  OwnerInv'
  BY <1>10 DEF DropSlot, Go, OwnerInv, Owning, TypeOK, closeVars
<1>11. CASE RefreshCache \/ CloseBegin \/ CloseEnd \/ UNCHANGED vars
  BY <1>11 DEF RefreshCache, CloseBegin, CloseEnd, vars, OwnerInv
<1>12. CASE CloseOne
  BY <1>12 DEF CloseOne, OwnerInv, HasServer, TypeOK
<1> QED
  BY <1>1, <1>2, <1>3, <1>3a, <1>4, <1>6, <1>7, <1>8, <1>9, <1>10, <1>11, <1>12
  DEF Next, Advance

----------------------------------------------------------------------------
(* What Close has still to do.                                             *)
LEMMA CloseInit == Init => CloseInv
  BY DEF Init, CloseInv

LEMMA CloseNext ==
  TypeOK /\ HasServer /\ OwnerInv /\ CloseInv /\ [Next]_vars => CloseInv'
<1> SUFFICES ASSUME TypeOK, HasServer, OwnerInv, CloseInv, [Next]_vars
             PROVE  CloseInv'
  OBVIOUS
\* steps of a request that has no server to answer for
<1>0. ASSUME UNCHANGED <<servers, closed, proc, pcClose, closing>>,
             NEW r \in Req, \E to \in Stages : pc' = [pc EXCEPT ![r] = to],
             pc[r] \notin {"register", "retire", "discard"},
             \A q \in Req : q # r => srv'[q] = srv[q]
      PROVE  CloseInv'
  BY <1>0 DEF CloseInv, TypeOK
<1>1. ASSUME NEW r \in Req,
             Arrive(r) \/ TakeSlot(r) \/ GiveUp(r) \/ CheckClosed(r) \/ TakeIdle(r)
               \/ FindIdleEmpty(r)
      PROVE  CloseInv'
  BY <1>1, <1>0 DEF Arrive, TakeSlot, GiveUp, CheckClosed, TakeIdle,
    FindIdleEmpty, Go, Stages, closeVars, TypeOK
<1>2. ASSUME NEW r \in Req,
             UsePinned(r) \/ LockCatalog(r) \/ LoadCatalog(r) \/ SpawnFirstFails(r)
               \/ SpawnFails(r)
      PROVE  CloseInv'
  BY <1>2, <1>0 DEF UsePinned, LockCatalog, LoadCatalog, SpawnFirstFails,
    SpawnFails, Go, Stages, closeVars, TypeOK
<1>3. ASSUME NEW r \in Req, PutIdle(r) \/ DropSlot(r)
      PROVE  CloseInv'
  BY <1>3, <1>0 DEF PutIdle, DropSlot, Go, Stages, closeVars, TypeOK
<1>4. ASSUME NEW r \in Req, SpawnFirst(r) \/ Spawn(r)
      PROVE  CloseInv'
  BY <1>4 DEF SpawnFirst, Spawn, Launch, Go, closeVars, CloseInv, TypeOK
<1>5. ASSUME NEW r \in Req, Register(r)
      PROVE  CloseInv'
  BY <1>5 DEF Register, Go, closeVars, CloseInv, TypeOK
<1>6. ASSUME NEW r \in Req, Discard(r) \/ Retire(r)
      PROVE  CloseInv'
  BY <1>6 DEF Discard, Retire, Go, closeVars, CloseInv, TypeOK, HasServer, Owning
<1>7. ASSUME NEW r \in Req, ReleaseUnhealthy(r)
      PROVE  CloseInv'
  BY <1>7 DEF ReleaseUnhealthy, Go, closeVars, CloseInv, TypeOK
<1>8. ASSUME NEW r \in Req, ReleaseHealthy(r)
      PROVE  CloseInv'
  BY <1>8 DEF ReleaseHealthy, Go, closeVars, CloseInv, TypeOK
<1>9. CASE CloseBegin
  BY <1>9 DEF CloseBegin, CloseInv, TypeOK
<1>10. CASE CloseOne
  BY <1>10 DEF CloseOne, CloseInv, TypeOK
<1>11. CASE CloseEnd
  BY <1>11 DEF CloseEnd, CloseInv
<1>12. CASE RefreshCache \/ UNCHANGED vars
  BY <1>12 DEF RefreshCache, vars, CloseInv
<1> QED
  BY <1>1, <1>2, <1>3, <1>4, <1>5, <1>6, <1>7, <1>8, <1>9, <1>10, <1>11, <1>12
  DEF Next, Advance

----------------------------------------------------------------------------
(* Which catalog is pinned.                                                *)
LEMMA CatalogInit == Init => CatalogInv
  BY DEF Init, CatalogInv

LEMMA CatalogNext == 
  TypeOK /\ HasServer /\ OwnerInv /\ CatalogInv /\ [Next]_vars => CatalogInv'
<1> SUFFICES ASSUME TypeOK, HasServer, OwnerInv, CatalogInv, [Next]_vars
             PROVE  CatalogInv'
  OBVIOUS
<1>0. ASSUME UNCHANGED <<catalogMu, pinned, snapshot, loaded>>,
             \A s \in Server : proc'[s] # "unborn" => proc[s] # "unborn",
             \A q \in Req : pc'[q] \in {"load", "spawnFirst", "spawn"} => pc'[q] = pc[q]
      PROVE  CatalogInv'
  BY <1>0 DEF CatalogInv
<1>1. ASSUME NEW r \in Req,
             Arrive(r) \/ TakeSlot(r) \/ GiveUp(r) \/ CheckClosed(r) \/ TakeIdle(r)
               \/ FindIdleEmpty(r) \/ SpawnFails(r)
      PROVE  CatalogInv'
  BY <1>1, <1>0 DEF Arrive, TakeSlot, GiveUp, CheckClosed, TakeIdle,
    FindIdleEmpty, SpawnFails, Go, catalogVars, TypeOK
<1>2. ASSUME NEW r \in Req,
             Register(r) \/ ReleaseUnhealthy(r) \/ ReleaseHealthy(r) \/ PutIdle(r)
      PROVE  CatalogInv'
  BY <1>2, <1>0 DEF Register, ReleaseUnhealthy, ReleaseHealthy, PutIdle, Go,
    catalogVars, TypeOK
<1>2a. ASSUME NEW r \in Req, Discard(r) \/ Retire(r)
      PROVE  CatalogInv'
  BY <1>2a, <1>0 DEF Discard, Retire, Go, catalogVars, TypeOK, OwnerInv, Owning,
    HasServer
<1>3. ASSUME NEW r \in Req, UsePinned(r) \/ LockCatalog(r) \/ LoadCatalog(r)
      PROVE  CatalogInv'
  BY <1>3, PoolAssumption DEF UsePinned, LockCatalog, LoadCatalog, Go, CatalogInv, TypeOK
<1>4. ASSUME NEW r \in Req, SpawnFirst(r)
      PROVE  CatalogInv'
  BY <1>4, PoolAssumption DEF SpawnFirst, Launch, Go, CatalogInv, TypeOK
<1>5. ASSUME NEW r \in Req, SpawnFirstFails(r)
      PROVE  CatalogInv'
  BY <1>5, PoolAssumption DEF SpawnFirstFails, Go, CatalogInv, TypeOK
<1>6. ASSUME NEW r \in Req, Spawn(r)
      PROVE  CatalogInv'
  BY <1>6 DEF Spawn, Launch, Go, CatalogInv, TypeOK
<1>7. ASSUME NEW r \in Req, DropSlot(r)
      PROVE  CatalogInv'
  BY <1>7 DEF DropSlot, Go, CatalogInv, TypeOK
<1>8. CASE RefreshCache \/ CloseBegin \/ CloseEnd \/ UNCHANGED vars
  BY <1>8, <1>0 DEF RefreshCache, CloseBegin, CloseEnd, vars, catalogVars
<1>9. CASE CloseOne
  BY <1>9, <1>0 DEF CloseOne, catalogVars, OwnerInv, TypeOK
<1> QED
  BY <1>1, <1>2, <1>2a, <1>3, <1>4, <1>5, <1>6, <1>7, <1>8, <1>9 DEF Next, Advance

----------------------------------------------------------------------------
(* The inductive invariant.                                                *)
THEOREM Invariant == Spec => []IInv
<1>1. Init => IInv
  BY TypeInit, SlotInit, CapacityInit, OwnerInit, CloseInit, CatalogInit DEF IInv
<1>2. IInv /\ [Next]_vars => IInv'
  BY TypeNext, SlotNext, CapacityNext, OwnerNext, CloseNext, CatalogNext DEF IInv
<1> QED
  BY <1>1, <1>2, PTL DEF Spec

\* Every variable of the pool keeps its type, for all values of the constants.
THEOREM TypeCorrect == Spec => []TypeOK
<1>1. IInv => TypeOK
  BY DEF IInv
<1> QED
  BY <1>1, Invariant, PTL

\* A release never blocks on p.idle (pool.go:394): the request that is about
\* to send is itself counted in Busy, so the channel holds fewer than Limit.
THEOREM RoomInIdle == Spec => []IdleHasRoom
<1>1. IInv => IdleHasRoom
  <2> SUFFICES ASSUME IInv, NEW r \in Req, pc[r] = "putIdle"
               PROVE  Cardinality(idle) < Limit
    BY DEF IdleHasRoom
  <2>1. r \in Busy
    BY DEF Busy
  <2>2. IsFiniteSet(Busy) /\ Cardinality(Busy) \in Nat /\ Cardinality(idle) \in Nat
    BY BusyHoldSlots, FS_CardinalityType DEF IInv, CapacityInv
  <2>3. Cardinality(Busy) # 0
    BY <2>1, <2>2, FS_EmptySet
  <2> QED
    BY <2>2, <2>3, PoolAssumption DEF IInv, CapacityInv
<1> QED
  BY <1>1, Invariant, PTL

\* Provider.Close leaves no app-server behind that nobody will close.
THEOREM CloseIsFinal == Spec => []NoServerOutlivesClose
<1>1. IInv => NoServerOutlivesClose
  BY DEF IInv, CloseInv, NoServerOutlivesClose
<1> QED
  BY <1>1, Invariant, PTL

\* All app-servers were started on the pinned catalog.
THEOREM CatalogPinned == Spec => []OneCatalog
<1>1. IInv => OneCatalog
  BY DEF IInv, CatalogInv, OneCatalog
<1> QED
  BY <1>1, Invariant, PTL

----------------------------------------------------------------------------
(* The pool implements ServerLease.                                        *)

\* ServerLease brings its own instance of FiniteSets.
LEMMA SameCardinality == \A S : Lease!Cardinality(S) = Cardinality(S)
  BY Zenon DEF Lease!Cardinality, Cardinality

\* Whoever is about to be granted a server holds a slot beside the leases.
LEMMA RoomForLease ==
  ASSUME IInv, NEW r \in Req, r \in slots, ~Holding(r)
  PROVE  Cardinality(Lease!Leased) < Limit
<1>1. Lease!Leased \subseteq slots \ {r}
  BY DEF Lease!Leased, LeaseOf, Holding, IInv, SlotInv
<1>2. /\ IsFiniteSet(slots \ {r})
      /\ Cardinality(slots \ {r}) = Cardinality(slots) - 1
      /\ Cardinality(slots) \in Nat
      /\ Cardinality(slots) <= Limit
  BY FS_RemoveElement, FS_CardinalityType DEF IInv, SlotInv
<1>3. /\ Cardinality(Lease!Leased) <= Cardinality(slots \ {r})
      /\ Cardinality(Lease!Leased) \in Nat
  BY <1>1, <1>2, FS_Subset, FS_CardinalityType
<1> QED
  BY <1>2, <1>3, PoolAssumption

LEMMA LeaseStep == IInv /\ [Next]_vars => [Lease!LeaseNext]_(Lease!leaseVars)
<1> SUFFICES ASSUME IInv, [Next]_vars
             PROVE  [Lease!LeaseNext]_(Lease!leaseVars)
  OBVIOUS
<1> USE DEF Lease!leaseVars
<1>0. ASSUME LeaseOf' = LeaseOf, dirty' = dirty
      PROVE  [Lease!LeaseNext]_(Lease!leaseVars)
  BY <1>0
<1>1. ASSUME NEW r \in Req, NEW s \in Server, pc[r] \in {"select", "register"},
             pc' = [pc EXCEPT ![r] = "using"],
             srv' = [srv EXCEPT ![r] = s], dirty' = dirty, s \notin dirty,
             \A q \in Req : Holding(q) => srv[q] # s
      PROVE  Lease!Grant(r, s)
  <2>1. ~Holding(r) /\ r \in slots
    BY <1>1 DEF Holding, IInv, SlotInv
  <2>2. Lease!Cardinality(Lease!Leased) < Limit
    BY <2>1, RoomForLease, SameCardinality
  <2>3. LeaseOf' = [LeaseOf EXCEPT ![r] = s]
    BY <1>1 DEF LeaseOf, Holding, IInv, TypeOK
  <2>4. \A q \in Req : LeaseOf[q] # s
    BY <1>1, PoolAssumption DEF LeaseOf
  <2> QED
    BY <1>1, <2>1, <2>2, <2>3, <2>4 DEF Lease!Grant, LeaseOf
<1>2. ASSUME NEW r \in Req, TakeIdle(r)
      PROVE  \E s \in Server : Lease!Grant(r, s)
  <2>1. PICK s \in idle : srv' = [srv EXCEPT ![r] = s]
    BY <1>2 DEF TakeIdle
  <2>2. s \in Server /\ s \notin dirty /\ \A q \in Req : Holding(q) => srv[q] # s
    BY <2>1 DEF IInv, TypeOK, OwnerInv, Owning, Holding
  <2> QED
    BY <1>2, <2>1, <2>2, <1>1 DEF TakeIdle, Go
<1>3. ASSUME NEW r \in Req, Register(r), ~closed
      PROVE  Lease!Grant(r, srv[r])
  <2>1. srv[r] \in Server /\ srv[r] \notin dirty
    BY <1>3 DEF Register, Go, IInv, HasServer, OwnerInv, Owning
  <2>2. \A q \in Req : Holding(q) => srv[q] # srv[r]
    BY <1>3 DEF Register, Go, IInv, OwnerInv, Owning, Holding
  <2>3. srv' = [srv EXCEPT ![r] = srv[r]]
    BY <1>3 DEF Register, IInv, TypeOK
  <2> QED
    BY <1>3, <2>1, <2>2, <2>3, <1>1 DEF Register, Go
<1>4. ASSUME NEW r \in Req, ReleaseUnhealthy(r)
      PROVE  Lease!Spoil(r)
  <2>1. LeaseOf' = LeaseOf
    BY <1>4 DEF ReleaseUnhealthy, Go, LeaseOf, Holding, IInv, TypeOK
  <2>2. LeaseOf[r] = srv[r] /\ srv[r] # NoServer
    BY <1>4, PoolAssumption DEF ReleaseUnhealthy, Go, LeaseOf, Holding, IInv,
      HasServer, Owning
  <2> QED
    BY <1>4, <2>1, <2>2 DEF Lease!Spoil, ReleaseUnhealthy
<1>5. ASSUME NEW r \in Req, Retire(r) \/ PutIdle(r)
      PROVE  Lease!Return(r)
  <2>1. LeaseOf' = [LeaseOf EXCEPT ![r] = NoServer]
    BY <1>5 DEF Retire, PutIdle, Go, LeaseOf, Holding, IInv, TypeOK
  <2>2. LeaseOf[r] # NoServer
    BY <1>5, PoolAssumption DEF Retire, PutIdle, Go, LeaseOf, Holding, IInv,
      HasServer, Owning
  <2> QED
    BY <1>5, <2>1, <2>2 DEF Lease!Return, Retire, PutIdle
<1>6. ASSUME NEW r \in Req,
             Arrive(r) \/ TakeSlot(r) \/ GiveUp(r) \/ CheckClosed(r) \/ FindIdleEmpty(r)
      PROVE  LeaseOf' = LeaseOf /\ dirty' = dirty
  BY <1>6 DEF Arrive, TakeSlot, GiveUp, CheckClosed, FindIdleEmpty, Go, LeaseOf,
    Holding, IInv, TypeOK
<1>7. ASSUME NEW r \in Req,
             UsePinned(r) \/ LockCatalog(r) \/ LoadCatalog(r) \/ SpawnFirstFails(r)
               \/ SpawnFails(r)
      PROVE  LeaseOf' = LeaseOf /\ dirty' = dirty
  BY <1>7 DEF UsePinned, LockCatalog, LoadCatalog, SpawnFirstFails, SpawnFails,
    Go, LeaseOf, Holding, IInv, TypeOK
<1>8. ASSUME NEW r \in Req, SpawnFirst(r) \/ Spawn(r) \/ (Register(r) /\ closed)
      PROVE  LeaseOf' = LeaseOf /\ dirty' = dirty
  BY <1>8 DEF SpawnFirst, Spawn, Launch, Register, Go, LeaseOf, Holding, IInv, TypeOK
<1>9. ASSUME NEW r \in Req, Discard(r) \/ ReleaseHealthy(r) \/ DropSlot(r)
      PROVE  LeaseOf' = LeaseOf /\ dirty' = dirty
  BY <1>9 DEF Discard, ReleaseHealthy, DropSlot, Go, LeaseOf, Holding, IInv, TypeOK
<1>10. CASE RefreshCache \/ CloseBegin \/ CloseOne \/ CloseEnd \/ UNCHANGED vars
  <2>1. pc' = pc /\ srv' = srv /\ dirty' = dirty
    BY <1>10 DEF RefreshCache, CloseBegin, CloseOne, CloseEnd, vars
  <2>2. LeaseOf' = LeaseOf
    BY <2>1 DEF LeaseOf, Holding
  <2> QED
    BY <2>1, <2>2, <1>0
<1>11. ASSUME NEW r \in Req, NEW s \in Server,
              Lease!Grant(r, s) \/ Lease!Spoil(r) \/ Lease!Return(r)
       PROVE  Lease!LeaseNext
  BY <1>11 DEF Lease!LeaseNext
<1>12. ASSUME NEW r \in Req, Register(r)
       PROVE  [Lease!LeaseNext]_(Lease!leaseVars)
  <2>1. srv[r] \in Server
    BY <1>12 DEF Register, Go, IInv, HasServer, Owning
  <2> QED
    BY <1>12, <1>3, <1>8, <1>11, <1>0, <2>1
<1>13. ASSUME NEW r \in Req, Lease!Spoil(r) \/ Lease!Return(r)
       PROVE  Lease!LeaseNext
  BY <1>13 DEF Lease!LeaseNext
<1> QED
  BY <1>0, <1>2, <1>4, <1>5, <1>6, <1>7, <1>8, <1>9, <1>10, <1>11, <1>12, <1>13
  DEF Next, Advance

\* Each server serves one call at a time, at most Limit are leased, and an
\* unhealthy one is never leased again (pool.go:19-21, 380-399).
THEOREM PoolImplementsLease == Spec => ImplementsLease
<1>1. Init => Lease!LeaseInit
  BY DEF Init, Lease!LeaseInit, LeaseOf, Holding
<1> QED
  BY <1>1, LeaseStep, Invariant, PTL DEF Spec, ImplementsLease, Lease!LeaseSpec
----------------------------------------------------------------------------
(* Waiting for a slot, for catalogMu and for room in p.idle.               *)

\* A locked catalogMu has an owner that is still starting the first server.
MuInv == catalogMu # NoReq => catalogMu \in Req /\ pc[catalogMu] \in {"load", "spawnFirst"}

\* Whoever moves the holder of catalogMu on, or out of the start, unlocks it.
LEMMA MuNext == TypeOK /\ MuInv /\ [Next]_vars => MuInv'
<1> SUFFICES ASSUME TypeOK, MuInv, [Next]_vars PROVE MuInv'
  OBVIOUS
<1> USE PoolAssumption DEF MuInv, TypeOK, Go
<1>1. ASSUME NEW r \in Req, Arrive(r) \/ GiveUp(r) \/ TakeSlot(r) \/ DropSlot(r)
      PROVE  MuInv'
  BY <1>1 DEF Arrive, GiveUp, TakeSlot, DropSlot, catalogVars
<1>2. ASSUME NEW r \in Req, UsePinned(r) \/ LockCatalog(r) \/ LoadCatalog(r)
      PROVE  MuInv'
  BY <1>2 DEF UsePinned, LockCatalog, LoadCatalog
<1>3. ASSUME NEW r \in Req, SpawnFirst(r) \/ SpawnFirstFails(r) \/ Spawn(r) \/ SpawnFails(r)
      PROVE  MuInv'
  BY <1>3 DEF SpawnFirst, SpawnFirstFails, Spawn, SpawnFails, catalogVars
<1>4. ASSUME NEW r \in Req, CheckClosed(r) \/ TakeIdle(r) \/ FindIdleEmpty(r) \/ Register(r) \/ Discard(r)
      PROVE  MuInv'
  BY <1>4 DEF CheckClosed, TakeIdle, FindIdleEmpty, Register, Discard, catalogVars
<1>5. ASSUME NEW r \in Req, ReleaseUnhealthy(r) \/ ReleaseHealthy(r) \/ Retire(r) \/ PutIdle(r)
      PROVE  MuInv'
  BY <1>5 DEF ReleaseUnhealthy, ReleaseHealthy, Retire, PutIdle, catalogVars
<1>6. CASE RefreshCache \/ CloseBegin \/ CloseOne \/ CloseEnd
  BY <1>6 DEF RefreshCache, CloseBegin, CloseOne, CloseEnd, catalogVars
<1>7. CASE UNCHANGED vars
  BY <1>7 DEF vars
<1> QED
  BY <1>1, <1>2, <1>3, <1>4, <1>5, <1>6, <1>7, StepCases DEF Inside

\* r is blocked on a channel or on the mutex
Waits(r) ==
  \/ pc[r] = "waiting" /\ Cardinality(slots) >= Limit
  \/ pc[r] = "start" /\ catalogMu # NoReq
  \/ pc[r] = "putIdle" /\ Cardinality(idle) >= Limit

\* s has what r waits for
WaitsFor(r, s) ==
  \/ pc[r] = "waiting" /\ s \in slots
  \/ pc[r] = "start" /\ catalogMu = s

NoCircularWait ==
  \A r \in Req : Waits(r) =>
    \E s \in Req : WaitsFor(r, s) /\ (~Waits(s) \/ \E q \in Req : WaitsFor(s, q) /\ ~Waits(q))

\* A request that is blocked in acquireServer waits for one that is not, or for
\* one that waits only for the first start of a server, which is not blocked; a
\* release is never blocked.  The slot, catalogMu and p.idle are taken in an
\* order that no set of requests can close to a circle.
THEOREM WaitsEndAtRunner == Spec => []NoCircularWait
<1>1. Init => MuInv
  BY DEF Init, MuInv
<1>2. IInv /\ IdleHasRoom /\ MuInv => NoCircularWait
  <2> SUFFICES ASSUME IInv, IdleHasRoom, MuInv, NEW r \in Req, Waits(r)
               PROVE  \E s \in Req : WaitsFor(r, s) /\ (~Waits(s) \/ \E q \in Req : WaitsFor(s, q) /\ ~Waits(q))
    BY DEF NoCircularWait
  <2>0. \A q \in Req : ~(pc[q] = "putIdle" /\ Cardinality(idle) >= Limit)
    <3>1. Cardinality(idle) \in Nat
      BY FS_CardinalityType DEF IInv, CapacityInv
    <3> QED
      BY <3>1, PoolAssumption DEF IdleHasRoom
  <2>1. ASSUME NEW q \in Req, pc[q] = "start", catalogMu # NoReq
        PROVE  \E s \in Req : WaitsFor(q, s) /\ ~Waits(s)
    <3>1. catalogMu \in Req /\ pc[catalogMu] \in {"load", "spawnFirst"}
      BY <2>1 DEF MuInv
    <3> QED
      BY <2>1, <3>1 DEF WaitsFor, Waits
  <2>2. CASE pc[r] = "waiting" /\ Cardinality(slots) >= Limit
    <3>1. slots # {}
      BY <2>2, FS_EmptySet, PoolAssumption
    <3>2. PICK s \in Req : s \in slots /\ pc[s] # "waiting"
      BY <3>1 DEF IInv, SlotInv
    <3>3. Waits(s) => pc[s] = "start" /\ catalogMu # NoReq
      BY <2>0, <3>2 DEF Waits
    <3> QED
      BY <2>1, <2>2, <3>2, <3>3 DEF WaitsFor
  <2> QED
    BY <2>0, <2>1, <2>2 DEF Waits
<1>3. IInv => TypeOK
  BY DEF IInv
<1> QED
  BY <1>1, <1>2, <1>3, MuNext, Invariant, RoomInIdle, PTL DEF Spec
=============================================================================
