----------------------------- MODULE ServerLease -----------------------------
(***************************************************************************)
(* What the Codex server pool promises its callers, with none of its       *)
(* mechanism.  A Generate call leases one app-server at a time; a server   *)
(* serves at most one call ("A server handles one request at a time",      *)
(* pool.go:19-21); at most Limit servers are leased; and a server that was *)
(* returned unhealthy is never leased again, because the JSON-RPC          *)
(* notifications of the abandoned turn may still be queued on it.          *)
(***************************************************************************)
EXTENDS Integers, FiniteSets

CONSTANTS
  Req,        \* calls of Generate
  Server,     \* app-server processes
  Limit,      \* max_concurrent_cli_requests
  NoServer    \* a call that holds no lease

VARIABLES
  lease,      \* the server each call holds
  spoiled     \* servers returned unhealthy

leaseVars == <<lease, spoiled>>

Leased == {r \in Req : lease[r] # NoServer}

LeaseInit ==
  /\ lease = [r \in Req |-> NoServer]
  /\ spoiled = {}

\* lease a server nobody holds and nobody spoiled
Grant(r, s) ==
  /\ lease[r] = NoServer
  /\ Cardinality(Leased) < Limit
  /\ s \notin spoiled
  /\ \A q \in Req : lease[q] # s
  /\ lease' = [lease EXCEPT ![r] = s]
  /\ UNCHANGED spoiled

\* the holder reports its server unhealthy
Spoil(r) ==
  /\ lease[r] # NoServer
  /\ spoiled' = spoiled \cup {lease[r]}
  /\ UNCHANGED lease

Return(r) ==
  /\ lease[r] # NoServer
  /\ lease' = [lease EXCEPT ![r] = NoServer]
  /\ UNCHANGED spoiled

LeaseNext ==
  \E r \in Req : (\E s \in Server : Grant(r, s)) \/ Spoil(r) \/ Return(r)

LeaseSpec == LeaseInit /\ [][LeaseNext]_leaseVars
=============================================================================
