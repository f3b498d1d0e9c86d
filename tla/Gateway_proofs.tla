--------------------------- MODULE Gateway_proofs ---------------------------
(***************************************************************************)
(* Theorems about Gateway for any number of requests, sessions and models. *)
(* A gate is shared by name and counted, deleted and made again.  The      *)
(* argument: a gate in the table has a name of its own, and its count is   *)
(* the number of the requests that refer to it, so that it stays in the    *)
(* table while anybody does; therefore two requests of one key refer to    *)
(* one gate, and its token keeps them apart.  The slots count the requests *)
(* between taking one and giving it back.  Nobody assumes that the         *)
(* requests are finitely many: at any time those that refer to a gate are. *)
(***************************************************************************)
EXTENDS Gateway, FiniteSetTheorems, WellFoundedInduction, TLAPS

Users(k) == {r \in Req : pc[r] \in Referring /\ subscription /\ key[r] = k}
Slots == {r \in Req : pc[r] \in Slotted}

\* Only an account has gates, retries and a second attempt at a list.  A turn
\* knows its key until it is over, and what lists for an account is no turn.
\* What a listing installs is a list.
PlaceInv ==
  \A r \in Req :
    /\ pc[r] \in {"enter", "token", "slot", "freeSlot", "freeToken", "leave",
                  "refresh", "backoff", "listRefresh"} => subscription
    /\ pc[r] \in {"enter", "info"} \cup Referring => key[r] \in Key
    /\ pc[r] = "idle" => key[r] = None
    /\ pc[r] = "info" => ~subscription
    /\ pc[r] = "install" => listed[r] \in Lists
    /\ subscription /\ pc[r] \in {"lock"} \cup Listing => key[r] = None

\* where a loop's counters are reset, and how they advance in it
LoopInv ==
  \A r \in Req :
    /\ pc[r] \notin Sending \cup Listing \cup {"stream"} => attempt[r] = 0 /\ posts[r] = 0 /\ refreshes[r] = 0
    /\ pc[r] = "post" => posts[r] = attempt[r] /\ posts[r] < Attempts /\ refreshes[r] <= 1
    /\ pc[r] = "answer" => posts[r] = attempt[r] + 1 /\ posts[r] <= Attempts /\ refreshes[r] <= 1
    /\ pc[r] \in {"refresh", "backoff"} =>
         posts[r] = attempt[r] + 1 /\ posts[r] < Attempts /\ refreshes[r] <= 1
    /\ pc[r] = "stream" => posts[r] <= Attempts /\ refreshes[r] <= 1
    /\ pc[r] \in Listing => posts[r] = 0 /\ refreshes[r] <= 1
    /\ pc[r] = "list" /\ subscription => refreshes[r] = attempt[r]
    /\ pc[r] = "listRefresh" => refreshes[r] = 1 /\ attempt[r] = 0

\* a request that has not entered has given its name to no gate
NewInv ==
  \A r \in Req : pc[r] \in {"idle", "enter"} => refs[r] = 0 /\ \A k \in Key : gates[k] # r

\* a gate belongs to one key, and is in the table as long as it has users
GateInv ==
  /\ NewInv
  /\ \A k, l \in Key : gates[k] = gates[l] /\ gates[k] # None => k = l
  /\ \A k \in Key : IsFiniteSet(Users(k))
  /\ GateTable

\* the token of a gate is with one of its users
TokenInv ==
  subscription =>
    /\ \A r \in Req : pc[r] \in Holding => gateOf[r] \in token
    /\ \A r, s \in Req : pc[r] \in Holding /\ pc[s] \in Holding /\ gateOf[r] = gateOf[s] => r = s

SlotInv == subscription => IsFiniteSet(Slots) /\ FanOut

IInv == TypeOK /\ PlaceInv /\ LoopInv /\ GateInv /\ TokenInv /\ SlotInv
----------------------------------------------------------------------------
\* what a public name, a model id or an alias resolves to is a model
LEMMA ResolveType ==
  ASSUME NEW list \in Lists, NEW name \in Name
  PROVE  Resolve[list][name] \subseteq Model
<1>1. list \in Seq(Model)
  BY ListsAssumption
<1>2. \A i \in DOMAIN list : list[i] \in Model
  BY <1>1
<1> DEFINE public == {i \in DOMAIN list : PublicIDs[list][i] = name}
           upstream == {i \in DOMAIN list : list[i] = name}
           alias == {i \in DOMAIN list : name \in DOMAIN ModelMap /\ list[i] = ModelMap[name]}
           found == IF public # {} THEN public ELSE IF upstream # {} THEN upstream ELSE alias
<1>3. Resolve[list][name] = {list[i] : i \in found}
  BY DEF Resolve
<1>4. found \subseteq DOMAIN list
  OBVIOUS
<1> HIDE DEF found
<1> QED
  BY <1>2, <1>3, <1>4

\* what a provider asks for is a model of its list or of the configuration
LEMMA AskedType ==
  ASSUME NEW model \in Model
  PROVE  Asked(model) \subseteq Wanted
BY AliasAssumption DEF Wanted, Asked, ResolveModel

\* the initial state satisfies the invariant
LEMMA InitInv == Init => IInv
<1> SUFFICES ASSUME Init PROVE IInv
  OBVIOUS
<1> USE LimitAssumption, NoneAssumption, ListsAssumption DEF Init
<1>1. TypeOK
  BY DEF TypeOK, PC
<1>2. PlaceInv /\ LoopInv
  BY DEF PlaceInv, LoopInv, Referring, Holding, Sending, Listing
<1>3. \A k \in Key : Users(k) = {}
  BY DEF Users, Referring, Holding, Sending
<1>4. GateInv
  BY <1>3, FS_EmptySet DEF GateInv, NewInv, GateTable, Users
<1>5. Slots = {}
  BY DEF Slots, Slotted, Sending
<1>6. TokenInv
  BY DEF TokenInv, Holding, Sending
<1>7. SlotInv
  <2>1. IsFiniteSet(Slots) /\ slots = Cardinality(Slots) /\ Cardinality(Slots) <= Limit
    BY <1>5, FS_EmptySet
  <2> QED
    BY <2>1 DEF SlotInv, FanOut, Slots
<1> QED
  BY <1>1, <1>2, <1>4, <1>6, <1>7 DEF IInv

----------------------------------------------------------------------------
(* The steps of a request                                                  *)

\* where a handler can be, one by one
LEMMA AllPlaces ==
  PC = {"idle", "enter", "info", "lock", "install", "done", "token", "leave", "slot",
        "stream", "freeSlot", "freeToken", "post", "answer", "refresh", "backoff",
        "list", "listRefresh"}
BY DEF PC, Referring, Holding, Sending, Listing

\* a gate is counted while somebody refers to it
LEMMA UsedGate ==
  ASSUME TypeOK, PlaceInv, GateInv, subscription, NEW r \in Req, pc[r] \in Referring
  PROVE  /\ key[r] \in Key
         /\ gateOf[r] = gates[key[r]]
         /\ gateOf[r] \in Req
         /\ r \in Users(key[r])
         /\ refs[gateOf[r]] = Cardinality(Users(key[r]))
         /\ refs[gateOf[r]] \in Nat \ {0}
<1>1. key[r] \in Key
  BY DEF PlaceInv
<1>2. r \in Users(key[r])
  BY DEF Users
<1>3. gates[key[r]] # None /\ gateOf[r] = gates[key[r]] /\ refs[gates[key[r]]] = Cardinality(Users(key[r]))
  BY <1>1, <1>2 DEF GateInv, GateTable, Users
<1>4. gates[key[r]] \in Req
  BY <1>1, <1>3 DEF TypeOK
<1>5. IsFiniteSet(Users(key[r]))
  BY <1>1 DEF GateInv
<1>6. Cardinality(Users(key[r])) \in Nat \ {0}
  BY <1>2, <1>5, FS_CardinalityType, FS_EmptySet
<1> QED
  BY <1>1, <1>2, <1>3, <1>4, <1>6

\* a slot is counted while somebody has it
LEMMA TakenSlot ==
  ASSUME SlotInv, subscription, NEW r \in Req, pc[r] \in Slotted
  PROVE  slots = Cardinality(Slots) /\ slots \in Nat \ {0} /\ IsFiniteSet(Slots)
<1>1. IsFiniteSet(Slots) /\ slots = Cardinality(Slots)
  BY DEF SlotInv, FanOut, Slots
<1>2. r \in Slots
  BY DEF Slots
<1>3. Cardinality(Slots) \in Nat \ {0}
  BY <1>1, <1>2, FS_CardinalityType, FS_EmptySet
<1> QED
  BY <1>1, <1>3

\* a step preserves the types
LEMMA StepTypes == IInv /\ [Next]_vars => TypeOK'
<1> SUFFICES ASSUME IInv, [Next]_vars PROVE TypeOK'
  OBVIOUS
<1> USE LimitAssumption DEF IInv
<1>1. CASE UNCHANGED vars
  BY <1>1 DEF vars, TypeOK, models, turn, gating, retrying
<1>2. ASSUME NEW r \in Req, Refuse(r) \/ AskModels(r) PROVE TypeOK'
  BY <1>2 DEF Refuse, AskModels, TypeOK, PC, Goto, models, turn, gating, retrying
<1>3. ASSUME NEW r \in Req, NEW name \in Name, NEW session \in Session, Receive(r, name, session)
      PROVE TypeOK'
  <2>1. PICK model \in Resolve[catalog][name] :
          /\ key' = [key EXCEPT ![r] = <<session, model>>]
          /\ \E asked \in Asked(model) : sent' = [sent EXCEPT ![r] = asked]
    BY <1>3 DEF Receive
  <2>2. model \in Model
    BY ResolveType DEF TypeOK
  <2>3. key' \in [Req -> Key \cup {None}]
    BY <2>1, <2>2 DEF TypeOK, Key
  <2>4. sent' \in [Req -> Wanted \cup {None}]
    BY <2>1, <2>2, AskedType DEF TypeOK
  <2>5. mode \in Modes
    BY ModeAssumption DEF TypeOK
  <2>6. pc' \in [Req -> PC]
    BY <1>3, <2>5 DEF Receive, Goto, TypeOK, PC, Modes, Referring, Holding, Sending
  <2> QED
    BY <1>3, <2>3, <2>4, <2>6 DEF Receive, TypeOK, models, gating, retrying
<1>4. ASSUME NEW r \in Req, CancelWait(r) PROVE TypeOK'
  BY <1>4 DEF CancelWait, TypeOK, PC, Goto, At, Referring, Holding, models, turn, gating, retrying
<1>5. ASSUME NEW r \in Req, Generating(r) PROVE TypeOK'
  <2> USE AllPlaces DEF TypeOK, Goto, At, models, turn, gating, retrying
  <2>1. CASE ModelInfo(r)
    BY <2>1 DEF ModelInfo
  <2>2. CASE TakeSlot(r)
    BY <2>2 DEF TakeSlot
  <2>3. CASE Enter(r)
    <3>1. key[r] \in Key
      BY <2>3 DEF Enter, PlaceInv
    <3>2. PICK gate \in Req : /\ gates' = [gates EXCEPT ![key[r]] = gate]
                              /\ gateOf' = [gateOf EXCEPT ![r] = gate]
                              /\ refs' = [refs EXCEPT ![gate] = @ + 1]
      <4>1. gates[key[r]] = None \/ gates[key[r]] \in Req
        BY <3>1
      <4> QED
        BY <2>3, <4>1 DEF Enter
    <3>3. gates' \in [Key -> Req \cup {None}] /\ gateOf' \in [Req -> Req \cup {None}]
      BY <3>2
    <3>4. refs' \in [Req -> Nat]
      BY <3>2
    <3>5. pc' \in [Req -> PC]
      BY <2>3 DEF Enter
    <3> QED
      BY <2>3, <3>3, <3>4, <3>5 DEF Enter
  <2>4. CASE FreeSlot(r)
    <3>1. subscription /\ pc[r] \in Slotted
      BY <2>4 DEF FreeSlot, PlaceInv, Slotted
    <3>2. slots \in Nat \ {0}
      BY <3>1, TakenSlot
    <3> QED
      BY <2>4, <3>2 DEF FreeSlot
  <2>5. CASE Leave(r)
    <3>1. subscription /\ pc[r] \in Referring
      BY <2>5 DEF Leave, PlaceInv, Referring
    <3>2. key[r] \in Key /\ gateOf[r] \in Req /\ refs[gateOf[r]] \in Nat \ {0}
      BY <3>1, UsedGate
    <3> QED
      BY SMTT(20), <2>5, <3>2 DEF Leave, EndTurn
  <2>6. CASE TakeToken(r)
    <3>1. subscription /\ pc[r] \in Referring
      BY <2>6 DEF TakeToken, PlaceInv, Referring
    <3>2. gateOf[r] \in Req
      BY <3>1, UsedGate
    <3> QED
      BY <2>6, <3>2 DEF TakeToken
  <2>7. CASE FreeToken(r)
    BY <2>7 DEF FreeToken
  <2>8. CASE Post(r)
    BY SMTT(20), <2>8 DEF Post
  <2>9. CASE Accepted(r)
    BY <2>9 DEF Accepted
  <2>10. CASE Unauthorized(r)
    BY <2>10 DEF Unauthorized
  <2>11. CASE Unavailable(r)
    BY <2>11 DEF Unavailable
  <2>12. CASE Retry(r)
    BY SMTT(20), <2>12 DEF Retry
  <2>13. CASE AuthorizeFails(r)
    BY <2>13 DEF AuthorizeFails, Release, EndLoop, EndTurn
  <2>14. CASE StreamEnds(r)
    BY <2>14 DEF StreamEnds, Release, EndLoop, EndTurn
  <2>15. CASE Failed(r)
    BY <2>15 DEF Failed, Release, EndLoop, EndTurn
  <2>16. CASE GiveUp(r)
    BY <2>16 DEF GiveUp, Release, EndLoop, EndTurn
  <2> QED
    BY <1>5, <2>1, <2>2, <2>3, <2>4, <2>5, <2>6, <2>7, <2>8, <2>9, <2>10,
       <2>11, <2>12, <2>13, <2>14, <2>15, <2>16 DEF Generating
<1>6. ASSUME NEW r \in Req, ListingModels(r) PROVE TypeOK'
  <2> USE AllPlaces DEF TypeOK, Goto, At, models, turn, gating, retrying
  <2>1. CASE UseCached(r)
    <3>1. \E there \in {"install", "post", "done"} : pc' = [pc EXCEPT ![r] = there]
      BY <2>1 DEF UseCached, Obtain, Select
    <3>2. pc' \in [Req -> PC]
      BY <3>1
    <3>3. key' \in [Req -> Key \cup {None}] /\ sent' \in [Req -> Wanted \cup {None}]
      BY <2>1 DEF UseCached, Obtain, Select, EndTurn
    <3>4. listed' \in [Req -> Lists \cup {<<>>}]
      BY <2>1 DEF UseCached, Obtain
    <3> QED
      BY <2>1, <3>2, <3>3, <3>4 DEF UseCached
  <2>2. ASSUME NEW list \in Lists, Fetched(r, list) PROVE TypeOK'
    <3>1. pc' \in [Req -> PC]
      <4>1. \E there \in {"install", "post", "done"} : pc' = [pc EXCEPT ![r] = there]
        BY <2>2 DEF Fetched, Obtain, Select
      <4> QED
        BY <4>1
    <3>4. listed' \in [Req -> Lists \cup {<<>>}]
      BY <2>2 DEF Fetched, Obtain
    <3>2. key' \in [Req -> Key \cup {None}] /\ sent' \in [Req -> Wanted \cup {None}]
      BY <2>2 DEF Fetched, Obtain, Select, EndTurn
    <3>3. /\ attempt' \in [Req -> Nat]
          /\ posts' \in [Req -> Nat]
          /\ refreshes' \in [Req -> Nat]
      BY <2>2 DEF Fetched, EndLoop
    <3> QED
      BY <2>2, <3>1, <3>2, <3>3, <3>4 DEF Fetched
  <2>3. CASE InstallModels(r)
    BY <2>3 DEF InstallModels, PlaceInv
  <2>4. CASE Expired(r)
    BY <2>4 DEF Expired
  <2>5. CASE ListPage(r)
    BY SMTT(20), <2>5 DEF ListPage
  <2>6. CASE ListUnauthorized(r)
    BY SMTT(20), <2>6 DEF ListUnauthorized
  <2>7. CASE ListAgain(r)
    BY <2>7 DEF ListAgain
  <2>8. CASE ListFails(r)
    BY <2>8 DEF ListFails, EndTurn, EndLoop
  <2> QED
    BY <1>6, <2>1, <2>2, <2>3, <2>4, <2>5, <2>6, <2>7, <2>8 DEF ListingModels
<1> QED
  BY <1>1, <1>2, <1>3, <1>4, <1>5, <1>6 DEF Next, Handle

\* a step keeps each request's place and locals together
LEMMA StepPlaces == IInv /\ [Next]_vars => PlaceInv'
<1> SUFFICES ASSUME IInv, [Next]_vars PROVE PlaceInv'
  OBVIOUS
<1> USE NoneAssumption DEF IInv
<1>1. CASE UNCHANGED vars
  BY <1>1 DEF vars, PlaceInv, subscription, models, turn
<1>2. ASSUME NEW r \in Req, Refuse(r) \/ AskModels(r) \/ CancelWait(r) PROVE PlaceInv'
  BY <1>2 DEF Refuse, AskModels, CancelWait, PlaceInv, TypeOK, subscription, Goto, At, Referring, Holding,
       Sending, Listing, models, turn
<1>3. ASSUME NEW r \in Req, NEW name \in Name, NEW session \in Session, Receive(r, name, session)
      PROVE PlaceInv'
  <2>1. PICK model \in Resolve[catalog][name] : key' = [key EXCEPT ![r] = <<session, model>>]
    BY <1>3 DEF Receive
  <2>2. <<session, model>> \in Key
    BY ResolveType DEF TypeOK, Key
  <2>3. mode \in Modes
    BY ModeAssumption DEF TypeOK
  <2>4. pc' = [pc EXCEPT ![r] = CASE mode = "account" -> "enter" [] mode = "key" -> "post"
                                  [] mode = "anthropic" -> "info" [] mode = "codex" -> "lock"]
    BY <1>3 DEF Receive, Goto
  <2>5. mode' = mode /\ listed' = listed
    BY <1>3 DEF Receive, models
  <2>6. \A s \in Req \ {r} : pc'[s] = pc[s] /\ key'[s] = key[s]
    BY <2>1, <2>4 DEF TypeOK
  <2>7. IF subscription THEN pc'[r] = "enter" ELSE pc'[r] \in {"post", "info", "lock"}
    <3>1. pc'[r] = CASE mode = "account" -> "enter" [] mode = "key" -> "post"
                     [] mode = "anthropic" -> "info" [] mode = "codex" -> "lock"
      BY <2>4 DEF TypeOK
    <3>2. CASE mode = "account"
      <4>1. pc'[r] = "enter"
        BY <3>1, <3>2, Zenon
      <4> QED
        BY <4>1, <3>2 DEF subscription
    <3>3. CASE mode = "key"
      BY <3>1, <3>3 DEF subscription
    <3>4. CASE mode = "anthropic"
      BY <3>1, <3>4 DEF subscription
    <3>5. CASE mode = "codex"
      BY <3>1, <3>5 DEF subscription
    <3> QED
      BY <2>3, <3>2, <3>3, <3>4, <3>5 DEF Modes
  <2>8. key'[r] \in Key
    BY <2>1, <2>2 DEF TypeOK
  <2> QED
    BY <2>5, <2>6, <2>7, <2>8 DEF PlaceInv, TypeOK, subscription, Referring, Holding, Sending, Listing
<1>4. ASSUME NEW r \in Req, Generating(r) PROVE PlaceInv'
  <2> USE DEF TypeOK, PlaceInv, subscription, Goto, At, Referring, Holding, Sending, Listing, models, turn
  <2>1. CASE ModelInfo(r)
    BY <2>1 DEF ModelInfo
  <2>2. CASE Enter(r)
    BY <2>2 DEF Enter
  <2>3. CASE TakeToken(r)
    BY <2>3 DEF TakeToken
  <2>4. CASE TakeSlot(r)
    BY <2>4 DEF TakeSlot
  <2>5. CASE FreeSlot(r)
    BY <2>5 DEF FreeSlot
  <2>6. CASE FreeToken(r)
    BY <2>6 DEF FreeToken
  <2>7. CASE Leave(r)
    BY <2>7 DEF Leave, EndTurn
  <2>8. CASE Post(r)
    BY <2>8 DEF Post
  <2>9. CASE Accepted(r)
    BY <2>9 DEF Accepted
  <2>10. CASE Unauthorized(r)
    BY <2>10 DEF Unauthorized
  <2>11. CASE Unavailable(r)
    BY <2>11 DEF Unavailable
  <2>12. CASE Retry(r)
    BY <2>12 DEF Retry
  <2>13. CASE AuthorizeFails(r)
    BY <2>13 DEF AuthorizeFails, Release, EndTurn
  <2>14. CASE StreamEnds(r)
    BY <2>14 DEF StreamEnds, Release, EndTurn
  <2>15. CASE Failed(r)
    BY <2>15 DEF Failed, Release, EndTurn
  <2>16. CASE GiveUp(r)
    BY <2>16 DEF GiveUp, Release, EndTurn
  <2> QED
    BY <1>4, <2>1, <2>2, <2>3, <2>4, <2>5, <2>6, <2>7, <2>8, <2>9, <2>10,
       <2>11, <2>12, <2>13, <2>14, <2>15, <2>16 DEF Generating
<1>5. ASSUME NEW r \in Req, ListingModels(r) PROVE PlaceInv'
  <2> USE DEF TypeOK, PlaceInv, subscription, Goto, At, Referring, Holding, Sending, Listing, models, turn
  <2>1. CASE UseCached(r)
    BY <2>1 DEF UseCached, Obtain, Select, EndTurn
  <2>2. ASSUME NEW list \in Lists, Fetched(r, list) PROVE PlaceInv'
    BY <2>2 DEF Fetched, Obtain, Select, EndTurn
  <2>3. CASE InstallModels(r)
    BY <2>3 DEF InstallModels
  <2>4. CASE Expired(r)
    BY <2>4 DEF Expired
  <2>5. CASE ListPage(r)
    BY <2>5 DEF ListPage
  <2>6. CASE ListUnauthorized(r)
    BY <2>6 DEF ListUnauthorized
  <2>7. CASE ListAgain(r)
    BY <2>7 DEF ListAgain
  <2>8. CASE ListFails(r)
    BY <2>8 DEF ListFails, EndTurn
  <2> QED
    BY <1>5, <2>1, <2>2, <2>3, <2>4, <2>5, <2>6, <2>7, <2>8 DEF ListingModels
<1> QED
  BY <1>1, <1>2, <1>3, <1>4, <1>5 DEF Next, Handle

\* a step keeps the counters of the loops within their bounds
LEMMA StepLoops == IInv /\ [Next]_vars => LoopInv'
<1> SUFFICES ASSUME IInv, [Next]_vars PROVE LoopInv'
  OBVIOUS
<1> USE DEF IInv, TypeOK, LoopInv, Attempts, SubscriptionAttempts, subscription, Sending, Listing, Goto, At,
        models, gating, retrying
<1>1. CASE UNCHANGED vars
  BY <1>1 DEF vars
<1>2. ASSUME NEW r \in Req, Refuse(r) \/ AskModels(r) \/ CancelWait(r) PROVE LoopInv'
  <2>1. CASE Refuse(r)
    BY <2>1 DEF Refuse
  <2>2. CASE AskModels(r)
    BY <2>2 DEF AskModels
  <2>3. CASE CancelWait(r)
    BY <2>3 DEF CancelWait
  <2> QED
    BY <1>2, <2>1, <2>2, <2>3
<1>3. ASSUME NEW r \in Req, NEW name \in Name, NEW session \in Session, Receive(r, name, session)
      PROVE LoopInv'
  <2>1. \E there \in {"enter", "post", "info", "lock"} : pc' = [pc EXCEPT ![r] = there]
    <3>1. mode \in Modes
      BY ModeAssumption
    <3> QED
      BY <1>3, <3>1 DEF Receive, Modes
  <2>2. mode' = mode /\ attempt' = attempt /\ posts' = posts /\ refreshes' = refreshes
    BY <1>3 DEF Receive
  <2>3. attempt[r] = 0 /\ posts[r] = 0 /\ refreshes[r] = 0
    BY <1>3 DEF Receive
  <2> QED
    BY <2>1, <2>2, <2>3
<1>4. ASSUME NEW r \in Req, Generating(r) PROVE LoopInv'
  <2>0. ASSUME Release(r), mode' = mode PROVE LoopInv'
    <3>1. \E there \in {"freeSlot", "done"} : pc' = [pc EXCEPT ![r] = there]
      BY <2>0 DEF Release
    <3>2. EndLoop(r)
      BY <2>0 DEF Release
    <3> QED
      BY <2>0, <3>1, <3>2 DEF EndLoop
  <2>1. CASE ModelInfo(r)
    BY <2>1 DEF ModelInfo
  <2>2. CASE Enter(r)
    BY <2>2 DEF Enter
  <2>3. CASE TakeToken(r)
    BY <2>3 DEF TakeToken
  <2>4. CASE TakeSlot(r)
    BY <2>4 DEF TakeSlot
  <2>5. CASE FreeSlot(r)
    BY <2>5 DEF FreeSlot
  <2>6. CASE FreeToken(r)
    BY <2>6 DEF FreeToken
  <2>7. CASE Leave(r)
    BY <2>7 DEF Leave
  <2>8. CASE Post(r)
    BY <2>8 DEF Post
  <2>9. CASE Accepted(r)
    BY <2>9 DEF Accepted
  <2>10. CASE Unauthorized(r)
    BY <2>10 DEF Unauthorized, AttemptsLeft
  <2>11. CASE Unavailable(r)
    BY <2>11 DEF Unavailable, AttemptsLeft
  <2>12. CASE Retry(r)
    BY <2>12 DEF Retry
  <2>13. CASE AuthorizeFails(r)
    BY <2>0, <2>13 DEF AuthorizeFails
  <2>14. CASE StreamEnds(r)
    BY <2>0, <2>14 DEF StreamEnds
  <2>15. CASE Failed(r)
    BY <2>0, <2>15 DEF Failed
  <2>16. CASE GiveUp(r)
    BY <2>0, <2>16 DEF GiveUp
  <2> QED
    BY <1>4, <2>1, <2>2, <2>3, <2>4, <2>5, <2>6, <2>7, <2>8, <2>9, <2>10,
       <2>11, <2>12, <2>13, <2>14, <2>15, <2>16 DEF Generating
<1>5. ASSUME NEW r \in Req, ListingModels(r) PROVE LoopInv'
  <2>1. ASSUME NEW list \in Lists, Fetched(r, list) PROVE LoopInv'
    BY <2>1 DEF Fetched, Obtain, Select, EndLoop
  <2>2. CASE UseCached(r)
    BY <2>2 DEF UseCached, Obtain, Select
  <2>3. CASE InstallModels(r)
    BY <2>3 DEF InstallModels
  <2>4. CASE Expired(r)
    BY <2>4 DEF Expired
  <2>5. CASE ListPage(r)
    BY <2>5 DEF ListPage
  <2>6. CASE ListUnauthorized(r)
    BY <2>6 DEF ListUnauthorized, ListAttempts, PlaceInv
  <2>7. CASE ListAgain(r)
    BY <2>7 DEF ListAgain
  <2>8. CASE ListFails(r)
    BY <2>8 DEF ListFails, EndLoop
  <2> QED
    BY <1>5, <2>1, <2>2, <2>3, <2>4, <2>5, <2>6, <2>7, <2>8 DEF ListingModels
<1> QED
  BY <1>1, <1>2, <1>3, <1>4, <1>5 DEF Next, Handle

----------------------------------------------------------------------------
(* Gates, tokens and slots                                                 *)

\* what most steps leave alone: who refers to a gate, under which key, and who
\* has a slot; a token may be about to be given up
Quiet ==
  /\ UNCHANGED <<mode, gates, gateOf, refs, token, slots>>
  /\ \A s \in Req :
       /\ pc'[s] \in {"idle", "enter"} => pc[s] \in {"idle", "enter"}
       /\ subscription =>
            /\ pc'[s] \in Referring <=> pc[s] \in Referring
            /\ pc'[s] \in Slotted <=> pc[s] \in Slotted
            /\ pc'[s] \in Holding <=> pc[s] \in Holding
            /\ pc[s] \in Referring => key'[s] = key[s]

Counting(r) ==
  Enter(r) \/ TakeToken(r) \/ TakeSlot(r) \/ FreeSlot(r) \/ FreeToken(r) \/ Leave(r)

\* all other steps are quiet
LEMMA QuietStep ==
  IInv /\ [Next]_vars => Quiet \/ \E r \in Req : Counting(r)
<1> SUFFICES ASSUME IInv, [Next]_vars, ~\E r \in Req : Counting(r) PROVE Quiet
  OBVIOUS
<1> USE DEF IInv, TypeOK, PlaceInv, Quiet, Counting, subscription, Referring, Holding, Slotted, Sending, Listing,
        Goto, At, models, turn, gating
<1>1. CASE UNCHANGED vars
  BY <1>1 DEF vars
<1>2. ASSUME NEW r \in Req, Refuse(r) \/ AskModels(r) \/ CancelWait(r) PROVE Quiet
  BY <1>2 DEF Refuse, AskModels, CancelWait
<1>3. ASSUME NEW r \in Req, NEW name \in Name, NEW session \in Session, Receive(r, name, session)
      PROVE Quiet
  <2>1. mode \in Modes
    BY ModeAssumption
  <2>2. \E there \in {"enter", "post", "info", "lock"} :
          pc' = [pc EXCEPT ![r] = there] /\ (subscription => there = "enter")
    BY <1>3, <2>1 DEF Receive, Modes
  <2>3. UNCHANGED <<mode, gates, gateOf, refs, token, slots>> /\ pc[r] = "idle"
    BY <1>3 DEF Receive
  <2>4. \A s \in Req \ {r} : key'[s] = key[s]
    BY <1>3 DEF Receive
  <2> QED
    BY <2>2, <2>3, <2>4
<1>4. ASSUME NEW r \in Req, Generating(r) PROVE Quiet
  <2>1. CASE ModelInfo(r)
    BY <2>1 DEF ModelInfo
  <2>2. CASE Post(r)
    BY <2>2 DEF Post
  <2>3. CASE Accepted(r)
    BY <2>3 DEF Accepted
  <2>4. CASE Unauthorized(r)
    BY <2>4 DEF Unauthorized
  <2>5. CASE Unavailable(r)
    BY <2>5 DEF Unavailable
  <2>6. CASE Retry(r)
    BY <2>6 DEF Retry
  <2>7. CASE AuthorizeFails(r)
    BY <2>7 DEF AuthorizeFails, Release, EndTurn
  <2>8. CASE StreamEnds(r)
    BY <2>8 DEF StreamEnds, Release, EndTurn
  <2>9. CASE Failed(r)
    BY <2>9 DEF Failed, Release, EndTurn
  <2>10. CASE GiveUp(r)
    BY <2>10 DEF GiveUp, Release, EndTurn
  <2> QED
    BY <1>4, <2>1, <2>2, <2>3, <2>4, <2>5, <2>6, <2>7, <2>8, <2>9, <2>10 DEF Generating
<1>5. ASSUME NEW r \in Req, ListingModels(r) PROVE Quiet
  <2>1. ASSUME NEW list \in Lists, Fetched(r, list) PROVE Quiet
    <3>1. \E there \in {"install", "post", "done"} :
            pc' = [pc EXCEPT ![r] = there] /\ (there = "post" => key[r] # None)
      BY <2>1 DEF Fetched, Obtain, Select
    <3>2. UNCHANGED <<mode, gates, gateOf, refs, token, slots>> /\ pc[r] = "list"
      BY <2>1 DEF Fetched
    <3>3. \A s \in Req \ {r} : key'[s] = key[s]
      BY <2>1 DEF Fetched, Obtain, Select, EndTurn
    <3> QED
      BY <3>1, <3>2, <3>3
  <2>2. CASE UseCached(r)
    BY <2>2 DEF UseCached, Obtain, Select, EndTurn
  <2>3. CASE InstallModels(r)
    BY <2>3 DEF InstallModels
  <2>4. CASE Expired(r)
    BY <2>4 DEF Expired
  <2>5. CASE ListPage(r)
    BY <2>5 DEF ListPage
  <2>6. CASE ListUnauthorized(r)
    BY <2>6 DEF ListUnauthorized
  <2>7. CASE ListAgain(r)
    BY <2>7 DEF ListAgain
  <2>8. CASE ListFails(r)
    BY <2>8 DEF ListFails, EndTurn
  <2> QED
    BY <1>5, <2>1, <2>2, <2>3, <2>4, <2>5, <2>6, <2>7, <2>8 DEF ListingModels
<1> QED
  BY <1>1, <1>2, <1>3, <1>4, <1>5 DEF Next, Handle

\* the same users find the same gates
LEMMA SameUsers ==
  ASSUME GateInv, UNCHANGED <<gates, gateOf, refs>>, \A k \in Key : Users(k)' = Users(k),
         \A s \in Req : pc'[s] \in {"idle", "enter"} => pc[s] \in {"idle", "enter"}
  PROVE  GateInv'
<1>1. \A k \in Key : /\ gates[k] # None <=> Users(k) # {}
                     /\ \A s \in Users(k) : gateOf[s] = gates[k] /\ refs[gates[k]] = Cardinality(Users(k))
  BY DEF GateInv, GateTable, Users
<1>2. \A k \in Key : /\ gates'[k] # None <=> Users(k)' # {}
                     /\ \A s \in Users(k)' :
                          gateOf'[s] = gates'[k] /\ refs'[gates'[k]] = Cardinality(Users(k)')
  BY <1>1
<1>3. GateTable'
  BY <1>2 DEF GateTable, Users
<1> QED
  BY <1>3 DEF GateInv, NewInv

\* One user more.  A gate that is made has a name that no gate has, and a
\* count of one.
LEMMA EnterGates ==
  ASSUME IInv, NEW r \in Req, Enter(r)
  PROVE  GateInv'
<1> USE NoneAssumption DEF IInv
<1>0. key[r] \in Key
  BY DEF Enter, At, PlaceInv
<1> PICK k \in Key : k = key[r]
  BY <1>0
<1> DEFINE gate == IF gates[k] = None THEN r ELSE gates[k]
<1>1. subscription /\ k \in Key /\ pc[r] = "enter"
  BY DEF Enter, At, PlaceInv
<1>2. /\ mode' = mode /\ key' = key
      /\ gates' = [gates EXCEPT ![k] = gate]
      /\ gateOf' = [gateOf EXCEPT ![r] = gate]
      /\ refs' = [refs EXCEPT ![gate] = @ + 1]
      /\ pc' = [pc EXCEPT ![r] = "token"]
  BY DEF Enter, Goto, turn
<1>3. gate \in Req /\ gate # None
  BY <1>1 DEF TypeOK
<1>4. /\ \A l \in Key \ {k} : gates'[l] = gates[l] /\ gates[l] # gate /\ Users(l)' = Users(l)
      /\ gates'[k] = gate
  <2>1. \A l \in Key \ {k} : gates[l] # gate
    <3>1. CASE gates[k] = None
      BY <1>1, <3>1 DEF GateInv, NewInv
    <3>2. CASE gates[k] # None
      BY <1>1, <3>2 DEF GateInv
    <3> QED
      BY <3>1, <3>2
  <2>2. \A l \in Key \ {k} : Users(l)' = Users(l)
    BY <1>1, <1>2 DEF Users, subscription, TypeOK
  <2> QED
    BY <1>1, <1>2, <2>1, <2>2 DEF TypeOK
<1>5. Users(k)' = Users(k) \cup {r} /\ r \notin Users(k)
  BY <1>1, <1>2 DEF Users, subscription, TypeOK, Referring, Holding, Sending
<1>6. \A l \in Key : /\ gates[l] # None <=> Users(l) # {}
                     /\ \A s \in Users(l) : gateOf[s] = gates[l] /\ refs[gates[l]] = Cardinality(Users(l))
  BY DEF GateInv, GateTable, Users
<1>7. IsFiniteSet(Users(k)') /\ Cardinality(Users(k)') = Cardinality(Users(k)) + 1
  BY <1>1, <1>5, FS_AddElement DEF GateInv
<1>8. refs'[gate] = Cardinality(Users(k)')
  <2>1. refs'[gate] = refs[gate] + 1
    BY <1>2, <1>3 DEF TypeOK
  <2>2. refs[gate] = Cardinality(Users(k))
    <3>1. CASE gates[k] = None
      <4>1. Users(k) = {}
        BY <1>1, <1>6, <3>1
      <4>2. refs[r] = 0
        BY <1>1 DEF GateInv, NewInv
      <4> QED
        BY <3>1, <4>1, <4>2, FS_EmptySet
    <3>2. CASE gates[k] # None
      BY <1>1, <1>6, <3>2
    <3> QED
      BY <3>1, <3>2
  <2> QED
    BY <1>7, <2>1, <2>2
<1>9. \A s \in Users(k)' : gateOf'[s] = gate
  <2>1. \A s \in Users(k) : gateOf[s] = gate /\ s \in Req /\ s # r
    BY <1>1, <1>5, <1>6 DEF Users
  <2>2. gateOf'[r] = gate /\ \A s \in Req \ {r} : gateOf'[s] = gateOf[s]
    BY <1>2 DEF TypeOK
  <2> QED
    BY <1>5, <2>1, <2>2
<1>10. \A l \in Key \ {k} : \A s \in Users(l)' :
         gateOf'[s] = gates'[l] /\ refs'[gates'[l]] = Cardinality(Users(l)')
  <2> SUFFICES ASSUME NEW l \in Key \ {k}, NEW s \in Users(l)
               PROVE  gateOf'[s] = gates'[l] /\ refs'[gates'[l]] = Cardinality(Users(l))
    BY <1>4
  <2>1. gates[l] # None /\ gates[l] \in Req /\ gates[l] # gate
    BY <1>4, <1>6 DEF TypeOK
  <2>2. s \in Req /\ s # r
    BY <1>1 DEF Users, Referring, Holding, Sending
  <2> QED
    BY <1>2, <1>3, <1>4, <1>6, <2>1, <2>2 DEF TypeOK
<1>11. GateTable'
  <2>1. \A l \in Key : gates'[l] # None <=> Users(l)' # {}
    BY <1>3, <1>4, <1>5, <1>6
  <2>2. \A l \in Key : \A s \in Users(l)' :
          gateOf'[s] = gates'[l] /\ refs'[gates'[l]] = Cardinality(Users(l)')
    BY <1>4, <1>8, <1>9, <1>10
  <2> QED
    BY <2>1, <2>2 DEF GateTable, Users
<1>12. NewInv'
  <2> SUFFICES ASSUME NEW s \in Req, pc'[s] \in {"idle", "enter"}
               PROVE  refs'[s] = 0 /\ \A l \in Key : gates'[l] # s
    BY DEF NewInv
  <2>1. s # r /\ pc[s] \in {"idle", "enter"}
    BY <1>2 DEF TypeOK
  <2>2. refs[s] = 0 /\ \A l \in Key : gates[l] # s
    BY <2>1 DEF GateInv, NewInv
  <2>3. s # gate
    BY <1>1, <2>1, <2>2
  <2> QED
    BY <1>2, <1>4, <2>2, <2>3 DEF TypeOK
<1>13. \A l, m \in Key : gates'[l] = gates'[m] /\ gates'[l] # None => l = m
  BY <1>4 DEF GateInv
<1>14. \A l \in Key : IsFiniteSet(Users(l)')
  BY <1>4, <1>7 DEF GateInv
<1> QED
  BY <1>11, <1>12, <1>13, <1>14 DEF GateInv

\* One user less.  The gate goes with its last one.
LEMMA LeaveGates ==
  ASSUME IInv, NEW r \in Req, Leave(r)
  PROVE  GateInv'
<1> DEFINE gate == gateOf[r]
<1> USE NoneAssumption DEF IInv
<1>1. subscription /\ pc[r] = "leave" /\ pc[r] \in Referring
  BY DEF Leave, At, PlaceInv, Referring
<1> PICK k \in Key : k = key[r]
  BY <1>1, UsedGate
<1>2. /\ k \in Key /\ gate \in Req /\ gate = gates[k] /\ r \in Users(k)
      /\ refs[gate] = Cardinality(Users(k)) /\ refs[gate] \in Nat \ {0}
  BY <1>1, UsedGate
<1>3. /\ mode' = mode /\ key' = [key EXCEPT ![r] = None]
      /\ refs' = [refs EXCEPT ![gate] = @ - 1]
      /\ gates' = IF refs'[gate] = 0 THEN [gates EXCEPT ![k] = None] ELSE gates
      /\ gateOf' = [gateOf EXCEPT ![r] = None]
      /\ pc' = [pc EXCEPT ![r] = "done"]
  BY DEF Leave, Goto, EndTurn
<1>4. \A l \in Key \ {k} : gates'[l] = gates[l] /\ gates[l] # gate /\ Users(l)' = Users(l)
  <2>1. \A l \in Key \ {k} : gates[l] # gate
    BY <1>2 DEF GateInv
  <2>2. \A l \in Key \ {k} : Users(l)' = Users(l)
    BY <1>1, <1>3 DEF Users, subscription, TypeOK, Referring, Holding, Sending
  <2> QED
    BY <1>3, <2>1, <2>2 DEF TypeOK
<1>5. Users(k)' = Users(k) \ {r}
  BY <1>1, <1>3 DEF Users, subscription, TypeOK, Referring, Holding, Sending
<1>6. \A l \in Key : /\ gates[l] # None <=> Users(l) # {}
                     /\ \A s \in Users(l) : gateOf[s] = gates[l] /\ refs[gates[l]] = Cardinality(Users(l))
  BY DEF GateInv, GateTable, Users
<1>7. IsFiniteSet(Users(k)') /\ Cardinality(Users(k)') = Cardinality(Users(k)) - 1
  BY <1>2, <1>5, FS_RemoveElement DEF GateInv
<1>8. refs'[gate] = Cardinality(Users(k)')
  BY <1>2, <1>3, <1>7 DEF TypeOK
<1>9. Cardinality(Users(k)') = 0 <=> Users(k)' = {}
  BY <1>7, FS_EmptySet
<1>10. gates'[k] = IF Users(k)' = {} THEN None ELSE gate
  BY <1>2, <1>3, <1>8, <1>9 DEF TypeOK
<1>11. \A s \in Users(k)' : gateOf'[s] = gate
  <2>1. \A s \in Users(k)' : s \in Req /\ s # r /\ gateOf[s] = gate
    BY <1>2, <1>5, <1>6 DEF Users
  <2> QED
    BY <1>3, <2>1 DEF TypeOK
<1>12. \A l \in Key \ {k} : \A s \in Users(l)' :
         gateOf'[s] = gates'[l] /\ refs'[gates'[l]] = Cardinality(Users(l)')
  <2> SUFFICES ASSUME NEW l \in Key \ {k}, NEW s \in Users(l)
               PROVE  gateOf'[s] = gates'[l] /\ refs'[gates'[l]] = Cardinality(Users(l))
    BY <1>4
  <2>1. gates[l] \in Req /\ gates[l] # gate
    BY <1>4, <1>6 DEF TypeOK
  <2>2. s \in Req /\ s # r
    BY DEF Users
  <2> QED
    BY <1>2, <1>3, <1>4, <1>6, <2>1, <2>2 DEF TypeOK
<1>13. GateTable'
  <2>1. \A l \in Key : gates'[l] # None <=> Users(l)' # {}
    BY <1>2, <1>4, <1>6, <1>10
  <2>2. \A l \in Key : \A s \in Users(l)' :
          gateOf'[s] = gates'[l] /\ refs'[gates'[l]] = Cardinality(Users(l)')
    BY <1>4, <1>8, <1>10, <1>11, <1>12
  <2> QED
    BY <2>1, <2>2 DEF GateTable, Users
<1>14. NewInv'
  <2> SUFFICES ASSUME NEW s \in Req, pc'[s] \in {"idle", "enter"}
               PROVE  refs'[s] = 0 /\ \A l \in Key : gates'[l] # s
    BY DEF NewInv
  <2>1. pc[s] \in {"idle", "enter"}
    BY <1>3 DEF TypeOK
  <2>2. refs[s] = 0 /\ \A l \in Key : gates[l] # s
    BY <2>1 DEF GateInv, NewInv
  <2>3. s # gate /\ s # None
    BY <1>2, <2>2
  <2> QED
    BY <1>2, <1>3, <1>4, <1>10, <2>2, <2>3 DEF TypeOK
<1>15. \A l, m \in Key : gates'[l] = gates'[m] /\ gates'[l] # None => l = m
  BY <1>2, <1>4, <1>10 DEF GateInv
<1>16. \A l \in Key : IsFiniteSet(Users(l)')
  BY <1>4, <1>7 DEF GateInv
<1> QED
  BY <1>13, <1>14, <1>15, <1>16 DEF GateInv

\* the gate table, its counts and its names
LEMMA StepGates == IInv /\ [Next]_vars => GateInv'
<1> SUFFICES ASSUME IInv, [Next]_vars PROVE GateInv'
  OBVIOUS
<1>1. CASE Quiet
  <2>1. \A k \in Key : Users(k)' = Users(k)
    BY <1>1 DEF Quiet, Users, subscription
  <2> QED
    BY <1>1, <2>1, SameUsers DEF Quiet, IInv
<1>2. ASSUME NEW r \in Req, TakeToken(r) \/ TakeSlot(r) \/ FreeSlot(r) \/ FreeToken(r) PROVE GateInv'
  <2>1. /\ UNCHANGED <<mode, key, gates, gateOf, refs>>
        /\ \A s \in Req : /\ pc'[s] \in Referring <=> pc[s] \in Referring
                          /\ pc'[s] \in {"idle", "enter"} => pc[s] \in {"idle", "enter"}
    BY <1>2 DEF TakeToken, TakeSlot, FreeSlot, FreeToken, Goto, At, IInv, TypeOK, Referring, Holding, Sending, turn
  <2>2. \A k \in Key : Users(k)' = Users(k)
    BY <2>1 DEF Users, subscription
  <2> QED
    BY <2>1, <2>2, SameUsers DEF IInv
<1> QED
  BY <1>1, <1>2, QuietStep, EnterGates, LeaveGates DEF Counting

\* a token that is taken was nobody's, and one that is given back was the giver's
LEMMA StepTokens == IInv /\ [Next]_vars => TokenInv'
<1> SUFFICES ASSUME IInv, [Next]_vars, subscription' PROVE TokenInv'
  BY DEF TokenInv
<1> USE DEF IInv, TypeOK, TokenInv, Goto, At
<1>1. CASE Quiet
  <2>1. \A s \in Req : pc'[s] \in Holding => pc[s] \in Holding
    BY <1>1 DEF Quiet, subscription
  <2> QED
    BY <1>1, <2>1 DEF Quiet, subscription
<1>2. ASSUME NEW r \in Req, Counting(r) PROVE TokenInv'
  <2>0. subscription
    BY <1>2 DEF Counting, PlaceInv, Enter, TakeToken, TakeSlot, FreeSlot, FreeToken, Leave
  <2>1. CASE Enter(r)
    BY <2>0, <2>1 DEF Enter, Holding, Sending
  <2>2. CASE TakeToken(r)
    <3>1. gateOf[r] \in Req
      BY <2>0, <2>2, UsedGate DEF TakeToken, Referring
    <3> QED
      BY <2>0, <2>2, <3>1 DEF TakeToken, Holding, Sending
  <2>3. CASE TakeSlot(r) \/ FreeSlot(r)
    <3>1. CASE TakeSlot(r)
      BY <2>0, <3>1 DEF TakeSlot, Holding, Sending
    <3>2. CASE FreeSlot(r)
      BY <2>0, <3>2 DEF FreeSlot, Holding, Sending
    <3> QED
      BY <2>3, <3>1, <3>2
  <2>4. CASE FreeToken(r)
    BY <2>0, <2>4 DEF FreeToken, Holding, Sending
  <2>5. CASE Leave(r)
    BY <2>0, <2>5 DEF Leave, Holding, Sending
  <2> QED
    BY <1>2, <2>1, <2>2, <2>3, <2>4, <2>5 DEF Counting
<1> QED
  BY <1>1, <1>2, QuietStep

\* the slots that are taken are those of the requests that have one
LEMMA StepSlots == IInv /\ [Next]_vars => SlotInv'
<1> SUFFICES ASSUME IInv, [Next]_vars, subscription' PROVE SlotInv'
  BY DEF SlotInv
<1>1. ASSUME UNCHANGED slots, subscription, \A s \in Req : pc'[s] \in Slotted <=> pc[s] \in Slotted
      PROVE SlotInv'
  <2>1. Slots' = Slots
    BY <1>1 DEF Slots
  <2>2. IsFiniteSet(Slots) /\ slots = Cardinality(Slots) /\ Cardinality(Slots) <= Limit
    BY <1>1 DEF IInv, SlotInv, FanOut, Slots
  <2>3. IsFiniteSet(Slots') /\ slots' = Cardinality(Slots') /\ Cardinality(Slots') <= Limit
    BY <1>1, <2>1, <2>2
  <2> QED
    BY <2>3 DEF SlotInv, FanOut, Slots
<1>2. CASE Quiet
  <2>1. subscription
    BY <1>2 DEF Quiet, subscription
  <2> QED
    BY <1>1, <1>2, <2>1 DEF Quiet
<1>3. ASSUME NEW r \in Req, Counting(r) PROVE SlotInv'
  <2>0. subscription
    BY <1>3 DEF IInv, Counting, PlaceInv, Enter, TakeToken, TakeSlot, FreeSlot, FreeToken, Leave, At
  <2>1. CASE Enter(r) \/ TakeToken(r) \/ FreeToken(r) \/ Leave(r)
    <3>1. UNCHANGED slots /\ \A s \in Req : pc'[s] \in Slotted <=> pc[s] \in Slotted
      BY <2>1 DEF IInv, TypeOK, Enter, TakeToken, FreeToken, Leave, Slotted, Sending, Goto, At
    <3> QED
      BY <1>1, <2>0, <3>1
  <2>2. CASE TakeSlot(r)
    <3>1. slots' = slots + 1 /\ slots < Limit /\ Slots' = Slots \cup {r} /\ r \notin Slots
      BY <2>2 DEF IInv, TypeOK, TakeSlot, Slots, Slotted, Sending, Goto, At
    <3>2. IsFiniteSet(Slots) /\ slots = Cardinality(Slots)
      BY <2>0 DEF IInv, SlotInv, FanOut, Slots
    <3>3. IsFiniteSet(Slots') /\ slots' = Cardinality(Slots') /\ slots' <= Limit
      BY <3>1, <3>2, FS_AddElement, LimitAssumption DEF IInv, TypeOK
    <3> QED
      BY <3>3 DEF SlotInv, FanOut, Slots
  <2>3. CASE FreeSlot(r)
    <3>1. slots' = slots - 1 /\ Slots' = Slots \ {r} /\ r \in Slots
      BY <2>3 DEF IInv, TypeOK, FreeSlot, Slots, Slotted, Sending, Goto, At
    <3>2. IsFiniteSet(Slots) /\ slots = Cardinality(Slots) /\ slots <= Limit
      BY <2>0 DEF IInv, SlotInv, FanOut, Slots
    <3>3. IsFiniteSet(Slots') /\ slots' = Cardinality(Slots') /\ slots' <= Limit
      BY <3>1, <3>2, FS_RemoveElement, LimitAssumption DEF IInv, TypeOK
    <3> QED
      BY <3>3 DEF SlotInv, FanOut, Slots
  <2> QED
    BY <1>3, <2>1, <2>2, <2>3 DEF Counting
<1> QED
  BY <1>2, <1>3, QuietStep

----------------------------------------------------------------------------
(* Theorems                                                                *)

\* the invariant is one
LEMMA Invariance == Spec => []IInv
<1>1. IInv /\ [Next]_vars => IInv'
  BY StepTypes, StepPlaces, StepLoops, StepGates, StepTokens, StepSlots DEF IInv
<1> QED
  BY InitInv, <1>1, PTL DEF Spec

\* Every variable keeps its type: no count of a gate and no count of the slots
\* is ever taken below zero (openai.go:577-599).
THEOREM TypeCorrect == Spec => []TypeOK
<1>1. IInv => TypeOK
  BY DEF IInv
<1> QED
  BY <1>1, Invariance, PTL

\* The turns of one session and model are sent one after the other, for any
\* number of sessions, models and requests (openai.go:561-603).
THEOREM TurnsOrdered == Spec => []TurnOrder
<1>1. IInv => TurnOrder
  <2> SUFFICES ASSUME IInv, NEW r \in Req, NEW s \in Req, subscription,
                      pc[r] \in Slotted, pc[s] \in Slotted, key[r] = key[s]
               PROVE  r = s
    BY DEF TurnOrder
  <2>1. pc[r] \in Holding /\ pc[s] \in Holding /\ pc[r] \in Referring /\ pc[s] \in Referring
    BY DEF Slotted, Holding, Referring
  <2>2. gateOf[r] = gateOf[s]
    BY <2>1, UsedGate DEF IInv
  <2> QED
    BY <2>1, <2>2 DEF IInv, TokenInv
<1> QED
  BY <1>1, Invariance, PTL

\* Of a subscription at most Limit slots are in use, and exactly those that a
\* request will give back (openai.go:594-599).
THEOREM FanOutBounded == Spec => []FanOut
<1>1. IInv => FanOut
  BY DEF IInv, SlotInv, FanOut
<1> QED
  BY <1>1, Invariance, PTL

\* The gate table holds the gates that are referred to, and each count is the
\* number of those who do (openai.go:566-587).
THEOREM GatesCounted == Spec => []GateTable
<1>1. IInv => GateTable
  BY DEF IInv, GateInv
<1> QED
  BY <1>1, Invariance, PTL

\* A turn is sent three times at most and asks for one refresh
\* (openai.go:606-658).
THEOREM RetriesBounded == Spec => []RetryBudget
<1>1. IInv => RetryBudget
  <2> SUFFICES ASSUME IInv, NEW r \in Req
               PROVE  /\ posts[r] <= (IF subscription THEN SubscriptionAttempts ELSE 1)
                      /\ refreshes[r] <= 1
                      /\ pc[r] \in {"refresh", "backoff"} => posts[r] < SubscriptionAttempts
    BY DEF RetryBudget
  <2>1. pc[r] \in Sending \cup {"stream"} \/ pc[r] \in Listing \/ pc[r] \notin Sending \cup Listing \cup {"stream"}
    OBVIOUS
  <2> QED
    BY <2>1 DEF IInv, TypeOK, LoopInv, Attempts, SubscriptionAttempts, Sending, Listing
<1> QED
  BY <1>1, Invariance, PTL

\* a turn is asked of the model in its key
KeptInv == \A r \in Req : key[r] # None => sent[r] = key[r][2]

----------------------------------------------------------------------------
(* Public names.  A recursive function is what its equation says only if    *)
(* some function satisfies it: a smallest list length for which none does,  *)
(* or a smallest one with a name that occurs twice, leads to a              *)
(* contradiction with the one before.                                       *)

\* Numbers of a kind have a smallest one.
LEMMA SmallestNumber ==
  ASSUME NEW T \in SUBSET Nat, T # {}
  PROVE  \E n \in T : \A m \in T : n <= m
<1>1. PICK n \in T : \A m \in T : ~(<<m, n>> \in OpToRel(<, Nat))
  BY NatLessThanWellFounded, WFMin
<1>2. \A m \in T : ~(m < n)
  BY <1>1 DEF OpToRel
<1> QED
  BY <1>2

\* the names after the one at i, given those before it
NextNames(list, ids, i) ==
  IF i = 0 THEN <<>>
  ELSE LET used == {ids[i - 1][j] : j \in 1..(i - 1)}
       IN  Append(ids[i - 1], UnusedName(PublicSlug(list[i], i), used))

Names(list) == CHOOSE ids : ids = [i \in 0..Len(list) |-> NextNames(list, ids, i)]

LEMMA PublicIDsDef ==
  ASSUME NEW list \in Lists
  PROVE  PublicIDs[list] = Names(list)[Len(list)]
BY DEF PublicIDs, Names, NextNames

LEMMA NamesDefined ==
  ASSUME NEW list \in Lists
  PROVE  Names(list) = [i \in 0..Len(list) |-> NextNames(list, Names(list), i)]
<1>1. Len(list) \in Nat
  BY ListsAssumption
<1> DEFINE Upto(m) == \E ids : ids = [i \in 0..m |-> NextNames(list, ids, i)]
           Bad == {m \in 0..Len(list) : ~Upto(m)}
<1>2. Upto(0)
  <2> DEFINE ids == [i \in 0..0 |-> <<>>]
  <2>1. \A i \in 0..0 : NextNames(list, ids, i) = <<>>
    BY DEF NextNames
  <2>2. ids = [i \in 0..0 |-> NextNames(list, ids, i)]
    BY <2>1
  <2> QED
    BY <2>2
<1>3. ASSUME NEW m \in Nat, Upto(m) PROVE Upto(m + 1)
  <2>1. PICK f : f = [i \in 0..m |-> NextNames(list, f, i)]
    BY <1>3
  <2> DEFINE g == [i \in 0..(m + 1) |-> IF i <= m THEN f[i] ELSE NextNames(list, f, i)]
  <2>2. ASSUME NEW i \in 0..(m + 1) PROVE g[i] = NextNames(list, g, i)
    <3>1. g[i] = NextNames(list, f, i)
      BY <2>1
    <3>2. i # 0 => g[i - 1] = f[i - 1]
      OBVIOUS
    <3> HIDE DEF g
    <3> QED
      BY <3>1, <3>2 DEF NextNames
  <2>3. g = [i \in 0..(m + 1) |-> NextNames(list, g, i)]
    <3>1. g = [i \in 0..(m + 1) |-> g[i]]
      OBVIOUS
    <3> HIDE DEF g
    <3> QED
      BY <2>2, <3>1
  <2> QED
    BY <2>3
<1>4. Bad = {}
  <2> SUFFICES ASSUME Bad # {} PROVE FALSE
    OBVIOUS
  <2>1. PICK n \in Bad : \A m \in Bad : n <= m
    <3>1. Bad \in SUBSET Nat
      BY <1>1
    <3> HIDE DEF Bad
    <3> QED
      BY <3>1, SmallestNumber
  <2> HIDE DEF Upto
  <2>2. n # 0 /\ n \in Nat /\ n <= Len(list)
    BY <1>1, <1>2, <2>1
  <2>3. n - 1 \in 0..Len(list) /\ n - 1 \in Nat /\ ~(n <= n - 1)
    BY <1>1, <2>2
  <2>4. Upto(n - 1)
    BY <2>1, <2>3
  <2>5. Upto((n - 1) + 1) /\ (n - 1) + 1 = n
    BY <1>3, <2>2, <2>3, <2>4
  <2> QED
    BY <2>1, <2>5
<1>5. Upto(Len(list))
  <2> HIDE DEF Upto
  <2> QED
    BY <1>1, <1>4
<1> QED
  BY <1>5 DEF Names

\* Among more numbers than there are names in use, one makes a new name; the
\* smallest such number is the one that is taken.
LEMMA UnusedNameNew ==
  ASSUME NEW base, NEW used, IsFiniteSet(used),
         \A m, n \in 2..(Cardinality(used) + 2) : Numbered(base, m) = Numbered(base, n) => m = n
  PROVE  /\ UnusedName(base, used) \notin used
         /\ UnusedName(base, used) = base \/ \E n \in Nat : UnusedName(base, used) = Numbered(base, n)
<1> DEFINE c == Cardinality(used)
           free == {n \in 2..(c + 2) : Numbered(base, n) \notin used}
<1>1. c \in Nat
  BY FS_CardinalityType
<1>2. CASE base \notin used
  BY <1>2 DEF UnusedName
<1>3. CASE base \in used
  <2>1. free # {}
    <3> SUFFICES ASSUME free = {} PROVE FALSE
      OBVIOUS
    <3> DEFINE f == [n \in 2..(c + 2) |-> Numbered(base, n)]
    <3>1. f \in [2..(c + 2) -> used]
      OBVIOUS
    <3>2. IsFiniteSet(2..(c + 2)) /\ Cardinality(2..(c + 2)) = c + 1
      <4>1. c + 2 \in Int /\ 2 \in Int /\ ~(2 > c + 2) /\ (c + 2) - 2 + 1 = c + 1
        BY <1>1
      <4> HIDE DEF c
      <4> QED
        BY <4>1, FS_Interval
    <3>3. c < Cardinality(2..(c + 2))
      BY <1>1, <3>2
    <3>4. \E m, n \in 2..(c + 2) : m # n /\ f[m] = f[n]
      <4> HIDE DEF f
      <4> QED
        BY <1>1, <3>1, <3>2, <3>3, FS_PigeonHole
    <3> QED
      BY <3>4
  <2>2. free \in SUBSET Nat
    BY <1>1
  <2>3. \E n \in free : \A m \in free : n <= m
    <3> HIDE DEF free
    <3> QED
      BY <2>1, <2>2, SmallestNumber
  <2> DEFINE n == CHOOSE n \in free : \A m \in free : n <= m
  <2>4. n \in free
    BY <2>3
  <2>5. UnusedName(base, used) = Numbered(base, n)
    BY <1>3 DEF UnusedName
  <2> HIDE DEF n
  <2>6. n \in Nat /\ Numbered(base, n) \notin used
    BY <2>2, <2>4
  <2> QED
    BY <2>5, <2>6
<1> QED
  BY <1>2, <1>3

\* The elements of a finite list are finitely many, and not more than its places.
LEMMA UsedFinite ==
  ASSUME NEW n \in Nat, NEW s
  PROVE  /\ IsFiniteSet({s[j] : j \in 1..n})
         /\ Cardinality({s[j] : j \in 1..n}) \in Nat
         /\ Cardinality({s[j] : j \in 1..n}) <= n
<1> DEFINE S == {s[j] : j \in 1..n}
           f == [j \in 1..n |-> s[j]]
<1>1. f \in Surjection(1..n, S)
  BY DEF Surjection
<1>2. ExistsSurjection(1..n, S)
  <2> HIDE DEF f, S
  <2> QED
    BY <1>1 DEF ExistsSurjection
<1> HIDE DEF f, S
<1>3. IsFiniteSet(S)
  BY <1>2, FS_NatSurjection
<1>4. Cardinality(S) \in Nat /\ Cardinality(S) <= n
  BY <1>2, <1>3, FS_SurjCardinalityBound, FS_CardinalityType
<1> QED
  BY <1>3, <1>4 DEF S

\* what a name of the list may be
AnyName(list) ==
  {PublicSlug(list[i], i) : i \in DOMAIN list}
    \cup {Numbered(PublicSlug(list[i], i), n) : i \in DOMAIN list, n \in Nat}

\* a list of n different names
Different(s, n, list) ==
  /\ s \in Seq(AnyName(list))
  /\ Len(s) = n
  /\ \A j, k \in 1..n : s[j] = s[k] => j = k

\* One more name makes a list of different names longer.
LEMMA NextNameDifferent ==
  ASSUME NEW list \in Lists, NEW i \in Nat, i + 1 \in DOMAIN list,
         Different(Names(list)[i], i, list)
  PROVE  Different(Names(list)[i + 1], i + 1, list)
<1> DEFINE s == Names(list)[i]
           used == {s[j] : j \in 1..i}
           base == PublicSlug(list[i + 1], i + 1)
           name == UnusedName(base, used)
<1>1. Len(list) \in Nat /\ DOMAIN list = 1..Len(list) /\ i + 1 <= Len(list)
  BY ListsAssumption
<1>2. Names(list)[i + 1] = Append(s, name)
  <2>1. i + 1 \in 0..Len(list) /\ i + 1 # 0 /\ (i + 1) - 1 = i
    BY <1>1
  <2>2. Names(list)[i + 1] = NextNames(list, Names(list), i + 1)
    BY <2>1, NamesDefined
  <2> QED
    BY <2>1, <2>2 DEF NextNames
<1>3. IsFiniteSet(used) /\ Cardinality(used) \in Nat /\ Cardinality(used) <= i
  <2> HIDE DEF s
  <2> QED
    BY UsedFinite
<1>4. \A m, n \in 2..(Cardinality(used) + 2) : Numbered(base, m) = Numbered(base, n) => m = n
  <2>1. 2..(Cardinality(used) + 2) \subseteq 2..(Len(list) + 1)
    <3> HIDE DEF used
    <3> QED
      BY <1>1, <1>3
  <2> QED
    BY <2>1, NumberedAssumption
<1>5. name \notin used /\ (name = base \/ \E n \in Nat : name = Numbered(base, n))
  <2> HIDE DEF used, base
  <2> QED
    BY <1>3, <1>4, UnusedNameNew
<1>6. name \in AnyName(list)
  <2> HIDE DEF name
  <2> QED
    BY <1>5 DEF AnyName
<1> HIDE DEF s, name
<1>7. s \in Seq(AnyName(list)) /\ Len(s) = i /\ \A j, k \in 1..i : s[j] = s[k] => j = k
  BY DEF Different, s
<1>8. /\ Append(s, name) \in Seq(AnyName(list)) /\ Len(Append(s, name)) = i + 1
      /\ \A j \in 1..i : Append(s, name)[j] = s[j]
      /\ Append(s, name)[i + 1] = name
  BY <1>6, <1>7
<1>9. \A j \in 1..i : s[j] # name
  BY <1>5 DEF used
<1>10. \A j \in 1..(i + 1) : j \in 1..i \/ j = i + 1
  OBVIOUS
<1>11. \A j, k \in 1..(i + 1) : Append(s, name)[j] = Append(s, name)[k] => j = k
  BY <1>7, <1>8, <1>9, <1>10
<1> QED
  BY <1>2, <1>8, <1>11 DEF Different

\* The public names of a list are different from each other.
LEMMA PublicIDsDifferent ==
  ASSUME NEW list \in Lists
  PROVE  Different(PublicIDs[list], Len(list), list)
<1>1. Len(list) \in Nat /\ DOMAIN list = 1..Len(list)
  BY ListsAssumption
<1> DEFINE Bad == {i \in 0..Len(list) : ~Different(Names(list)[i], i, list)}
<1>2. Different(Names(list)[0], 0, list)
  <2>1. Names(list)[0] = <<>>
    BY <1>1, NamesDefined DEF NextNames
  <2> QED
    BY <2>1 DEF Different
<1>3. Bad = {}
  <2> SUFFICES ASSUME Bad # {} PROVE FALSE
    OBVIOUS
  <2>1. PICK n \in Bad : \A m \in Bad : n <= m
    <3>1. Bad \in SUBSET Nat
      BY <1>1
    <3> HIDE DEF Bad
    <3> QED
      BY <3>1, SmallestNumber
  <2>2. n # 0 /\ n \in Nat /\ n <= Len(list)
    BY <1>1, <1>2, <2>1
  <2>3. n - 1 \in 0..Len(list) /\ n - 1 \in Nat /\ ~(n <= n - 1)
    BY <1>1, <2>2
  <2>4. Different(Names(list)[n - 1], n - 1, list)
    BY <2>1, <2>3
  <2>5. (n - 1) + 1 = n /\ n \in DOMAIN list
    BY <1>1, <2>2
  <2>6. Different(Names(list)[n], n, list)
    BY <2>3, <2>4, <2>5, NextNameDifferent
  <2> QED
    BY <2>1, <2>6
<1>4. Different(Names(list)[Len(list)], Len(list), list)
  BY <1>1, <1>3
<1> QED
  BY <1>4, PublicIDsDef

\* A public name stands for its model, and for no other.
LEMMA ResolvePublic ==
  ASSUME NEW list \in Lists, NEW i \in DOMAIN list
  PROVE  Resolve[list][PublicIDs[list][i]] = {list[i]}
<1> DEFINE name == PublicIDs[list][i]
           public == {j \in DOMAIN list : PublicIDs[list][j] = name}
<1>1. DOMAIN list = 1..Len(list)
  BY ListsAssumption
<1>2. public = {i}
  BY <1>1, PublicIDsDifferent DEF Different
<1>3. name \in Name
  BY DEF Name
<1>4. Resolve[list][name] = {list[j] : j \in public}
  <2> HIDE DEF name
  <2> QED
    BY <1>2, <1>3 DEF Resolve, name
<1> QED
  BY <1>2, <1>4

\* The names of a catalog are different, and each stands for the model it was
\* made for, whatever the models are called and however many there are
\* (server.go:457-476).
THEOREM NamesStandForModels == Spec => []CatalogFaithful
<1>1. IInv => CatalogFaithful
  BY ResolvePublic DEF IInv, TypeOK, CatalogFaithful
<1> QED
  BY <1>1, Invariance, PTL

----------------------------------------------------------------------------
\* What the finding about ModelKept depends on: as long as no model of the list
\* has the name of an alias, or a Claude name, the provider resolves a model to
\* itself, and every turn is sent to the model that was selected
\* (config.go:488-521, server.go:593-616).
THEOREM ModelKeptWithoutAliases ==
  ASSUME \A model \in Model : model \notin DOMAIN ModelMap \cup DOMAIN AliasesIn
  PROVE  Spec => []ModelKept
<1>1. Init => KeptInv
  BY DEF Init, KeptInv
<1>2. IInv /\ KeptInv /\ [Next]_vars => KeptInv'
  <2> SUFFICES ASSUME IInv, KeptInv, [Next]_vars PROVE KeptInv'
    OBVIOUS
  <2>1. ASSUME UNCHANGED turn PROVE KeptInv'
    BY <2>1 DEF turn, KeptInv
  <2>2. ASSUME NEW r \in Req, EndTurn(r) PROVE KeptInv'
    BY <2>2 DEF EndTurn, KeptInv, IInv, TypeOK
  <2>3. ASSUME NEW r \in Req, NEW name \in Name, NEW session \in Session, Receive(r, name, session)
        PROVE KeptInv'
    <3>1. PICK model \in Resolve[catalog][name] :
            /\ key' = [key EXCEPT ![r] = <<session, model>>]
            /\ \E asked \in Asked(model) : sent' = [sent EXCEPT ![r] = asked]
      BY <2>3 DEF Receive
    <3>2. model \in Model
      BY ResolveType DEF IInv, TypeOK
    <3>3. Asked(model) = {model}
      BY <3>2 DEF Asked, ResolveModel
    <3>4. sent' = [sent EXCEPT ![r] = model]
      BY <3>1, <3>3
    <3> QED
      BY <3>1, <3>4 DEF KeptInv, IInv, TypeOK
  <2>4. ASSUME NEW r \in Req, Release(r) PROVE KeptInv'
    BY <2>1, <2>2, <2>4 DEF Release
  <2>5. ASSUME NEW r \in Req, NEW list \in Lists, Obtain(r, list) PROVE KeptInv'
    BY <2>1, <2>2, <2>5 DEF Obtain, Select
  <2>6. ASSUME NEW r \in Req, Generating(r) PROVE KeptInv'
    BY <2>1, <2>2, <2>4, <2>6 DEF Generating, ModelInfo, Enter, TakeToken, TakeSlot, FreeSlot, FreeToken,
         Leave, Post, AuthorizeFails, Accepted, StreamEnds, Failed, Unauthorized, Unavailable, Retry, GiveUp
  <2>7. ASSUME NEW r \in Req, ListingModels(r) PROVE KeptInv'
    <3>1. CASE UseCached(r)
      BY <2>5, <3>1 DEF UseCached, IInv, TypeOK
    <3>2. CASE \E list \in Lists : Fetched(r, list)
      BY <2>5, <3>2 DEF Fetched
    <3>3. CASE ListFails(r)
      BY <2>2, <3>3 DEF ListFails
    <3> QED
      BY <2>1, <2>7, <3>1, <3>2, <3>3 DEF ListingModels, Expired, ListPage, ListUnauthorized, ListAgain,
           InstallModels
  <2>8. ASSUME NEW r \in Req, Refuse(r) \/ AskModels(r) \/ CancelWait(r) PROVE KeptInv'
    BY <2>1, <2>8 DEF Refuse, AskModels, CancelWait
  <2>9. CASE UNCHANGED vars
    BY <2>1, <2>9 DEF vars
  <2> QED
    BY <2>3, <2>6, <2>7, <2>8, <2>9 DEF Next, Handle
<1>3. IInv /\ KeptInv => ModelKept
  <2> SUFFICES ASSUME IInv, KeptInv, NEW r \in Req, pc[r] \in Sending \cup {"stream"}
               PROVE  sent[r] = key[r][2]
    BY DEF ModelKept
  <2>1. key[r] \in Key
    BY DEF IInv, PlaceInv, Referring, Holding
  <2>2. key[r] # None
    BY <2>1, NoneAssumption DEF Key
  <2> QED
    BY <2>2 DEF KeptInv
<1> QED
  BY <1>1, <1>2, <1>3, Invariance, PTL DEF Spec
----------------------------------------------------------------------------
(* Waiting.  A full token channel has somebody who will empty it, and the  *)
(* mutex of the model list is held by the request that lists.              *)

HolderInv ==
  /\ subscription => \A g \in token : \E s \in Req : pc[s] \in Holding /\ gateOf[s] = g
  /\ \A r \in Req : modelMu = r <=> pc[r] \in Listing

\* A token is taken and given back, and the list's lock is held, by the request
\* that stands where the code has it; no other step touches either.
LEMMA StepHolders == IInv /\ HolderInv /\ [Next]_vars => HolderInv'
<1> SUFFICES ASSUME IInv, HolderInv, [Next]_vars PROVE HolderInv'
  OBVIOUS
<1> USE DEF IInv, TypeOK, Goto, At
<1>1. ASSUME subscription', NEW g \in token' PROVE \E s \in Req : pc'[s] \in Holding /\ gateOf'[s] = g
  <2>1. CASE Quiet
    BY <1>1, <2>1 DEF Quiet, subscription, HolderInv
  <2>2. ASSUME NEW r \in Req, Counting(r) PROVE \E s \in Req : pc'[s] \in Holding /\ gateOf'[s] = g
    <3>0. subscription /\ mode' = mode
      BY <2>2 DEF Counting, PlaceInv, Enter, TakeToken, TakeSlot, FreeSlot, FreeToken, Leave
    <3>1. CASE TakeToken(r) /\ g = gateOf[r]
      BY <3>1 DEF TakeToken, Holding
    <3>2. CASE ~(TakeToken(r) /\ g = gateOf[r])
      <4>1. g \in token
        BY <1>1, <2>2, <3>2 DEF Counting, Enter, TakeToken, TakeSlot, FreeSlot, FreeToken, Leave
      <4>2. PICK s \in Req : pc[s] \in Holding /\ gateOf[s] = g
        BY <3>0, <4>1 DEF HolderInv
      <4>3. ~(FreeToken(r) /\ s = r)
        BY <1>1, <4>2 DEF FreeToken
      <4>4. CASE s # r
        <5>1. pc'[s] = pc[s] /\ gateOf'[s] = gateOf[s]
          BY <2>2, <4>4 DEF Counting, Enter, TakeToken, TakeSlot, FreeSlot, FreeToken, Leave
        <5> QED
          BY <4>2, <5>1
      <4>5. CASE s = r
        <5>1. TakeSlot(r) \/ FreeSlot(r)
          BY <2>2, <4>2, <4>3, <4>5 DEF Counting, Enter, TakeToken, Leave, Holding, Sending
        <5>2. pc'[r] \in Holding /\ gateOf' = gateOf
          BY <5>1 DEF TakeSlot, FreeSlot, Holding, Sending
        <5> QED
          BY <4>2, <4>5, <5>2
      <4> QED
        BY <4>4, <4>5
    <3> QED
      BY <3>1, <3>2
  <2> QED
    BY <2>1, <2>2, QuietStep
<1>2. ASSUME NEW r \in Req PROVE modelMu' = r <=> pc'[r] \in Listing
  <2> USE DEF HolderInv, Listing
  <2>1. CASE UNCHANGED vars
    BY <2>1 DEF vars, models
  <2>2. ASSUME NEW q \in Req, UNCHANGED modelMu, pc[q] \in Listing <=> pc'[q] \in Listing,
               \A s \in Req : s # q => pc'[s] = pc[s]
        PROVE  modelMu' = r <=> pc'[r] \in Listing
    BY <2>2
  <2>3. ASSUME NEW q \in Req, Refuse(q) \/ AskModels(q) \/ CancelWait(q)
        PROVE  modelMu' = r <=> pc'[r] \in Listing
    <3>1. /\ UNCHANGED modelMu /\ pc[q] \notin Listing /\ pc'[q] \notin Listing
          /\ \A s \in Req : s # q => pc'[s] = pc[s]
      BY <2>3 DEF Refuse, AskModels, CancelWait, models
    <3> QED
      BY <2>2, <3>1
  <2>4. ASSUME NEW q \in Req, NEW name \in Name, NEW session \in Session, Receive(q, name, session)
        PROVE  modelMu' = r <=> pc'[r] \in Listing
    <3>1. mode \in Modes
      BY ModeAssumption
    <3>2. \E there \in {"enter", "post", "info", "lock"} : pc' = [pc EXCEPT ![q] = there]
      BY <2>4, <3>1 DEF Receive, Modes
    <3>3. UNCHANGED modelMu /\ pc[q] = "idle"
      BY <2>4 DEF Receive, models
    <3> QED
      BY <2>2, <3>2, <3>3
  <2>5. ASSUME NEW q \in Req, Generating(q)
        PROVE  modelMu' = r <=> pc'[r] \in Listing
    <3>1. /\ UNCHANGED modelMu /\ pc[q] \notin Listing /\ \E there \in PC \ Listing : pc' = [pc EXCEPT ![q] = there]
      <4> USE AllPlaces
      <4>1. CASE ModelInfo(q) \/ Enter(q) \/ TakeToken(q) \/ TakeSlot(q) \/ FreeSlot(q) \/ FreeToken(q) \/ Leave(q)
        BY <4>1 DEF ModelInfo, Enter, TakeToken, TakeSlot, FreeSlot, FreeToken, Leave, models
      <4>2. CASE Post(q) \/ Accepted(q) \/ Unauthorized(q) \/ Unavailable(q) \/ Retry(q)
        BY <4>2 DEF Post, Accepted, Unauthorized, Unavailable, Retry, models
      <4>3. CASE AuthorizeFails(q) \/ StreamEnds(q) \/ Failed(q) \/ GiveUp(q)
        <5>1. Release(q) /\ UNCHANGED modelMu /\ pc[q] \notin Listing
          BY <4>3 DEF AuthorizeFails, StreamEnds, Failed, GiveUp, models
        <5> QED
          BY <5>1 DEF Release
      <4> QED
        BY <2>5, <4>1, <4>2, <4>3 DEF Generating
    <3> QED
      BY <2>2, <3>1
  <2>6. ASSUME NEW q \in Req, ListingModels(q)
        PROVE  modelMu' = r <=> pc'[r] \in Listing
    <3>1. CASE UseCached(q) \/ InstallModels(q)
      <4>1. /\ UNCHANGED modelMu /\ pc[q] \notin Listing
            /\ \E there \in {"install", "post", "done"} : pc' = [pc EXCEPT ![q] = there]
        BY <3>1 DEF UseCached, InstallModels, Obtain, Select
      <4> QED
        BY <2>2, <4>1
    <3>2. CASE Expired(q)
      <4>1. modelMu = None /\ modelMu' = q /\ pc' = [pc EXCEPT ![q] = "list"]
        BY <3>2 DEF Expired
      <4>2. pc[r] \notin Listing
        BY <4>1, NoneAssumption
      <4> QED
        BY <4>1, <4>2
    <3>3. CASE (\E list \in Lists : Fetched(q, list)) \/ ListFails(q)
      <4>1. /\ modelMu' = None /\ pc[q] \in Listing
            /\ \E there \in {"install", "post", "done"} : pc' = [pc EXCEPT ![q] = there]
        BY <3>3 DEF Fetched, ListFails, Obtain, Select
      <4> QED
        BY <4>1, NoneAssumption
    <3>4. CASE ListPage(q) \/ ListUnauthorized(q) \/ ListAgain(q)
      <4>1. /\ UNCHANGED modelMu /\ pc[q] \in Listing /\ pc'[q] \in Listing
            /\ \A s \in Req : s # q => pc'[s] = pc[s]
        BY <3>4 DEF ListPage, ListUnauthorized, ListAgain, models
      <4> QED
        BY <2>2, <4>1
    <3> QED
      BY <2>6, <3>1, <3>2, <3>3, <3>4 DEF ListingModels
  <2> QED
    BY <2>1, <2>3, <2>4, <2>5, <2>6 DEF Next, Handle
<1> QED
  BY <1>1, <1>2 DEF HolderInv

\* r cannot go on by itself
Waits(r) ==
  \/ At(r, "token") /\ gateOf[r] \in token
  \/ At(r, "slot") /\ slots = Limit
  \/ pc[r] \in {"lock", "info"} /\ modelMu # None

\* s has what r waits for
WaitsFor(r, s) ==
  \/ At(r, "token") /\ pc[s] \in Holding /\ gateOf[s] = gateOf[r]
  \/ At(r, "slot") /\ pc[s] \in Slotted
  \/ pc[r] \in {"lock", "info"} /\ modelMu = s

\* Gates, slots and the list's mutex are never waited for in a circle, and none
\* is full without somebody who has it: whoever waits, waits for a request that
\* can go on, or for one that waits for the slot of a request that can go on.
NoCircularWait ==
  \A r \in Req : Waits(r) =>
    \E s \in Req : WaitsFor(r, s) /\ (~Waits(s) \/ \E q \in Req : WaitsFor(s, q) /\ ~Waits(q))

\* In every reachable state a request that waits for a gate, a slot or the list
\* waits for one that can go on, at most one wait further: the locks of Generate,
\* acquireTurn and ModelInfo are taken in one order.
THEOREM WaitsEndAtRunner == Spec => []NoCircularWait
<1>1. Init => HolderInv
  BY NoneAssumption DEF Init, HolderInv, Listing
<1>2. IInv /\ HolderInv => NoCircularWait
  <2> SUFFICES ASSUME IInv, HolderInv, NEW r \in Req, Waits(r)
               PROVE  \E s \in Req : WaitsFor(r, s) /\ (~Waits(s) \/ \E q \in Req : WaitsFor(s, q) /\ ~Waits(q))
    BY DEF NoCircularWait
  <2> USE DEF At
  \* who has a slot, or lists, waits for nothing
  <2>1. \A q \in Req : pc[q] \in Slotted \cup Listing => ~Waits(q)
    BY DEF Waits, Slotted, Sending, Listing
  <2>2. ASSUME subscription, slots = Limit PROVE \E q \in Req : pc[q] \in Slotted
    <3>1. IsFiniteSet(Slots) /\ Cardinality(Slots) = Limit
      BY <2>2 DEF IInv, SlotInv, FanOut, Slots
    <3>2. Slots # {}
      BY <3>1, FS_EmptySet, LimitAssumption
    <3> QED
      BY <3>2 DEF Slots
  <2>3. CASE At(r, "slot") /\ slots = Limit
    <3>1. subscription
      BY <2>3 DEF IInv, PlaceInv
    <3> QED
      BY <2>1, <2>2, <2>3, <3>1 DEF WaitsFor
  <2>4. CASE At(r, "token") /\ gateOf[r] \in token
    <3>1. subscription
      BY <2>4 DEF IInv, PlaceInv
    <3>2. PICK s \in Req : pc[s] \in Holding /\ gateOf[s] = gateOf[r]
      BY <2>4, <3>1 DEF HolderInv
    <3>3. ~Waits(s) \/ (At(s, "slot") /\ slots = Limit)
      BY <3>2 DEF Waits, Holding, Sending
    <3>4. At(s, "slot") /\ slots = Limit => \E q \in Req : WaitsFor(s, q) /\ ~Waits(q)
      BY <2>1, <2>2, <3>1 DEF WaitsFor
    <3> QED
      BY <2>4, <3>2, <3>3, <3>4 DEF WaitsFor
  <2>5. CASE pc[r] \in {"lock", "info"} /\ modelMu # None
    <3>1. modelMu \in Req /\ pc[modelMu] \in Listing
      BY <2>5 DEF IInv, TypeOK, HolderInv
    <3> QED
      BY <2>1, <2>5, <3>1 DEF WaitsFor
  <2> QED
    BY <2>3, <2>4, <2>5 DEF Waits
<1> QED
  BY <1>1, <1>2, StepHolders, Invariance, PTL DEF Spec
=============================================================================
