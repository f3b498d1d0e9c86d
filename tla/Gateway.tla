------------------------------ MODULE Gateway ------------------------------
(***************************************************************************)
(* The loopback gateway (internal/gateway) in front of a provider: HTTP    *)
(* handlers that run concurrently, the catalog of public model names they  *)
(* resolve against and replace, the provider's cache of the same list      *)
(* behind a mutex, and, for an OpenAI subscription, the gate that orders   *)
(* the turns of one session, the slots that bound the account's fan-out    *)
(* and the retry loop.  What the providers do with a turn that was         *)
(* accepted is ResponsesTurn's and ProviderTurn's.                         *)
(*                                                                         *)
(* A handler's context is cancelled when its client goes away: the select  *)
(* statements that watch it may give up at any time, and a request that is *)
(* in flight may fail at any time.  Server.Close cancels no request: it    *)
(* refuses new ones, and waits five seconds for the others.                *)
(***************************************************************************)
EXTENDS Naturals, FiniteSets, Sequences

CONSTANTS Req,             \* HTTP requests
          Session,         \* a client's session and agent
          Model,           \* the provider's model ids, up to letter case
          Lists,           \* what the account's model list may be
          PublicSlug(_, _),\* publicModelID: the name made of a model id and,
                           \* if no letter is in that, of its place in the list
          Numbered(_, _),  \* a name with a "-2", "-3", ... after it
          ModelMap,        \* config.ModelMap: the configured aliases
          DefaultAlias,    \* "default"
          AliasesIn,       \* for a name that begins with "claude-": those in it
          Mode,            \* which of Modes are considered
          MaxPage,         \* bound: the further pages of Codex's list
          Limit,           \* MaxConcurrentSubscription
          None

ASSUME LimitAssumption == Limit \in Nat \ {0}
ASSUME NoneAssumption == None \notin Req \cup (Session \X Model)
\* An OpenAI account; one request and no retries, as for an OpenAI key or
\* endpoint, OpenRouter and OpenCode; the Anthropic API; a Codex app-server,
\* which the pool of CodexPool stands between.
Modes == {"account", "key", "anthropic", "codex"}

ASSUME ModeAssumption == Mode \subseteq Modes /\ MaxPage \in Nat
ASSUME AliasAssumption == \A name \in DOMAIN AliasesIn : AliasesIn[name] \subseteq DOMAIN ModelMap
ASSUME ListsAssumption == Lists \subseteq Seq(Model) \ {<<>>} /\ Lists # {}
\* different numbers make different names of one name; more than one for each
\* model of the list and one are never tried
ASSUME NumberedAssumption ==
  \A list \in Lists : \A i \in DOMAIN list : \A m, n \in 2..(Len(list) + 1) :
    Numbered(PublicSlug(list[i], i), m) = Numbered(PublicSlug(list[i], i), n) => m = n

SubscriptionAttempts == 3
ListAttempts == 2

----------------------------------------------------------------------------
(* The catalog                                                             *)

\* mutant: a name is used again
UnusedName_Same(base, used) == base

\* the first of base, base-2, base-3, ... that is not used; one of the first
\* n + 1 is not, when n are used
UnusedName(base, used) ==
  IF base \notin used THEN base
  ELSE LET free == {n \in 2..(Cardinality(used) + 2) : Numbered(base, n) \notin used}
       IN  Numbered(base, CHOOSE n \in free : \A m \in free : n <= m)

\* the public names of a list, in its order
PublicIDs ==
  [list \in Lists |->
    LET ids[i \in 0..Len(list)] ==
          IF i = 0 THEN <<>>
          ELSE LET used == {ids[i - 1][j] : j \in 1..(i - 1)}
               IN  Append(ids[i - 1], UnusedName(PublicSlug(list[i], i), used))
    IN  ids[Len(list)]]

Name == (UNION {{PublicIDs[list][i] : i \in DOMAIN list} : list \in Lists})
          \cup Model \cup DOMAIN ModelMap

\* resolveModel.  A public name wins over a model id, and that over a
\* configured alias; nothing is found for a model the list has not.
Resolve ==
  [list \in Lists |-> [name \in Name |->
    LET public == {i \in DOMAIN list : PublicIDs[list][i] = name}
        upstream == {i \in DOMAIN list : list[i] = name}
        alias == {i \in DOMAIN list : name \in DOMAIN ModelMap /\ list[i] = ModelMap[name]}
        found == IF public # {} THEN public ELSE IF upstream # {} THEN upstream ELSE alias
    IN  {list[i] : i \in found}]]

\* config.ResolveModel, which the providers call with the model id that
\* resolveModel has found.  The aliases are tried in the order of a Go map.
ResolveModel(name) ==
  LET aliases == IF name \in DOMAIN ModelMap THEN {name}
                 ELSE IF name \notin DOMAIN AliasesIn THEN {}
                 ELSE IF AliasesIn[name] # {} THEN AliasesIn[name]
                 ELSE {DefaultAlias} \cap DOMAIN ModelMap
  IN  IF aliases = {} THEN {name} ELSE {ModelMap[alias] : alias \in aliases}

----------------------------------------------------------------------------
VARIABLES
  mode,          \* the provider
  catalog,       \* the list Server.models was made of
  cache,         \* Provider.models
  modelMu,       \* the handler that holds Provider.modelMu
  listed,        \* the list Provider.Models returned to a handler
  pc,            \* where each handler is
  key,           \* PromptCacheKey: session, agent and upstream model; None
                 \* for a listing
  sent,          \* the model Generate asks the provider for
  gates,         \* subscriptionGates: a gate is named after the request that made it
  gateOf,        \* the gate a request waits for or holds
  refs,          \* generateGate.refs
  token,         \* the gates whose token channel is full
  slots,         \* len(subscriptionSlots)
  attempt,       \* the loop variable of the retry loops, the pages of a list
  posts,         \* history: POST requests sent for a turn
  refreshes      \* history: token refreshes asked for by a request

models == <<catalog, cache, modelMu, listed>>
gating == <<gates, gateOf, refs, token, slots>>
retrying == <<attempt, posts, refreshes>>
turn == <<key, sent>>
vars == <<mode, models, pc, turn, gating, retrying>>

subscription == mode = "account"

Key == Session \X Model

\* sendResponsesWithRetry
Sending == {"post", "answer", "refresh", "backoff"}
\* the request holds its gate's token
Holding == {"slot", "stream", "freeSlot", "freeToken"} \cup Sending
\* the request counts in refs of its gate
Referring == {"token", "leave"} \cup Holding
\* the request counts in the slots
Slotted == {"stream", "freeSlot"} \cup Sending
\* Provider.Models, with its mutex
Listing == {"list", "listRefresh"}
PC == {"idle", "enter", "info", "lock", "install", "done"} \cup Referring \cup Listing

\* what a provider can be asked for
Wanted == Model \cup {ModelMap[alias] : alias \in DOMAIN ModelMap}

TypeOK ==
  /\ mode \in Mode
  /\ catalog \in Lists
  /\ cache \in Lists
  /\ modelMu \in Req \cup {None}
  /\ listed \in [Req -> Lists \cup {<<>>}]
  /\ pc \in [Req -> PC]
  /\ key \in [Req -> Key \cup {None}]
  /\ sent \in [Req -> Wanted \cup {None}]
  /\ gates \in [Key -> Req \cup {None}]
  /\ gateOf \in [Req -> Req \cup {None}]
  /\ refs \in [Req -> Nat]
  /\ token \subseteq Req
  /\ slots \in 0..Limit
  /\ attempt \in [Req -> Nat]
  /\ posts \in [Req -> Nat]
  /\ refreshes \in [Req -> Nat]

\* PrimeModels has filled both before the listener opens
Init ==
  /\ mode \in Mode
  /\ catalog \in Lists
  /\ cache = catalog
  /\ modelMu = None
  /\ listed = [r \in Req |-> <<>>]
  /\ pc = [r \in Req |-> "idle"]
  /\ key = [r \in Req |-> None]
  /\ sent = [r \in Req |-> None]
  /\ gates = [k \in Key |-> None]
  /\ gateOf = [r \in Req |-> None]
  /\ refs = [r \in Req |-> 0]
  /\ token = {}
  /\ slots = 0
  /\ attempt = [r \in Req |-> 0]
  /\ posts = [r \in Req |-> 0]
  /\ refreshes = [r \in Req |-> 0]

At(r, here) == pc[r] = here
Goto(r, there) == pc' = [pc EXCEPT ![r] = there]

\* the loop's local variables go with it
EndLoop(r) ==
  /\ attempt' = [attempt EXCEPT ![r] = 0]
  /\ posts' = [posts EXCEPT ![r] = 0]
  /\ refreshes' = [refreshes EXCEPT ![r] = 0]

EndTurn(r) ==
  /\ key' = [key EXCEPT ![r] = None]
  /\ sent' = [sent EXCEPT ![r] = None]

----------------------------------------------------------------------------
(* handleMessages and handleResponses, up to Generate                      *)

\* Decoding and translation touch nothing shared; a request may be refused
\* before and after its model is resolved.
Refuse(r) ==
  /\ At(r, "idle")
  /\ Goto(r, "done")
  /\ UNCHANGED <<mode, models, turn, gating, retrying>>

\* Anthropic takes the model as it is
Asked(model) == IF mode = "anthropic" THEN {model} ELSE ResolveModel(model)

Receive(r, name, session) ==
  /\ At(r, "idle")
  /\ \E model \in Resolve[catalog][name] :
       /\ key' = [key EXCEPT ![r] = <<session, model>>]
       /\ \E asked \in Asked(model) : sent' = [sent EXCEPT ![r] = asked]
  /\ Goto(r, CASE mode = "account" -> "enter" [] mode = "key" -> "post"
               [] mode = "anthropic" -> "info" [] mode = "codex" -> "lock")
  /\ UNCHANGED <<mode, models, gating, retrying>>

\* Anthropic looks the model's limits up in its cached list, which is behind
\* the mutex that a listing holds
ModelInfo(r) ==
  /\ At(r, "info") /\ modelMu = None
  /\ Goto(r, "post")
  /\ UNCHANGED <<mode, models, turn, gating, retrying>>

----------------------------------------------------------------------------
(* acquireGenerate and the function it returns                             *)

Enter(r) ==
  LET gate == IF gates[key[r]] = None THEN r ELSE gates[key[r]] IN
  /\ At(r, "enter")
  /\ gates' = [gates EXCEPT ![key[r]] = gate]
  /\ gateOf' = [gateOf EXCEPT ![r] = gate]
  /\ refs' = [refs EXCEPT ![gate] = @ + 1]
  /\ Goto(r, "token")
  /\ UNCHANGED <<mode, models, turn, token, slots, retrying>>

TakeToken(r) ==
  /\ At(r, "token") /\ gateOf[r] \notin token
  /\ token' = token \cup {gateOf[r]}
  /\ Goto(r, "slot")
  /\ UNCHANGED <<mode, models, turn, gates, gateOf, refs, slots, retrying>>

\* mutant: nothing bounds the channel
TakeSlot_Unbounded(r) ==
  /\ At(r, "slot")
  /\ slots' = slots + 1
  /\ Goto(r, "post")
  /\ UNCHANGED <<mode, models, turn, gates, gateOf, refs, token, retrying>>

TakeSlot(r) ==
  /\ At(r, "slot") /\ slots < Limit
  /\ slots' = slots + 1
  /\ Goto(r, "post")
  /\ UNCHANGED <<mode, models, turn, gates, gateOf, refs, token, retrying>>

\* mutants: the wait for the slot ends with releaseGate(false); nothing is
\* released when the wait for the token ends
CancelWait_KeepsToken(r) ==
  /\ pc[r] \in {"token", "slot"}
  /\ Goto(r, "leave")
  /\ UNCHANGED <<mode, models, turn, gating, retrying>>

CancelWait_KeepsGate(r) ==
  /\ pc[r] \in {"token", "slot"}
  /\ Goto(r, IF At(r, "token") THEN "done" ELSE "freeToken")
  /\ UNCHANGED <<mode, models, turn, gating, retrying>>

\* the client is gone: releaseGate(false) or releaseGate(true)
CancelWait(r) ==
  /\ pc[r] \in {"token", "slot"}
  /\ Goto(r, IF At(r, "token") THEN "leave" ELSE "freeToken")
  /\ UNCHANGED <<mode, models, turn, gating, retrying>>

FreeSlot(r) ==
  /\ At(r, "freeSlot")
  /\ slots' = slots - 1
  /\ Goto(r, "freeToken")
  /\ UNCHANGED <<mode, models, turn, gates, gateOf, refs, token, retrying>>

FreeToken(r) ==
  /\ At(r, "freeToken")
  /\ token' = token \ {gateOf[r]}
  /\ Goto(r, "leave")
  /\ UNCHANGED <<mode, models, turn, gates, gateOf, refs, slots, retrying>>

\* mutant: whoever leaves deletes the gate
Leave_Always(r) ==
  /\ At(r, "leave")
  /\ refs' = [refs EXCEPT ![gateOf[r]] = @ - 1]
  /\ gates' = [gates EXCEPT ![key[r]] = None]
  /\ gateOf' = [gateOf EXCEPT ![r] = None]
  /\ EndTurn(r)
  /\ Goto(r, "done")
  /\ UNCHANGED <<mode, models, token, slots, retrying>>

\* the last one out deletes whatever gate is at the key
Leave(r) ==
  /\ At(r, "leave")
  /\ refs' = [refs EXCEPT ![gateOf[r]] = @ - 1]
  /\ gates' = IF refs'[gateOf[r]] = 0 THEN [gates EXCEPT ![key[r]] = None] ELSE gates
  /\ gateOf' = [gateOf EXCEPT ![r] = None]
  /\ EndTurn(r)
  /\ Goto(r, "done")
  /\ UNCHANGED <<mode, models, token, slots, retrying>>

----------------------------------------------------------------------------
(* sendResponsesWithRetry and the rest of Generate                         *)

\* an error leaves Generate by way of the deferred release
Release(r) ==
  /\ IF subscription THEN Goto(r, "freeSlot") /\ UNCHANGED turn ELSE Goto(r, "done") /\ EndTurn(r)
  /\ EndLoop(r)

Attempts == IF subscription THEN SubscriptionAttempts ELSE 1
AttemptsLeft(r) == attempt[r] + 1 < Attempts

Post(r) ==
  /\ At(r, "post")
  /\ posts' = [posts EXCEPT ![r] = @ + 1]
  /\ Goto(r, "answer")
  /\ UNCHANGED <<mode, models, turn, gating, attempt, refreshes>>

\* authorize fails
AuthorizeFails(r) ==
  /\ At(r, "post")
  /\ Release(r)
  /\ UNCHANGED <<mode, models, gating>>

\* 2xx: the body is read as ResponsesTurn has it
Accepted(r) ==
  /\ At(r, "answer")
  /\ Goto(r, "stream")
  /\ UNCHANGED <<mode, models, turn, gating, retrying>>

StreamEnds(r) ==
  /\ At(r, "stream")
  /\ Release(r)
  /\ UNCHANGED <<mode, models, gating>>

\* any other status, no answer, or a context that is done
Failed(r) ==
  /\ At(r, "answer")
  /\ Release(r)
  /\ UNCHANGED <<mode, models, gating>>

\* mutant: authRefreshed is not looked at
Unauthorized_Again(r) ==
  /\ At(r, "answer") /\ subscription /\ AttemptsLeft(r)
  /\ refreshes' = [refreshes EXCEPT ![r] = @ + 1]
  /\ Goto(r, "refresh")
  /\ UNCHANGED <<mode, models, turn, gating, attempt, posts>>

\* 401, for the first time: refreshes[r] is authRefreshed
Unauthorized(r) ==
  /\ At(r, "answer") /\ subscription
  /\ refreshes[r] = 0 /\ AttemptsLeft(r)
  /\ refreshes' = [refreshes EXCEPT ![r] = @ + 1]
  /\ Goto(r, "refresh")
  /\ UNCHANGED <<mode, models, turn, gating, attempt, posts>>

\* 429, 500, 502, 503 or 504
Unavailable(r) ==
  /\ At(r, "answer") /\ subscription /\ AttemptsLeft(r)
  /\ Goto(r, "backoff")
  /\ UNCHANGED <<mode, models, turn, gating, retrying>>

\* the refresh has succeeded, or the timer has fired
Retry(r) ==
  /\ pc[r] \in {"refresh", "backoff"}
  /\ attempt' = [attempt EXCEPT ![r] = @ + 1]
  /\ Goto(r, "post")
  /\ UNCHANGED <<mode, models, turn, gating, posts, refreshes>>

\* the refresh has failed, or the client is gone
GiveUp(r) ==
  /\ pc[r] \in {"refresh", "backoff"}
  /\ Release(r)
  /\ UNCHANGED <<mode, models, gating>>

----------------------------------------------------------------------------
(* handleModels, and selectModel of Codex: both call Provider.Models        *)

AskModels(r) ==
  /\ At(r, "idle")
  /\ Goto(r, "lock")
  /\ UNCHANGED <<mode, models, turn, gating, retrying>>

\* selectModel: a model that is not in the list is an error
Select(r, list) ==
  IF \E i \in DOMAIN list : list[i] = sent[r]
  THEN Goto(r, "post") /\ UNCHANGED turn
  ELSE Goto(r, "done") /\ EndTurn(r)

\* Provider.Models returns the list, to a listing or to a turn
Obtain(r, list) ==
  IF key[r] = None
  THEN listed' = [listed EXCEPT ![r] = list] /\ Goto(r, "install") /\ UNCHANGED turn
  ELSE Select(r, list) /\ UNCHANGED listed

\* A mutex: the wait does not end with the client.  The cached list is less
\* than five minutes old, and returned at once ...
UseCached(r) ==
  /\ At(r, "lock") /\ modelMu = None
  /\ Obtain(r, cache)
  /\ UNCHANGED <<mode, catalog, cache, modelMu, gating, retrying>>

\* ... or older, and the mutex is held while the provider is asked
Expired(r) ==
  /\ At(r, "lock") /\ modelMu = None
  /\ modelMu' = r
  /\ Goto(r, "list")
  /\ UNCHANGED <<mode, catalog, cache, listed, turn, gating, retrying>>

Fetched(r, list) ==
  /\ At(r, "list")
  /\ cache' = list
  /\ modelMu' = None
  /\ Obtain(r, list)
  /\ EndLoop(r)
  /\ UNCHANGED <<mode, catalog, gating>>

\* discoverModels: the app-server's list has another page
ListPage(r) ==
  /\ At(r, "list") /\ mode = "codex" /\ attempt[r] < MaxPage
  /\ attempt' = [attempt EXCEPT ![r] = @ + 1]
  /\ UNCHANGED <<mode, models, pc, turn, gating, posts, refreshes>>

\* subscriptionModels: a 401 answers the first attempt
ListUnauthorized(r) ==
  /\ At(r, "list") /\ subscription /\ attempt[r] + 1 < ListAttempts
  /\ refreshes' = [refreshes EXCEPT ![r] = @ + 1]
  /\ Goto(r, "listRefresh")
  /\ UNCHANGED <<mode, models, turn, gating, attempt, posts>>

ListAgain(r) ==
  /\ At(r, "listRefresh")
  /\ attempt' = [attempt EXCEPT ![r] = @ + 1]
  /\ Goto(r, "list")
  /\ UNCHANGED <<mode, models, turn, gating, posts, refreshes>>

\* An error, no model, a process that does not start or exits, a client that
\* is gone.  The cached list stays, however old.
ListFails(r) ==
  /\ pc[r] \in {"list", "listRefresh"}
  /\ modelMu' = None
  /\ Goto(r, "done")
  /\ EndTurn(r)
  /\ EndLoop(r)
  /\ UNCHANGED <<mode, catalog, cache, listed, gating>>

\* under Server.modelMu, after Provider.modelMu has been given up
InstallModels(r) ==
  /\ At(r, "install")
  /\ catalog' = listed[r]
  /\ listed' = [listed EXCEPT ![r] = <<>>]
  /\ Goto(r, "done")
  /\ UNCHANGED <<mode, cache, modelMu, turn, gating, retrying>>

----------------------------------------------------------------------------
Generating(r) ==
  \/ ModelInfo(r)
  \/ Enter(r) \/ TakeToken(r) \/ TakeSlot(r)
  \/ FreeSlot(r) \/ FreeToken(r) \/ Leave(r)
  \/ Post(r) \/ AuthorizeFails(r) \/ Accepted(r) \/ StreamEnds(r) \/ Failed(r)
  \/ Unauthorized(r) \/ Unavailable(r) \/ Retry(r) \/ GiveUp(r)

ListingModels(r) ==
  \/ UseCached(r) \/ Expired(r)
  \/ \E list \in Lists : Fetched(r, list)
  \/ ListPage(r) \/ ListUnauthorized(r) \/ ListAgain(r) \/ ListFails(r) \/ InstallModels(r)

\* what a handler does by itself, when it can
Handle(r) == Generating(r) \/ ListingModels(r)

Next ==
  \E r \in Req :
    \/ Refuse(r) \/ AskModels(r)
    \/ \E name \in Name, session \in Session : Receive(r, name, session)
    \/ Handle(r) \/ CancelWait(r)

Spec == Init /\ [][Next]_vars

\* Goroutines are scheduled, the HTTP client's timeout ends an answer and a
\* body, a timer fires after at most thirty seconds.  Nothing but its client
\* ends a listing that Codex's app-server leaves without an answer: there,
\* fairness says that the client gives up in the end.  It is strong for the
\* waits: a channel serves its waiting senders in order, and a mutex its
\* waiting callers, so one that is enabled again and again comes to its turn.
\* Nobody has to cancel a wait.
FairSpec == Spec /\ \A r \in Req : SF_vars(Handle(r))

----------------------------------------------------------------------------
(* Correctness                                                             *)

\* The turns of one session and model reach the account one after the other
\* ("Keep turns ordered within one Claude session/agent", openai.go:80),
\* although gates are deleted and made again while requests come and go.
TurnOrder ==
  \A r, s \in Req :
    pc[r] \in Slotted /\ pc[s] \in Slotted /\ key[r] = key[s] /\ r # s => ~subscription

\* No more than Limit turns use a subscription at once (README.md:247),
\* whatever fails or is cancelled, and no slot is lost: when nobody holds
\* one, all are free.
FanOut ==
  subscription =>
    LET slotted == {r \in Req : pc[r] \in Slotted} IN
    slots = Cardinality(slotted) /\ Cardinality(slotted) <= Limit

\* A gate is in the table as long as a request waits for it or holds it, for
\* every such request to find, and not longer: the table cannot grow with
\* the sessions that have ended.
GateTable ==
  \A k \in Key :
    LET users == {r \in Req : pc[r] \in Referring /\ subscription /\ key[r] = k} IN
    /\ gates[k] # None <=> users # {}
    /\ \A r \in users : gateOf[r] = gates[k] /\ refs[gates[k]] = Cardinality(users)

\* A turn is sent three times at most, the refresh of the token included,
\* asks for one refresh, and is not sent again once it was accepted
\* ("nested retry policies cannot amplify one rate limit", openai.go:607).
RetryBudget ==
  \A r \in Req :
    /\ posts[r] <= (IF subscription THEN SubscriptionAttempts ELSE 1)
    /\ refreshes[r] <= 1
    /\ pc[r] \in {"refresh", "backoff"} => posts[r] < SubscriptionAttempts

\* The names of a catalog are distinct, and each stands for the model it was
\* made for, in spite of models whose names look alike.
CatalogFaithful ==
  \A i \in DOMAIN catalog :
    Resolve[catalog][PublicIDs[catalog][i]] = {catalog[i]}

\* The model that a turn is asked of is the one the gateway has resolved it
\* to: "Macaz keeps the exact selected model for main, background, classifier,
\* and subagent paths" (README.md:249).  anthropic.go:203-205 says what
\* resolving the id again would do.
ModelKept ==
  \A r \in Req : pc[r] \in Sending \cup {"stream"} => sent[r] = key[r][2]

\* Every request ends: behind a gate and the slots, behind the mutex that a
\* model listing holds while it waits for the account.  A request does not
\* begin again, so it is enough that all of them have ended, or not begun,
\* again and again.
RequestsEnd == []<>(\A r \in Req : pc[r] \in {"idle", "done"})
=============================================================================
