# A verification of macaz-cli

TLA+ modules of the concurrent core of macaz-cli, TLC configurations that check
them on small instances, and TLAPS proofs for instances of every size. Paths are
relative to `src/internal/` where they do not start with `src/`; `codex.go`,
`pool.go` and `session.go` are in `provider/codexcli/`, `store.go` is
`localagentsauth/store.go`, `auth.go` and `openai.go` are in `provider/openai/`.

## 1. Inventory

macaz is a local HTTP gateway: a coding client (Claude Code, Codex) is launched
against it, and each request is translated and answered by a provider, which is a
remote HTTP API, a pool of `codex app-server` processes, or an `opencode` process
per request. Everything lives in one Go process; several macaz processes on a
machine share credential files, the executable and configuration.

| component | state | operations | hard behaviour | what makes it correct |
|---|---|---|---|---|
| Codex server pool (`pool.go`) | channels `slots` and `idle`, map `servers`, `closed`, the pinned catalog | `acquireServer`, the release closure, `startAppServer`, `Close` | starts and releases race with `Close`; the catalog files change between two starts; every failure path holds a token | a lease is exclusive and at most Limit exist; a spoiled server is never reused; no process outlives `Close`; one catalog for all servers; a waiter gets a slot |
| Codex session table (`session.go`) | `sessions`, `parkedSlots`, per turn `claimed`, `timer`, `parked`, `cleanupOnce` | `claimPending`, `parkPending`, `finishPending`, `expirePending`, `closePending`, `cleanup` | timers that fire while a turn is claimed or parked again; two requests of one agent; a parking that displaces another turn; close | one driver per turn; no turn lost with its server; one slot left for new traffic; nothing parked after close |
| Codex JSON-RPC client (`codex.go` 776-905) | `waiters`, `events`, `readErr` | `request`, `notify`, the reader goroutine, `quiesceThread` | full event queue, late responses, end of output while idle | a released server has a clean event stream; every wait ends with its context |
| Codex event loop and catalog (`codex.go` 325-577, 90-230) | open content blocks, pending tool calls, model cache under `modelMu` | one iteration per notification, the tool timer, `discoverModels` | notifications in any order, tool calls while text is open | every block is started once and stopped once, before the message ends |
| Credential files (`store.go`) | the file, the lock directory | `WithLock`, `UpdateOAuth`, compare-then-rename | other processes and agents rotate the same token; crashes inside the lock; a stale lock is taken over | no refresh token is spent twice; the file keeps the valid one; a stale result never replaces a newer one |
| OpenAI account (`auth.go`) | accountAuth.mu, keyring entry or file | `credentials`, `forceRefresh`, device login | many requests see 401 at once; lost answers | a rejected token is refreshed once |
| OpenAI provider (`openai.go`) | per-key gates with reference counts, subscription slots, model cache under `modelMu` | `acquireGenerate`, `sendResponsesWithRetry`, `subscriptionModels` | a gate is held while waiting for a slot; it is deleted and made again; retry after an accepted response | no gate or slot leaks; requests of one key are served one at a time; retries are bounded |
| Responses collector (`openresponses/`) | open blocks by output index, the idle timer's generation | one handler per stream event, `timeout.go` | terminal events while blocks are open; a timer callback racing with a read | well-formed block sequence; a read that returned data is not reported as a timeout |
| Anthropic provider (`anthropic.go`) | the Collector's blocks and `open` | one handler per event, `finalize` | blocks are addressed by index, in any order, and may be left out | a well-formed stream; success only for a whole message |
| OpenCode provider (`opencode.go`) | one process, its output, the idle timer | `Generate`, `idleCanceller` | output that outlives the process, an error event before exit status 0, a timer against activity | no process survives its request; success only for a whole turn or a call |
| Gateway (`gateway/`) | public model catalog, statistics, HTTP server | `handleMessages`, `handleResponses`, `handleModels`, `resolveModel`, `Close` | the catalog is replaced while names are resolved; a mutex held over a listing | names are faithful and resolved once; every request ends |
| Updater (`updater/`) | executable, backup, lock file, staged file, in several processes | `Update`, `acquireUpdateLock`, `replaceExecutable`, `CleanupOldExecutable` | two updaters, stale locks, crashes between any two system calls | a copy of the executable always remains; one updater at a time; what is reported is installed |
| Configuration (`config/`, and the commands of `app/` that change it) | the file, profile directories, one copy per process | `Load`, `ForClient`, `SetClient`, `Save`, `Reset` | whole-file writes of several processes; a Go map shared by two copies | what is set for one client does not change the other |
| Secrets, launcher, the other commands, protocol translation, attachments | files and the keyring; no concurrency of their own | sequential input, output and data translation | none beyond the system calls | not modelled, see section 8 |

Interactions. A gateway handler calls `Provider.Generate`. The Codex provider
claims a parked turn (session table) or leases a server (pool), drives it through
the JSON-RPC client, and then parks the turn or gives the server back;
`Provider.Close` first closes the session table, then the pool. The OpenAI
provider takes a gate and a slot, asks the account for a token, and the account
goes through the lock of the credential file. Timers (`time.AfterFunc`) are the
only other source of goroutines that change shared state.

## 2. Plan

In order of importance; 1 to 9 exist.

1. `ServerLease`, `CodexPool`: the pool, refining an abstract lease.
2. `CodexSessions`: the turns parked between two requests.
3. `CredentialFile`: the shared credential with several processes and agents.
4. `CodexRpc`: the reader, the bounded event queue, waiters, `quiesceThread`;
   it justifies what CodexPool and CodexSessions call a healthy release.
5. `BlockStream`, `ResponsesTurn`: the Responses collector with its idle timer, and
   the two gateway encoders behind it.
6. `Gateway`: concurrent handlers, the catalog, the mutex of a listing, and the gates,
   slots and retry loop of a subscription.
7. `ProviderTurn`: the streams of Anthropic, Codex and OpenCode, which implement
   `BlockStream` as well.
8. `SelfUpdate`: several updaters and a crash between any two system calls.
9. `ConfigFile`: the configuration of two clients in several processes.
10. To come: a composition of CodexSessions with CodexPool, in which the lease of a
   turn is the pool's lease. Today CodexSessions assumes of a lease what
   `PoolImplementsLease` proves.

## 3. Modules

`ServerLease` is the abstract specification of what the pool promises: leases
that are exclusive, at most Limit of them, never of a spoiled server.

`CodexPool` is `acquireServer`, the closure it returns, `startAppServer` with the
pinned catalog, and the pool part of `Provider.Close`. Each section under `poolMu`
or `catalogMu` is one action and so is each channel operation. `slots` holds the
requests whose token is in the channel, `idle` the servers in `p.idle`, `pc` the
place of a goroutine between two sections, `srv` and `snapshot` its locals.

The theorems about a module `M` are in `M_proofs`.

`CodexSessions` is `session.go` with the life of a `Generate` call around it: the
claim with its four outcomes (nothing parked, busy, abandon, resume), lease, turn,
tool calls, parking in two steps (reserve the parked slot, then publish under
`sessionMu`), timers, expiry and cleanup. A timer is a number per turn, so that a
callback of an earlier parking can be told from the current one. A turn is named
by the request that started it.

`CredentialFile` is `WithLock`, `UpdateOAuth`, `credentials`, `forceRefresh` and the
single retry after a 401. A token is the number of the refresh that issued it. The
actions of the agent and of the authorization server (`AgentLock`, `AgentRefresh`,
`AgentWrite`, `Grant`) and `Crash` are external: they come from what the code
expects of Pi, the Codex CLI and the token endpoint. Whether the agent honors the lock
(`agentLocks`) is chosen at the start, so that one run has both. Mkdir, the two Stats and Remove
of the lock directory may fail, and what fails leaves the directory where it is. `lost`,
`reused`, `taken` and `raced` are history variables; no guard of the code reads them.

`CodexRpc` is one app-server with its `rpcClient`, from `startAppServer` to the end of
its use: requests register a waiter, write, and wait for an answer, the end of the
output or the end of their context; the reader hands answers to waiters and
everything else to the bounded `events`; Generate receives in its loop only, and
`quiesceThread` drains before the server is free again. The app-server itself
(`Serve`, `Notify`, `Die`) is external and does what the comments of the code expect:
answers in order, and no notification of a thread after the answer to
`thread/unsubscribe`. What CodexSessions decides (park, resume, abandon) is a choice
here.

`BlockStream` is the abstract specification of a streaming answer: blocks start in
order, grow while open, are closed once, and the stream succeeds only with all of
them closed.

`ResponsesTurn` is one streamed request of a Responses provider: `idleReadCloser`
(`Reset`, `Expire`, `CheckCause`), `ReadSSE` (`pc`), one action per event of
`Collector.Handle`, `Finalize`, and, as `view` and `msg`, what `streamMessages` or
`responsesStream` has told the client. Indices start at 1, and `itemIndex` is 0 where
the code has -1 or no entry. `view` changes in the action whose emits change it: a
client that leaves between two emits of one event reads neither of them. The upstream
(`SendAdded` to `SendPing`) and the client (`Leave`) are external; the upstream sends
the events of an item in order and nothing for an item that is done, which is what the
Responses API promises.

`ProviderTurn` is one streamed request of the three providers that do not speak the
Responses protocol, with the two gateway encoders. Anthropic: one action per event of
its collector, `finalize` at the end of the body. Codex: one action per notification
that emits, the timer that waits for parallel calls, and the ends of the event loop.
OpenCode: one action per kind of output line, the process (`proc`) with its exit and its
kill, `command.Wait` on every way out, and the watchdog. The upstreams are external; Anthropic's
may address any block at any time, and start one again under an index that is in use, since
nothing in the code keeps it from it.

`Gateway` is the handlers of messages and models in front of one provider (`mode`).
`Receive` resolves the name against the catalog and enters the provider; `Enter`,
`TakeToken`, `TakeSlot` are `acquireGenerate` and `FreeSlot`, `FreeToken`, `Leave` the
function it returns; `Post` to `Retry` are the retry loop; `Asked` to `InstallModels`
are `handleModels` with the provider's cache and mutex. A gate is named after the request that made it,
so that a gate made again is another one. `PublicIDs` is `publicModels`, `Resolve` is
`Server.resolveModel` and `ResolveModel` is `config.ResolveModel`; names and slugs are constants.

`SelfUpdate` is `macaz update` in several processes: one action per system call that
another process can see, each with its failure, and `Crash` between any two. A removal whose
error the code ignores (of the lock, of the staged file) may leave the file. The lock
file carries its creator and whether it has become stale; `late` holds the processes whose time
for an update was over when their lock became stale. Two history variables record the removal of a lock whose creator
was still inside: `broken` any, `stolen` one that was not old.

`ConfigFile` is the commands that change `config.json`, in processes that overlap. It
keeps of a profile the model its map names for every alias. `root` and `selected` are the
two copies `loadOrConfigure` works with; `NameModel` changes the map in both, because they
share it. `named` is a history variable; the model of a file written before there were profiles
counts as named for both clients.

## 4. Runs

| run | asks | bounds | states |
|---|---|---|---|
| pool | `IdleHasRoom`, `NoServerOutlivesClose`, `OneCatalog`, the refinement of `ServerLease`, and `FirstGranted` under fairness | 3 requests, 2 slots, 3 servers, 2 catalogs | 88 thousand |
| sessions | `ReservedSlot`, `OneDriver`, `NothingOrphaned`, `ReuseAfterUse`, `CloseLeavesNothingParked`, and `RequestEnds`, `SlotReturned` under fairness | 3 requests, up to 2 keys, 2 slots | |
| sessions_leak | finds a parked slot nobody will return (finding 1) | 3 requests, 1 key, 3 slots | |
| credentials | `Exclusive`, `TokenSpentOnce`, `FileCurrent`, `SingleFlight`, `NoStaleReplace`, `OwnLockOnly`, and `CallEnds` under fairness | 2 calls in 1 or 2 processes, an agent that locks or does not, 2 refreshes, 1 takeover of a live lock | 578 thousand |
| rpc | `CleanStream`, `NoStrayAnswer`, and `EndsOrWedged` under fairness | 2 turns on one server, a queue of 2, 4 notifications | |
| turn | `ShownIsSent`, `SuccessIsTerminal`, the refinement of `BlockStream`, `TimeoutIsIdle`, and `TurnEnds` under fairness | 2 items of any type, 2 pieces each, 1 comment | 1.4 million |
| turn_partial | finds a call completed that the upstream has not finished (finding 2) | the same | |
| turns | `SuccessIsWhole`, `ProcessReaped`, the refinement of `BlockStream`, and `TurnReturns` under fairness | 3 blocks of 2 pieces, 1 index whose block may be started again, 1 line that adds no block | 525 thousand |
| gateway | `TurnOrder`, `FanOut`, `GateTable`, `RetryBudget`, `CatalogFaithful`, and `RequestsEnd` under fairness | 3 requests of one session, 2 slots, 3 models with colliding names, 2 lists, 4 kinds of provider | 195 thousand |
| gateway_model | finds a turn that goes to another model than the one selected (finding 4) | 1 model with a Claude name beside the default | |
| updater | `NeverLost`, `Exclusive`, `ReportedInstalled` | 3 processes, 3 releases | 4.4 million |
| config | finds a model named for one client in the other's profile (finding 3) | 2 processes, 1 model | |

Type invariants are not among the properties of the runs: they are proved where a
module has a proof, as part of the inductive invariant.

Why these bounds are enough to be interesting. More requests than slots makes a
request wait while others release, start and fail; three servers allow one that is
retired and one that replaces it; two catalogs make a change visible. In the
session table three requests give a parking, a request that resumes
it, and a parking that displaces the resumed turn, which is the longest chain of
interference the table has; two keys make two turns compete for the one slot that may be
parked. Two calls and an agent are three parties for one lock, and two
refreshes let a token be rotated by one party under another. Four notifications
overflow a queue of two, and two turns are enough for what the first one leaves
behind to meet the second. Two items are what an interleaving of their events needs,
and two pieces tell a delta from a whole; a comment can hold the connection open after
the terminal event. Three blocks put a call between two texts, and make a block that
is left out and filled later. Of three requests in the gateway two can share a gate while the
third makes it again, and three models under different keys overfill two slots; the
third model has the very name that the second is given to avoid the first. Three updaters are one that
leaves a stale lock or no executable and two that compete for it. The theorems remove the
bounds wherever there is a proof.

Runs that check liveness cannot use TLC's symmetry. Where identities are only compared,
the MC modules order them instead: servers start in their order (`OrderedSpec` of
MCCodexPool, which also starts a third server only if neither the catalog changes nor the
pool closes; the theorems cover the combinations), requests
begin in theirs (MCCodexSessions, MCGateway), one call is of the first process
(MCCredentialFile). `FirstGranted` speaks of one request for all.

CodexPool's run checks for deadlock. Requests, calls, turns and processes are made once
and end, so the end of all of them is a legal stop in the other modules; in CodexRpc
a discarded server and an exhausted bound are.

## 5. Fairness

Steps of a running goroutine are weakly fair: each ends by itself, by its own
timeout or by its request's context. Taking a slot, entering `catalogMu` and
entering `accountAuth.mu` are strongly fair: a Go channel serves blocked senders in
FIFO order and a `sync.Mutex` hands over to a waiter that has starved for a
millisecond, so a waiter that finds the resource free infinitely often gets it.
Runtime timers fire, and a live app-server answers its requests. Nothing else is assumed of the outside: no request need arrive or
give up or be cancelled, no client need answer its tool calls, nobody need close the provider, the
agent may stop while it holds the lock, a process may crash anywhere.

In the gateway the waits are strong as well: for a gate's token, a slot and the mutex of a
listing. A listing of Codex's app-server has no timeout of its own, and the callers
behind its mutex cannot give up: there, fairness says that the client of the listing gives
up in the end. In ProviderTurn an idle timer fires after a silence, a process whose
context is cancelled is killed, and no upstream has to say anything more.

## 6. Theorems

The assumptions on constants are the ASSUMEs of the modules: limits are positive, bounds
are numbers, and null values and the agent are not members of the other sets. Req,
Server, Key, Call, Proc, Session and Model may be of any size; only Item of ResponsesTurn has
to be finite. `NumberedAssumption` says of the Gateway's constant `Numbered` what the code's
`fmt.Sprintf("%s-%d", base, n)` does: different numbers make different names of one base.
Numbered names of two bases, and a numbered name and a plain one, may
be equal, and `PublicSlug` may map any two models to one slug.

Beside the properties that the runs check, four modules (CodexPool, CodexSessions, Gateway,
CodexRpc) have a theorem about waiting. The runs check liveness for a few requests under
fairness; these theorems say, for any number, what liveness rests on: in no reachable state does a
request wait for something that nobody is about to give. TLC checked their invariants
on the bounds of each module's run first.

The pool (`CodexPool_proofs`). `IdleHasRoom` and the rest are not inductive alone.
The inductive invariant `IInv` joins

- `SlotInv`: which stages hold a token, and that there are at most Limit tokens;
- `CapacityInv`: the servers in `idle` and the requests that use a server, or are
  about to start one, are together at most Limit; this is why a send to `p.idle`
  finds room although it comes before the slot is dropped;
- `OwnerInv`: a server is in `idle` or the local of one request, never both, and a
  dirty one is neither idle nor about to be used;
- `CloseInv`: every running process is one that `Close` has seen, has still to see,
  or that a request is about to close;
- `CatalogInv`: only the holder of `catalogMu` may be about to pin, and every server
  that was started has loaded what is pinned.

From it: `TypeCorrect`, `RoomInIdle`, `CloseIsFinal`, `CatalogPinned`, and
`PoolImplementsLease`, the step simulation of `ServerLease` with `lease` mapped to
the servers of requests between `acquireServer` and the release, and `spoiled` to
`dirty`. `WaitsEndAtRunner` adds that a locked `catalogMu` has an owner inside the first start
(`MuInv`): whoever is blocked on a slot or on `catalogMu` waits for one that is not, at most one
wait further, and with `IdleHasRoom` no release is blocked.

The session table (`CodexSessions_proofs`). `IInv` joins

- `KeyInv`: a table entry, a local `state`, a timer and a key belong together;
- `DriverInv`: a turn that is driven has one driver and is marked claimed, so that
  no other request can take it;
- `ParkInv`: every unattended turn has its token in `parkedSlots`, which holds at
  most Limit - 1; a turn about to be published has one or is being cleaned up;
- `NothingOrphaned`: strong enough by itself once the timer history is included;
- `OverInv`: a turn whose cleanup has reached the release is out of the table and
  has no driver;
- `ClosedInv`: after the close the table is empty.

From it: `TypeCorrect`, `SlotReserved`, `DriverUnique`, `NoOrphan`, `ReuseSafe`,
`CloseParksNothing`. Two further invariants carry two more theorems. `TokenInv` (the turn of a
token is kept by a driver, the table or a cleanup) gives `SlotLostOnlyAfterCleanup`: a token of
`parkedSlots` without a turn that uses it belongs to a turn whose cleanup has already given a token
back, so that finding 1 has no other cause. `VictimInv` (whoever waits for a cleanup has asked
for it, and a cleanup that is over has returned the server) gives `NeverBehindParkedOnly`: a
request that waits for a server, or for a cleanup, waits for a turn that is driven or being
cleaned up, and never for parked turns only; this is what the reserved slot is for.

The credential (`CredentialFile_proofs`). `IInv` joins

- `MuInv`: a call between Enter and the end holds the mutex of its process;
- `KeyringInv`: with the keyring there is one process, and neither lock directory nor
  agent, so that the mutex alone is enough;
- `DirInv`: while nothing was taken over, the directory belongs to the call that is
  inside, to a dead one, or to the agent at work;
- `TakenInv`: a call that lost the directory inside fn cannot find it its own again;
- `FileInv`: what the call inside has read is what the file still holds, and the
  token the server accepts is in the file or with the one party about to write it.

`AloneInside` derives exclusion from the first three; exclusion makes `FileInv`
inductive, because nobody else writes between a call's read and its rename. From it:
`TypeCorrect`, `LockExclusive`, `TokenOnce`, `FileHoldsValid`, `TakeoverIsReported`,
`RefreshSingleFlight`. Two parts need no exclusion and hold for any agent and after any takeover.
`WindowInv` (what a call about to rename has compared is what the file holds, unless it was
written since: `raced`) gives `NoStaleWrite`. `RemoveInv` (a call between Stat and Remove owns the
directory, unless it was taken over right there) gives `RemovesOwnLock`. `LocksReleased`, with
`OwnerInv` (the mutex of a process is held by one of its calls, on the way to its release), says
that a call that has returned left the mutex free, whatever failed and whoever took the lock
over, and left the directory only if it reports an error.

The updater (`SelfUpdate_proofs`). The invariant says which files each place of an updater
may find, and that the process that moved the executable away still has what it moved or a
verified staged file. `NeverLost` needs no exclusion: it holds although `broken` locks let two
processes replace at once. `TimelyInv` (unless a lock was `stolen`, a process inside whose time is not over owns
the lock) and `AgeInv` (an old lock's owner is `late`, and nothing is taken over before a lock is old) give exclusion; a lock that
somebody left behind needs no exception. From it: `TypeCorrect`, `CopyRemains`, `LockExclusive`,
`UpdateInPlace`.

The gateway (`Gateway_proofs`). `IInv` joins

- `PlaceInv`: which places only an account's turn reaches, and with which key;
- `LoopInv`: how the counters of the retry loops advance, and where they are reset;
- `GateInv`: gates in the table have distinct names, a request that has not entered has given
  its name to none, and a gate's count is the number of requests that refer to it; so
  a gate is deleted only when nobody is left, and a later one is another gate;
- `TokenInv`: of the requests that refer to one gate one at most holds its token;
- `SlotInv`: `slots` is the number of requests between taking and giving one back.

Requests of one key refer to one gate, so the token orders them. Req need not be finite: that
those who refer to a gate are finitely many is part of the invariant. From it:
`TypeCorrect`, `TurnsOrdered`, `FanOutBounded`, `GatesCounted`, `RetriesBounded`, and
`ModelKeptWithoutAliases`: if `config.ResolveModel` leaves every model of the list alone,
every turn goes to the model that was selected, so that finding 4 has no other cause.

`WaitsEndAtRunner` orders what a request may wait for. With `HolderInv` (a full token channel has a
request that will empty it; the mutex of the list is held by the request that lists), a
request that waits for a gate waits for the holder of its token, which may wait for a slot, and
those who have the slots wait for nothing; so there is no circle.

`NamesStandForModels` is about `publicModels`. `PublicIDs` is a recursive function over a list, and
what such a function computes follows from its equation only if the equation has a solution.
`NamesDefined` shows that it has one, and `PublicIDsDifferent` that its names differ, both by the
smallest counterexample: there is one by the well-founded order of the numbers (a fact of
`WellFoundedInduction` without an operator parameter), and the step from the number before
refutes it. `UnusedNameNew` is the search for a free number: of one number more than there are
names in use one is free, by the pigeonhole principle.

The other providers (`ProviderTurn_proofs`). A process belongs to OpenCode's turn and the one
way from it to the end waits for it; a process that exited with status 0 has completed its
turn or has reported an error; a result is decided where the upstream has completed the
turn or a call is among the blocks, and nothing undoes that. From it: `SuccessEarned`,
`NoProcessLeft`.

`TypeCorrect` and the refinement `TurnShowsStream` need `StreamInv`, of three parts:

- `OrderInv`: the client's list of blocks has every block once that was started;
- `ShownInv`: nothing is shown of a block before its start, and the message ends with the turn;
- `HeldInv`: Claude Code's encoder, which writes what it is given, starts no block twice since a
  new block has a new index, and Codex's event loop stops only what it holds open, or the calls,
  which stay open until the end.

`Allowed` says what one step may do to the view of the client. A lemma for each provider shows
that its actions show nothing else, and `EmitStep` that whatever is allowed is a step of
`BlockStream`. For Anthropic the argument is the encoder's alone: the upstream may address any
block at any time.

The Responses turn (`ResponsesTurn_proofs`). `IInv` joins

- `EventInv`: an event between Read and the end of Handle is the last thing that the upstream
  has said of its item;
- `IndexInv`: a block is one item's, and `itemIndex` finds it;
- `ItemInv`: the block of an item has what was sent of the item, less what is in hand
  (`Landed`); the client has at most that of an unfinished item and all of a finished one;
- `OpenInv`, `ViewInv`: a block is open as long as its item is not finished, and the client's
  blocks are in the state of the collector's;
- `EndInv`, `TermInv`: a terminal turn has no open block, and is terminal by the upstream's
  event or by a repaired Read, with all other items finished.

An event concerns one item, so one lemma says what it leaves alone (`OthersOk`), and three say what
it does to the item's block: begin it (`StartInv`), fill it (`FillInv`), or nothing (`KeepInv`).
Nothing is claimed of a failed turn except that its stream was in order. From it: `TypeCorrect`,
`TerminalOrRead`, `NothingLostOrRepeated`, and, with a lemma on what a step may do to a
block of the client (`HandleSteps`), the refinement `TurnShowsStream`.

`WaitInv` adds what the idle timer means: a callback is "fired" only if nothing has come for the
timeout. From it `NoTimeoutOfLiveStream`, for `TimeoutIsIdle`.

The client of the app-server (`CodexRpc_proofs`). A server in use has one unanswered request
at most, and its user waits for that one; whoever gives up waiting closes the server. `IInv`
joins

- `UserInv`: which request belongs to which place of the user, and the bound on ids;
- `AnswerInv`: the answer is in one place at a time: still a request in the inbox, a line on
  its way, or in the waiter's channel;
- `QuietInv`: the server sends nothing of a thread after it has answered the request to
  unsubscribe, and lines stay in order, so that when the user has that answer what is left of
  the thread is in the queue, where the drain finds it.

From it: `TypeCorrect`, `NothingLeftOver`, `AnswersReachWaiters`. `PendingInv` says that while
a request is waited for, its answer is in the channel, in a line, or still to be written; then
`OnlyFullQueueWedges`: the user, the reader or the server can go on, unless the queue
is full. This is the safety half of `EndsOrWedged`. That nothing follows the
answer to `thread/unsubscribe` is an assumption on the external app-server (`Serve`).

Only model-checked: the liveness properties (`FirstGranted`, `RequestEnds`,
`SlotReturned`, `CallEnds`, `EndsOrWedged`, `TurnEnds`, `TurnReturns`, `RequestsEnd`), because the
prover does not do fairness and ENABLED, and the findings, which are refuted. Nothing is proved of
`ConfigFile`, whose one property is a finding. Every other property of a passing run
is a theorem.

## 7. Findings

1. `session.go:156`, run sessions_leak. Between the reservation of a parked slot and
   the publication another request of the same key can displace the turn and clean it
   up. The turn is then published all the same; its later cleanup does nothing
   (`cleanupOnce`), and the token stays in `p.parkedSlots` for good. `src/README.md:234`
   promises the interrupted-turn fallback for excess turns only; after the leak turns
   that are not in excess use it as well. No server is lost (`NothingOrphaned` holds).
2. `responses.go:276`, run turn_partial. When a response is cut by max_output_tokens
   before a call is finished, the turn succeeds and Codex is told that the call is
   completed with the arguments `{}`, before it is told that the response is incomplete.
   The same would follow a response.completed that leaves an item unfinished, against the
   Responses API: the Collector closes what is open there too (`closeOpen`). `NoPartialCall` speaks of
   the cut response only, which the API allows.
   `src/README.md:211-213` promises to "reject truncated streams and invalid tool
   arguments instead of returning partial success".
3. `config.go:400`, run config. `ForClient` copies the configuration of a client that has
   no profile, and the copy shares its `ModelMap` with the root. The wizard writes the model it
   is told into that map, `Save` keeps it at the root, and the other client's first profile
   starts from it, even after the first client was reset. In TLC's trace the user names a model for
   Claude Code (`NameModel`), and then only chooses a provider for Codex, which gets that model. `src/README.md:35` calls the two
   configurations independent.
4. `openai.go:511`, run gateway_model. Providers other than Anthropic resolve the id that
   the gateway has already resolved once more; an id that begins with `claude-` and is no alias becomes
   the configured default. `src/README.md:249` says that the selected model is kept, and
   `anthropic.go:203-205` says why its own provider does not resolve again.

Some observations have no run of their own. `Timer.Stop` does not wait for a
callback that has started (`session.go:190`): a callback that waits for `sessionMu` while its turn is
resumed and parked again expires the new parking at once, and not after five minutes; the idle timers elsewhere
carry a generation for this case.

`writeJSONIfUnchanged` (`store.go:423-433`) compares and renames in separate system calls. The comment of
`UpdateOAuth` (`store.go:217-218`) says that `expectedRefresh` "prevents a stale refresh from replacing a
token rotated by an agent that does not honor file locks"; the comparisons narrow the case and do not
exclude it. Without the exception `c \notin raced`, TLC violates `NoStaleReplace` in 11 states: a call
has refreshed without a rotated refresh token and compared the file; an agent that ignores the lock refreshes with the
same token, which does rotate, and writes it; the rename then puts the spent token back. The valid one is lost. With the
exception the property holds, and says that this window is the only one.

`releaseLock` of the updater ignores the error of `os.Remove` (`updater.go:472-475`): a lock that stays
blocks other updates until it is ten minutes old, and is then taken over. A credential
directory that Stat or Remove failed on (`store.go:163-165`, `203-205`, `210-212`) stays as well. The call
reports it, and later calls time out after 35 seconds until an agent that honors the lock takes over the
directory, because macaz itself takes over none.

Of two listings that overlap the older one can be
installed last (`server.go:452`), since `Provider.Models` gives up its mutex before `installModels` takes
the gateway's; the next listing repairs it.

## 8. Abstractions and what is not modelled

- A server process that was closed is not started again under its name; `idle` is a
  set, since no property depends on which idle server is taken.
- In CodexSessions a lease is taken and returned in one step; its own steps are
  CodexPool's. `reserveParked` and `releaseParked` are one step each, as they run
  under `parkMu`. Requests are made once; a repeated request is another request.
- Time is a choice: a timer may fire any time after it is armed, a token may have
  expired whenever it is looked at, an upstream may answer 401 to any token, a lock
  may time out whenever it is taken. The length of the five minutes, of the 35
  seconds and of the heartbeat is not modelled; a missed heartbeat is a takeover of a
  live lock, and properties that cannot survive one except it by name (`taken`).
- `EndsOrWedged` names the one way in which a turn need not end although the server
  answers: `turn/interrupt`, `thread/unsubscribe` and `initialize` have no timeout of
  their own, nobody receives while they wait, and a full queue (128 in the code) stops
  the reader in front of the answer. The wait then ends with the client's connection.
  The run shows that there is no other way. CodexSessions takes such a wait to end.
- A line longer than the scanner's 32 MiB, which ends the reader of a live process, is
  not modelled, nor is a server that answers a request twice.
- A refresh token rotated by an answer that nobody received, or lost in a crash before
  the save, cannot be recovered by any code; `lost` marks those behaviours, and
  `TokenSpentOnce`, `FileCurrent` and `SingleFlight` except them.
- A keyring credential belongs to one process in the model: nothing coordinates
  several, and the code does not claim it.
- The model does not say why a system call on the lock directory fails, nor for how long:
  each fails at any time and independently.
- In ResponsesTurn one Read returns one event, and the callback of a timer that
  expires cancels the request in the same step: nothing the code does in between
  differs from doing it before. The client's deadline of the whole request and a broken
  connection are one choice (`ReadFails`). A turn whose terminal event has come still
  waits for the end of the body, and fails if the idle timer fires first; the code
  does the same. Comments are limited to after the terminal event, since a delta of a
  Read, which emits nothing, has the same effect before it.
- In ProviderTurn thinking is a text block, a tool call of Codex and a block of OpenCode arrive
  whole, and a descendant of an OpenCode process that keeps its output open is not modelled:
  the lines end some time after the exit.
- In Gateway a request does not begin again; a repeated one is another request. A connection is not
  kept alive between requests. What a provider does with an accepted turn is one
  step there and the subject of ResponsesTurn and ProviderTurn. Requests without streaming
  assemble the same blocks and emit nothing, so they are not told apart. Statistics, health,
  usage and token counting are counters nobody acts on, or reads.
- In SelfUpdate the checksum is a choice, whether the staged file verifies. On Windows the running executable is renamed the same way. Release
  lookups that change nothing (`Check`) are left out.
- ConfigFile leaves out validation and the fields that name an endpoint or an executable;
  `Save` is a rename, and two processes that save at once overwrite each other's change, which the code does not
  claim to prevent.
- Not modelled because they have no state of their own or are pure input and output:
  protocol translation (the largest part of the unmapped lines: functions from one wire format to another,
  whose result is data that no other step depends on), attachments, browser, secrets,
  launcher, the remaining application commands, the device login (a sequence of HTTP requests
  without shared state), installation scripts.
- Not modelled yet: step 10 of the plan.
