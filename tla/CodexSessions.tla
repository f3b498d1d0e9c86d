---------------------------- MODULE CodexSessions ----------------------------
(***************************************************************************)
(* The turns a Codex app-server keeps open between two requests of one     *)
(* Claude agent: provider/codexcli/session.go and the life of a Generate   *)
(* call in codex.go.                                                       *)
(*                                                                         *)
(* A request either resumes the turn parked under its key or starts a turn *)
(* of its own, on a server leased from the pool (CodexPool has the pool's  *)
(* steps; here a lease is taken and returned in one).  A turn that stops   *)
(* at client tool calls is parked: it keeps its server and its slot, and   *)
(* nobody runs it until the next request, an expiry or a close takes it.   *)
(* A turn is named by the request that started it.                         *)
(*                                                                         *)
(* Every section under sessionMu or parkMu is one action, and what the     *)
(* code does after the unlock is another.  codexTurnState.cleanup runs     *)
(* under a sync.Once on its own steps; whoever calls it waits for its end. *)
(***************************************************************************)
EXTENDS Integers, FiniteSets

CONSTANTS
  Req,         \* Generate calls, each made once; also the turns they start
  Key,         \* session keys: a Claude session and agent
  Limit,       \* capacity of p.slots
  NoKey,       \* a request without a session key
  NoTurn

ASSUME SessionAssumption ==
  /\ Limit \in Nat \ {0}
  /\ NoKey \notin Key
  /\ NoTurn \notin Req

Turn == Req

VARIABLES
  key,         \* req.PromptCacheKey of each request, and so of its turn
  pc,          \* where each Generate call is
  turn,        \* the local variable state of each Generate call
  victim,      \* the turn whose cleanup a call waits for
  lease,       \* each turn's server: not leased, held, back in p.idle, closed
  sessions,    \* p.sessions
  sessionsClosed,
  claimed,     \* turns with state.claimed
  parkedSlots, \* turns with state.parked: their token is in p.parkedSlots
  timer,       \* state.timer: which of the turn's timers, 0 for nil
  parks,       \* how many timers the turn has been given
  armed,       \* runtime timers that will fire
  expiring,    \* expirePending goroutines that wait for sessionMu
  calls,       \* cleanup calls about to be made: <<turn, health>>
  cleanup      \* progress of each turn's cleanupOnce

vars == <<key, pc, turn, victim, lease, sessions, sessionsClosed, claimed,
          parkedSlots, timer, parks, armed, expiring, calls, cleanup>>

timerVars == <<timer, parks, armed, expiring>>
tableVars == <<sessions, sessionsClosed, claimed>>

Stages == {"new", "abandon", "fresh", "claimed", "answer", "begin", "run",
           "park", "publish", "unpark", "interrupt", "finishGood",
           "finishBad", "leave", "replace", "done"}

\* the stages in which a call works on the server of its turn
Driving == {"claimed", "answer", "begin", "run", "park", "publish", "unpark",
            "interrupt", "finishGood", "finishBad"}

\* the argument of cleanup and of release
Health == {"good", "bad"}

Held == {t \in Turn : lease[t] = "held"}

\* bug: no slot is set aside for new traffic
ParkedLimit_All == Limit

ParkedLimit == Limit - 1

TypeOK ==
  /\ key \in [Req -> Key \cup {NoKey}]
  /\ pc \in [Req -> Stages]
  /\ turn \in [Req -> Turn \cup {NoTurn}]
  /\ victim \in [Req -> Turn \cup {NoTurn}]
  /\ lease \in [Turn -> {"none", "held", "idle", "closed"}]
  /\ sessions \in [Key -> Turn \cup {NoTurn}]
  /\ sessionsClosed \in BOOLEAN
  /\ claimed \in SUBSET Turn
  /\ parkedSlots \in SUBSET Turn
  /\ timer \in [Turn -> Nat]
  /\ parks \in [Turn -> Nat]
  /\ armed \in SUBSET (Turn \X Nat)
  /\ expiring \in SUBSET (Turn \X Nat)
  /\ calls \in SUBSET (Turn \X Health)
  /\ cleanup \in [Turn -> {"none", "unparkGood", "unparkBad",
                       "reuse", "close", "done"}]

Init ==
  /\ key = [r \in Req |-> NoKey]
  /\ pc = [r \in Req |-> "new"]
  /\ turn = [r \in Req |-> NoTurn]
  /\ victim = [r \in Req |-> NoTurn]
  /\ lease = [t \in Turn |-> "none"]
  /\ sessions = [k \in Key |-> NoTurn]
  /\ sessionsClosed = FALSE
  /\ claimed = {}
  /\ parkedSlots = {}
  /\ timer = [t \in Turn |-> 0]
  /\ parks = [t \in Turn |-> 0]
  /\ armed = {}
  /\ expiring = {}
  /\ calls = {}
  /\ cleanup = [t \in Turn |-> "none"]

Go(r, from, to) ==
  /\ pc[r] = from
  /\ pc' = [pc EXCEPT ![r] = to]

----------------------------------------------------------------------------
(* claimPending                                                            *)

\* bug: forget to look at state.claimed
Claimable_Busy(k) == k # NoKey /\ sessions[k] \in Turn

\* a parked turn that no request is resuming
Claimable(k) == k # NoKey /\ sessions[k] \in Turn \ claimed

\* no key, or nothing parked under it
ClaimNothing(r, k) ==
  /\ IF k = NoKey THEN TRUE ELSE sessions[k] = NoTurn
  /\ Go(r, "new", "fresh")
  /\ key' = [key EXCEPT ![r] = k]
  /\ UNCHANGED <<turn, victim, lease, tableVars, parkedSlots, timerVars,
                 calls, cleanup>>

\* "the previous Codex tool turn for this Claude agent is still being resumed"
ClaimBusy(r, k) ==
  /\ k # NoKey
  /\ sessions[k] \in claimed
  /\ Go(r, "new", "done")
  /\ key' = [key EXCEPT ![r] = k]
  /\ UNCHANGED <<turn, victim, lease, tableVars, parkedSlots, timerVars,
                 calls, cleanup>>

\* another request shape, or results that do not answer exactly the pending
\* calls: give the parked turn up
ClaimAbandon(r, k) ==
  /\ Claimable(k)
  /\ Go(r, "new", "abandon")
  /\ key' = [key EXCEPT ![r] = k]
  /\ sessions' = [sessions EXCEPT ![k] = NoTurn]
  /\ victim' = [victim EXCEPT ![r] = sessions[k]]
  /\ calls' = calls \cup {<<sessions[k], "bad">>}
  /\ UNCHANGED <<turn, lease, sessionsClosed, claimed, parkedSlots,
                 timerVars, cleanup>>

\* start over from the full transcript, or report undecodable results
Abandoned(r) ==
  /\ Go(r, "abandon", "fresh") \/ Go(r, "abandon", "done")
  /\ cleanup[victim[r]] = "done"
  /\ UNCHANGED <<key, turn, victim, lease, tableVars, parkedSlots, timerVars,
                 calls, cleanup>>

Claim(r, k) ==
  /\ Claimable(k)
  /\ Go(r, "new", "claimed")
  /\ key' = [key EXCEPT ![r] = k]
  /\ turn' = [turn EXCEPT ![r] = sessions[k]]
  /\ claimed' = claimed \cup {sessions[k]}
  /\ armed' = armed \ {<<sessions[k], timer[sessions[k]]>>}
  /\ timer' = [timer EXCEPT ![sessions[k]] = 0]
  /\ UNCHANGED <<victim, lease, sessions, sessionsClosed, parkedSlots, parks,
                 expiring, calls, cleanup>>

\* state.releaseParked(), after the unlock
ClaimUnpark(r) ==
  /\ Go(r, "claimed", "answer")
  /\ parkedSlots' = parkedSlots \ {turn[r]}
  /\ UNCHANGED <<key, turn, victim, lease, tableVars, timerVars, calls,
                 cleanup>>

----------------------------------------------------------------------------
(* Generate, from the claim to the event loop                              *)

\* answerPending; writing to a closed server fails
Answer(r) ==
  /\ \/ Go(r, "answer", "run") /\ lease[turn[r]] = "held"
     \/ Go(r, "answer", "finishBad")
  /\ UNCHANGED <<key, turn, victim, lease, tableVars, parkedSlots, timerVars,
                 calls, cleanup>>

\* acquireServer succeeds, and the new turn is marked claimed
Acquire(r) ==
  /\ Go(r, "fresh", "begin")
  /\ Cardinality(Held) < Limit
  /\ lease' = [lease EXCEPT ![r] = "held"]
  /\ turn' = [turn EXCEPT ![r] = r]
  /\ claimed' = claimed \cup {r}
  /\ UNCHANGED <<key, victim, sessions, sessionsClosed, parkedSlots,
                 timerVars, calls, cleanup>>

\* an invalid request, a cancelled context, no Codex, a closed provider
AcquireFails(r) ==
  /\ Go(r, "fresh", "done")
  /\ UNCHANGED <<key, turn, victim, lease, tableVars, parkedSlots, timerVars,
                 calls, cleanup>>

\* thread/start and turn/start
Begin(r) ==
  /\ Go(r, "begin", "run")
  /\ UNCHANGED <<key, turn, victim, lease, tableVars, parkedSlots, timerVars,
                 calls, cleanup>>

\* bug: return the error without cleaning up
BeginFails_NoCleanup(r) ==
  /\ Go(r, "begin", "done")
  /\ turn' = [turn EXCEPT ![r] = NoTurn]
  /\ UNCHANGED <<key, victim, lease, tableVars, parkedSlots, timerVars, calls,
                 cleanup>>

\* either request fails: state.cleanup(false), not finishPending
BeginFails(r) ==
  /\ Go(r, "begin", "leave")
  /\ victim' = [victim EXCEPT ![r] = turn[r]]
  /\ calls' = calls \cup {<<turn[r], "bad">>}
  /\ UNCHANGED <<key, turn, lease, tableVars, parkedSlots, timerVars, cleanup>>

----------------------------------------------------------------------------
(* The event loop of Generate, seen from the session table                 *)

\* turn/completed and quiesceThread: healthy only on a server still open
Complete(r) ==
  /\ \/ Go(r, "run", "finishGood") /\ lease[turn[r]] = "held"
     \/ Go(r, "run", "finishBad")
  /\ UNCHANGED <<key, turn, victim, lease, tableVars, parkedSlots, timerVars,
                 calls, cleanup>>

\* the tool calls are complete: the grace timer fired, or parallel calls are
\* disabled.  The select may see this before it sees that the server died.
ToolsReady(r) ==
  /\ \/ Go(r, "run", "park") /\ key[r] # NoKey
     \/ Go(r, "run", "interrupt")
  /\ UNCHANGED <<key, turn, victim, lease, tableVars, parkedSlots, timerVars,
                 calls, cleanup>>

\* interruptAndQuiesce, the fallback
Interrupt(r) ==
  /\ \/ Go(r, "interrupt", "finishGood") /\ lease[turn[r]] = "held"
     \/ Go(r, "interrupt", "finishBad")
  /\ UNCHANGED <<key, turn, victim, lease, tableVars, parkedSlots, timerVars,
                 calls, cleanup>>

----------------------------------------------------------------------------
(* parkPending                                                             *)

CanReserve(t) == t \in parkedSlots \/ Cardinality(parkedSlots) < ParkedLimit

\* reserveParked
Reserve(r) ==
  /\ \/ /\ Go(r, "park", "publish")
        /\ CanReserve(turn[r])
        /\ parkedSlots' = parkedSlots \cup {turn[r]}
     \/ /\ Go(r, "park", "interrupt")
        /\ ~CanReserve(turn[r])
        /\ UNCHANGED parkedSlots
  /\ UNCHANGED <<key, turn, victim, lease, tableVars, timerVars, calls,
                 cleanup>>

\* bug: publish without looking at sessionsClosed
MayPublish_Always == TRUE

MayPublish == ~sessionsClosed

\* bugs: leave the turn found under the key alone; clean it up even if nil
Displaced_None(r) == {}

Displaced_Nil(r) == {sessions[key[r]]} \ {turn[r]}

\* previous, unless it is nil or the turn itself
Displaced(r) == {sessions[key[r]]} \ {NoTurn, turn[r]}

\* bug: a new parking gets no timer
Arm_None(t) == armed

Arm(t) == armed \cup {<<t, parks[t] + 1>>}

\* the section under sessionMu; the turn displaced is cleaned up afterwards
Publish(r) ==
  LET t == turn[r] IN
  /\ Go(r, "publish", IF Displaced(r) = {} THEN "done" ELSE "replace")
  /\ MayPublish
  /\ sessions' = [sessions EXCEPT ![key[r]] = t]
  /\ claimed' = claimed \ {t}
  /\ timer' = [timer EXCEPT ![t] = parks[t] + 1]
  /\ parks' = [parks EXCEPT ![t] = parks[t] + 1]
  /\ armed' = Arm(t)
  /\ turn' = [turn EXCEPT ![r] = NoTurn]
  /\ victim' = [victim EXCEPT ![r] = sessions[key[r]]]
  /\ calls' = calls \cup (Displaced(r) \X {"bad"})
  /\ UNCHANGED <<key, lease, sessionsClosed, parkedSlots, expiring, cleanup>>

\* previous.cleanup(false) has returned
Replaced(r) ==
  /\ Go(r, "replace", "done")
  /\ cleanup[victim[r]] = "done"
  /\ UNCHANGED <<key, turn, victim, lease, tableVars, parkedSlots, timerVars,
                 calls, cleanup>>

PublishClosed(r) ==
  /\ Go(r, "publish", "unpark")
  /\ ~MayPublish
  /\ UNCHANGED <<key, turn, victim, lease, tableVars, parkedSlots, timerVars,
                 calls, cleanup>>

\* state.releaseParked(), then the error ends the call
PublishUnpark(r) ==
  /\ Go(r, "unpark", "finishBad")
  /\ parkedSlots' = parkedSlots \ {turn[r]}
  /\ UNCHANGED <<key, turn, victim, lease, tableVars, timerVars, calls,
                 cleanup>>

----------------------------------------------------------------------------
(* finishPending, expirePending, closePending and cleanup                  *)

\* bug: leave the entry of a finished turn in the table
DropEntry_Keep(k, t) == sessions

\* delete p.sessions[k], but only if it is still turn t
DropEntry(k, t) ==
  [j \in Key |-> IF j = k /\ sessions[j] = t THEN NoTurn ELSE sessions[j]]

Finish(r) ==
  LET t == turn[r] IN
  /\ \/ /\ Go(r, "finishGood", "leave")
        /\ calls' = calls \cup {<<t, "good">>}
     \/ /\ Go(r, "finishBad", "leave")
        /\ calls' = calls \cup {<<t, "bad">>}
  /\ sessions' = DropEntry(key[r], t)
  /\ victim' = [victim EXCEPT ![r] = t]
  /\ UNCHANGED <<key, turn, lease, sessionsClosed, claimed, parkedSlots,
                 timerVars, cleanup>>

\* state.cleanup has returned, and with it Generate
Leave(r) ==
  /\ Go(r, "leave", "done")
  /\ cleanup[victim[r]] = "done"
  /\ turn' = [turn EXCEPT ![r] = NoTurn]
  /\ UNCHANGED <<key, victim, lease, tableVars, parkedSlots, timerVars, calls,
                 cleanup>>

TimerFires(t) ==
  /\ \E g \in 1..parks[t] :
       /\ <<t, g>> \in armed
       /\ armed' = armed \ {<<t, g>>}
       /\ expiring' = expiring \cup {<<t, g>>}
  /\ UNCHANGED <<key, pc, turn, victim, lease, tableVars, parkedSlots, timer,
                 parks, calls, cleanup>>

Expire(t, g) ==
  /\ <<t, g>> \in expiring
  /\ expiring' = expiring \ {<<t, g>>}
  /\ IF sessions[key[t]] # t \/ t \in claimed
     THEN UNCHANGED <<sessions, calls>>
     ELSE /\ sessions' = [sessions EXCEPT ![key[t]] = NoTurn]
          /\ calls' = calls \cup {<<t, "bad">>}
  /\ UNCHANGED <<key, pc, turn, victim, lease, sessionsClosed, claimed,
                 parkedSlots, timer, parks, armed, cleanup>>

ClosePending ==
  /\ ~sessionsClosed
  /\ sessionsClosed' = TRUE
  /\ calls' = calls \cup {<<sessions[k], "bad">> :
                            k \in {j \in Key : sessions[j] # NoTurn}}
  /\ sessions' = [k \in Key |-> NoTurn]
  /\ UNCHANGED <<key, pc, turn, victim, lease, claimed, parkedSlots,
                 timerVars, cleanup>>

\* cleanupOnce: the first call stops the timer and decides the health
CleanupBegin(t, health) ==
  /\ <<t, health>> \in calls
  /\ calls' = calls \ {<<t, health>>}
  /\ IF cleanup[t] = "none"
     THEN /\ cleanup' = [cleanup EXCEPT ![t] = IF health = "good" THEN "unparkGood"
                                               ELSE "unparkBad"]
          /\ armed' = armed \ {<<t, timer[t]>>}
     ELSE UNCHANGED <<cleanup, armed>>
  /\ UNCHANGED <<key, pc, turn, victim, lease, tableVars, parkedSlots, timer,
                 parks, expiring>>

\* releaseParked
CleanupUnpark(t) ==
  /\ cleanup[t] \in {"unparkGood", "unparkBad"}
  /\ cleanup' = [cleanup EXCEPT ![t] = IF @ = "unparkGood" THEN "reuse"
                                       ELSE "close"]
  /\ parkedSlots' = parkedSlots \ {t}
  /\ UNCHANGED <<key, pc, turn, victim, lease, tableVars, timerVars, calls>>

\* release(healthy): the server goes back to p.idle or is closed
CleanupRelease(t) ==
  /\ cleanup[t] \in {"reuse", "close"}
  /\ lease' = [lease EXCEPT ![t] = IF cleanup[t] = "reuse" THEN "idle"
                                   ELSE "closed"]
  /\ cleanup' = [cleanup EXCEPT ![t] = "done"]
  /\ UNCHANGED <<key, pc, turn, victim, tableVars, parkedSlots, timerVars,
                 calls>>
----------------------------------------------------------------------------
Arrive(r) ==
  \E k \in Key \cup {NoKey} :
    ClaimNothing(r, k) \/ ClaimBusy(r, k) \/ ClaimAbandon(r, k) \/ Claim(r, k)

Advance(r) ==
  \/ Abandoned(r) \/ ClaimUnpark(r) \/ Answer(r) \/ Begin(r) \/ BeginFails(r)
  \/ Complete(r) \/ ToolsReady(r) \/ Interrupt(r)
  \/ Reserve(r) \/ Publish(r) \/ Replaced(r) \/ PublishClosed(r)
  \/ PublishUnpark(r) \/ Finish(r) \/ Leave(r)

ExpireSome(t) == \E g \in 1..parks[t] : Expire(t, g)

CleanupStep(t) ==
  \/ \E health \in Health : CleanupBegin(t, health)
  \/ CleanupUnpark(t) \/ CleanupRelease(t)

Next ==
  \/ \E r \in Req : Arrive(r) \/ Acquire(r) \/ AcquireFails(r) \/ Advance(r)
  \/ \E t \in Turn : TimerFires(t) \/ ExpireSome(t) \/ CleanupStep(t)
  \/ ClosePending

Spec == Init /\ [][Next]_vars

(***************************************************************************)
(* The event loop ends by its own idle timeout or the request's context,   *)
(* and runtime timers fire; p.slots serves blocked senders in FIFO order,  *)
(* hence strong fairness on Acquire.  No request has to arrive, none has   *)
(* to give up waiting for a slot, and nobody has to close the provider.    *)
(***************************************************************************)
Fairness ==
  /\ \A r \in Req : SF_vars(Acquire(r)) /\ WF_vars(Advance(r))
  /\ \A t \in Turn :
       WF_vars(TimerFires(t)) /\ WF_vars(ExpireSome(t)) /\ WF_vars(CleanupStep(t))

FairSpec == Spec /\ Fairness

----------------------------------------------------------------------------
(* Properties                                                              *)

Driven(t) == \E r \in Req : turn[r] = t /\ pc[r] \in Driving

BeingCleaned(t) ==
  cleanup[t] # "none" \/ \E health \in Health : <<t, health>> \in calls

\* a turn that keeps a server although no goroutine is working for it
Unattended(t) == t \in Held /\ ~Driven(t) /\ ~BeingCleaned(t)

\* Parked turns never fill the pool: whatever claims, replacements, expiries
\* and closes do, one slot is left for new traffic (codex.go:54, README:234,
\* TestParkPendingReservesOneCLISlotForNewTraffic).
ReservedSlot == Cardinality({t \in Turn : Unattended(t)}) < Limit

\* Two requests never work on one turn: a parked turn is resumed once, and a
\* turn that is being resumed cannot be claimed again (session.go:102-105).
OneDriver ==
  \A r, q \in Req :
    /\ r # q
    /\ pc[r] \in Driving
    /\ pc[q] \in Driving
    => turn[r] # turn[q]

\* No server is lost: a turn nobody works for can still be resumed under its
\* key, and a timer or a goroutine that will expire it exists, even when the
\* turn was parked, claimed and parked again (session.go:165-172).
NothingOrphaned ==
  \A t \in Turn : Unattended(t) =>
    /\ sessions[key[t]] = t
    /\ t \notin claimed
    /\ \E g \in 1..parks[t] : <<t, g>> \in armed \cup expiring

\* A server goes back to the pool only when its turn is over for everyone: no
\* request drives the turn and no session entry still leads to it.
ReuseAfterUse ==
  \A t \in Turn : lease[t] = "idle" =>
    /\ ~Driven(t)
    /\ \A k \in Key : sessions[k] # t

\* After closePending no turn stays parked, not even one whose parkPending
\* had reserved its parked slot before the close (session.go:160-164).
CloseLeavesNothingParked ==
  sessionsClosed => \A t \in Turn : ~Unattended(t)

\* Every Generate call returns, those that wait for a slot included: parked
\* turns and abandoned cleanups cannot starve the pool.  A request does not
\* begin again, so it is enough that all of them have ended, or not begun,
\* again and again.
RequestEnds == []<>(\A r \in Req : pc[r] \in {"new", "done"})

\* Every slot comes back, also when the client never answers its tool calls.
SlotReturned == []<>(Held = {})

\* The README's parked-turn limit counts pending turns: a token of p.parkedSlots
\* belongs to a turn that is pending, being worked on, or being cleaned up.
\* (README:234-236, session.go:49-63)
ParkedSlotHasTurn ==
  ~sessionsClosed => \A t \in parkedSlots :
    \/ Driven(t)
    \/ sessions[key[t]] = t
    \/ \E health \in Health : <<t, health>> \in calls
    \/ cleanup[t] \in {"unparkGood", "unparkBad"}
=============================================================================
