------------------------------- MODULE CodexRpc -------------------------------
(***************************************************************************)
(* One Codex app-server and its JSON-RPC client: rpcClient of              *)
(* provider/codexcli/codex.go with its reader goroutine, the bounded event *)
(* queue and the waiters, and what one Generate call after another does    *)
(* with them: thread/start, turn/start, the event loop, and                *)
(* interruptAndQuiesce of pool.go before the server is used again.         *)
(*                                                                         *)
(* CodexPool and CodexSessions call a server healthy if quiesceThread has  *)
(* approved it; this module shows what that is worth.  The app-server is   *)
(* external: it answers requests in order, writes notifications of a       *)
(* thread until it is unsubscribed, global ones at any time, and may exit. *)
(***************************************************************************)
EXTENDS Integers, Sequences, SequencesExt

CONSTANTS
  Cap,         \* capacity of rpcClient.events
  MaxThread,   \* bound on the threads started on this server
  MaxNote      \* bound on the notifications it writes

ASSUME RpcAssumption ==
  /\ Cap \in Nat \ {0}
  /\ MaxThread \in Nat
  /\ MaxNote \in Nat

VARIABLES
  pc,          \* where the user of the server is
  method,      \* the request being made
  id,          \* its JSON-RPC id; the last one when there is none
  thread,      \* state.threadID: the thread of the current turn
  armed,       \* toolTimer is running
  wait,        \* ids in rpcClient.wait
  reply,       \* what the current request's channel holds
  events,      \* rpcClient.events
  eof,         \* the reader has ended and closed the channels
  pipe,        \* lines written by the server and not yet scanned
  inbox,       \* requests the server has not answered
  subscribed,  \* the thread whose notifications the server sends
  running,     \* the server is alive
  notes        \* how many notifications it has written

vars == <<pc, method, id, thread, armed, wait, reply, events, eof, pipe, inbox,
          subscribed, running, notes>>

userVars == <<pc, method, id, thread, armed>>
serverVars == <<inbox, subscribed, running, notes>>

Method == {"initialize", "thread/start", "turn/start", "turn/interrupt",
           "thread/unsubscribe"}

\* "fault" is a response that carries an error, "bad" a line that is no JSON
Answer == {"result", "fault"}
Note == {"delta", "tool", "completed", "failed"}

Thread == 0..MaxThread

\* four requests for each thread, and initialize
Id == 1..(4 * MaxThread + 1)

Envelope ==
  [kind : Answer \cup Note \cup {"global", "bad"}, thread : Thread, id : Id \cup {0}]

TypeOK ==
  /\ pc \in {"free", "register", "write", "wait", "loop", "parked", "drain", "closed"}
  /\ method \in Method
  /\ id \in Id
  /\ thread \in Thread
  /\ armed \in BOOLEAN
  /\ wait \in SUBSET Id
  /\ reply \in Answer \cup {"none", "closed"}
  /\ events \in Seq(Envelope)
  /\ Len(events) <= Cap
  /\ eof \in BOOLEAN
  /\ pipe \in Seq(Envelope)
  /\ inbox \in Seq([method : Method, thread : Thread, id : Id])
  /\ subscribed \in Thread
  /\ running \in BOOLEAN
  /\ notes \in 0..MaxNote

\* startAppServer is about to initialize a new process
Init ==
  /\ pc = "register"
  /\ method = "initialize"
  /\ id = 1
  /\ thread = 0
  /\ armed = FALSE
  /\ wait = {}
  /\ reply = "none"
  /\ events = <<>>
  /\ eof = FALSE
  /\ pipe = <<>>
  /\ inbox = <<>>
  /\ subscribed = 0
  /\ running = TRUE
  /\ notes = 0

----------------------------------------------------------------------------
(* rpcClient.request                                                       *)

\* the next request of the same user
Request(m) ==
  /\ pc' = "register"
  /\ method' = m
  /\ id' = id + 1

Register ==
  /\ pc = "register"
  /\ pc' = "write"
  /\ wait' = wait \cup {id}
  /\ reply' = "none"
  /\ UNCHANGED <<method, id, thread, armed, events, eof, pipe, serverVars>>

\* a process that has exited has closed its end of the pipe
Write ==
  /\ pc = "write"
  /\ running
  /\ pc' = "wait"
  /\ inbox' = Append(inbox, [method |-> method, thread |-> thread, id |-> id])
  /\ UNCHANGED <<method, id, thread, armed, wait, reply, events, eof, pipe,
                 subscribed, running, notes>>

\* release(false): the process is killed and the server never used again
Discard ==
  /\ pc' = "closed"
  /\ wait' = wait \ {id}
  /\ UNCHANGED <<method, id, thread, armed, reply, events, eof, pipe, serverVars>>

WriteFails ==
  /\ pc = "write"
  /\ ~running
  /\ Discard

\* what follows the answer to each request
Continue ==
  CASE method = "initialize" -> pc' = "free" /\ UNCHANGED <<method, id>>
    [] method = "thread/start" -> Request("turn/start")
    [] method = "turn/start" -> pc' = "loop" /\ UNCHANGED <<method, id>>
    [] method = "turn/interrupt" -> Request("thread/unsubscribe")
    [] method = "thread/unsubscribe" -> pc' = "drain" /\ UNCHANGED <<method, id>>

Answered ==
  /\ pc = "wait"
  /\ reply = "result"
  /\ Continue
  /\ wait' = wait \ {id}
  /\ UNCHANGED <<thread, armed, reply, events, eof, pipe, serverVars>>

Refused ==
  /\ pc = "wait"
  /\ reply \in {"fault", "closed"}
  /\ Discard

\* requests whose wait ends after requestPhaseTimeout
Phased == {"thread/start", "turn/start"}

\* bug: go on with the server after a request that was not answered in time
GiveUp_Keep ==
  /\ pc = "wait"
  /\ pc' = "free"
  /\ wait' = wait \ {id}
  /\ UNCHANGED <<method, id, thread, armed, reply, events, eof, pipe, serverVars>>

\* the context ends: initializing a server, starting a turn, quiescing a thread
GiveUp ==
  /\ pc = "wait"
  /\ Discard

----------------------------------------------------------------------------
(* Generate and interruptAndQuiesce                                        *)

Lease ==
  /\ pc = "free"
  /\ thread < MaxThread
  /\ thread' = thread + 1
  /\ armed' = FALSE
  /\ Request("thread/start")
  /\ UNCHANGED <<wait, reply, events, eof, pipe, serverVars>>

\* bug: the turn is over, so the thread need not be unsubscribed
Quiesce_DrainOnly(m) == pc' = "drain" /\ UNCHANGED <<method, id>>

\* m is turn/interrupt for a running turn, and thread/unsubscribe for one that
\* has completed
Quiesce(m) == Request(m)

\* the event loop takes one envelope
Receive ==
  /\ pc = "loop"
  /\ events # <<>>
  /\ events' = Tail(events)
  /\ LET kind == Head(events).kind
     IN \/ /\ kind \in {"delta", "global", "result"}
           /\ UNCHANGED <<pc, method, id, armed>>
        \/ /\ kind = "tool"
           /\ armed' = TRUE
           /\ UNCHANGED <<pc, method, id>>
        \/ /\ kind = "completed"
           /\ IF armed THEN UNCHANGED <<pc, method, id>> ELSE Quiesce("thread/unsubscribe")
           /\ UNCHANGED armed
        \/ /\ kind = "failed"
           /\ pc' = IF armed THEN "loop" ELSE "closed"
           /\ UNCHANGED <<method, id, armed>>
        \/ /\ kind \in {"bad", "fault"}
           /\ pc' = "closed"
           /\ UNCHANGED <<method, id, armed>>
  /\ UNCHANGED <<thread, wait, reply, eof, pipe, serverVars>>

\* closed output, the idle timeout, a forbidden tool, or the client has gone
Abort ==
  /\ pc = "loop"
  /\ Discard

\* parallelToolGrace is over: the turn cannot be parked
ToolTimer ==
  /\ pc = "loop"
  /\ armed
  /\ Quiesce("turn/interrupt")
  /\ UNCHANGED <<thread, armed, wait, reply, events, eof, pipe, serverVars>>

\* or it is parked: nobody receives until its client answers
Park ==
  /\ pc = "loop"
  /\ armed
  /\ pc' = "parked"
  /\ UNCHANGED <<method, id, thread, armed, wait, reply, events, eof, pipe, serverVars>>

Resume ==
  /\ pc = "parked"
  /\ pc' = "loop"
  /\ armed' = FALSE
  /\ UNCHANGED <<method, id, thread, wait, reply, events, eof, pipe, serverVars>>

\* the turn expires, or its client asks for something else
Abandon ==
  /\ pc = "parked"
  /\ Discard

\* bug: reuse the server without emptying the queue
Drain_Skip ==
  /\ pc = "drain"
  /\ pc' = "free"
  /\ UNCHANGED <<method, id, thread, armed, wait, reply, events, eof, pipe, serverVars>>

\* empty the queue without waiting for more
Drain ==
  /\ pc = "drain"
  /\ IF events # <<>>
     THEN /\ events' = Tail(events)
          /\ pc' = IF Head(events).kind \in {"bad", "fault"} THEN "closed" ELSE "drain"
     ELSE /\ pc' = IF eof THEN "closed" ELSE "free"
          /\ UNCHANGED events
  /\ UNCHANGED <<method, id, thread, armed, wait, reply, eof, pipe, serverVars>>

----------------------------------------------------------------------------
(* rpcClient.read.  A server that was closed is of no interest any more.   *)

Open == pc # "closed"

\* bug: one place too many
Room_OffByOne == Len(events) <= Cap

\* a send to events does not block
Room == Len(events) < Cap

ForWaiter(line) == line.kind \in Answer /\ line.id \in wait

\* the channel of a waiter has room for its one answer
ToWaiter ==
  /\ Open
  /\ pipe # <<>>
  /\ ForWaiter(Head(pipe))
  /\ reply' = Head(pipe).kind
  /\ pipe' = Tail(pipe)
  /\ UNCHANGED <<userVars, wait, events, eof, serverVars>>

\* notifications, undecodable lines, and answers nobody waits for any more
ToEvents ==
  /\ Open
  /\ pipe # <<>>
  /\ ~ForWaiter(Head(pipe))
  /\ Room
  /\ events' = Append(events, Head(pipe))
  /\ pipe' = Tail(pipe)
  /\ UNCHANGED <<userVars, wait, reply, eof, serverVars>>

\* bug: the reader ends and leaves the waiters alone
ReaderEnds_Silent ==
  /\ Open
  /\ ~running
  /\ pipe = <<>>
  /\ ~eof
  /\ eof' = TRUE
  /\ UNCHANGED <<userVars, wait, reply, events, pipe, serverVars>>

\* an answer that is already in a channel is received before its closing
ReaderEnds ==
  /\ Open
  /\ ~running
  /\ pipe = <<>>
  /\ ~eof
  /\ eof' = TRUE
  /\ reply' = IF wait # {} /\ reply = "none" THEN "closed" ELSE reply
  /\ wait' = {}
  /\ UNCHANGED <<userVars, events, pipe, serverVars>>

----------------------------------------------------------------------------
(* The app-server                                                          *)

\* it answers requests in order, and stops sending for a thread before it
\* answers the request to unsubscribe
Serve ==
  /\ Open
  /\ running
  /\ inbox # <<>>
  /\ \E kind \in Answer :
       pipe' = Append(pipe, [kind |-> kind, thread |-> Head(inbox).thread,
                             id |-> Head(inbox).id])
  /\ subscribed' = CASE Head(inbox).method = "thread/start" -> Head(inbox).thread
                     [] Head(inbox).method = "thread/unsubscribe" -> 0
                     [] OTHER -> subscribed
  /\ inbox' = Tail(inbox)
  /\ UNCHANGED <<userVars, wait, reply, events, eof, running, notes>>

Notify ==
  /\ Open
  /\ running
  /\ notes < MaxNote
  /\ notes' = notes + 1
  /\ \/ \E kind \in {"global", "bad"} :
          pipe' = Append(pipe, [kind |-> kind, thread |-> 0, id |-> 0])
     \/ /\ subscribed # 0
        /\ \E kind \in Note :
             pipe' = Append(pipe, [kind |-> kind, thread |-> subscribed, id |-> 0])
  /\ UNCHANGED <<userVars, wait, reply, events, eof, inbox, subscribed, running>>

Die ==
  /\ Open
  /\ running
  /\ running' = FALSE
  /\ UNCHANGED <<userVars, wait, reply, events, eof, pipe, inbox, subscribed, notes>>

----------------------------------------------------------------------------
\* the steps of a user that do not depend on its client's patience
Proceed ==
  \/ Register \/ Write \/ WriteFails \/ Answered \/ Refused
  \/ method \in Phased /\ GiveUp
  \/ Receive \/ ToolTimer \/ Abandon \/ Drain
  \/ events = <<>> /\ Abort

Read == ToWaiter \/ ToEvents \/ ReaderEnds

Next ==
  \/ Lease \/ Proceed \/ GiveUp \/ Abort \/ Park \/ Resume
  \/ Read
  \/ Serve \/ Notify \/ Die

Spec == Init /\ [][Next]_vars

(***************************************************************************)
(* Goroutines run, phase timeouts, the idle timeout, the tool timer and    *)
(* the expiry of a parked turn fire, and a live server answers.  Nobody    *)
(* has to cancel a request.                                                *)
(***************************************************************************)
FairSpec == Spec /\ WF_vars(Proceed) /\ WF_vars(Read) /\ WF_vars(Serve)
----------------------------------------------------------------------------
(* Properties                                                              *)

Unread == Range(events) \cup Range(pipe)

\* The drain of quiesceThread leaves a clean event stream (pool.go:312-314): a
\* server that is free to be leased has no notification of an earlier thread,
\* neither in the queue nor on its way, however the turn ended.
CleanStream ==
  pc = "free" => \A line \in Unread : line.kind \notin Note

\* An answer never shows up in the event stream of a turn: whoever gives up
\* on a request also gives up the server (codex.go:889-900).
NoStrayAnswer ==
  pc \in {"free", "loop", "parked"} => \A line \in Unread : line.kind \notin Answer

\* the reader is blocked on a full queue and the answer is behind it
Wedged == pc = "wait" /\ method \notin Phased /\ Len(events) = Cap

\* Every use of the server ends, with one exception the code does not
\* exclude: while a request waits nobody receives, so with a full queue the
\* reader cannot get to its answer (codex.go:890-900).
EndsOrWedged == []<>(pc \in {"free", "closed"}) \/ <>[]Wedged
=============================================================================
