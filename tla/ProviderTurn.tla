---------------------------- MODULE ProviderTurn ----------------------------
(***************************************************************************)
(* One streamed turn of the providers that do not speak the Responses      *)
(* protocol: Anthropic's SSE collector (anthropic.go), the event loop over *)
(* a Codex app-server (codexcli/codex.go) and the `opencode run` process   *)
(* with its watchdog (opencodecli/opencode.go), up to the end of Generate  *)
(* and to the gateway encoder of the client they can be used from.         *)
(*                                                                         *)
(* The upstream is external and may send anything its format can say: it   *)
(* may stop, fail or fall silent anywhere, and Anthropic's may address the *)
(* blocks in any order.  The content of a block is the number of its       *)
(* pieces.  How the sessions and servers of Codex are claimed, parked and  *)
(* released is CodexSessions'; how its events arrive is CodexRpc's.        *)
(***************************************************************************)
EXTENDS Integers, Sequences

CONSTANTS MaxBlock,   \* bound on the blocks of a turn
          MaxPiece,   \* bound on the deltas of a block, also when it is started again
          MaxAgain,   \* bound on the indexes that a block is started again at
          MaxPing     \* bound on the lines of OpenCode that add no block

ASSUME BoundAssumption ==
  MaxBlock \in Nat \ {0} /\ MaxPiece \in Nat \ {0} /\ MaxPing \in Nat /\ MaxAgain \in Nat

VARIABLES
  provider, client,
  serial,     \* toolPolicy.DisableParallel
  pc,         \* the goroutine of Generate
  result,     \* what it returns
  \* the provider
  blocks,     \* result.Blocks
  live,       \* the blocks it holds open: collector.open, textIndex, reasoningIndexes
  upstream,   \* what the upstream has said of the turn
  grace,      \* Codex: the timer that waits for parallel calls
  \* OpenCode
  proc,       \* its process
  eventError, \* an error event was read
  cancelled,  \* processCtx
  timedOut,   \* idleCanceller.timedOut
  quiet,      \* the timeout has passed since the last event
  pings,
  \* the gateway
  gone,       \* the client has closed its request
  msg,        \* the stream to it
  view,       \* the blocks in it, by the provider's index
  order       \* the indexes, in the order they were started

loop == <<live, upstream, grace>>
process == <<proc, eventError, cancelled, timedOut, quiet, pings>>
config == <<provider, client, serial>>
stream == <<msg, view, order>>
vars == <<config, pc, result, blocks, loop, process, gone, stream>>

Index == 1..MaxBlock
Kind == {"text", "thinking", "tool"}

\* the providers and clients that are combined: validateClientProvider
Pairs == {<<"anthropic", "responses">>, <<"codex", "messages">>,
          <<"opencode", "messages">>, <<"opencode", "responses">>}

TypeOK ==
  /\ <<provider, client>> \in Pairs
  /\ serial \in BOOLEAN
  /\ pc \in {"start", "read", "wait", "end"}
  /\ result \in {"none", "ok", "error"}
  /\ blocks \in Seq([kind : Kind \cup {"gap"}, text : 0..MaxPiece])
  /\ Len(blocks) <= MaxBlock
  /\ live \subseteq DOMAIN blocks
  /\ upstream \in {"running", "complete", "failed"}
  /\ grace \in BOOLEAN
  /\ proc \in {"none", "running", "exit0", "exit1", "reaped"}
  /\ eventError \in BOOLEAN
  /\ cancelled \in BOOLEAN /\ timedOut \in BOOLEAN /\ quiet \in BOOLEAN
  /\ pings \in 0..MaxPing
  /\ gone \in BOOLEAN
  /\ msg \in {"none", "started", "ended", "error"}
  /\ view \in [Index -> [state : {"none", "open", "closed"}, text : Nat]]
  /\ order \in Seq(Index)

Init ==
  /\ \E pair \in Pairs : provider = pair[1] /\ client = pair[2]
  /\ serial \in BOOLEAN /\ (serial => provider = "codex")
  /\ pc = "start"
  /\ result = "none"
  /\ blocks = <<>>
  /\ live = {}
  /\ upstream = "running"
  /\ grace = FALSE
  /\ proc = "none"
  /\ eventError = FALSE
  /\ cancelled = FALSE /\ timedOut = FALSE /\ quiet = FALSE
  /\ pings = 0
  /\ gone = FALSE
  /\ msg = IF client = "responses" THEN "started" ELSE "none"
  /\ view = [k \in Index |-> [state |-> "none", text |-> 0]]
  /\ order = <<>>

----------------------------------------------------------------------------
(* The gateway encoders.  Claude Code's writes what it is given; Codex's   *)
(* numbers the blocks itself, starts a block once and ignores what comes   *)
(* for a block that is done.  Arguments it holds back until the stop count *)
(* when they come.                                                         *)

Heard(v, k) == client = "messages" \/ v[k].state = "open"

Start(v, k) ==
  IF client = "messages" \/ v[k].state = "none" THEN [v EXCEPT ![k].state = "open"] ELSE v

Delta(v, k, n) == IF Heard(v, k) THEN [v EXCEPT ![k].text = @ + n] ELSE v

Stop(v, ks) ==
  [k \in Index |-> IF k \in ks /\ Heard(v, k) THEN [v[k] EXCEPT !.state = "closed"] ELSE v[k]]

\* only streamMessages looks at the client's context
EmitFails == client = "messages" /\ gone

\* the client's blocks become v, in which one more is started at most
Show(v) ==
  LET started == {k \in Index : view[k].state = "none" /\ v[k].state # "none"} IN
  /\ view' = v
  /\ order' = IF started = {} THEN order ELSE Append(order, CHOOSE k \in started : TRUE)

Emit(v) == Show(v) /\ msg' = "started"

Silent == UNCHANGED stream

\* Generate returns; the gateway closes what a successful turn has left open,
\* or sends an error
Return(how, v) ==
  /\ pc' = "end"
  /\ result' = how
  /\ msg' = IF how = "ok" THEN "ended" ELSE "error"
  /\ Show(IF how = "ok" THEN Stop(v, {k \in Index : v[k].state = "open"}) ELSE v)

GoOn == pc' = "read" /\ UNCHANGED result

\* the client closes its request, which ends the upstream request or process
Leave ==
  /\ pc # "end" /\ ~gone
  /\ gone' = TRUE
  /\ cancelled' = TRUE
  /\ UNCHANGED <<config, pc, result, blocks, loop, proc, eventError, timedOut, quiet, pings, stream>>

----------------------------------------------------------------------------
(* The beginning: a request is sent, a server leased or a process started  *)

Begin ==
  /\ pc = "start"
  /\ GoOn
  /\ proc' = IF provider = "opencode" THEN "running" ELSE "none"
  /\ UNCHANGED <<config, blocks, loop, eventError, cancelled, timedOut, quiet, pings, gone, stream>>

BeginFails ==
  /\ pc = "start"
  /\ Return("error", view)
  /\ UNCHANGED <<config, blocks, loop, process, gone>>

Reads(p) == provider = p /\ pc = "read"

----------------------------------------------------------------------------
(* Anthropic: collector.handle and finalize.  Nothing is read from a       *)
(* stream whose request is cancelled.                                      *)

Receives == Reads("anthropic") /\ ~cancelled /\ UNCHANGED <<config, grace, process, gone>>

\* content_block_start, which replaces a block of the same index; those left out
\* are filled with gaps.  Thinking is treated as text is.
BlockStart(k, kind) ==
  /\ Receives
  /\ k \in DOMAIN blocks => blocks[k].kind = "gap" \/ k <= MaxAgain
  /\ blocks' = [j \in 1..(IF k > Len(blocks) THEN k ELSE Len(blocks)) |->
                  IF j = k THEN [kind |-> kind, text |-> 0]
                  ELSE IF j \in DOMAIN blocks THEN blocks[j] ELSE [kind |-> "gap", text |-> 0]]
  /\ live' = live \cup {k}
  /\ Emit(Start(view, k))
  /\ GoOn
  /\ UNCHANGED upstream

\* content_block_delta, of a block that is open, stopped or was left out
BlockDelta(k) ==
  /\ Receives
  /\ k \in DOMAIN blocks /\ blocks[k].text < MaxPiece /\ view[k].text < MaxPiece
  /\ blocks' = [blocks EXCEPT ![k].text = @ + 1]
  /\ Emit(Delta(view, k, 1))
  /\ GoOn
  /\ UNCHANGED <<live, upstream>>

\* content_block_stop; the arguments of a call are valid JSON
BlockStop(k) ==
  /\ Receives
  /\ k \in DOMAIN blocks /\ (blocks[k].kind = "tool" => blocks[k].text > 0)
  /\ live' = live \ {k}
  /\ IF k \in live THEN Emit(Stop(view, {k})) ELSE Silent
  /\ GoOn
  /\ UNCHANGED <<blocks, upstream>>

\* message_stop
MessageStop ==
  /\ Receives
  /\ live = {}
  /\ upstream' = "complete"
  /\ GoOn
  /\ UNCHANGED <<blocks, live, stream>>

\* A delta for an unknown block, a call without valid arguments, a message_stop
\* while blocks are open, an error event: handle returns an error.  Or the body
\* breaks, its request is cancelled, or it has been idle for five minutes.
BodyFails ==
  /\ Reads("anthropic")
  /\ Return("error", view)
  /\ UNCHANGED <<config, blocks, loop, process, gone>>

\* bug: the end of the body ends the message
Finalized_AtEof == live = {}

Finalized == upstream = "complete" /\ live = {}

BodyEnds ==
  /\ Reads("anthropic")
  /\ Return(IF Finalized THEN "ok" ELSE "error", view)
  /\ UNCHANGED <<config, blocks, loop, process, gone>>

Anthropic ==
  \/ \E k \in Index : (\E kind \in {"text", "tool"} : BlockStart(k, kind)) \/ BlockDelta(k) \/ BlockStop(k)
  \/ MessageStop \/ BodyFails \/ BodyEnds

----------------------------------------------------------------------------
(* Codex: the event loop of Generate                                       *)

Fresh == Len(blocks) + 1
LiveText == {k \in live : blocks[k].kind = "text"}

\* an event of the turn that Generate passes on to the client
Turn == Reads("codex") /\ ~EmitFails /\ UNCHANGED <<config, process, gone>>

\* A delta of the answer, for its open block or a new one, or of a reasoning
\* item, for the item's block.
TurnDelta(k, kind) ==
  /\ Turn
  /\ IF k = Fresh
     THEN /\ k <= MaxBlock
          /\ kind = "text" => LiveText = {}
          /\ blocks' = Append(blocks, [kind |-> kind, text |-> 1])
          /\ live' = live \cup {k}
          /\ Emit(Delta(Start(view, k), k, 1))
     ELSE /\ k \in live /\ blocks[k].kind = kind /\ blocks[k].text < MaxPiece
          /\ blocks' = [blocks EXCEPT ![k].text = @ + 1]
          /\ Emit(Delta(view, k, 1))
          /\ UNCHANGED live
  /\ GoOn
  /\ UNCHANGED <<upstream, grace>>

\* item/completed of a reasoning item
ReasoningDone(k) ==
  /\ Turn
  /\ k \in live /\ blocks[k].kind = "thinking"
  /\ live' = live \ {k}
  /\ Emit(Stop(view, {k}))
  /\ GoOn
  /\ UNCHANGED <<blocks, upstream, grace>>

\* bug: the text before a call stays the block of the text after it, though
\* it was stopped
AfterCall_Reuse == live

\* textIndex is reset
AfterCall == live \ LiveText

\* item/tool/call: the text before it is stopped and the call is shown whole;
\* more calls are waited for, unless they are not wanted.  A turn that cannot
\* be parked, because the provider was closed, is an error.
ToolCall ==
  LET shown == Delta(Start(Stop(view, LiveText), Fresh), Fresh, 1) IN
  /\ Turn
  /\ Fresh <= MaxBlock
  /\ blocks' = Append(blocks, [kind |-> "tool", text |-> 1])
  /\ live' = AfterCall
  /\ IF serial
     THEN \E how \in {"ok", "error"} : Return(how, Stop(shown, {Fresh}))
     ELSE Emit(shown) /\ GoOn
  /\ grace' = ~serial
  /\ UNCHANGED upstream

\* toolTimer: the calls are stopped, whatever emit says
GraceEnds ==
  LET calls == {k \in DOMAIN blocks : blocks[k].kind = "tool"} IN
  /\ Reads("codex") /\ grace
  /\ \E how \in {"ok", "error"} :
       Return(how, IF EmitFails THEN view ELSE Stop(view, calls))
  /\ UNCHANGED <<config, blocks, loop, process, gone>>

\* turn/completed, which is not looked at once calls are waited for
TurnCompleted ==
  /\ Reads("codex")
  /\ upstream' = "complete"
  /\ IF grace THEN GoOn /\ Silent
     ELSE IF blocks = <<>> \/ (LiveText # {} /\ EmitFails) THEN Return("error", view)
     ELSE Return("ok", Stop(view, LiveText))
  /\ UNCHANGED <<config, blocks, live, grace, process, gone>>

\* A turn that failed or was interrupted, a native tool, an error, the end of
\* the server's output, the idle timer, a client that is gone.
TurnFails ==
  /\ Reads("codex")
  /\ Return("error", view)
  /\ UNCHANGED <<config, blocks, loop, process, gone>>

Codex ==
  \/ \E k \in Index, kind \in {"text", "thinking"} : TurnDelta(k, kind)
  \/ \E k \in Index : ReasoningDone(k)
  \/ ToolCall \/ GraceEnds \/ TurnCompleted \/ TurnFails

----------------------------------------------------------------------------
(* OpenCode: the lines of `opencode run`, which stay in the pipe when the  *)
(* process has exited                                                      *)

\* scanner.Scan, and watchdog.touch
Scan ==
  /\ Reads("opencode")
  /\ quiet' = (quiet /\ timedOut)
  /\ UNCHANGED <<config, live, grace, proc, timedOut, gone>>

\* Generate waits for the process, to return how ("none": not decided)
WaitFor(how) == pc' = "wait" /\ result' = how

\* emit has failed
Abandon == WaitFor("error") /\ Silent /\ cancelled' = TRUE

Shown == Stop(Delta(Start(view, Fresh), Fresh, 1), {Fresh})

\* text or reasoning: a whole block
OutputPart(kind) ==
  /\ Scan /\ Fresh <= MaxBlock
  /\ blocks' = Append(blocks, [kind |-> kind, text |-> 1])
  /\ IF EmitFails THEN Abandon ELSE Emit(Shown) /\ GoOn /\ UNCHANGED cancelled
  /\ UNCHANGED <<upstream, eventError, pings>>

\* bug: the process is killed but not waited for
OutputCall_NoWait ==
  /\ Scan /\ Fresh <= MaxBlock
  /\ blocks' = Append(blocks, [kind |-> "tool", text |-> 1])
  /\ IF EmitFails THEN Abandon ELSE Return("ok", Shown) /\ cancelled' = TRUE
  /\ UNCHANGED <<upstream, eventError, pings>>

\* tool_use: the client is to run the call, so the turn is over
OutputCall ==
  /\ Scan /\ Fresh <= MaxBlock
  /\ blocks' = Append(blocks, [kind |-> "tool", text |-> 1])
  /\ IF EmitFails THEN Abandon ELSE Emit(Shown) /\ WaitFor("ok") /\ cancelled' = TRUE
  /\ UNCHANGED <<upstream, eventError, pings>>

\* error: remembered until the process has exited
OutputError ==
  /\ Scan /\ pings < MaxPing
  /\ pings' = pings + 1
  /\ eventError' = TRUE
  /\ upstream' = "failed"
  /\ GoOn /\ Silent
  /\ UNCHANGED <<blocks, cancelled>>

\* step_finish and whatever is not known
OutputOther ==
  /\ Scan /\ pings < MaxPing
  /\ pings' = pings + 1
  /\ GoOn /\ Silent
  /\ UNCHANGED <<blocks, upstream, eventError, cancelled>>

\* the process exits by itself, with status 0 or another
Exit(status) ==
  /\ proc = "running"
  /\ proc' = status
  /\ upstream' = IF upstream = "running" /\ status = "exit0" THEN "complete" ELSE "failed"
  /\ UNCHANGED <<config, pc, result, blocks, live, grace, eventError, cancelled, timedOut,
                 quiet, pings, gone, stream>>

\* exec.CommandContext
Killed == cancelled /\ Exit("exit1")

\* Nothing is left to read, or a line cannot be; then nobody drains the pipe.
OutputEnds ==
  /\ Reads("opencode") /\ proc # "running"
  /\ WaitFor("none") /\ Silent
  /\ UNCHANGED <<config, blocks, loop, process, gone>>

ScanFails ==
  /\ Reads("opencode")
  /\ WaitFor("error") /\ Silent
  /\ UNCHANGED <<config, blocks, loop, process, gone>>

\* bug: an error event is forgotten
Outcome_NoEventError ==
  IF result # "none" THEN result
  ELSE IF timedOut \/ proc = "exit1" \/ blocks = <<>> THEN "error" ELSE "ok"

Outcome ==
  IF result # "none" THEN result
  ELSE IF timedOut \/ eventError \/ proc = "exit1" \/ blocks = <<>> THEN "error" ELSE "ok"

\* command.Wait; the request's directory is removed when Generate returns
Wait ==
  /\ pc = "wait" /\ proc \in {"exit0", "exit1"}
  /\ proc' = "reaped"
  /\ Return(Outcome, view)
  /\ UNCHANGED <<config, blocks, loop, eventError, cancelled, timedOut, quiet, pings, gone>>

Watched == provider = "opencode" /\ pc \in {"read", "wait"}

Idle ==
  /\ Watched /\ ~quiet
  /\ quiet' = TRUE
  /\ UNCHANGED <<config, pc, result, blocks, loop, proc, eventError, cancelled, timedOut,
                 pings, gone, stream>>

\* bug: the process is left running
Expire_Running ==
  /\ Watched /\ quiet /\ ~timedOut
  /\ timedOut' = TRUE
  /\ UNCHANGED <<config, pc, result, blocks, loop, proc, eventError, cancelled, quiet, pings,
                 gone, stream>>

\* idleCanceller.expire: a callback that touch has overtaken does nothing
Expire ==
  /\ Watched /\ quiet /\ ~timedOut
  /\ timedOut' = TRUE
  /\ cancelled' = TRUE
  /\ UNCHANGED <<config, pc, result, blocks, loop, proc, eventError, quiet, pings, gone,
                 stream>>

OpenCode ==
  \/ \E kind \in {"text", "thinking"} : OutputPart(kind)
  \/ OutputCall \/ OutputError \/ OutputOther
  \/ (\E status \in {"exit0", "exit1"} : Exit(status)) \/ Killed
  \/ OutputEnds \/ ScanFails \/ Wait \/ Idle \/ Expire

----------------------------------------------------------------------------
Next == Leave \/ Begin \/ BeginFails \/ Anthropic \/ Codex \/ OpenCode

Spec == Init /\ [][Next]_vars

\* The goroutines go on, time passes and timers fire: the idle timers of
\* Anthropic's body and of the Codex loop, the watchdog.  A process whose
\* context is cancelled is killed.  No upstream has to say anything more.
FairSpec ==
  /\ Spec
  /\ WF_vars(Begin \/ BeginFails)
  /\ WF_vars(BodyFails) /\ WF_vars(TurnFails)
  /\ WF_vars(Idle) /\ WF_vars(Expire) /\ WF_vars(Killed)
  /\ WF_vars(OutputEnds) /\ WF_vars(Wait)

----------------------------------------------------------------------------
(* Properties                                                              *)

Stream == INSTANCE BlockStream WITH
  block <- [j \in Index |-> IF j <= Len(order) THEN view[order[j]].state ELSE "none"],
  text <- [j \in Index |-> IF j <= Len(order) THEN view[order[j]].text ELSE 0],
  end <- IF msg = "ended" THEN "ok" ELSE IF msg = "error" THEN "error" ELSE "no"

\* Whatever the upstream sends, in whatever order, the client is shown a
\* well-formed stream of blocks: none grows or is stopped again after its stop,
\* and none is left open by a turn that succeeds.
TurnImplementsStream == Stream!StreamSpec

\* A turn succeeds only if the upstream has said that it is complete and held
\* no block open, or, where the client runs the calls of a turn that goes on,
\* with a call ("They reject truncated streams", README.md:211); an error event
\* is not forgotten although the process goes on and exits with status 0.
SuccessIsWhole ==
  result = "ok" /\ pc = "end" =>
    \/ upstream = "complete" /\ (provider = "anthropic" => live = {})
    \/ provider # "anthropic" /\ \E k \in DOMAIN blocks : blocks[k].kind = "tool"

\* An OpenCode process has been waited for when Generate returns and its
\* directory is removed, whichever of the returns it takes.
ProcessReaped == pc = "end" => proc \in {"none", "reaped"}

\* Every turn ends although the upstream falls silent and the client stays.
TurnReturns == <>(pc = "end")
=============================================================================
