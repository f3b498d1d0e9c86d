---------------------------- MODULE ResponsesTurn ----------------------------
(***************************************************************************)
(* One streamed turn of a Responses provider: the body with its idle       *)
(* timer (openresponses/timeout.go), the Collector that assembles content  *)
(* blocks (openresponses/stream.go), the end of Generate (openai.go and    *)
(* openrouter.go), and the two gateway encoders that pass the blocks on to *)
(* Claude Code (server.go) and to Codex (gateway/responses.go).            *)
(*                                                                         *)
(* The upstream, which is external, streams output items.  The events of   *)
(* one item come in order, those of different items in any order, and the  *)
(* stream may end, fail or fall silent anywhere.  The content of an item   *)
(* is the number of its pieces.                                            *)
(***************************************************************************)
EXTENDS Integers, Sequences, FiniteSets

CONSTANTS
  Item,        \* output items of the response
  MaxPiece,    \* bound on the deltas of an item
  MaxPing,     \* bound on comments the upstream keeps the connection alive with
  NoEvent

ASSUME TurnAssumption ==
  /\ IsFiniteSet(Item)
  /\ MaxPiece \in Nat \ {0}
  /\ MaxPing \in Nat

VARIABLES
  \* the upstream
  kind,        \* type of each item; a read is a call of the tool Read
  phase,       \* how far it is
  sent,        \* how many pieces of it were sent
  status,      \* the terminal event, if it was sent
  pings,
  \* the body
  pc,          \* the goroutine of Generate
  event,       \* what Read has returned and Handle has not seen
  cause,       \* why Read has returned an error
  timer,       \* the idle timer's current and older callbacks
  timedOut,
  cancelled,   \* the context of the upstream request
  quiet,       \* the timeout has passed since the last reset
  \* the Collector
  blocks, itemIndex, open, terminal, stopReason,
  \* the gateway
  client,      \* "messages" for Claude Code, "responses" for Codex
  gone,        \* the client has closed its request
  msg,         \* the stream to the client
  view         \* blocks in it

upVars == <<kind, phase, sent, status, pings>>
timerVars == <<timer, timedOut, quiet>>
collectorVars == <<blocks, itemIndex, open, terminal, stopReason>>
clientVars == <<client, gone, msg, view>>
vars == <<upVars, pc, event, cause, timerVars, cancelled, collectorVars, clientVars>>

Piece == 0..MaxPiece
Index == 1..Cardinality(Item)
Calls == {"call", "read"}
Types == {"added", "delta", "done", "terminal", "ping"}

\* signed: encrypted content; whole: valid JSON, or a Read that is only waiting
\* for its closing brace
Event == [type : Types, item : Item \cup {NoEvent}, content : Piece,
          signed : BOOLEAN, whole : BOOLEAN]

TypeOK ==
  /\ kind \in [Item -> {"message", "reasoning"} \cup Calls]
  /\ phase \in [Item -> {"new", "added", "done"}]
  /\ sent \in [Item -> Piece]
  /\ status \in {"none", "completed", "incomplete", "failed"}
  /\ pings \in 0..MaxPing
  /\ pc \in {"read", "reset", "handle", "check", "finalize", "end"}
  /\ event \in Event \cup {NoEvent}
  /\ cause \in {"none", "eof", "error"}
  /\ timer \subseteq {"armed", "fired", "stale"}
  /\ timedOut \in BOOLEAN /\ cancelled \in BOOLEAN /\ quiet \in BOOLEAN
  /\ blocks \in Seq([item : Item, text : Piece, input : Piece])
  /\ Len(blocks) <= Cardinality(Item)
  /\ itemIndex \in [Item -> 0..Len(blocks)]
  /\ open \subseteq 1..Len(blocks)
  /\ terminal \in BOOLEAN
  /\ stopReason \in {"end_turn", "tool_use", "max_tokens"}
  /\ client \in {"messages", "responses"}
  /\ gone \in BOOLEAN
  /\ msg \in {"none", "started", "ended", "error"}
  /\ view \in [Index -> [state : {"none", "open", "closed"}, text : Piece]]

Init ==
  /\ kind \in [Item -> {"message", "reasoning"} \cup Calls]
  /\ phase = [i \in Item |-> "new"]
  /\ sent = [i \in Item |-> 0]
  /\ status = "none"
  /\ pings = 0
  /\ pc = "read"
  /\ event = NoEvent
  /\ cause = "none"
  /\ timer = {"armed"}
  /\ timedOut = FALSE /\ cancelled = FALSE /\ quiet = FALSE
  /\ blocks = <<>>
  /\ itemIndex = [i \in Item |-> 0]
  /\ open = {}
  /\ terminal = FALSE
  /\ stopReason = "end_turn"
  /\ client \in {"messages", "responses"}
  /\ gone = FALSE
  /\ msg = IF client = "responses" THEN "started" ELSE "none"
  /\ view = [k \in Index |-> [state |-> "none", text |-> 0]]

----------------------------------------------------------------------------
(* The upstream sends an event, and body.Read returns it                   *)

Arrive(type, i, content, signed, whole) ==
  /\ pc = "read" /\ ~cancelled
  /\ pc' = "reset"
  /\ event' = [type |-> type, item |-> i, content |-> content, signed |-> signed,
               whole |-> whole]
  /\ UNCHANGED <<kind, cause, timerVars, cancelled, collectorVars, clientVars>>

\* response.output_item.added
SendAdded(i) ==
  /\ status = "none" /\ phase[i] = "new"
  /\ phase' = [phase EXCEPT ![i] = "added"]
  /\ \E signed \in BOOLEAN :
       /\ signed => kind[i] = "reasoning"
       /\ Arrive("added", i, 0, signed, FALSE)
  /\ UNCHANGED <<sent, status, pings>>

\* a delta of text, summary or arguments; only a call is always announced
SendDelta(i) ==
  /\ status = "none" /\ phase[i] # "done"
  /\ phase[i] = "new" => kind[i] \notin Calls
  /\ sent[i] < MaxPiece
  /\ phase' = [phase EXCEPT ![i] = "added"]
  /\ sent' = [sent EXCEPT ![i] = @ + 1]
  /\ \E whole \in BOOLEAN :
       /\ whole => kind[i] = "read"
       /\ Arrive("delta", i, 1, FALSE, whole)
  /\ UNCHANGED <<status, pings>>

\* response.output_item.done repeats the item, which may have had no delta
SendDone(i) ==
  /\ status = "none" /\ phase[i] = "added"
  /\ phase' = [phase EXCEPT ![i] = "done"]
  /\ \E content \in Piece, signed, whole \in BOOLEAN :
       /\ signed => kind[i] = "reasoning"
       /\ whole => kind[i] \in Calls
       /\ IF sent[i] > 0 \/ kind[i] = "message" THEN content = sent[i] ELSE content <= 1
       /\ sent' = [sent EXCEPT ![i] = content]
       /\ Arrive("done", i, content, signed, whole)
  /\ UNCHANGED <<status, pings>>

\* A response may end, completed too, while items are unfinished.  It fails also
\* by an error event, a cancellation or a content filter.
SendTerminal ==
  /\ status = "none"
  /\ status' \in {"completed", "incomplete", "failed"}
  /\ Arrive("terminal", NoEvent, 0, FALSE, FALSE)
  /\ UNCHANGED <<phase, sent, pings>>

\* A comment, or an event the Collector does not know, holds the connection
\* open.  Before the terminal event a delta of a Read does the same.
SendPing ==
  /\ status # "none"
  /\ pings < MaxPing
  /\ pings' = pings + 1
  /\ Arrive("ping", NoEvent, 0, FALSE, FALSE)
  /\ UNCHANGED <<phase, sent, status>>

\* body.Read returns an error: the end of the body, a broken connection, the
\* deadline of the HTTP client, or the cancelled context
ReadFails ==
  /\ pc = "read"
  /\ pc' = "check"
  /\ cause' \in IF cancelled THEN {"error"} ELSE {"eof", "error"}
  /\ UNCHANGED <<upVars, event, timerVars, cancelled, collectorVars, clientVars>>

----------------------------------------------------------------------------
(* The idle timer                                                          *)

Fire ==
  /\ "armed" \in timer
  /\ timer' = (timer \ {"armed"}) \cup {"fired"}
  /\ quiet' = TRUE
  /\ UNCHANGED <<upVars, pc, event, cause, timedOut, cancelled, collectorVars,
                 clientVars>>

\* bug: any callback expires the reader
ExpireStale_NoGeneration ==
  /\ "stale" \in timer
  /\ timer' = timer \ {"stale"}
  /\ timedOut' = TRUE
  /\ cancelled' = TRUE
  /\ UNCHANGED <<upVars, pc, event, cause, quiet, collectorVars, clientVars>>

\* a callback of an older generation does nothing
ExpireStale ==
  /\ "stale" \in timer
  /\ timer' = timer \ {"stale"}
  /\ UNCHANGED <<upVars, pc, event, cause, timedOut, quiet, cancelled,
                 collectorVars, clientVars>>

\* expire, and cancel, which follows at once
Expire ==
  /\ "fired" \in timer
  /\ timer' = timer \ {"fired"}
  /\ timedOut' = TRUE
  /\ cancelled' = TRUE
  /\ UNCHANGED <<upVars, pc, event, cause, quiet, collectorVars, clientVars>>

\* the callbacks once the generation has been increased
Outdated == {IF t = "fired" THEN "stale" ELSE t : t \in timer \ {"armed"}}

\* bug: the timer is stopped and not started again
Reset_NoTimer ==
  /\ pc = "reset"
  /\ pc' = "handle"
  /\ IF timedOut
     THEN UNCHANGED timerVars
     ELSE /\ timer' = Outdated
          /\ quiet' = FALSE
          /\ UNCHANGED timedOut
  /\ UNCHANGED <<upVars, event, cause, cancelled, collectorVars, clientVars>>

Reset ==
  /\ pc = "reset"
  /\ pc' = "handle"
  /\ IF timedOut
     THEN UNCHANGED timerVars
     ELSE /\ timer' = Outdated \cup {"armed"}
          /\ quiet' = FALSE
          /\ UNCHANGED timedOut
  /\ UNCHANGED <<upVars, event, cause, cancelled, collectorVars, clientVars>>

----------------------------------------------------------------------------
(* The end of Generate, and what the gateway makes of it                   *)

\* deferred: Close of the body, after which no callback does anything, and
\* cancelStream
Closed ==
  /\ pc' = "end"
  /\ timer' = {}
  /\ cancelled' = TRUE
  /\ event' = NoEvent
  /\ UNCHANGED <<upVars, cause, timedOut, quiet>>

\* an error event, or an HTTP status if nothing was streamed
GenerateFails(v) ==
  /\ Closed
  /\ msg' = "error"
  /\ view' = v
  /\ UNCHANGED <<client, gone>>

\* the blocks ks are stopped
Stopped(v, ks) == [k \in Index |-> IF k \in ks THEN [v[k] EXCEPT !.state = "closed"]
                                   ELSE v[k]]

GenerateSucceeds ==
  /\ Closed
  /\ msg' = "ended"
  /\ view' = Stopped(view, {k \in Index : view[k].state = "open"})
  /\ UNCHANGED <<client, gone>>

\* only Claude Code's encoder looks at the client's context
EmitFails == client = "messages" /\ gone

\* Handle emits what makes the client's blocks v
Emit(v) ==
  /\ ~EmitFails
  /\ view' = v
  /\ msg' = "started"
  /\ UNCHANGED <<client, gone>>

\* ReadSSE goes on to the next event
Handled ==
  /\ pc' = "read"
  /\ event' = NoEvent
  /\ UNCHANGED <<upVars, cause, timerVars, cancelled>>

Handles(type) == pc = "handle" /\ event.type = type

----------------------------------------------------------------------------
(* Collector.Handle, one disjunct per event                                *)

\* start: a new block for item i
Begin(i, t) ==
  /\ blocks' = Append(blocks, [item |-> i, text |-> t, input |-> 0])
  /\ itemIndex' = [itemIndex EXCEPT ![i] = Len(blocks) + 1]

NextIndex == Len(blocks) + 1

Shown(k, state, t) == [view EXCEPT ![k] = [state |-> state, text |-> t]]

Tool(i) == kind[i] \in Calls

\* a reasoning item without encrypted content waits for its summary
HandleAdded ==
  LET i == event.item
  IN /\ Handles("added")
     /\ Handled
     /\ IF Tool(i) \/ event.signed
        THEN /\ Begin(i, 0)
             /\ open' = open \cup {NextIndex}
             /\ Emit(Shown(NextIndex, "open", 0))
        ELSE UNCHANGED <<blocks, itemIndex, open, clientVars>>
     /\ stopReason' = IF Tool(i) THEN "tool_use" ELSE stopReason
     /\ UNCHANGED terminal

\* bug: a delta goes to the block started last
IndexOf_Last(i) == IF itemIndex[i] = 0 THEN 0 ELSE Len(blocks)

IndexOf(i) == itemIndex[i]

\* ensure, then delta; arguments of a Read wait for its end
HandleDelta ==
  LET i == event.item
      k == IndexOf(i)
  IN /\ Handles("delta")
     /\ kind[i] # "read"
     /\ Handled
     /\ IF k = 0
        THEN /\ Begin(i, 1)
             /\ open' = open \cup {NextIndex}
             /\ Emit(Shown(NextIndex, "open", 1))
        ELSE /\ blocks' = [blocks EXCEPT ![k].text = @ + 1]
             /\ Emit([view EXCEPT ![k].text = @ + 1])
             /\ UNCHANGED <<itemIndex, open>>
     /\ UNCHANGED <<terminal, stopReason>>

\* the Read waits only for its closing brace, and nothing else is open
Repairable(k) == event.whole /\ open = {k}

HandleReadDelta ==
  LET k == IndexOf(event.item)
  IN /\ Handles("delta")
     /\ kind[event.item] = "read"
     /\ ~Repairable(k)
     /\ Handled
     /\ blocks' = [blocks EXCEPT ![k].text = @ + 1]
     /\ UNCHANGED <<itemIndex, open, terminal, stopReason, clientVars>>

\* ErrToolCallReady ends ReadSSE
RepairRead ==
  LET k == IndexOf(event.item)
      full == blocks[k].text + 1
  IN /\ Handles("delta")
     /\ kind[event.item] = "read"
     /\ Repairable(k)
     /\ pc' = "finalize"
     /\ event' = NoEvent
     /\ blocks' = [blocks EXCEPT ![k].text = full, ![k].input = full]
     /\ Emit(Shown(k, "closed", full))
     /\ open' = open \ {k}
     /\ terminal' = TRUE
     /\ UNCHANGED <<upVars, cause, timerVars, cancelled, itemIndex, stopReason>>

\* output_item.done of an item without a block: reasoning may have one yet
HandleDoneNew ==
  LET i == event.item
  IN /\ Handles("done")
     /\ itemIndex[i] = 0
     /\ Handled
     /\ IF kind[i] = "reasoning" /\ (event.signed \/ event.content > 0)
        THEN /\ Begin(i, event.content)
             /\ Emit(Shown(NextIndex, "closed", event.content))
        ELSE UNCHANGED <<blocks, itemIndex, clientVars>>
     /\ UNCHANGED <<open, terminal, stopReason>>

\* bug: the item's arguments are added to those that were streamed
Missing_Repeat(k) == event.content

\* what the deltas have left out: all, or nothing
Missing(k) == IF blocks[k].text = 0 THEN event.content ELSE 0

HandleDone ==
  LET i == event.item
      k == itemIndex[i]
      full == blocks[k].text + Missing(k)
  IN /\ Handles("done")
     /\ k # 0
     /\ Handled
     /\ IF Tool(i)
        THEN /\ full > 0 /\ event.whole
             /\ blocks' = [blocks EXCEPT ![k].input = full]
        ELSE blocks' = [blocks EXCEPT ![k].text = IF kind[i] = "reasoning" THEN full ELSE @]
     /\ open' = open \ {k}
     /\ Emit(Shown(k, "closed", IF kind[i] = "message" THEN view[k].text ELSE full))
     /\ UNCHANGED <<itemIndex, terminal, stopReason>>

\* invalid or empty JSON arguments
RejectDone ==
  /\ Handles("done")
  /\ Tool(event.item)
  /\ \/ ~event.whole
     \/ blocks[itemIndex[event.item]].text + event.content = 0
  /\ UNCHANGED collectorVars
  /\ GenerateFails(view)

\* What the client has of the blocks that closeOpen stops.  Codex gets the
\* arguments of a call when it is stopped, "{}" if they are not valid JSON,
\* which the beginning of an object is not.
Cut ==
  [k \in Index |->
     IF k \in open
     THEN [state |-> "closed",
           text  |-> IF client = "responses" /\ Tool(blocks[k].item) THEN 0
                     ELSE view[k].text]
     ELSE view[k]]

HandleTerminal ==
  /\ Handles("terminal")
  /\ open' = {}
  /\ terminal' = TRUE
  /\ stopReason' = IF status = "incomplete" THEN "max_tokens" ELSE stopReason
  /\ UNCHANGED <<blocks, itemIndex>>
  /\ IF status \in {"completed", "incomplete"}
     THEN /\ Handled
          /\ IF open = {} THEN UNCHANGED clientVars ELSE Emit(Cut)
     ELSE /\ open # {} => ~EmitFails
          /\ GenerateFails(Cut)

HandlePing ==
  /\ Handles("ping")
  /\ Handled
  /\ UNCHANGED <<collectorVars, clientVars>>

\* emit returns the error of the client's context
EmitRefused ==
  /\ pc = "handle"
  /\ EmitFails
  /\ \/ event.type = "added" /\ (Tool(event.item) \/ event.signed)
     \/ event.type = "delta" /\ (kind[event.item] = "read" => Repairable(IndexOf(event.item)))
     \/ event.type = "done" /\ (itemIndex[event.item] # 0 \/
           (kind[event.item] = "reasoning" /\ (event.signed \/ event.content > 0)))
     \/ event.type = "terminal" /\ open # {}
  /\ UNCHANGED collectorVars
  /\ GenerateFails(view)

Handle ==
  \/ HandleAdded \/ HandleDelta \/ HandleReadDelta \/ RepairRead
  \/ HandleDoneNew \/ HandleDone \/ RejectDone
  \/ HandleTerminal \/ HandlePing \/ EmitRefused

\* Read has failed: by the idle timeout, or not
CheckCause ==
  /\ pc = "check"
  /\ UNCHANGED collectorVars
  /\ IF timedOut \/ cause = "error"
     THEN GenerateFails(view)
     ELSE /\ pc' = "finalize"
          /\ UNCHANGED <<upVars, event, cause, timerVars, cancelled, clientVars>>

\* bug: the end of the body ends the response
Complete_AtEof == open = {}

Complete == terminal /\ open = {}

Finalize ==
  /\ pc = "finalize"
  /\ IF Complete THEN GenerateSucceeds ELSE GenerateFails(view)
  /\ UNCHANGED collectorVars

\* the client closes its request, which cancels the upstream request
Leave ==
  /\ pc # "end" /\ ~gone
  /\ gone' = TRUE
  /\ cancelled' = TRUE
  /\ UNCHANGED <<upVars, pc, event, cause, timerVars, collectorVars, client, msg, view>>
----------------------------------------------------------------------------
Send ==
  \/ \E i \in Item : SendAdded(i) \/ SendDelta(i) \/ SendDone(i)
  \/ SendTerminal \/ SendPing

Next ==
  \/ Send \/ ReadFails \/ Leave
  \/ Fire \/ Expire \/ ExpireStale
  \/ Reset \/ Handle \/ CheckCause \/ Finalize

Spec == Init /\ [][Next]_vars

(***************************************************************************)
(* The goroutine and the timer go on; a cancelled request ends its Read.   *)
(* The upstream may fall silent, and the client may stay.                  *)
(***************************************************************************)
FairSpec ==
  /\ Spec
  /\ WF_vars(Reset \/ Handle \/ CheckCause \/ Finalize)
  /\ WF_vars(ReadFails /\ cancelled)
  /\ WF_vars(Fire) /\ WF_vars(Expire)
----------------------------------------------------------------------------
(* Properties                                                              *)

\* Codex sees the arguments of a call when it is stopped
Seen(k) ==
  IF client = "responses" /\ view[k].state = "open" /\ Tool(blocks[k].item) THEN 0
  ELSE view[k].text

Stream == INSTANCE BlockStream WITH
  MaxBlock <- Cardinality(Item),
  block <- [k \in Index |-> view[k].state],
  text <- [k \in Index |-> Seen(k)],
  end <- IF msg = "ended" THEN "ok" ELSE IF msg = "error" THEN "error" ELSE "no"

\* Both gateway encoders show the client a well-formed stream of blocks,
\* whatever the upstream interleaves (stream.go:60-286).
ImplementsBlockStream == Stream!StreamSpec

BlocksOf(i) == {k \in 1..Len(blocks) : blocks[k].item = i}

\* A successful turn shows every finished item, and all text of a cut one,
\* exactly once, and the Result agrees with it: no delta is lost, repeated or
\* put in another item's block (stream.go:114-233).
ShownIsSent ==
  msg = "ended" =>
    \A i \in Item :
      sent[i] > 0 /\ (phase[i] = "done" \/ ~Tool(i)) =>
        \E k \in Index :
          /\ BlocksOf(i) = {k}
          /\ view[k].text = sent[i]
          /\ (IF Tool(i) THEN blocks[k].input ELSE blocks[k].text) = sent[i]

\* "Treating a clean TCP EOF as a successful model turn can replay a partially
\* emitted tool call" (stream.go:371-373): a turn succeeds only after a terminal
\* event, or with one repaired Read and nothing else unfinished.
SuccessIsTerminal ==
  msg = "ended" =>
    \/ status \in {"completed", "incomplete"}
    \/ \E k \in 1..Len(blocks) :
         /\ kind[blocks[k].item] = "read"
         /\ blocks[k].input = sent[blocks[k].item]
         /\ \A j \in 1..Len(blocks) : j # k => phase[blocks[j].item] = "done"

\* A stream is timed out only when nothing has come for the whole timeout: a
\* callback that has waited while bytes came does nothing (timeout.go:58-78).
TimeoutIsIdle == [][timedOut' # timedOut => quiet]_vars

\* Every turn ends, "so a half-open connection cannot occupy a Claude turn
\* forever" (timeout.go:13-15).
TurnEnds == <>(pc = "end")

\* "They reject truncated streams and invalid tool arguments instead of
\* returning partial success" (src/README.md:211-213): in a turn that succeeds
\* though its token limit cut the response, no call is completed for Codex that
\* the upstream has not finished.
NoPartialCall ==
  msg = "ended" /\ client = "responses" /\ status = "incomplete" =>
    \A k \in 1..Len(blocks) :
      kind[blocks[k].item] = "call" /\ view[k].state = "closed" =>
        phase[blocks[k].item] = "done"
=============================================================================
