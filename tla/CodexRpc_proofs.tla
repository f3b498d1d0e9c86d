---------------------------- MODULE CodexRpc_proofs ----------------------------
(***************************************************************************)
(* Theorems about CodexRpc for a queue of any capacity and any number of   *)
(* threads and notifications.  The argument: a server in use has one       *)
(* request at most that is not answered, and its user waits for that one;  *)
(* whoever gives up waiting closes the server.  The answer is in one place *)
(* at a time: still a request in the inbox, a line on its way, or in the   *)
(* waiter's channel.  The server sends nothing of a thread after the       *)
(* answer to its unsubscription, and lines stay in order, so that when the *)
(* user has that answer what is left of the thread is in the queue.        *)
(***************************************************************************)
EXTENDS CodexRpc, TLAPS

NoAnswer(s) == \A j \in 1..Len(s) : s[j].kind \notin Answer
NoNote(s) == \A j \in 1..Len(s) : s[j].kind \notin Note

Asked == [method |-> method, thread |-> thread, id |-> id]

\* the largest id of a request of the current thread
LastId ==
  CASE method = "initialize" -> 1
    [] method = "thread/start" -> 4 * thread - 2
    [] method = "turn/start" -> 4 * thread - 1
    [] method = "turn/interrupt" -> 4 * thread
    [] method = "thread/unsubscribe" -> 4 * thread + 1

\* where the user is with which request
UserInv ==
  /\ pc = "free" => method \in {"initialize", "thread/unsubscribe"}
  /\ pc \in {"loop", "parked"} => method = "turn/start"
  /\ pc = "drain" => method = "thread/unsubscribe"
  /\ method = "initialize" => thread = 0
  /\ id <= LastId

\* the reader, the waiter, and where the answer may be
AnswerInv ==
  pc # "closed" =>
    /\ NoAnswer(events)
    /\ eof => pipe = <<>> /\ ~running
    /\ pc \notin {"write", "wait"} => wait = {}
    /\ pc \in {"write", "wait"} => wait \subseteq {id} /\ (eof \/ wait = {id})
    /\ pc # "wait" => inbox = <<>> /\ NoAnswer(pipe)
    /\ pc = "write" => reply \notin Answer
    /\ pc = "wait" =>
         /\ inbox # <<>> => inbox = <<Asked>> /\ reply \notin Answer /\ NoAnswer(pipe)
         /\ \A j \in 1..Len(pipe) :
              pipe[j].kind \in Answer =>
                /\ pipe[j].id = id /\ reply \notin Answer
                /\ \A k \in 1..Len(pipe) : pipe[k].kind \in Answer => k = j

\* where nothing of a thread can be left
QuietInv ==
  pc # "closed" =>
    /\ pc \in {"free", "drain"} \/ method = "initialize" => subscribed = 0 /\ NoNote(pipe)
    /\ pc = "free" \/ method = "initialize" => NoNote(events)
    /\ pc = "wait" /\ method = "thread/unsubscribe" =>
         /\ inbox = <<>> => subscribed = 0
         /\ reply \in Answer => NoNote(pipe)
         /\ \A j, k \in 1..Len(pipe) : pipe[j].kind \in Answer /\ j < k => pipe[k].kind \notin Note

IInv == TypeOK /\ UserInv /\ AnswerInv /\ QuietInv

----------------------------------------------------------------------------
\* The rest of a sequence, and a longer one.
LEMMA TailPart ==
  ASSUME NEW S, NEW s \in Seq(S), s # <<>>
  PROVE  /\ Tail(s) \in Seq(S) /\ Len(Tail(s)) = Len(s) - 1 /\ Len(s) \in Nat /\ Len(s) > 0
         /\ Head(s) = s[1] /\ Head(s) \in S
         /\ \A j \in 1..Len(Tail(s)) : Tail(s)[j] = s[j + 1] /\ j + 1 \in 1..Len(s)
OBVIOUS

LEMMA AppendPart ==
  ASSUME NEW S, NEW s \in Seq(S), NEW e \in S
  PROVE  /\ Append(s, e) \in Seq(S) /\ Len(Append(s, e)) = Len(s) + 1 /\ Len(s) \in Nat
         /\ \A j \in 1..Len(s) : Append(s, e)[j] = s[j]
         /\ Append(s, e)[Len(s) + 1] = e
OBVIOUS

LEMMA TypeFacts ==
  ASSUME TypeOK
  PROVE  /\ events \in Seq(Envelope) /\ pipe \in Seq(Envelope) /\ Len(events) \in Nat /\ Len(pipe) \in Nat
         /\ id \in Nat /\ thread \in Nat /\ thread <= MaxThread /\ MaxThread \in Nat /\ Cap \in Nat
         /\ thread \in Thread
  BY RpcAssumption DEF TypeOK, Id, Thread

\* Four requests for each thread: the bound on the ids.
LEMMA FourEach ==
  ASSUME NEW a \in Nat, NEW t \in Nat, NEW m \in Nat, t <= m, a <= 4 * t + 1
  PROVE  a <= 4 * m + 1
<1>1. 4 * t <= 4 * m
  OBVIOUS
<1>2. 4 * t \in Nat /\ 4 * m \in Nat
  OBVIOUS
<1> QED
  BY <1>1, <1>2

\* The id of the next request is within the bound.
LEMMA NextId ==
  ASSUME TypeOK, id' = id + 1, thread' \in Thread, id' <= 4 * thread' + 1
  PROVE  id' \in Id
<1>1. id \in 1..(4 * MaxThread + 1) /\ MaxThread \in Nat /\ thread' \in 0..MaxThread
  BY RpcAssumption DEF TypeOK, Id, Thread
<1>2. id \in Nat /\ id >= 1 /\ thread' \in Nat /\ thread' <= MaxThread
  BY <1>1
<1>3. id' \in Nat /\ id' >= 1
  BY <1>2
<1>4. id' <= 4 * MaxThread + 1
  BY <1>1, <1>2, <1>3, FourEach
<1> QED
  BY <1>1, <1>3, <1>4 DEF Id

LEMMA InitInv == Init => IInv
<1> SUFFICES ASSUME Init PROVE IInv
  OBVIOUS
<1>1. TypeOK
  <2>1. 1 \in Id /\ 0 \in Thread /\ 0 \in 0..MaxNote /\ 0 <= Cap
    BY RpcAssumption DEF Id, Thread
  <2>2. /\ pc \in {"free", "register", "write", "wait", "loop", "parked", "drain", "closed"}
        /\ method \in Method /\ id \in Id /\ thread \in Thread /\ armed \in BOOLEAN /\ wait \in SUBSET Id
        /\ reply \in Answer \cup {"none", "closed"} /\ eof \in BOOLEAN
        /\ subscribed \in Thread /\ running \in BOOLEAN /\ notes \in 0..MaxNote
    BY <2>1 DEF Init, Method
  <2>3. /\ events \in Seq(Envelope) /\ Len(events) <= Cap /\ pipe \in Seq(Envelope)
        /\ inbox \in Seq([method : Method, thread : Thread, id : Id])
    BY <2>1 DEF Init
  <2> QED
    BY <2>2, <2>3 DEF TypeOK
<1> QED
  BY <1>1 DEF Init, IInv, UserInv, LastId, AnswerInv, QuietInv, NoAnswer, NoNote

\* A server that is given up is closed, and nothing more is claimed of it.
LEMMA ClosedInv ==
  ASSUME IInv, pc' = "closed", UNCHANGED <<method, id, thread>>, TypeOK'
  PROVE  IInv'
  BY DEF IInv, UserInv, LastId, AnswerInv, QuietInv

LEMMA DiscardInv ==
  ASSUME IInv, Discard
  PROVE  IInv'
<1>1. TypeOK'
  BY DEF Discard, IInv, TypeOK, serverVars
<1> QED
  BY <1>1, ClosedInv DEF Discard

----------------------------------------------------------------------------
(* The user of the server                                                  *)

LEMMA RegisterInv ==
  ASSUME IInv, Register
  PROVE  IInv'
<1>1. /\ pc = "register" /\ pc' = "write" /\ wait' = wait \cup {id} /\ reply' = "none"
      /\ UNCHANGED <<method, id, thread, armed, events, eof, pipe, inbox, subscribed, running, notes>>
  BY DEF Register, serverVars
<1>2. TypeOK'
  BY <1>1 DEF IInv, TypeOK
<1>3. UserInv'
  BY <1>1 DEF IInv, UserInv, LastId
<1>4. AnswerInv'
  BY <1>1 DEF IInv, AnswerInv, NoAnswer, Answer
<1>5. QuietInv'
  BY <1>1 DEF IInv, QuietInv, NoNote
<1> QED
  BY <1>2, <1>3, <1>4, <1>5 DEF IInv

LEMMA WriteInv ==
  ASSUME IInv, Write
  PROVE  IInv'
<1>1. /\ pc = "write" /\ running /\ pc' = "wait" /\ inbox' = Append(inbox, Asked)
      /\ UNCHANGED <<method, id, thread, armed, wait, reply, events, eof, pipe, subscribed, running, notes>>
  BY DEF Write, Asked
<1>2. inbox = <<>> /\ NoAnswer(pipe) /\ reply \notin Answer /\ NoAnswer(events)
      /\ ~eof /\ wait = {id}
  BY <1>1 DEF IInv, AnswerInv
<1>3. inbox' = <<Asked>> /\ Asked' = Asked
  BY <1>1, <1>2 DEF Asked
<1>4. TypeOK'
  <2>1. Asked \in [method : Method, thread : Thread, id : Id]
    BY DEF Asked, IInv, TypeOK
  <2>2. inbox' \in Seq([method : Method, thread : Thread, id : Id])
    BY <2>1, <1>3
  <2> QED
    BY <1>1, <2>2 DEF IInv, TypeOK
<1>5. UserInv'
  BY <1>1 DEF IInv, UserInv, LastId
<1>6. AnswerInv'
  BY <1>1, <1>2, <1>3 DEF AnswerInv, NoAnswer
<1>7. QuietInv'
  BY <1>1, <1>2, <1>3 DEF IInv, QuietInv, NoNote, NoAnswer
<1> QED
  BY <1>4, <1>5, <1>6, <1>7 DEF IInv

LEMMA AnsweredInv ==
  ASSUME IInv, Answered
  PROVE  IInv'
<1>1. /\ pc = "wait" /\ reply = "result" /\ Continue /\ wait' = wait \ {id}
      /\ UNCHANGED <<thread, armed, reply, events, eof, pipe, inbox, subscribed, running, notes>>
  BY DEF Answered, serverVars
<1>2. /\ inbox = <<>> /\ NoAnswer(pipe) /\ NoAnswer(events) /\ (eof => pipe = <<>> /\ ~running)
      /\ wait' = {}
  BY <1>1 DEF IInv, AnswerInv, NoAnswer, Answer
<1>3. /\ method = "initialize" => pc' = "free" /\ method' = method /\ id' = id
      /\ method = "thread/start" => pc' = "register" /\ method' = "turn/start" /\ id' = id + 1
      /\ method = "turn/start" => pc' = "loop" /\ method' = method /\ id' = id
      /\ method = "turn/interrupt" => pc' = "register" /\ method' = "thread/unsubscribe" /\ id' = id + 1
      /\ method = "thread/unsubscribe" => pc' = "drain" /\ method' = method /\ id' = id
  BY <1>1 DEF Continue, Request
<1>4. method \in Method /\ method' \in Method /\ pc' \in {"free", "register", "loop", "drain"}
  BY <1>3 DEF IInv, TypeOK, Method
<1>5. UserInv'
  <2>1. id \in Nat /\ thread \in Nat
    BY TypeFacts DEF IInv
  <2> QED
    BY <2>1, <1>1, <1>3, <1>4 DEF IInv, UserInv, LastId, Method
<1>6. TypeOK'
  <2>1. id' \in Id
    <3>1. CASE id' = id
      BY <3>1 DEF IInv, TypeOK
    <3>2. CASE id' = id + 1
      <4>1. thread \in Nat /\ id \in Nat /\ thread' = thread /\ thread' \in Thread
        BY TypeFacts, <1>1 DEF IInv
      <4>2. id' <= 4 * thread' + 1
        BY <4>1, <3>2, <1>3, <1>4 DEF IInv, UserInv, LastId, Method
      <4> QED
        BY <3>2, <4>1, <4>2, NextId DEF IInv
    <3> QED
      BY <3>1, <3>2, <1>3, <1>4 DEF Method
  <2> QED
    BY <2>1, <1>1, <1>2, <1>4 DEF IInv, TypeOK
<1>7. AnswerInv'
  BY <1>1, <1>2, <1>4 DEF AnswerInv, NoAnswer
<1>8. QuietInv'
  <2>1. CASE method = "initialize"
    BY <2>1, <1>1, <1>3 DEF IInv, QuietInv, NoNote
  <2>2. CASE method = "thread/unsubscribe"
    BY <2>2, <1>1, <1>2, <1>3 DEF IInv, QuietInv, NoNote, Answer
  <2>3. CASE method \notin {"initialize", "thread/unsubscribe"}
    BY <2>3, <1>3, <1>4 DEF QuietInv, Method
  <2> QED
    BY <2>1, <2>2, <2>3
<1> QED
  BY <1>5, <1>6, <1>7, <1>8 DEF IInv

\* A server in use that no request waits for begins the next one, or goes on.
LEMMA UserGoesOn ==
  ASSUME IInv, TypeOK', UserInv',
         pc \in {"free", "loop", "parked"}, pc' \in {"loop", "parked", "register"},
         method' # "initialize",
         UNCHANGED <<wait, reply, eof, pipe, serverVars>>,
         NoAnswer(events)'
  PROVE  IInv'
<1>1. AnswerInv'
  BY DEF IInv, AnswerInv, NoAnswer, serverVars
<1>2. QuietInv'
  BY DEF QuietInv
<1> QED
  BY <1>1, <1>2 DEF IInv

LEMMA LeaseInv ==
  ASSUME IInv, Lease
  PROVE  IInv'
<1>1. /\ pc = "free" /\ thread < MaxThread /\ thread' = thread + 1 /\ armed' = FALSE
      /\ pc' = "register" /\ method' = "thread/start" /\ id' = id + 1
      /\ UNCHANGED <<wait, reply, events, eof, pipe, serverVars>>
  BY DEF Lease, Request
<1>2. thread \in Nat /\ id \in Nat /\ MaxThread \in Nat
  BY TypeFacts DEF IInv
<1>3. id <= 4 * thread + 1
  BY <1>1, <1>2 DEF IInv, UserInv, LastId
<1>4. thread' \in Thread /\ id' <= 4 * thread' - 2
  BY <1>1, <1>2, <1>3 DEF Thread
<1>5. id' \in Id
  <2>1. id' <= 4 * thread' + 1
    BY <1>1, <1>2, <1>4
  <2> QED
    BY <2>1, <1>1, <1>4, NextId DEF IInv
<1>6. TypeOK'
  BY <1>1, <1>4, <1>5 DEF IInv, TypeOK, Method, serverVars
<1>7. UserInv'
  BY <1>1, <1>4 DEF UserInv, LastId
<1>8. NoAnswer(events)'
  BY <1>1 DEF IInv, AnswerInv, NoAnswer
<1> QED
  BY <1>1, <1>6, <1>7, <1>8, UserGoesOn

\* From the event loop the user asks for the end of the turn.
LEMMA QuiesceInv ==
  ASSUME IInv, NEW m \in {"turn/interrupt", "thread/unsubscribe"}, pc = "loop", Request(m),
         UNCHANGED <<thread, armed, wait, reply, eof, pipe, serverVars>>,
         events' \in Seq(Envelope), Len(events') <= Cap, NoAnswer(events)'
  PROVE  IInv'
<1>1. pc' = "register" /\ method' = m /\ id' = id + 1 /\ method = "turn/start"
  BY DEF Request, IInv, UserInv
<1>2. thread \in Nat /\ id \in Nat /\ thread' = thread /\ thread' \in Thread
  BY TypeFacts DEF IInv
<1>3. id <= 4 * thread - 1
  BY <1>1 DEF IInv, UserInv, LastId
<1>4. id' <= 4 * thread' /\ id' <= 4 * thread' + 1
  BY <1>1, <1>2, <1>3
<1>5. id' \in Id
  BY <1>1, <1>2, <1>4, NextId DEF IInv
<1>6. TypeOK'
  BY <1>1, <1>5 DEF IInv, TypeOK, Method, serverVars
<1>7. UserInv'
  BY <1>1, <1>4 DEF UserInv, LastId
<1>8. method' # "initialize"
  BY <1>1
<1> QED
  BY <1>1, <1>6, <1>7, <1>8, UserGoesOn

LEMMA ReceiveInv ==
  ASSUME IInv, Receive
  PROVE  IInv'
<1>1. /\ pc = "loop" /\ events # <<>> /\ events' = Tail(events)
      /\ UNCHANGED <<thread, wait, reply, eof, pipe, serverVars>>
  BY DEF Receive
<1>2. events' \in Seq(Envelope) /\ Len(events') <= Cap /\ armed \in BOOLEAN
  <2>1. events \in Seq(Envelope) /\ Len(events) <= Cap /\ Cap \in Nat /\ armed \in BOOLEAN
    BY TypeFacts DEF IInv, TypeOK
  <2> QED
    BY <2>1, <1>1, TailPart
<1>3. NoAnswer(events)'
  <2>1. NoAnswer(events)
    BY <1>1 DEF IInv, AnswerInv
  <2>2. \A j \in 1..Len(Tail(events)) : Tail(events)[j] = events[j + 1] /\ j + 1 \in 1..Len(events)
    BY <1>1, TypeFacts, TailPart DEF IInv
  <2> QED
    BY <2>1, <2>2, <1>1 DEF NoAnswer
<1>4. method = "turn/start"
  BY <1>1 DEF IInv, UserInv
<1>5. CASE pc' \in {"loop", "closed"} /\ UNCHANGED <<method, id>> /\ armed' \in BOOLEAN
  <2>1. TypeOK'
    BY <1>1, <1>2, <1>5 DEF IInv, TypeOK, serverVars
  <2>2. UserInv'
    BY <1>1, <1>4, <1>5 DEF IInv, UserInv, LastId
  <2>3. CASE pc' = "loop"
    BY <2>1, <2>2, <2>3, <1>1, <1>3, <1>4, <1>5, UserGoesOn
  <2>4. CASE pc' = "closed"
    BY <2>1, <2>4, <1>1, <1>5, ClosedInv
  <2> QED
    BY <2>3, <2>4, <1>5
<1>6. CASE Request("thread/unsubscribe") /\ UNCHANGED armed
  BY <1>1, <1>2, <1>3, <1>6, QuiesceInv
<1> QED
  <2>1. armed \in BOOLEAN
    BY <1>2
  <2> QED
    BY <2>1, <1>1, <1>5, <1>6 DEF Receive, Quiesce

LEMMA LoopInv ==
  ASSUME IInv, ToolTimer \/ Park \/ Resume
  PROVE  IInv'
<1>1. NoAnswer(events)' /\ events' = events /\ events \in Seq(Envelope) /\ Len(events) <= Cap
  <2>1. pc \in {"loop", "parked"} /\ events' = events
    BY DEF ToolTimer, Park, Resume
  <2> QED
    BY <2>1 DEF IInv, TypeOK, AnswerInv, NoAnswer
<1>2. CASE ToolTimer
  BY <1>1, <1>2, QuiesceInv DEF ToolTimer, Quiesce
<1>3. CASE Park \/ Resume
  <2>1. /\ pc \in {"loop", "parked"} /\ pc' \in {"loop", "parked"} /\ armed' \in BOOLEAN
        /\ UNCHANGED <<method, id, thread, wait, reply, events, eof, pipe, serverVars>>
    BY <1>3 DEF Park, Resume, IInv, TypeOK
  <2>2. TypeOK'
    BY <2>1 DEF IInv, TypeOK, serverVars
  <2>3. UserInv' /\ method' # "initialize"
    BY <2>1 DEF IInv, UserInv, LastId
  <2> QED
    BY <2>1, <2>2, <2>3, <1>1, UserGoesOn
<1> QED
  BY <1>2, <1>3

LEMMA DrainInv ==
  ASSUME IInv, Drain
  PROVE  IInv'
<1>1. pc = "drain" /\ UNCHANGED <<method, id, thread, armed, wait, reply, eof, pipe, serverVars>>
  BY DEF Drain
<1>2. CASE events # <<>>
  <2>1. events' = Tail(events) /\ pc' \in {"closed", "drain"}
    BY <1>2 DEF Drain
  <2>2. events \in Seq(Envelope) /\ Len(events) <= Cap /\ Cap \in Nat
    BY TypeFacts DEF IInv, TypeOK
  <2>3. events' \in Seq(Envelope) /\ Len(events') <= Cap
        /\ \A j \in 1..Len(events') : events'[j] = events[j + 1] /\ j + 1 \in 1..Len(events)
    BY <2>1, <2>2, <1>2, TailPart
  <2>4. TypeOK'
    BY <2>1, <2>3, <1>1 DEF IInv, TypeOK, serverVars
  <2>5. UserInv'
    BY <2>1, <1>1 DEF IInv, UserInv, LastId
  <2>6. AnswerInv'
    BY <2>1, <2>3, <1>1 DEF IInv, AnswerInv, NoAnswer, serverVars
  <2>7. QuietInv'
    BY <2>1, <1>1 DEF IInv, QuietInv, NoNote, UserInv, serverVars
  <2> QED
    BY <2>4, <2>5, <2>6, <2>7 DEF IInv
<1>3. CASE events = <<>>
  <2>1. events' = events /\ pc' \in {"closed", "free"}
    BY <1>3 DEF Drain
  <2>2. TypeOK'
    BY <2>1, <1>1 DEF IInv, TypeOK, serverVars
  <2>3. UserInv'
    BY <2>1, <1>1 DEF IInv, UserInv, LastId
  <2>4. AnswerInv'
    BY <2>1, <1>1 DEF IInv, AnswerInv, NoAnswer, serverVars
  <2>5. QuietInv'
    BY <2>1, <1>1, <1>3 DEF IInv, QuietInv, NoNote, UserInv, serverVars
  <2> QED
    BY <2>2, <2>3, <2>4, <2>5 DEF IInv
<1> QED
  BY <1>2, <1>3

----------------------------------------------------------------------------
(* The reader                                                              *)

\* An answer on its way is the one the user waits for.
LEMMA AnswerOnItsWay ==
  ASSUME IInv, Open, pipe # <<>>, Head(pipe).kind \in Answer
  PROVE  /\ pc = "wait" /\ ~eof /\ wait = {id} /\ Head(pipe).id = id
         /\ inbox = <<>> /\ reply \notin Answer
         /\ \A k \in 1..Len(pipe) : pipe[k].kind \in Answer => k = 1
<1>1. Head(pipe) = pipe[1] /\ 1 \in 1..Len(pipe)
  BY TypeFacts, TailPart DEF IInv
<1>2. ~NoAnswer(pipe)
  BY <1>1 DEF NoAnswer
<1>3. pc = "wait" /\ ~eof
  BY <1>2 DEF IInv, AnswerInv, Open
<1> QED
  BY <1>1, <1>2, <1>3 DEF IInv, AnswerInv, Open

LEMMA ToWaiterInv ==
  ASSUME IInv, ToWaiter
  PROVE  IInv'
<1>1. /\ Open /\ pipe # <<>> /\ Head(pipe).kind \in Answer /\ reply' = Head(pipe).kind
      /\ pipe' = Tail(pipe) /\ UNCHANGED <<userVars, wait, events, eof, serverVars>>
  BY DEF ToWaiter, ForWaiter
<1>2. /\ pc = "wait" /\ ~eof /\ wait = {id} /\ inbox = <<>>
      /\ \A k \in 1..Len(pipe) : pipe[k].kind \in Answer => k = 1
  BY <1>1, AnswerOnItsWay
<1>3. /\ pipe' \in Seq(Envelope) /\ Len(pipe) \in Nat /\ Head(pipe) = pipe[1] /\ 1 \in 1..Len(pipe)
      /\ \A j \in 1..Len(pipe') : pipe'[j] = pipe[j + 1] /\ j + 1 \in 1..Len(pipe)
  BY <1>1, TypeFacts, TailPart DEF IInv
<1>4. NoAnswer(pipe')
  BY <1>2, <1>3 DEF NoAnswer
<1>5. NoNote(pipe) => NoNote(pipe')
  BY <1>3 DEF NoNote
<1>6. TypeOK' /\ UserInv'
  BY <1>1, <1>3 DEF IInv, TypeOK, UserInv, LastId, userVars, serverVars
<1>7. AnswerInv'
  <2>1. pc' = "wait" /\ eof' = eof /\ wait' = wait /\ id' = id /\ events' = events /\ inbox' = <<>>
    BY <1>1, <1>2 DEF userVars, serverVars
  <2>2. NoAnswer(events)
    BY <1>2 DEF IInv, AnswerInv
  <2> QED
    BY <2>1, <2>2, <1>2, <1>4 DEF AnswerInv, NoAnswer
<1>8. QuietInv'
  <2>1. pc' = "wait" /\ method' = method /\ events' = events /\ inbox' = inbox /\ subscribed' = subscribed
    BY <1>1, <1>2 DEF userVars, serverVars
  <2>2. CASE method = "initialize"
    BY <2>1, <2>2, <1>2, <1>5 DEF IInv, QuietInv, NoNote
  <2>3. CASE method = "thread/unsubscribe"
    <3>1. subscribed = 0 /\ \A k \in 1..Len(pipe) : 1 < k => pipe[k].kind \notin Note
      BY <2>3, <1>1, <1>2, <1>3 DEF IInv, QuietInv
    <3>2. NoNote(pipe')
      BY <3>1, <1>3 DEF NoNote
    <3> QED
      BY <2>1, <2>3, <3>1, <3>2 DEF QuietInv, NoNote
  <2>4. CASE method \notin {"initialize", "thread/unsubscribe"}
    BY <2>1, <2>4 DEF QuietInv
  <2> QED
    BY <2>2, <2>3, <2>4
<1> QED
  BY <1>6, <1>7, <1>8 DEF IInv

LEMMA ToEventsInv ==
  ASSUME IInv, ToEvents
  PROVE  IInv'
<1>1. /\ Open /\ pipe # <<>> /\ ~ForWaiter(Head(pipe)) /\ Len(events) < Cap
      /\ events' = Append(events, Head(pipe)) /\ pipe' = Tail(pipe)
      /\ UNCHANGED <<userVars, wait, reply, eof, serverVars>>
  BY DEF ToEvents, Room
<1>2. /\ pipe' \in Seq(Envelope) /\ Len(pipe) \in Nat /\ Head(pipe) = pipe[1] /\ 1 \in 1..Len(pipe)
      /\ Head(pipe) \in Envelope
      /\ \A j \in 1..Len(pipe') : pipe'[j] = pipe[j + 1] /\ j + 1 \in 1..Len(pipe)
  BY <1>1, TypeFacts, TailPart DEF IInv
<1>3. /\ events' \in Seq(Envelope) /\ Len(events') = Len(events) + 1 /\ Len(events) \in Nat
      /\ \A j \in 1..Len(events) : events'[j] = events[j]
      /\ events'[Len(events) + 1] = Head(pipe)
  BY <1>1, <1>2, TypeFacts, AppendPart DEF IInv
<1>4. Head(pipe).kind \notin Answer
  BY <1>1, AnswerOnItsWay DEF ForWaiter
<1>5. \A j \in 1..Len(events') : j \in 1..Len(events) \/ j = Len(events) + 1
  BY <1>3
<1>6. NoAnswer(events) => NoAnswer(events')
  BY <1>3, <1>4, <1>5 DEF NoAnswer
<1>7. (NoAnswer(pipe) => NoAnswer(pipe')) /\ (NoNote(pipe) => NoNote(pipe'))
  BY <1>2 DEF NoAnswer, NoNote
<1>8. NoNote(pipe) /\ NoNote(events) => NoNote(events')
  BY <1>2, <1>3, <1>5 DEF NoNote
<1>9. TypeOK' /\ UserInv'
  <2>1. Len(events') <= Cap
    BY <1>1, <1>3, TypeFacts DEF IInv
  <2> QED
    BY <2>1, <1>1, <1>2, <1>3 DEF IInv, TypeOK, UserInv, LastId, userVars, serverVars
<1>10. UNCHANGED <<pc, method, id, thread, wait, reply, eof, inbox, subscribed, running, Asked>>
  BY <1>1 DEF userVars, serverVars, Asked
<1>11. pc # "closed" /\ ~eof
  BY <1>1 DEF Open, IInv, AnswerInv
<1>12. AnswerInv'
  <2>1. ASSUME pc = "wait"
        PROVE  \A j \in 1..Len(pipe') :
                 pipe'[j].kind \in Answer =>
                   /\ pipe'[j].id = id /\ reply \notin Answer
                   /\ \A k \in 1..Len(pipe') : pipe'[k].kind \in Answer => k = j
    <3>1. \A j \in 1..Len(pipe) :
                 pipe[j].kind \in Answer =>
                   /\ pipe[j].id = id /\ reply \notin Answer
                   /\ \A k \in 1..Len(pipe) : pipe[k].kind \in Answer => k = j
      BY <2>1 DEF IInv, AnswerInv
    <3>2. SUFFICES ASSUME NEW j \in 1..Len(pipe'), pipe'[j].kind \in Answer
                   PROVE  /\ pipe'[j].id = id /\ reply \notin Answer
                          /\ \A k \in 1..Len(pipe') : pipe'[k].kind \in Answer => k = j
      OBVIOUS
    <3>3. pipe'[j] = pipe[j + 1] /\ j + 1 \in 1..Len(pipe) /\ j \in Int
      BY <1>2
    <3>4. /\ pipe[j + 1].id = id /\ reply \notin Answer
          /\ \A k \in 1..Len(pipe) : pipe[k].kind \in Answer => k = j + 1
      BY <3>1, <3>2, <3>3
    <3>5. ASSUME NEW k \in 1..Len(pipe'), pipe'[k].kind \in Answer
          PROVE  k = j
      <4>1. pipe'[k] = pipe[k + 1] /\ k + 1 \in 1..Len(pipe) /\ k \in Int
        BY <1>2
      <4>2. k + 1 = j + 1
        BY <4>1, <3>4, <3>5
      <4> QED
        BY <4>1, <4>2, <3>3
    <3> QED
      BY <3>3, <3>4, <3>5
  <2> QED
    BY <2>1, <1>6, <1>7, <1>10, <1>11 DEF IInv, AnswerInv, NoAnswer
<1>13. QuietInv'
  <2>1. ASSUME pc = "wait", method = "thread/unsubscribe"
        PROVE  \A j, k \in 1..Len(pipe') : pipe'[j].kind \in Answer /\ j < k => pipe'[k].kind \notin Note
    <3>1. \A j, k \in 1..Len(pipe) : pipe[j].kind \in Answer /\ j < k => pipe[k].kind \notin Note
      BY <2>1 DEF IInv, QuietInv
    <3> QED
      BY <3>1, <1>2
  <2> QED
    BY <2>1, <1>7, <1>8, <1>10, <1>11 DEF IInv, QuietInv, NoNote
<1> QED
  BY <1>9, <1>12, <1>13 DEF IInv

LEMMA ReaderEndsInv ==
  ASSUME IInv, ReaderEnds
  PROVE  IInv'
<1>1. /\ Open /\ ~running /\ pipe = <<>> /\ ~eof /\ eof' = TRUE
      /\ reply' = (IF wait # {} /\ reply = "none" THEN "closed" ELSE reply)
      /\ wait' = {} /\ UNCHANGED <<userVars, events, pipe, serverVars>>
  BY DEF ReaderEnds
<1>2. reply' \in Answer \cup {"none", "closed"} /\ (reply' \in Answer => reply \in Answer)
  BY <1>1 DEF IInv, TypeOK, Answer
<1>3. TypeOK' /\ UserInv'
  BY <1>1, <1>2 DEF IInv, TypeOK, UserInv, LastId, userVars, serverVars
<1>4. UNCHANGED <<pc, method, id, thread, events, pipe, inbox, subscribed, running, Asked>>
  BY <1>1 DEF userVars, serverVars, Asked
<1>5. NoAnswer(pipe) /\ NoNote(pipe)
  BY <1>1 DEF NoAnswer, NoNote
<1>6. AnswerInv'
  BY <1>1, <1>2, <1>4, <1>5 DEF IInv, AnswerInv, NoAnswer
<1>7. QuietInv'
  BY <1>1, <1>4, <1>5 DEF IInv, QuietInv, NoNote
<1> QED
  BY <1>3, <1>6, <1>7 DEF IInv

----------------------------------------------------------------------------
(* The server                                                              *)

LEMMA ServeInv ==
  ASSUME IInv, Serve
  PROVE  IInv'
<1>1. /\ Open /\ running /\ inbox # <<>> /\ inbox' = Tail(inbox)
      /\ subscribed' = (CASE Head(inbox).method = "thread/start" -> Head(inbox).thread
                          [] Head(inbox).method = "thread/unsubscribe" -> 0
                          [] OTHER -> subscribed)
      /\ UNCHANGED <<userVars, wait, reply, events, eof, running, notes>>
  BY DEF Serve
<1>2. /\ pc = "wait" /\ inbox = <<Asked>> /\ reply \notin Answer /\ NoAnswer(pipe) /\ NoAnswer(events)
      /\ ~eof /\ wait = {id}
  BY <1>1 DEF IInv, AnswerInv, Open
<1>3. Head(inbox) = Asked /\ inbox' = <<>>
  BY <1>1, <1>2
<1>4. PICK kind \in Answer : pipe' = Append(pipe, [kind |-> kind, thread |-> thread, id |-> id])
  BY <1>3 DEF Serve, Asked
<1>5. [kind |-> kind, thread |-> thread, id |-> id] \in Envelope
  BY DEF Envelope, IInv, TypeOK
<1>6. /\ pipe' \in Seq(Envelope) /\ Len(pipe') = Len(pipe) + 1 /\ Len(pipe) \in Nat
      /\ \A j \in 1..Len(pipe) : pipe'[j] = pipe[j]
      /\ pipe'[Len(pipe) + 1] = [kind |-> kind, thread |-> thread, id |-> id]
  BY <1>4, <1>5, TypeFacts, AppendPart DEF IInv
<1>7. \A j \in 1..Len(pipe') : j \in 1..Len(pipe) \/ j = Len(pipe) + 1
  BY <1>6
<1>8. \A j \in 1..Len(pipe') : pipe'[j].kind \in Answer => pipe'[j].id = id /\ j = Len(pipe) + 1
  BY <1>2, <1>6, <1>7 DEF NoAnswer
<1>9. NoNote(pipe) => NoNote(pipe')
  BY <1>6, <1>7 DEF NoNote, Note, Answer
<1>10. /\ subscribed' \in Thread
       /\ method = "initialize" => subscribed' = subscribed
       /\ method = "thread/unsubscribe" => subscribed' = 0
  BY <1>1, <1>3, RpcAssumption DEF Asked, IInv, TypeOK, Thread
<1>11. TypeOK' /\ UserInv'
  <2>1. inbox' \in Seq([method : Method, thread : Thread, id : Id])
    BY <1>3
  <2> QED
    BY <2>1, <1>1, <1>6, <1>10 DEF IInv, TypeOK, UserInv, LastId, userVars
<1>12. UNCHANGED <<pc, method, id, thread, wait, reply, eof, events, running>>
  BY <1>1 DEF userVars
<1>13. AnswerInv'
  BY <1>2, <1>3, <1>8, <1>12 DEF AnswerInv, NoAnswer
<1>14. QuietInv'
  <2>1. ASSUME NEW j \in 1..Len(pipe'), NEW k \in 1..Len(pipe'), pipe'[j].kind \in Answer, j < k
        PROVE  FALSE
    BY <2>1, <1>6, <1>8
  <2> QED
    BY <2>1, <1>2, <1>9, <1>10, <1>12 DEF IInv, QuietInv, NoNote
<1> QED
  BY <1>11, <1>13, <1>14 DEF IInv

LEMMA NotifyInv ==
  ASSUME IInv, Notify
  PROVE  IInv'
<1>1. /\ Open /\ running /\ notes < MaxNote /\ notes' = notes + 1
      /\ UNCHANGED <<userVars, wait, reply, events, eof, inbox, subscribed, running>>
  BY DEF Notify
<1>2. PICK line \in Envelope : /\ pipe' = Append(pipe, line)
                               /\ line.kind \notin Answer
                               /\ line.kind \in Note => subscribed # 0
  <2>1. ASSUME NEW kind \in {"global", "bad"}, pipe' = Append(pipe, [kind |-> kind, thread |-> 0, id |-> 0])
        PROVE  \E line \in Envelope : /\ pipe' = Append(pipe, line)
                                      /\ line.kind \notin Answer
                                      /\ line.kind \in Note => subscribed # 0
    <3> DEFINE l == [kind |-> kind, thread |-> 0, id |-> 0]
    <3>1. l \in Envelope /\ l.kind \notin Answer /\ l.kind \notin Note
      BY RpcAssumption DEF Envelope, Thread, Answer, Note
    <3> QED
      BY <2>1, <3>1
  <2>2. ASSUME NEW kind \in Note, subscribed # 0,
               pipe' = Append(pipe, [kind |-> kind, thread |-> subscribed, id |-> 0])
        PROVE  \E line \in Envelope : /\ pipe' = Append(pipe, line)
                                      /\ line.kind \notin Answer
                                      /\ line.kind \in Note => subscribed # 0
    <3> DEFINE l == [kind |-> kind, thread |-> subscribed, id |-> 0]
    <3>1. l \in Envelope /\ l.kind \notin Answer
      BY DEF Envelope, Answer, Note, IInv, TypeOK
    <3> QED
      BY <2>2, <3>1
  <2> QED
    BY <2>1, <2>2 DEF Notify
<1>3. /\ pipe' \in Seq(Envelope) /\ Len(pipe') = Len(pipe) + 1 /\ Len(pipe) \in Nat
      /\ \A j \in 1..Len(pipe) : pipe'[j] = pipe[j]
      /\ pipe'[Len(pipe) + 1] = line
  BY <1>2, TypeFacts, AppendPart DEF IInv
<1>4. \A j \in 1..Len(pipe') : j \in 1..Len(pipe) \/ j = Len(pipe) + 1
  BY <1>3
<1>5. \A j \in 1..Len(pipe') : pipe'[j].kind \in Answer => j \in 1..Len(pipe) /\ pipe'[j] = pipe[j]
  BY <1>2, <1>3, <1>4
<1>6. subscribed = 0 /\ NoNote(pipe) => NoNote(pipe')
  BY <1>2, <1>3, <1>4 DEF NoNote
<1>7. TypeOK' /\ UserInv'
  <2>1. notes' \in 0..MaxNote
    BY <1>1, RpcAssumption DEF IInv, TypeOK
  <2> QED
    BY <2>1, <1>1, <1>3 DEF IInv, TypeOK, UserInv, LastId, userVars
<1>8. UNCHANGED <<pc, method, id, thread, wait, reply, eof, events, inbox, subscribed, running, Asked>>
  BY <1>1 DEF userVars, Asked
<1>9. pc # "closed" /\ ~eof
  BY <1>1 DEF Open, IInv, AnswerInv
<1>10. NoAnswer(pipe) => NoAnswer(pipe')
  BY <1>5 DEF NoAnswer
<1>11. AnswerInv'
  <2>1. ASSUME pc = "wait"
        PROVE  \A j \in 1..Len(pipe') :
                 pipe'[j].kind \in Answer =>
                   /\ pipe'[j].id = id /\ reply \notin Answer
                   /\ \A k \in 1..Len(pipe') : pipe'[k].kind \in Answer => k = j
    <3>1. \A j \in 1..Len(pipe) :
                 pipe[j].kind \in Answer =>
                   /\ pipe[j].id = id /\ reply \notin Answer
                   /\ \A k \in 1..Len(pipe) : pipe[k].kind \in Answer => k = j
      BY <2>1 DEF IInv, AnswerInv
    <3> QED
      BY <3>1, <1>5
  <2> QED
    BY <2>1, <1>8, <1>9, <1>10 DEF IInv, AnswerInv, NoAnswer
<1>12. QuietInv'
  <2>1. ASSUME pc = "wait", method = "thread/unsubscribe"
        PROVE  /\ inbox = <<>> => subscribed = 0
               /\ reply \in Answer => NoNote(pipe')
               /\ \A j, k \in 1..Len(pipe') : pipe'[j].kind \in Answer /\ j < k => pipe'[k].kind \notin Note
    <3>1. CASE inbox = <<>>
      <4>1. /\ subscribed = 0
            /\ reply \in Answer => NoNote(pipe)
            /\ \A j, k \in 1..Len(pipe) : pipe[j].kind \in Answer /\ j < k => pipe[k].kind \notin Note
        BY <2>1, <3>1 DEF IInv, QuietInv
      <4>2. line.kind \notin Note
        BY <4>1, <1>2
      <4>3. \A j, k \in 1..Len(pipe') : pipe'[j].kind \in Answer /\ j < k => pipe'[k].kind \notin Note
        BY <4>1, <4>2, <1>3, <1>4, <1>5
      <4> QED
        BY <4>1, <4>3, <1>6
    <3>2. CASE inbox # <<>>
      <4>1. reply \notin Answer /\ NoAnswer(pipe)
        BY <2>1, <3>2 DEF IInv, AnswerInv
      <4> QED
        BY <4>1, <3>2, <1>10 DEF NoAnswer
    <3> QED
      BY <3>1, <3>2
  <2> QED
    BY <2>1, <1>6, <1>8, <1>9 DEF IInv, QuietInv, NoNote
<1> QED
  BY <1>7, <1>11, <1>12 DEF IInv

LEMMA DieInv ==
  ASSUME IInv, Die
  PROVE  IInv'
<1>1. running' = FALSE
      /\ UNCHANGED <<pc, method, id, thread, armed, wait, reply, events, eof, pipe, inbox, subscribed, notes>>
  BY DEF Die, userVars
<1>2. TypeOK'
  BY <1>1 DEF IInv, TypeOK
<1>3. UserInv'
  BY <1>1 DEF IInv, UserInv, LastId
<1>4. AnswerInv'
  BY <1>1 DEF IInv, AnswerInv, NoAnswer, Asked
<1>5. QuietInv'
  BY <1>1 DEF IInv, QuietInv, NoNote
<1> QED
  BY <1>2, <1>3, <1>4, <1>5 DEF IInv

LEMMA StutterInv ==
  ASSUME IInv, UNCHANGED vars
  PROVE  IInv'
<1>1. UNCHANGED <<pc, method, id, thread, armed, wait, reply, events, eof, pipe, inbox, subscribed,
                  running, notes>>
  BY DEF vars
<1>2. TypeOK'
  BY <1>1 DEF IInv, TypeOK
<1>3. UserInv'
  BY <1>1 DEF IInv, UserInv, LastId
<1>4. AnswerInv'
  BY <1>1 DEF IInv, AnswerInv, NoAnswer, Asked
<1>5. QuietInv'
  BY <1>1 DEF IInv, QuietInv, NoNote
<1> QED
  BY <1>2, <1>3, <1>4, <1>5 DEF IInv

LEMMA NextInv == IInv /\ [Next]_vars => IInv'
<1> SUFFICES ASSUME IInv, [Next]_vars PROVE IInv'
  OBVIOUS
<1>1. CASE WriteFails \/ Refused \/ GiveUp \/ Abort \/ Abandon
  BY <1>1, DiscardInv DEF WriteFails, Refused, GiveUp, Abort, Abandon
<1>2. CASE UNCHANGED vars
  BY <1>2, StutterInv
<1> QED
  BY <1>1, <1>2, RegisterInv, WriteInv, AnsweredInv, LeaseInv, ReceiveInv, LoopInv, DrainInv,
     ToWaiterInv, ToEventsInv, ReaderEndsInv, ServeInv, NotifyInv, DieInv DEF Next, Proceed, Read

----------------------------------------------------------------------------
(* Theorems                                                                *)

LEMMA Inductive == Spec => []IInv
<1>1. Init => IInv
  BY InitInv
<1>2. IInv /\ [Next]_vars => IInv'
  BY NextInv
<1> QED
  BY <1>1, <1>2, PTL DEF Spec

\* The variables of the client have their types; the queue of events is never
\* longer than its capacity.
THEOREM TypeCorrect == Spec => []TypeOK
<1>1. IInv => TypeOK
  BY DEF IInv
<1> QED
  BY <1>1, Inductive, PTL

\* What is not read yet.
LEMMA UnreadLines ==
  ASSUME TypeOK, NEW line \in Unread
  PROVE  (\E j \in 1..Len(events) : line = events[j]) \/ (\E j \in 1..Len(pipe) : line = pipe[j])
<1>1. DOMAIN events = 1..Len(events) /\ DOMAIN pipe = 1..Len(pipe)
  BY TypeFacts
<1> QED
  BY <1>1 DEF Unread, Range

\* A server that is free to be leased has nothing of an earlier thread to be
\* read, however the turns before have ended (pool.go:312-314).
THEOREM NothingLeftOver == Spec => []CleanStream
<1>1. IInv => CleanStream
  <2> SUFFICES ASSUME IInv, pc = "free", NEW line \in Unread PROVE line.kind \notin Note
    BY DEF CleanStream
  <2>1. NoNote(events) /\ NoNote(pipe)
    BY DEF IInv, QuietInv
  <2> QED
    BY <2>1, UnreadLines DEF NoNote, IInv
<1> QED
  BY <1>1, Inductive, PTL

\* No answer to a request is ever taken for an event of a turn: whoever gives up
\* a request gives up the server with it (codex.go:889-900).
THEOREM AnswersReachWaiters == Spec => []NoStrayAnswer
<1>1. IInv => NoStrayAnswer
  <2> SUFFICES ASSUME IInv, pc \in {"free", "loop", "parked"}, NEW line \in Unread PROVE line.kind \notin Answer
    BY DEF NoStrayAnswer
  <2>1. NoAnswer(events) /\ NoAnswer(pipe)
    BY DEF IInv, AnswerInv
  <2> QED
    BY <2>1, UnreadLines DEF NoAnswer, IInv
<1> QED
  BY <1>1, Inductive, PTL
----------------------------------------------------------------------------
(* No answer is lost.                                                      *)

\* While a request is waited for, its answer is in the waiter's channel, on its
\* way, or still to be written; when the reader has ended the channel says so.
PendingInv ==
  pc = "wait" =>
    /\ reply = "none" => inbox # <<>> \/ \E j \in 1..Len(pipe) : pipe[j].kind \in Answer
    /\ eof => reply # "none"

LEMMA PendingNext == IInv /\ PendingInv /\ [Next]_vars => PendingInv'
<1> SUFFICES ASSUME IInv, PendingInv, [Next]_vars, pc' = "wait" PROVE PendingInv'
  BY DEF PendingInv
<1> DEFINE OnItsWay == \E j \in 1..Len(pipe) : pipe[j].kind \in Answer
<1>0. pipe \in Seq(Envelope) /\ Len(pipe) \in Nat
  BY TypeFacts DEF IInv
<1>1. CASE Write
  <2>1. inbox' = Append(inbox, Asked) /\ running /\ eof' = eof /\ pc = "write"
    BY <1>1 DEF Write, Asked
  <2>2. inbox' # <<>> /\ ~eof'
    BY <2>1 DEF IInv, AnswerInv, TypeOK
  <2> QED
    BY <2>2 DEF PendingInv
<1>2. CASE pc = "wait" /\ (UNCHANGED vars \/ Die)
  <2>1. UNCHANGED <<pc, reply, inbox, pipe, eof>>
    BY <1>2 DEF vars, Die, userVars
  <2> QED
    BY <1>2, <2>1 DEF PendingInv
<1>3. CASE pc = "wait" /\ ToWaiter
  <2>1. reply' # "none"
    BY <1>3 DEF ToWaiter, ForWaiter, Answer
  <2> QED
    BY <2>1 DEF PendingInv
<1>4. CASE pc = "wait" /\ ToEvents
  <2>1. /\ pipe # <<>> /\ pipe' = Tail(pipe) /\ ~ForWaiter(Head(pipe))
        /\ UNCHANGED <<wait, reply, eof, inbox, pc>>
    BY <1>4 DEF ToEvents, userVars, serverVars
  <2>2. /\ Len(Tail(pipe)) = Len(pipe) - 1 /\ Head(pipe) = pipe[1] /\ Len(pipe) > 0
        /\ \A j \in 1..Len(Tail(pipe)) : Tail(pipe)[j] = pipe[j + 1] /\ j + 1 \in 1..Len(pipe)
    BY <1>0, <2>1, TailPart
  <2>3. wait = {id} /\ \A j \in 1..Len(pipe) : pipe[j].kind \in Answer => pipe[j].id = id
    BY <1>4, <2>1 DEF IInv, AnswerInv
  <2>4. pipe[1].kind \notin Answer
    BY <1>0, <2>1, <2>2, <2>3 DEF ForWaiter
  <2>5. ASSUME NEW j \in 1..Len(pipe), pipe[j].kind \in Answer
        PROVE  \E k \in 1..Len(pipe') : pipe'[k].kind \in Answer
    <3>1. j # 1 /\ j - 1 \in 1..Len(pipe')
      BY <1>0, <2>1, <2>2, <2>4, <2>5
    <3>2. pipe'[j - 1] = pipe[j]
      BY <1>0, <2>1, <2>2, <3>1
    <3> QED
      BY <2>5, <3>1, <3>2
  <2> QED
    BY <1>4, <2>1, <2>5 DEF PendingInv
<1>5. CASE pc = "wait" /\ ReaderEnds
  <2>1. wait = {id} /\ ~eof
    BY <1>5 DEF ReaderEnds, IInv, AnswerInv
  <2>2. reply' # "none"
    BY <1>5, <2>1 DEF ReaderEnds
  <2> QED
    BY <2>2 DEF PendingInv
<1>6. CASE pc = "wait" /\ (Serve \/ Notify)
  <2>1. PICK line \in Envelope :
          /\ pipe' = Append(pipe, line)
          /\ UNCHANGED <<reply, eof>>
          /\ inbox' = inbox \/ line.kind \in Answer
    <3>1. CASE Serve
      <4>1. inbox # <<>> /\ inbox \in Seq([method : Method, thread : Thread, id : Id])
        BY <3>1 DEF Serve, IInv, TypeOK
      <4>2. Head(inbox) \in [method : Method, thread : Thread, id : Id]
        BY <4>1, TailPart
      <4>3. Head(inbox).thread \in Thread /\ Head(inbox).id \in Id
        BY <4>2
      <4> QED
        BY <3>1, <4>3 DEF Serve, Envelope
    <3>2. CASE Notify
      <4>1. 0 \in Thread /\ subscribed \in Thread
        BY RpcAssumption DEF IInv, TypeOK, Thread
      <4> QED
        BY <3>2, <4>1 DEF Notify, Envelope, serverVars
    <3> QED
      BY <1>6, <3>1, <3>2
  <2>2. /\ Len(pipe') = Len(pipe) + 1 /\ pipe'[Len(pipe) + 1] = line
        /\ \A j \in 1..Len(pipe) : pipe'[j] = pipe[j]
    BY <1>0, <2>1, AppendPart
  <2>3. OnItsWay => OnItsWay'
    <3>1. \A j \in 1..Len(pipe) : j \in 1..Len(pipe')
      BY <1>0, <2>2
    <3> QED
      BY <2>2, <3>1
  <2>4. line.kind \in Answer => OnItsWay'
    <3>1. Len(pipe) + 1 \in 1..Len(pipe')
      BY <1>0, <2>2
    <3> QED
      BY <2>2, <3>1
  <2> QED
    BY <1>6, <2>1, <2>3, <2>4 DEF PendingInv
\* no other step begins to wait or leaves a request waiting
<1>7. CASE Proceed /\ ~Write
  <2>1. CASE Register \/ WriteFails \/ Refused \/ GiveUp \/ Abandon \/ Abort
    BY <2>1 DEF Register, WriteFails, Refused, GiveUp, Abandon, Abort, Discard
  <2>2. CASE Answered
    <3>1. Continue /\ method \in Method
      BY <2>2 DEF Answered, IInv, TypeOK
    <3>2. pc' \in {"free", "register", "loop", "drain"}
      BY <3>1 DEF Continue, Request, Method
    <3> QED
      BY <3>2
  <2>3. CASE Receive
    BY <2>3 DEF Receive, Quiesce, Request
  <2>4. CASE ToolTimer \/ Drain
    BY <2>4 DEF ToolTimer, Drain, Quiesce, Request
  <2> QED
    BY <1>7, <2>1, <2>2, <2>3, <2>4 DEF Proceed
<1>8. CASE Lease \/ GiveUp \/ Abort \/ Park \/ Resume
  BY <1>8 DEF Lease, Request, GiveUp, Abort, Park, Resume, Discard
<1>9. UNCHANGED vars \/ Die \/ Read \/ Serve \/ Notify => pc = "wait"
  BY DEF vars, Die, Read, ToWaiter, ToEvents, ReaderEnds, Serve, Notify, userVars
<1> QED
  BY <1>1, <1>2, <1>3, <1>4, <1>5, <1>6, <1>7, <1>8, <1>9 DEF Next, Read

\* the reader can take the next line
CanRead == pipe # <<>> /\ (ForWaiter(Head(pipe)) \/ Room)

\* the process has exited and the reader is about to say so
EndsNext == ~running /\ pipe = <<>> /\ ~eof

NoAnswerLost ==
  pc = "wait" =>
    reply # "none" \/ CanRead \/ EndsNext \/ (running /\ inbox # <<>>) \/ Len(events) = Cap

\* Whoever waits for an answer has it, or it is on its way and the reader can take
\* the next line, or the server owes it, or the reader is about to close the
\* channel: the full queue is the one way to wait for ever (codex.go:795-821,
\* codex.go:850-883).
THEOREM OnlyFullQueueWedges == Spec => []NoAnswerLost
<1>1. Init => PendingInv
  BY DEF Init, PendingInv
<1>2. IInv /\ PendingInv => NoAnswerLost
  <2> SUFFICES ASSUME IInv, PendingInv, pc = "wait", reply = "none", Len(events) # Cap
               PROVE  CanRead \/ EndsNext \/ (running /\ inbox # <<>>)
    BY DEF NoAnswerLost
  <2>1. CASE pipe # <<>>
    <3>1. Len(events) < Cap
      BY TypeFacts DEF IInv, TypeOK
    <3> QED
      BY <2>1, <3>1 DEF CanRead, Room
  <2>2. CASE pipe = <<>>
    <3>1. inbox # <<>> /\ ~eof
      BY <2>2 DEF PendingInv
    <3> QED
      BY <2>2, <3>1 DEF EndsNext, IInv, TypeOK
  <2> QED
    BY <2>1, <2>2
<1> QED
  BY <1>1, <1>2, PendingNext, Inductive, PTL DEF Spec
=============================================================================
