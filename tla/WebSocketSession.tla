---------------------------- MODULE WebSocketSession ----------------------------
(***************************************************************************)
(* One websocket session: the gin goroutine runs OnOpen and then read,     *)
(* which passes messages through msgQueue to the goroutine that runs       *)
(* serve; any goroutine that has the Session may close it, also the        *)
(* callbacks of the service.  handler.close is guarded by a sync.Once, and *)
(* each of its four calls is a step.                                       *)
(***************************************************************************)
EXTENDS Naturals, Sequences

CONSTANTS
    Reader, Server,   \* the goroutines of read and of serve
    Apps,             \* other goroutines that close the session
    QueueSize,        \* MsgQueueSize
    MaxMsgs           \* bound: messages of the peer

ASSUME WebSocketAssumption ==
    /\ Reader # Server /\ {Reader, Server} \cap Apps = {}
    /\ QueueSize \in Nat \ {0} /\ MaxMsgs \in Nat

VARIABLES
    pc,         \* place of each goroutine
    stage,      \* how far it is in handler.close
    once,       \* closeOnce: "new", "running", "done"
    queue, queueClosed,   \* msgQueue
    canceled,   \* ctx
    connClosed, \* conn
    received,   \* messages of the peer so far; they are numbered
    handled,    \* history: the messages OnTextMessage or OnBinaryMessage got
    closes,     \* history: calls of OnClose
    panicked    \* history: read has sent on the closed queue

Routines == {Reader, Server} \cup Apps
closeVars == <<once, queueClosed, canceled, connClosed, closes>>
msgVars == <<queue, received, handled, panicked>>
vars == <<pc, stage, closeVars, msgVars>>

Init ==
    /\ pc = [r \in Routines |-> IF r = Reader THEN "onOpen" ELSE "idle"]
    /\ stage = [r \in Routines |-> "none"]
    /\ once = "new" /\ queueClosed = FALSE /\ canceled = FALSE /\ connClosed = FALSE
    /\ queue = <<>> /\ received = 0 /\ handled = <<>>
    /\ closes = 0 /\ panicked = FALSE

-------------------------------------------------------------------------------
Go(r, from, to) ==
    /\ pc[r] = from
    /\ stage[r] = "none"
    /\ pc' = [pc EXCEPT ![r] = to]
    /\ UNCHANGED stage

\* A call of handler.close from the place `to`.
CallClose(r, from, to) ==
    /\ pc[r] = from
    /\ stage[r] = "none"
    /\ pc' = [pc EXCEPT ![r] = to]
    /\ stage' = [stage EXCEPT ![r] = "once"]

(* handler.close *)

\* Where a goroutine goes on; the deferred calls of read and of the gin handler
\* are calls of close themselves.
AfterClose(place) ==
    CASE place = "openCloses"   -> "opened"
      [] place = "tooBig"       -> "readDefer"
      [] place = "readDefer"    -> "ginDefer"
      [] place = "handleCloses" -> "select"
      [] place = "openDefer"    -> "unopened"
      [] OTHER                  -> "ended"

CloseReturns(r) ==
    LET next == AfterClose(pc[r]) IN
    /\ pc' = [pc EXCEPT ![r] = next]
    /\ stage' = [stage EXCEPT ![r] = IF next \in {"readDefer", "ginDefer"} THEN "once" ELSE "none"]

\* Mutant: a flag that is set at the end in the place of the Once.
FlagSet == once = "done"

\* closeOnce.Do: the first one runs the function, the others wait until it has returned.
OnceEntered == once # "new"

CloseOnce(r) ==
    /\ stage[r] = "once"
    /\ IF OnceEntered
       THEN once = "done" /\ CloseReturns(r) /\ UNCHANGED once
       ELSE once' = "running" /\ stage' = [stage EXCEPT ![r] = "queue"] /\ UNCHANGED pc
    /\ UNCHANGED <<queueClosed, canceled, connClosed, closes, msgVars>>

CloseStep(r, from, to) ==
    /\ stage[r] = from
    /\ stage' = [stage EXCEPT ![r] = to]
    /\ UNCHANGED <<pc, once, msgVars>>

\* Mutant: msgQueue is left open.
CloseNoQueue(r) ==
    /\ CloseStep(r, "queue", "cancel")
    /\ UNCHANGED <<queueClosed, canceled, connClosed, closes>>

CloseQueue(r) ==
    /\ CloseStep(r, "queue", "cancel")
    /\ queueClosed' = TRUE
    /\ UNCHANGED <<canceled, connClosed, closes>>

CloseCancel(r) ==
    /\ CloseStep(r, "cancel", "conn")
    /\ canceled' = TRUE
    /\ UNCHANGED <<queueClosed, connClosed, closes>>

\* conn.Close returns, after the handshake with the peer or a timeout; then OnClose is called.
CloseConn(r) ==
    /\ CloseStep(r, "conn", "onClose")
    /\ connClosed' = TRUE
    /\ closes' = closes + 1
    /\ UNCHANGED <<queueClosed, canceled>>

OnCloseReturns(r) ==
    /\ stage[r] = "onClose"
    /\ once' = "done"
    /\ CloseReturns(r)
    /\ UNCHANGED <<queueClosed, canceled, connClosed, closes, msgVars>>

\* OnClose calls Session.Close: the Once waits for itself.
OnCloseCloses(r) ==
    /\ CloseStep(r, "onClose", "stuck")
    /\ UNCHANGED <<queueClosed, canceled, connClosed, closes>>

-------------------------------------------------------------------------------
(* The gin handler: OnOpen, then go serve, then read. *)

OpenCloses ==
    /\ CallClose(Reader, "onOpen", "openCloses")
    /\ UNCHANGED <<closeVars, msgVars>>

\* OnOpen panics: the deferred close of the gin handler runs, serve never starts.
OpenPanics ==
    /\ CallClose(Reader, "onOpen", "openDefer")
    /\ UNCHANGED <<closeVars, msgVars>>

OpenReturns ==
    /\ Go(Reader, "onOpen", "opened")
    /\ UNCHANGED <<closeVars, msgVars>>

\* Mutant: serve is not started.
StartReadOnly ==
    /\ Go(Reader, "opened", "check")
    /\ UNCHANGED <<closeVars, msgVars>>

Start ==
    /\ pc[Reader] = "opened"
    /\ pc' = [pc EXCEPT ![Reader] = "check", ![Server] = "select"]
    /\ UNCHANGED <<stage, closeVars, msgVars>>

ReadCheck ==
    /\ IF canceled THEN CallClose(Reader, "check", "readDefer") ELSE Go(Reader, "check", "read")
    /\ UNCHANGED <<closeVars, msgVars>>

ReadMessage ==
    /\ received < MaxMsgs
    /\ ~connClosed
    /\ Go(Reader, "read", "send")
    /\ received' = received + 1
    /\ UNCHANGED <<closeVars, queue, handled, panicked>>

\* More than MaxBodySize.
ReadTooBig ==
    /\ ~connClosed
    /\ CallClose(Reader, "read", "tooBig")
    /\ UNCHANGED <<closeVars, msgVars>>

ReadFails ==
    /\ CallClose(Reader, "read", "readDefer")
    /\ UNCHANGED <<closeVars, msgVars>>

\* The read ends at the latest when ctx is canceled or the connection closed.
ReadEnds == (canceled \/ connClosed) /\ ReadFails

\* Mutant: a full queue drops the message.
SendOrDrop ==
    /\ IF queueClosed THEN CallClose(Reader, "send", "readDefer") ELSE Go(Reader, "send", "check")
    /\ panicked' = queueClosed
    /\ queue' = IF queueClosed \/ Len(queue) = QueueSize THEN queue ELSE Append(queue, received)
    /\ UNCHANGED <<closeVars, received, handled>>

\* h.msgQueue <- msg waits for room; on a closed queue it panics, also while it waits.
Send ==
    /\ queueClosed \/ Len(queue) < QueueSize
    /\ IF queueClosed THEN CallClose(Reader, "send", "readDefer") ELSE Go(Reader, "send", "check")
    /\ panicked' = queueClosed
    /\ queue' = IF queueClosed THEN queue ELSE Append(queue, received)
    /\ UNCHANGED <<closeVars, received, handled>>

-------------------------------------------------------------------------------
(* serve: of the cases of its select that are ready any may be taken. *)

ServeMessage ==
    /\ queue # <<>>
    /\ Go(Server, "select", "handle")
    /\ handled' = Append(handled, Head(queue))
    /\ queue' = Tail(queue)
    /\ UNCHANGED <<closeVars, received, panicked>>

\* msgQueue is closed and empty, or ctx is done; RunSafe then runs its second function.
ServeEnds ==
    /\ canceled \/ (queueClosed /\ queue = <<>>)
    /\ CallClose(Server, "select", "serveDefer")
    /\ UNCHANGED <<closeVars, msgVars>>

HandleReturns ==
    /\ Go(Server, "handle", "select")
    /\ UNCHANGED <<closeVars, msgVars>>

HandleCloses ==
    /\ CallClose(Server, "handle", "handleCloses")
    /\ UNCHANGED <<closeVars, msgVars>>

\* RunSafe recovers.
HandlePanics ==
    /\ CallClose(Server, "handle", "serveDefer")
    /\ UNCHANGED <<closeVars, msgVars>>

\* Session.Close of another goroutine.
AppCloses(a) ==
    /\ CallClose(a, "idle", "close")
    /\ UNCHANGED <<closeVars, msgVars>>

-------------------------------------------------------------------------------
Closing(r) ==
    \/ CloseOnce(r) \/ CloseQueue(r) \/ CloseCancel(r) \/ CloseConn(r) \/ OnCloseReturns(r)

ReaderStep == OpenReturns \/ Start \/ ReadCheck \/ ReadEnds \/ Send
ServerStep == ServeMessage \/ ServeEnds \/ HandleReturns

Next ==
    \/ \E r \in Routines : Closing(r) \/ OnCloseCloses(r)
    \/ ReaderStep \/ OpenCloses \/ OpenPanics \/ ReadMessage \/ ReadTooBig \/ ReadFails
    \/ ServerStep \/ HandleCloses \/ HandlePanics
    \/ \E a \in Apps : AppCloses(a)

\* The goroutines are scheduled and the callbacks come back; the peer need not
\* send, and nobody has to close.
Fairness == WF_vars(ReaderStep) /\ WF_vars(ServerStep) /\ \A r \in Routines : WF_vars(Closing(r))

Spec == Init /\ [][Next]_vars /\ Fairness

-------------------------------------------------------------------------------
Final == {"ended", "unopened"}

TypeOK ==
    /\ pc \in [Routines -> {"idle", "onOpen", "openCloses", "opened", "check", "read", "send",
                            "tooBig", "readDefer", "ginDefer", "select", "handle",
                            "handleCloses", "serveDefer", "close", "openDefer"} \cup Final]
    /\ stage \in [Routines -> {"none", "once", "queue", "cancel", "conn", "onClose", "stuck"}]
    /\ once \in {"new", "running", "done"}
    /\ queue \in Seq(1..MaxMsgs) /\ Len(queue) <= QueueSize
    /\ received \in 0..MaxMsgs
    /\ handled \in Seq(1..MaxMsgs)
    /\ closes \in 0..1
    /\ {queueClosed, canceled, connClosed, panicked} \subseteq BOOLEAN

\* The service gets the messages in the order of the peer, none of them twice
\* and none left out, as long as read is not caught sending on the closed queue.
InOrder ==
    LET sending == IF pc[Reader] = "send" THEN <<received>> ELSE <<>> IN
    ~panicked => handled \o queue \o sending = [i \in 1..received |-> i]

\* However many goroutines close the session, OnClose is called once, and no
\* goroutine of the session ends before it has returned.
ClosedOnce ==
    /\ closes <= 1
    /\ \A r \in Routines : pc[r] \in Final => once = "done" /\ closes = 1 /\ connClosed

\* A session that is being closed ends, with both goroutines, even if read waits
\* for room in the queue: unless OnClose closes the session once more.  (If OnOpen
\* panics there is only one.)
Stuck == \E r \in Routines : stage[r] = "stuck"
SessionEnds ==
    once # "new" ~> Stuck \/ pc[Reader] = "unopened" \/ (pc[Reader] = "ended" /\ pc[Server] = "ended")

\* What the peer has sent is handled, or the session is closed.
Handles ==
    \A i \in 1..MaxMsgs : received >= i ~> Len(handled) >= i \/ once # "new"
===============================================================================
