------------------------ MODULE WebSocketSessionProofs ------------------------
(***************************************************************************)
(* One websocket session for any number of goroutines that close it, any   *)
(* length of its queue and any number of messages: OnClose is called once, *)
(* and the messages keep their order.                                      *)
(*                                                                         *)
(* Then the other component that hands messages on, the consumer of kafka, *)
(* for any number of executors, messages and crashes.                      *)
(***************************************************************************)
EXTENDS WebSocketSession, KafkaConsumer, FiniteSetTheorems, SequenceTheorems, TLAPS

Places == {"idle", "onOpen", "openCloses", "opened", "check", "read", "send",
           "tooBig", "readDefer", "ginDefer", "select", "handle",
           "handleCloses", "serveDefer", "close", "openDefer"} \cup Final
Stages == {"none", "once", "queue", "cancel", "conn", "onClose", "stuck"}

\* Where a goroutine is that runs the function of the Once, before and from OnClose on.
Before == {"queue", "cancel", "conn"}
From == {"onClose", "stuck"}

\* One goroutine runs the function of the Once, and what is done follows its place.
Turn ==
    /\ \A r \in Routines : stage[r] \in Before \cup From =>
          /\ once = "running"
          /\ \A s \in Routines : stage[s] \in Before \cup From => s = r
    /\ once = "new" => closes = 0
    /\ \A r \in Routines : stage[r] \in Before => closes = 0
    /\ \A r \in Routines : stage[r] \in From => closes = 1 /\ connClosed
    /\ once = "done" => closes = 1 /\ connClosed

\* A goroutine ends when the function of the Once has returned.
EndsAfter == \A r \in Routines : pc[r] \in Final => once = "done"

\* A reader that sends holds the last message, and is not closing.
Holding ==
    /\ pc[Reader] = "send" => received >= 1 /\ stage[Reader] = "none"
    /\ panicked => queueClosed

IInv == TypeOK /\ Turn /\ EndsAfter /\ Holding /\ InOrder

LEMMA InitIInv == Init => IInv
<1> SUFFICES ASSUME Init PROVE IInv
  OBVIOUS
<1>1. TypeOK
  <2>1. <<>> \in Seq(1..MaxMsgs) /\ Len(<<>>) <= QueueSize
    BY WebSocketAssumption, EmptySeq
  <2>2. /\ pc \in [Routines -> Places] /\ stage \in [Routines -> Stages]
        /\ \A r \in Routines : stage[r] = "none" /\ pc[r] \in {"onOpen", "idle"}
    BY DEF Init, Places, Final, Stages
  <2>3. received \in 0..MaxMsgs
    BY WebSocketAssumption DEF Init
  <2>4. {queueClosed, canceled, connClosed, panicked} \subseteq BOOLEAN
    BY DEF Init
  <2>5. once \in {"new", "running", "done"} /\ closes \in 0..1
    BY DEF Init
  <2>6. queue = <<>> /\ handled = <<>>
    BY DEF Init
  <2> QED BY <2>1, <2>2, <2>3, <2>4, <2>5, <2>6 DEF TypeOK, Places, Final, Stages
<1>2. Turn /\ EndsAfter /\ Holding
  <2>1. /\ \A r \in Routines : stage[r] = "none" /\ pc[r] \notin Final /\ pc[r] # "send"
        /\ Reader \in Routines /\ once = "new" /\ closes = 0 /\ panicked = FALSE
    BY DEF Init, Routines, Final
  <2> QED BY <2>1 DEF Turn, EndsAfter, Holding, Before, From
<1>3. InOrder
  <2>1. pc[Reader] = "onOpen"
    BY DEF Init, Routines
  <2>2. <<>> \o <<>> \o <<>> = [i \in 1..0 |-> i]
    <3>1. \A S : <<>> \in Seq(S)
      BY EmptySeq
    <3>2. <<>> \o <<>> = <<>>
      BY <3>1, ConcatEmptySeq
    <3>3. [i \in 1..0 |-> i] = <<>>
      BY EmptySeq
    <3> QED BY <3>2, <3>3
  <2> QED BY <2>1, <2>2 DEF Init, InOrder
<1> QED BY <1>1, <1>2, <1>3 DEF IInv

-------------------------------------------------------------------------------
(* handler.close *)

\* The messages and the place of a reader that sends are left alone.
LEMMA OrderKept ==
    ASSUME InOrder, UNCHANGED msgVars, pc'[Reader] = "send" <=> pc[Reader] = "send"
    PROVE  InOrder'
BY DEF InOrder, msgVars

LEMMA ReturnsInv ==
    ASSUME IInv, NEW r \in Routines, stage[r] # "none", CloseReturns(r)
    PROVE  /\ pc' \in [Routines -> Places] /\ stage' \in [Routines -> Stages]
           /\ \A s \in Routines : pc'[s] \in Final => pc[s] \in Final \/ s = r
           /\ pc'[Reader] = "send" <=> pc[Reader] = "send"
           /\ pc'[Reader] = "send" => stage'[Reader] = stage[Reader]
           /\ \A s \in Routines : stage'[s] \in Before \cup From => s # r /\ stage'[s] = stage[s]
<1>1. pc \in [Routines -> Places] /\ stage \in [Routines -> Stages] /\ Reader \in Routines
  BY DEF IInv, TypeOK, Places, Final, Stages, Routines
<1> DEFINE there == AfterClose(pc[r])
           nextStage == IF there \in {"readDefer", "ginDefer"} THEN "once" ELSE "none"
<1>2. there \in Places /\ there # "send" /\ nextStage \in {"once", "none"}
  BY DEF AfterClose, Places, Final
<1>3. pc' = [pc EXCEPT ![r] = there] /\ stage' = [stage EXCEPT ![r] = nextStage]
  BY DEF CloseReturns
<1> HIDE DEF there, nextStage
<1>4. r = Reader => pc[Reader] # "send"
  BY DEF IInv, Holding
<1> QED BY <1>1, <1>2, <1>3, <1>4 DEF Before, From, Stages

\* IInv without the messages, and the messages.
Control ==
    /\ pc \in [Routines -> Places] /\ stage \in [Routines -> Stages]
    /\ once \in {"new", "running", "done"}
    /\ closes \in 0..1
    /\ {queueClosed, canceled, connClosed} \subseteq BOOLEAN
    /\ Turn /\ EndsAfter
Messages ==
    /\ queue \in Seq(1..MaxMsgs) /\ Len(queue) <= QueueSize
    /\ received \in 0..MaxMsgs
    /\ handled \in Seq(1..MaxMsgs)
    /\ panicked \in BOOLEAN
    /\ Holding /\ InOrder

LEMMA Parts == IInv <=> Control /\ Messages
BY DEF IInv, TypeOK, Control, Messages, Places, Final, Stages

LEMMA NextParts == Control' /\ Messages' => IInv'
BY DEF IInv, TypeOK, Control, Messages, Places, Final, Stages

\* A step that leaves the messages alone, and does not make or break a send.
LEMMA MessagesKept ==
    ASSUME Messages, UNCHANGED msgVars, queueClosed => queueClosed',
           pc'[Reader] = "send" <=> pc[Reader] = "send",
           pc'[Reader] = "send" => stage'[Reader] = stage[Reader]
    PROVE  Messages'
<1>1. InOrder'
  BY OrderKept DEF Messages
<1> QED BY <1>1 DEF Messages, Holding, msgVars

\* A step outside handler.close.
Moves ==
    /\ pc' \in [Routines -> Places] /\ stage' \in [Routines -> Stages]
    /\ \A s \in Routines : pc'[s] \in Final => pc[s] \in Final
    /\ \A s \in Routines : stage'[s] \in Before \cup From => stage'[s] = stage[s]
    /\ UNCHANGED closeVars

LEMMA MovesControl == ASSUME Control, Moves PROVE Control'
<1>1. Turn'
  BY DEF Control, Moves, Turn, closeVars
<1>2. EndsAfter'
  BY DEF Control, Moves, EndsAfter, closeVars
<1> QED BY <1>1, <1>2 DEF Control, Moves, closeVars

LEMMA Went ==
    ASSUME Control, NEW r \in Routines, NEW from, NEW to \in Places \ Final,
           Go(r, from, to) \/ CallClose(r, from, to), UNCHANGED closeVars
    PROVE  /\ Moves
           /\ pc[r] = from /\ stage[r] = "none" /\ pc'[r] = to
           /\ \A s \in Routines \ {r} : pc'[s] = pc[s] /\ stage'[s] = stage[s]
           /\ Go(r, from, to) => stage' = stage
BY DEF Control, Moves, Go, CallClose, Places, Final, Stages, Before, From

LEMMA ClosingInv ==
    ASSUME IInv, NEW r \in Routines, Closing(r) \/ OnCloseCloses(r)
    PROVE  IInv'
<1>1. Control /\ Messages /\ Reader \in Routines
  BY Parts DEF Routines
<1>2. ASSUME UNCHANGED msgVars, queueClosed => queueClosed', UNCHANGED pc,
             pc[Reader] = "send" => stage'[Reader] = stage[Reader]
      PROVE  Messages'
  BY <1>1, <1>2, MessagesKept
<1>3. stage[r] # "none" => ~(r = Reader /\ pc[Reader] = "send")
  BY <1>1 DEF Messages, Holding
<1>4. ASSUME NEW from \in Before \cup From, NEW to \in Before \cup From, CloseStep(r, from, to)
      PROVE  /\ UNCHANGED pc /\ UNCHANGED once /\ UNCHANGED msgVars /\ stage[r] = from
             /\ stage' \in [Routines -> Stages] /\ stage'[r] = to
             /\ \A s \in Routines : s # r => stage'[s] = stage[s]
             /\ pc[Reader] = "send" => stage'[Reader] = stage[Reader]
             /\ once = "running"
             /\ \A s \in Routines : stage'[s] \in Before \cup From => s = r
  <2>1. /\ UNCHANGED pc /\ UNCHANGED once /\ UNCHANGED msgVars /\ stage[r] = from
        /\ stage' = [stage EXCEPT ![r] = to]
    BY <1>4 DEF CloseStep
  <2>2. to \in Stages /\ from # "none"
    BY DEF Stages, Before, From
  <2>3. stage' \in [Routines -> Stages] /\ stage'[r] = to
        /\ \A s \in Routines : s # r => stage'[s] = stage[s]
    BY <1>1, <2>1, <2>2 DEF Control
  <2>4. once = "running" /\ \A s \in Routines : stage[s] \in Before \cup From => s = r
    BY <1>1, <2>1 DEF Control, Turn
  <2> QED BY <1>1, <1>3, <2>1, <2>2, <2>3, <2>4
<1>5. CASE CloseOnce(r)
  <2>1. stage[r] = "once" /\ UNCHANGED <<queueClosed, canceled, connClosed, closes, msgVars>>
    BY <1>5 DEF CloseOnce
  <2>2. CASE once = "done" /\ CloseReturns(r) /\ UNCHANGED once
    <3>1. /\ pc' \in [Routines -> Places] /\ stage' \in [Routines -> Stages]
          /\ \A s \in Routines : pc'[s] \in Final => pc[s] \in Final \/ s = r
          /\ pc'[Reader] = "send" <=> pc[Reader] = "send"
          /\ pc'[Reader] = "send" => stage'[Reader] = stage[Reader]
          /\ \A s \in Routines : stage'[s] \in Before \cup From => s # r /\ stage'[s] = stage[s]
      BY <2>1, <2>2, ReturnsInv
    <3>2. Turn' /\ EndsAfter'
      BY <1>1, <2>1, <2>2, <3>1 DEF Control, Turn, EndsAfter
    <3>3. Control'
      BY <1>1, <2>1, <2>2, <3>1, <3>2 DEF Control
    <3>4. Messages'
      BY <1>1, <2>1, <3>1, MessagesKept
    <3> QED BY <3>3, <3>4, NextParts
  <2>3. CASE once = "new" /\ once' = "running" /\ stage' = [stage EXCEPT ![r] = "queue"] /\ UNCHANGED pc
    <3>1. /\ stage' \in [Routines -> Stages] /\ stage'[r] = "queue"
          /\ \A s \in Routines : s # r => stage'[s] = stage[s]
      BY <1>1, <2>3 DEF Control, Stages
    <3>2. \A s \in Routines : stage[s] \notin Before \cup From
      BY <1>1, <2>3 DEF Control, Turn
    <3>3. closes = 0
      BY <1>1, <2>3 DEF Control, Turn
    <3>4. Turn'
      BY <2>1, <2>3, <3>1, <3>2, <3>3 DEF Turn, Before, From
    <3>5. EndsAfter'
      BY <1>1, <2>3 DEF Control, EndsAfter
    <3>6. Control'
      BY <1>1, <2>1, <2>3, <3>1, <3>4, <3>5 DEF Control
    <3>7. Messages'
      BY <1>1, <1>2, <1>3, <2>1, <2>3, <3>1
    <3> QED BY <3>6, <3>7, NextParts
  <2>4. once \in {"new", "running", "done"}
    BY <1>1 DEF Control
  <2> QED BY <1>5, <2>2, <2>3, <2>4 DEF CloseOnce, OnceEntered
<1>6. CASE CloseQueue(r)
  <2>1. CloseStep(r, "queue", "cancel") /\ queueClosed' = TRUE
        /\ UNCHANGED <<canceled, connClosed, closes>>
    BY <1>6 DEF CloseQueue
  <2>2. "queue" \in Before /\ "cancel" \in Before /\ "cancel" \notin From
    BY DEF Before, From
  <2>3. Control'
    BY <1>1, <1>4, <2>1, <2>2 DEF Control, Turn, EndsAfter
  <2>4. Messages'
    BY <1>2, <1>4, <2>1, <2>2
  <2> QED BY <2>3, <2>4, NextParts
<1>7. CASE CloseCancel(r)
  <2>1. CloseStep(r, "cancel", "conn") /\ canceled' = TRUE
        /\ UNCHANGED <<queueClosed, connClosed, closes>>
    BY <1>7 DEF CloseCancel
  <2>2. "cancel" \in Before /\ "conn" \in Before /\ "conn" \notin From
    BY DEF Before, From
  <2>3. Control'
    BY <1>1, <1>4, <2>1, <2>2 DEF Control, Turn, EndsAfter
  <2>4. Messages'
    BY <1>2, <1>4, <2>1, <2>2
  <2> QED BY <2>3, <2>4, NextParts
<1>8. CASE CloseConn(r)
  <2>1. CloseStep(r, "conn", "onClose") /\ connClosed' = TRUE /\ closes' = closes + 1
        /\ UNCHANGED <<queueClosed, canceled>>
    BY <1>8 DEF CloseConn
  <2>2. "conn" \in Before /\ "onClose" \in From /\ "onClose" \notin Before
    BY DEF Before, From
  <2>3. closes = 0
    BY <1>1, <1>4, <2>1, <2>2 DEF Control, Turn
  <2>4. Control'
    BY <1>1, <1>4, <2>1, <2>2, <2>3 DEF Control, Turn, EndsAfter
  <2>5. Messages'
    BY <1>2, <1>4, <2>1, <2>2
  <2> QED BY <2>4, <2>5, NextParts
<1>9. CASE OnCloseCloses(r)
  <2>1. CloseStep(r, "onClose", "stuck") /\ UNCHANGED <<queueClosed, canceled, connClosed, closes>>
    BY <1>9 DEF OnCloseCloses
  <2>2. "onClose" \in From /\ "stuck" \in From /\ "stuck" \notin Before
    BY DEF Before, From
  <2>3. Control'
    BY <1>1, <1>4, <2>1, <2>2 DEF Control, Turn, EndsAfter
  <2>4. Messages'
    BY <1>2, <1>4, <2>1, <2>2
  <2> QED BY <2>3, <2>4, NextParts
<1>10. CASE OnCloseReturns(r)
  <2>1. stage[r] = "onClose" /\ once' = "done" /\ CloseReturns(r)
        /\ UNCHANGED <<queueClosed, canceled, connClosed, closes, msgVars>>
    BY <1>10 DEF OnCloseReturns
  <2>2. /\ pc' \in [Routines -> Places] /\ stage' \in [Routines -> Stages]
        /\ \A s \in Routines : pc'[s] \in Final => pc[s] \in Final \/ s = r
        /\ pc'[Reader] = "send" <=> pc[Reader] = "send"
        /\ pc'[Reader] = "send" => stage'[Reader] = stage[Reader]
        /\ \A s \in Routines : stage'[s] \in Before \cup From => s # r /\ stage'[s] = stage[s]
    BY <2>1, ReturnsInv
  <2>3. "onClose" \in From
    BY DEF From
  <2>4. closes = 1 /\ connClosed /\ \A s \in Routines : stage'[s] \notin Before \cup From
    BY <1>1, <2>1, <2>2, <2>3 DEF Control, Turn
  <2>5. Turn' /\ EndsAfter'
    BY <2>1, <2>4 DEF Turn, EndsAfter
  <2>6. Control'
    BY <1>1, <2>1, <2>2, <2>5 DEF Control
  <2>7. Messages'
    BY <1>1, <2>1, <2>2, MessagesKept
  <2> QED BY <2>6, <2>7, NextParts
<1> QED BY <1>5, <1>6, <1>7, <1>8, <1>9, <1>10 DEF Closing

-------------------------------------------------------------------------------
(* read, serve and the other goroutines. *)

\* A move that has nothing to do with a message.
LEMMA PlainMove ==
    ASSUME IInv, NEW r \in Routines, NEW from \in Places \ {"send"},
           NEW to \in Places \ (Final \cup {"send"}),
           Go(r, from, to) \/ CallClose(r, from, to), UNCHANGED <<closeVars, msgVars>>
    PROVE  IInv'
<1>1. Control /\ Messages /\ Reader \in Routines
  BY Parts DEF Routines
<1>2. /\ Moves /\ pc[r] = from /\ pc'[r] = to
      /\ \A s \in Routines \ {r} : pc'[s] = pc[s] /\ stage'[s] = stage[s]
  BY <1>1, Went
<1>3. Control'
  BY <1>1, <1>2, MovesControl
<1>4. Messages'
  BY <1>1, <1>2, MessagesKept DEF closeVars
<1> QED BY <1>3, <1>4, NextParts

LEMMA StartInv == ASSUME IInv, Start PROVE IInv'
<1>1. Control /\ Messages /\ Reader \in Routines /\ Server \in Routines /\ Reader # Server
  BY Parts, WebSocketAssumption DEF Routines
<1>2. pc[Reader] = "opened" /\ pc' = [pc EXCEPT ![Reader] = "check", ![Server] = "select"]
      /\ UNCHANGED <<stage, closeVars, msgVars>>
  BY DEF Start
<1>3. pc' \in [Routines -> Places] /\ pc'[Reader] = "check"
      /\ \A s \in Routines : pc'[s] \in Final => pc[s] \in Final
  BY <1>1, <1>2 DEF Control, Places, Final
<1>4. Control'
  BY <1>1, <1>2, <1>3, MovesControl DEF Moves, Control
<1>5. Messages'
  BY <1>1, <1>2, <1>3, MessagesKept DEF closeVars
<1> QED BY <1>4, <1>5, NextParts

LEMMA ReadMessageInv == ASSUME IInv, ReadMessage PROVE IInv'
<1> DEFINE M == 1..MaxMsgs
           all == handled \o queue
<1>1. Control /\ Messages /\ Reader \in Routines
  BY Parts DEF Routines
<1>2. /\ Go(Reader, "read", "send") /\ received < MaxMsgs /\ received' = received + 1
      /\ UNCHANGED <<closeVars, queue, handled, panicked>>
  BY DEF ReadMessage
<1>3. /\ Moves /\ pc[Reader] = "read" /\ pc'[Reader] = "send" /\ stage'[Reader] = "none"
  BY <1>1, <1>2, Went DEF Places, Final, Go
<1>4. Control'
  BY <1>1, <1>3, MovesControl
<1>5. received \in Nat /\ received' \in M /\ received' \in 0..MaxMsgs /\ received' >= 1
  BY <1>1, <1>2, WebSocketAssumption DEF Messages
<1>6. handled \in Seq(M) /\ queue \in Seq(M) /\ all \in Seq(M)
  BY <1>1, ConcatProperties DEF Messages
<1>7. ASSUME ~panicked PROVE all \o <<received'>> = [i \in 1..received' |-> i]
  <2>1. all \o <<>> = all
    BY <1>6, ConcatEmptySeq
  <2>2. all = [i \in 1..received |-> i]
    BY <1>1, <1>3, <1>7, <2>1 DEF Messages, InOrder
  <2> HIDE DEF all
  <2>3. Len(all) = received
    BY <1>5, <1>6, <2>2, LenProperties
  <2>4. Append(all, received') = all \o <<received'>>
    BY <1>5, <1>6, AppendIsConcat
  <2>5. Append(all, received') = [i \in 1..received' |-> i]
    <3>1. /\ Append(all, received') \in Seq(M) /\ Len(Append(all, received')) = received'
          /\ \A i \in 1..received : Append(all, received')[i] = all[i]
          /\ Append(all, received')[received'] = received'
      BY <1>2, <1>5, <1>6, <2>3, AppendProperties
    <3>2. \A i \in 1..received' : Append(all, received')[i] = i
      BY <1>2, <1>5, <2>2, <3>1
    <3>3. DOMAIN Append(all, received') = 1..received'
      BY <3>1, LenProperties
    <3>4. Append(all, received') = [i \in DOMAIN Append(all, received') |-> Append(all, received')[i]]
      BY <3>1, LenProperties
    <3> QED BY <3>2, <3>3, <3>4
  <2> QED BY <2>4, <2>5
<1>8. InOrder'
  BY <1>2, <1>3, <1>7 DEF InOrder
<1>9. Messages'
  BY <1>1, <1>2, <1>3, <1>5, <1>8 DEF Messages, Holding, closeVars
<1> QED BY <1>4, <1>9, NextParts

LEMMA SendInv == ASSUME IInv, Send PROVE IInv'
<1> DEFINE M == 1..MaxMsgs
<1>1. Control /\ Messages /\ Reader \in Routines
  BY Parts DEF Routines
<1>2. UNCHANGED <<closeVars, received, handled>> /\ UNCHANGED queueClosed /\ panicked' = queueClosed
  BY DEF Send, closeVars
<1>3. CASE queueClosed
  <2>1. CallClose(Reader, "send", "readDefer") /\ queue' = queue
    BY <1>3 DEF Send
  <2>2. Moves /\ pc'[Reader] = "readDefer"
    BY <1>1, <1>2, <2>1, Went DEF Places, Final
  <2>3. Control'
    BY <1>1, <2>2, MovesControl
  <2>4. panicked' \in BOOLEAN /\ panicked'
    BY <1>1, <1>2, <1>3 DEF Control
  <2>5. Messages'
    BY <1>1, <1>2, <1>3, <2>1, <2>2, <2>4 DEF Messages, Holding, InOrder
  <2> QED BY <2>3, <2>5, NextParts
<1>4. CASE ~queueClosed
  <2>1. Go(Reader, "send", "check") /\ queue' = Append(queue, received) /\ Len(queue) < QueueSize
    BY <1>4 DEF Send
  <2>2. Moves /\ pc[Reader] = "send" /\ pc'[Reader] = "check"
    BY <1>1, <1>2, <2>1, Went DEF Places, Final
  <2>3. Control'
    BY <1>1, <2>2, MovesControl
  <2>4. received \in M /\ queue \in Seq(M) /\ handled \in Seq(M)
    BY <1>1, <2>2, WebSocketAssumption DEF Messages, Holding
  <2>5. queue' \in Seq(M) /\ Len(queue') <= QueueSize
    BY <2>1, <2>4, AppendProperties, LenProperties, WebSocketAssumption
  <2>6. panicked' = FALSE /\ panicked = FALSE
    BY <1>1, <1>2, <1>4 DEF Control, Messages, Holding
  <2>7. InOrder'
    <3>1. queue' = queue \o <<received>> /\ <<received>> \in Seq(M)
      BY <2>1, <2>4, AppendIsConcat
    <3>2. handled \o queue' = (handled \o queue) \o <<received>>
      BY <2>4, <3>1, ConcatAssociative
    <3>3. (handled \o queue') \o <<>> = handled \o queue'
      BY <2>4, <2>5, ConcatProperties, ConcatEmptySeq
    <3>4. (handled \o queue) \o <<received>> = [i \in 1..received |-> i]
      BY <1>1, <2>2, <2>6 DEF Messages, InOrder
    <3> QED BY <1>2, <2>2, <3>2, <3>3, <3>4 DEF InOrder
  <2>8. Messages'
    BY <1>1, <1>2, <2>2, <2>5, <2>6, <2>7 DEF Messages, Holding
  <2> QED BY <2>3, <2>8, NextParts
<1> QED BY <1>3, <1>4

LEMMA ServeMessageInv == ASSUME IInv, ServeMessage PROVE IInv'
<1> DEFINE M == 1..MaxMsgs
<1>1. Control /\ Messages /\ Reader \in Routines /\ Server \in Routines /\ Reader # Server
  BY Parts, WebSocketAssumption DEF Routines
<1>2. /\ Go(Server, "select", "handle") /\ queue # <<>> /\ handled' = Append(handled, Head(queue))
      /\ queue' = Tail(queue) /\ UNCHANGED <<closeVars, received, panicked>>
  BY DEF ServeMessage
<1>3. Moves /\ pc'[Reader] = pc[Reader] /\ stage'[Reader] = stage[Reader]
  BY <1>1, <1>2, Went DEF Places, Final
<1>4. Control'
  BY <1>1, <1>3, MovesControl
<1>5. queue \in Seq(M) /\ handled \in Seq(M)
  BY <1>1 DEF Messages
<1>6. Head(queue) \in M /\ Tail(queue) \in Seq(M) /\ Len(Tail(queue)) = Len(queue) - 1 /\ Len(queue) \in Nat
  BY <1>2, <1>5, HeadTailProperties, LenProperties
<1>7. handled' \in Seq(M) /\ queue' \in Seq(M) /\ Len(queue') <= QueueSize
  BY <1>1, <1>2, <1>5, <1>6, AppendProperties, WebSocketAssumption DEF Messages
<1>8. queue = <<Head(queue)>> \o Tail(queue)
  <2>1. SubSeq(queue, 1, Len(queue)) = queue
    BY <1>5, SubSeqFull
  <2>2. Len(queue) >= 1
    BY <1>2, <1>5, <1>6, EmptySeq, LenProperties
  <2>3. SubSeq(queue, 1, Len(queue)) = <<queue[1]>> \o SubSeq(queue, 2, Len(queue))
    BY <1>5, <1>6, <2>2, SubSeqRecursiveFirst
  <2>4. Tail(queue) = SubSeq(queue, 2, Len(queue))
    BY <1>2, <1>5, TailIsSubSeq
  <2>5. Head(queue) = queue[1]
    OBVIOUS
  <2> QED BY <2>1, <2>3, <2>4, <2>5
<1>9. handled' \o queue' = handled \o queue
  <2>1. handled' = handled \o <<Head(queue)>> /\ <<Head(queue)>> \in Seq(M)
    BY <1>2, <1>5, <1>6, AppendIsConcat
  <2>2. (handled \o <<Head(queue)>>) \o Tail(queue) = handled \o (<<Head(queue)>> \o Tail(queue))
    BY <1>5, <1>6, <2>1, ConcatAssociative
  <2> QED BY <1>2, <1>8, <2>1, <2>2
<1>10. InOrder'
  BY <1>1, <1>2, <1>3, <1>9 DEF Messages, InOrder
<1>11. Messages'
  BY <1>1, <1>2, <1>3, <1>7, <1>10 DEF Messages, Holding, closeVars
<1> QED BY <1>4, <1>11, NextParts

LEMMA OthersInv ==
    ASSUME IInv,
           \/ OpenCloses \/ OpenPanics \/ OpenReturns \/ ReadCheck \/ ReadTooBig \/ ReadFails
           \/ ServeEnds \/ HandleReturns \/ HandleCloses \/ HandlePanics
           \/ \E a \in Apps : AppCloses(a)
    PROVE  IInv'
<1>1. Reader \in Routines /\ Server \in Routines /\ Apps \subseteq Routines
  BY DEF Routines
<1>2. CASE OpenCloses
  BY <1>1, <1>2, PlainMove DEF OpenCloses, Places, Final
<1>12. CASE OpenPanics
  BY <1>1, <1>12, PlainMove DEF OpenPanics, Places, Final
<1>3. CASE OpenReturns
  BY <1>1, <1>3, PlainMove DEF OpenReturns, Places, Final
<1>4. CASE ReadCheck
  BY <1>1, <1>4, PlainMove DEF ReadCheck, Places, Final
<1>5. CASE ReadTooBig
  BY <1>1, <1>5, PlainMove DEF ReadTooBig, Places, Final
<1>6. CASE ReadFails
  BY <1>1, <1>6, PlainMove DEF ReadFails, Places, Final
<1>7. CASE ServeEnds
  BY <1>1, <1>7, PlainMove DEF ServeEnds, Places, Final
<1>8. CASE HandleReturns
  BY <1>1, <1>8, PlainMove DEF HandleReturns, Places, Final
<1>9. CASE HandleCloses
  BY <1>1, <1>9, PlainMove DEF HandleCloses, Places, Final
<1>10. CASE HandlePanics
  BY <1>1, <1>10, PlainMove DEF HandlePanics, Places, Final
<1>11. ASSUME NEW a \in Apps, AppCloses(a) PROVE IInv'
  BY <1>1, <1>11, PlainMove DEF AppCloses, Places, Final
<1> QED BY <1>2, <1>3, <1>4, <1>5, <1>6, <1>7, <1>8, <1>9, <1>10, <1>11, <1>12

-------------------------------------------------------------------------------
LEMMA Inductive == IInv /\ [Next]_vars => IInv'
<1> SUFFICES ASSUME IInv, [Next]_vars PROVE IInv'
  OBVIOUS
<1>1. ASSUME NEW r \in Routines, Closing(r) \/ OnCloseCloses(r) PROVE IInv'
  BY <1>1, ClosingInv
<1>2. CASE ReaderStep
  BY <1>2, OthersInv, StartInv, SendInv DEF ReaderStep, ReadEnds
<1>3. CASE ServerStep
  BY <1>3, OthersInv, ServeMessageInv DEF ServerStep
<1>4. CASE ReadMessage
  BY <1>4, ReadMessageInv
<1>5. CASE OpenCloses \/ OpenPanics \/ ReadTooBig \/ ReadFails \/ HandleCloses \/ HandlePanics
           \/ \E a \in Apps : AppCloses(a)
  BY <1>5, OthersInv
<1>6. CASE UNCHANGED vars
  <2>1. UNCHANGED <<pc, stage, closeVars, msgVars>>
    BY <1>6 DEF vars
  <2>2. Control /\ Messages
    BY Parts
  <2>3. Control'
    BY <2>1, <2>2 DEF Control, Turn, EndsAfter, closeVars
  <2>4. Messages'
    BY <2>1, <2>2, MessagesKept DEF closeVars
  <2> QED BY <2>3, <2>4, NextParts
<1> QED BY <1>1, <1>2, <1>3, <1>4, <1>5, <1>6 DEF Next

LEMMA Invariance == Spec => []IInv
BY InitIInv, Inductive, PTL DEF Spec

\* Every variable stays in its type; the queue never holds more than MsgQueueSize.
THEOREM SessionTypes == Spec => []TypeOK
<1>1. IInv => TypeOK
  BY DEF IInv
<1> QED BY <1>1, Invariance, PTL

\* OnClose is called once, and before a goroutine of the session ends.
THEOREM SessionClosedOnce == Spec => []ClosedOnce
<1>1. IInv => ClosedOnce
  BY DEF IInv, TypeOK, Turn, EndsAfter, ClosedOnce
<1> QED BY <1>1, Invariance, PTL

\* The service gets the messages in their order, none twice and none left out.
THEOREM SessionInOrder == Spec => []InOrder
<1>1. IInv => InOrder
  BY DEF IInv
<1> QED BY <1>1, Invariance, PTL
-------------------------------------------------------------------------------
\* KafkaConsumer: what can be lost is bounded by the crashes and, with ReadMessage,
\* by the executors that have ended.

\* What the reader has handed out and no handler saw or will see.  Unlike Lost it
\* does not change when the committed offset moves.
Gone == {o \in 0..next - 1 : o \notin handed /\ ~Held(o)}

\* An executor that would lose nothing behind this offset.
Spared(offset) == \E e \in Executors : executorPc[e] = "fetched" => msg[e] >= offset

\* With commits after the handler, the executor that asked for a commit is spared:
\* it goes on with later messages only.
SomeoneSpared == ~auto => Spared(asked) /\ Spared(committed)

ConsumerIInv ==
    /\ ConsumerTypeOK
    /\ SomeoneSpared
    /\ IsFiniteSet(Gone) /\ Cardinality(Gone) <= crashes * PerCrash + Cardinality(MayHaveDropped)

LEMMA PerCrashNat == ASSUME ConsumerTypeOK PROVE PerCrash \in Nat
<1>1. Cardinality(Executors) \in Nat
  BY FS_CardinalityType, KafkaConsumerAssumption
<1>2. Cardinality(Executors) # 0
  BY FS_EmptySet, KafkaConsumerAssumption
<1> QED BY <1>1, <1>2 DEF PerCrash, ConsumerTypeOK

\* The executors that may have dropped a message are finitely many.
LEMMA DroppedFinite == IsFiniteSet(MayHaveDropped) /\ Cardinality(MayHaveDropped) \in Nat
<1>1. MayHaveDropped \subseteq Executors
  BY DEF MayHaveDropped
<1> QED BY <1>1, FS_Subset, FS_CardinalityType, KafkaConsumerAssumption

LEMMA ConsumerInitIInv == ConsumerInit => ConsumerIInv
<1> SUFFICES ASSUME ConsumerInit PROVE ConsumerIInv
  OBVIOUS
<1>1. ConsumerTypeOK
  BY KafkaConsumerAssumption DEF ConsumerInit, ConsumerTypeOK
<1>2. SomeoneSpared
  BY KafkaConsumerAssumption DEF ConsumerInit, SomeoneSpared, Spared
<1>3. Gone = {}
  BY DEF ConsumerInit, Gone
<1>4. crashes * PerCrash = 0
  BY <1>1, PerCrashNat DEF ConsumerInit
<1> QED BY <1>1, <1>2, <1>3, <1>4, FS_EmptySet, DroppedFinite DEF ConsumerIInv

\* Types are preserved; messages differ because next is past all of them.
LEMMA TypeOKInductive == ASSUME ConsumerTypeOK, ConsumerNext PROVE ConsumerTypeOK'
<1> USE KafkaConsumerAssumption DEF ConsumerTypeOK, Goto, readerVars, Larger
<1>1. CASE Produce
  BY <1>1 DEF Produce
<1>2. CASE FlushCommits
  BY <1>2 DEF FlushCommits, Flush
<1>3. CASE Cancel
  BY <1>3 DEF Cancel
<1>4. CASE Close
  BY <1>4 DEF Close, Flush
<1>5. CASE Crash
  BY <1>5 DEF Crash
<1>6. ASSUME NEW e \in Executors, Loop(e) PROVE ConsumerTypeOK'
  BY <1>6 DEF Loop
<1>7. ASSUME NEW e \in Executors, Handle(e) PROVE ConsumerTypeOK'
  <2>1. msg[e] \in 0..produced - 1
    BY <1>7 DEF Handle
  <2>2. handed' \subseteq 0..produced' - 1
    BY <1>7, <2>1 DEF Handle
  <2> QED BY <1>7, <2>2 DEF Handle
<1>8. ASSUME NEW e \in Executors, FetchEnds(e) PROVE ConsumerTypeOK'
  BY <1>8 DEF FetchEnds
<1>9. ASSUME NEW e \in Executors, Fetch(e) PROVE ConsumerTypeOK'
  BY <1>9 DEF Fetch
<1>10. ASSUME NEW e \in Executors, FetchFails(e) PROVE ConsumerTypeOK'
  BY <1>10 DEF FetchFails
<1>11. ASSUME NEW e \in Executors, HandlerEnds(e) PROVE ConsumerTypeOK'
  <2>1. executorPc[e] = "handling" /\ executorPc' = [executorPc EXCEPT ![e] = "loop"]
    BY <1>11 DEF HandlerEnds, HandlerOk, HandlerFails
  <2>2. UNCHANGED <<auto, produced, next, committed, msg, stop, handed, crashes>>
    BY <1>11 DEF HandlerEnds, HandlerOk, HandlerFails
  <2>3. msg[e] + 1 \in 0..next
    BY <2>1
  <2>4. asked' \in 0..next
    BY <1>11, <2>3 DEF HandlerEnds, HandlerOk, HandlerFails
  <2> QED BY <2>1, <2>2, <2>4
<1>12. ASSUME NEW e \in Executors, FetchDropped(e) PROVE ConsumerTypeOK'
  BY <1>12 DEF FetchDropped
<1> QED BY <1>1, <1>2, <1>3, <1>4, <1>5, <1>6, <1>7, <1>8, <1>9, <1>10, <1>11, <1>12
        DEF ConsumerNext, Works

LEMMA SparedInductive == ASSUME ConsumerTypeOK, SomeoneSpared, ConsumerNext PROVE SomeoneSpared'
<1> USE KafkaConsumerAssumption DEF ConsumerTypeOK, SomeoneSpared, Spared, Goto, readerVars
<1>1. CASE Produce \/ Cancel
  BY <1>1 DEF Produce, Cancel
<1>2. CASE FlushCommits \/ Close
  <2>1. PICK e \in Executors : ~auto /\ executorPc[e] = "fetched" => msg[e] >= asked'
    BY <1>2 DEF FlushCommits, Close, Flush
  <2> QED BY <1>2, <2>1 DEF FlushCommits, Close, Flush
<1>3. CASE Crash
  BY <1>3 DEF Crash
<1>4. ASSUME NEW e \in Executors, Loop(e) \/ Handle(e) \/ FetchEnds(e) \/ FetchFails(e) \/ FetchDropped(e)
      PROVE SomeoneSpared'
  BY <1>4 DEF Loop, Handle, FetchEnds, FetchFails, FetchDropped
<1>5. ASSUME NEW e \in Executors, Fetch(e) PROVE SomeoneSpared'
  BY <1>5 DEF Fetch
<1>6. ASSUME NEW e \in Executors, HandlerEnds(e) PROVE SomeoneSpared'
  BY <1>6 DEF HandlerEnds, HandlerOk, HandlerFails, Larger
<1> QED BY <1>1, <1>2, <1>3, <1>4, <1>5, <1>6 DEF ConsumerNext, Works

\* What is gone grows by a crash, and by a message that ReadMessage drops.
LEMMA GoneGrows ==
    ASSUME ConsumerTypeOK, ConsumerNext, ~Crash, \A e \in Executors : ~FetchDropped(e)
    PROVE Gone' \subseteq Gone
<1> USE KafkaConsumerAssumption DEF ConsumerTypeOK, Gone, Held, Goto, readerVars
<1>1. CASE Produce \/ FlushCommits \/ Cancel \/ Close
  BY <1>1 DEF Produce, FlushCommits, Cancel, Close, Flush
<1>2. ASSUME NEW e \in Executors, Loop(e) \/ FetchEnds(e) \/ FetchFails(e) \/ HandlerEnds(e)
      PROVE Gone' \subseteq Gone
  BY <1>2 DEF Loop, FetchEnds, FetchFails, HandlerEnds, HandlerOk, HandlerFails
<1>3. ASSUME NEW e \in Executors, Handle(e) PROVE Gone' \subseteq Gone
  BY <1>3 DEF Handle
<1>4. ASSUME NEW e \in Executors, Fetch(e) PROVE Gone' \subseteq Gone
  BY <1>4 DEF Fetch
<1> QED BY <1>1, <1>2, <1>3, <1>4 DEF ConsumerNext, Works

\* Until the process dies, an executor that has ended stays so.
LEMMA DroppedGrows == ASSUME ConsumerTypeOK, ConsumerNext, ~Crash PROVE MayHaveDropped \subseteq MayHaveDropped'
<1> USE DEF ConsumerTypeOK, MayHaveDropped, Goto, readerVars
<1>1. CASE Produce \/ FlushCommits \/ Cancel \/ Close
  BY <1>1 DEF Produce, FlushCommits, Cancel, Close
<1>2. ASSUME NEW e \in Executors, Loop(e) \/ FetchEnds(e) \/ FetchFails(e) \/ HandlerEnds(e)
      PROVE MayHaveDropped \subseteq MayHaveDropped'
  BY <1>2 DEF Loop, FetchEnds, FetchFails, HandlerEnds, HandlerOk, HandlerFails
<1>3. ASSUME NEW e \in Executors, Handle(e) \/ Fetch(e) \/ FetchDropped(e)
      PROVE MayHaveDropped \subseteq MayHaveDropped'
  BY <1>3 DEF Handle, Fetch, FetchDropped
<1> QED BY <1>1, <1>2, <1>3 DEF ConsumerNext, Works

Taken == {e \in Executors : executorPc[e] = "fetched" /\ msg[e] < committed}

LEMMA TakenBound ==
    ASSUME ConsumerTypeOK, SomeoneSpared
    PROVE IsFiniteSet(Taken) /\ Cardinality(Taken) <= PerCrash
<1> USE KafkaConsumerAssumption DEF ConsumerTypeOK, Taken, PerCrash
<1>0. Cardinality(Executors) \in Nat
  BY FS_CardinalityType
<1>1. IsFiniteSet(Taken) /\ Cardinality(Taken) <= Cardinality(Executors)
  BY FS_Subset
<1>2. CASE auto
  BY <1>1, <1>2
<1>3. CASE ~auto
  <2>1. PICK e \in Executors : e \notin Taken
    BY <1>3 DEF SomeoneSpared, Spared
  <2>2. Cardinality(Taken) # Cardinality(Executors)
    BY <2>1, FS_Subset
  <2>3. Cardinality(Taken) \in Nat
    BY <1>1, FS_CardinalityType
  <2> QED BY <1>0, <1>1, <1>3, <2>2, <2>3
<1> QED BY <1>2, <1>3

\* Each executor loses one message in a life of the process: it has dropped one, or
\* has one in its hands.
LEMMA LifeBound ==
    ASSUME ConsumerTypeOK, SomeoneSpared
    PROVE Cardinality(Taken) + Cardinality(MayHaveDropped) <= PerCrash
<1>1. CASE ~auto
  <2>1. MayHaveDropped = {}
    BY <1>1 DEF MayHaveDropped
  <2>2. Cardinality(Taken) \in Nat /\ Cardinality(Taken) <= PerCrash
    BY TakenBound, FS_CardinalityType
  <2> QED BY <2>1, <2>2, FS_EmptySet, PerCrashNat
<1>2. CASE auto
  <2>1. Taken \cup MayHaveDropped \subseteq Executors /\ Taken \cap MayHaveDropped = {}
    BY DEF Taken, MayHaveDropped
  <2>2. Cardinality(Taken \cup MayHaveDropped) <= Cardinality(Executors)
    BY <2>1, FS_Subset, KafkaConsumerAssumption
  <2>3. Cardinality(Taken \cup MayHaveDropped) = Cardinality(Taken) + Cardinality(MayHaveDropped) - 0
    BY <2>1, TakenBound, DroppedFinite, FS_Union, FS_EmptySet
  <2>4. Cardinality(Taken) \in Nat
    BY TakenBound, FS_CardinalityType
  <2> QED BY <1>2, <2>2, <2>3, <2>4, DroppedFinite DEF PerCrash
<1> QED BY <1>1, <1>2, FS_EmptySet DEF ConsumerTypeOK

LEMMA Product == ASSUME NEW m \in Nat, NEW n \in Nat PROVE (m + 1) * n = m * n + n
  OBVIOUS

LEMMA BoundInductive ==
    ASSUME ConsumerIInv, ConsumerNext
    PROVE IsFiniteSet(Gone') /\ Cardinality(Gone') <= (crashes * PerCrash + Cardinality(MayHaveDropped))'
<1>0. /\ ConsumerTypeOK /\ SomeoneSpared /\ IsFiniteSet(Gone)
      /\ Cardinality(Gone) <= crashes * PerCrash + Cardinality(MayHaveDropped)
  BY DEF ConsumerIInv
<1>1. PerCrash' = PerCrash /\ PerCrash \in Nat
  <2>1. auto' = auto
    BY DEF ConsumerNext, Works, HandlerEnds, Produce, FlushCommits, Cancel, Close, Crash, Loop,
       Handle, FetchEnds, Fetch, FetchDropped, FetchFails, HandlerOk, HandlerFails
  <2> QED BY <1>0, <2>1, PerCrashNat DEF PerCrash
<1>2. IsFiniteSet(MayHaveDropped') /\ Cardinality(MayHaveDropped') \in Nat
  <2>1. MayHaveDropped' \subseteq Executors
    BY DEF MayHaveDropped
  <2> QED BY <2>1, FS_Subset, FS_CardinalityType, KafkaConsumerAssumption
<1>3. /\ Cardinality(Gone) \in Nat /\ crashes \in Nat /\ crashes * PerCrash \in Nat
      /\ Cardinality(MayHaveDropped) \in Nat
  BY <1>0, <1>1, DroppedFinite, FS_CardinalityType DEF ConsumerTypeOK
<1>4. CASE ~Crash /\ \A e \in Executors : ~FetchDropped(e)
  <2>1. crashes' = crashes
    BY <1>4 DEF ConsumerNext, Works, HandlerEnds, Produce, FlushCommits, Cancel, Close, Loop,
       Handle, FetchEnds, Fetch, FetchFails, HandlerOk, HandlerFails
  <2>2. IsFiniteSet(Gone') /\ Cardinality(Gone') <= Cardinality(Gone)
    BY <1>0, <1>4, GoneGrows, FS_Subset
  <2>3. Cardinality(MayHaveDropped) <= Cardinality(MayHaveDropped')
    BY <1>0, <1>2, <1>4, DroppedGrows, FS_Subset
  <2>4. Cardinality(Gone') \in Nat
    BY <2>2, FS_CardinalityType
  <2> QED BY <1>0, <1>1, <1>2, <1>3, <2>1, <2>2, <2>3, <2>4
<1>5. ASSUME NEW e \in Executors, FetchDropped(e)
      PROVE IsFiniteSet(Gone') /\ Cardinality(Gone') <= (crashes * PerCrash + Cardinality(MayHaveDropped))'
  <2>1. crashes' = crashes /\ next' = next + 1 /\ executorPc' = [executorPc EXCEPT ![e] = "ended"]
        /\ executorPc[e] = "fetch" /\ auto /\ auto' = auto /\ handed' = handed /\ msg' = msg
    BY <1>5 DEF FetchDropped, Goto
  <2>2. Gone' \subseteq Gone \cup {next}
    BY <1>0, <2>1 DEF Gone, Held, ConsumerTypeOK
  <2>3. IsFiniteSet(Gone \cup {next}) /\ Cardinality(Gone \cup {next}) <= Cardinality(Gone) + 1
    BY <1>0, <1>3, FS_AddElement
  <2>4. IsFiniteSet(Gone') /\ Cardinality(Gone') <= Cardinality(Gone \cup {next})
    BY <2>2, <2>3, FS_Subset
  <2>5. MayHaveDropped' = MayHaveDropped \cup {e} /\ e \notin MayHaveDropped
    BY <1>0, <2>1 DEF MayHaveDropped, ConsumerTypeOK
  <2>6. Cardinality(MayHaveDropped') = Cardinality(MayHaveDropped) + 1
    BY <2>5, DroppedFinite, FS_AddElement
  <2>7. Cardinality(Gone') \in Nat /\ Cardinality(Gone \cup {next}) \in Nat
    BY <2>3, <2>4, FS_CardinalityType
  <2> QED BY <1>0, <1>1, <1>3, <2>1, <2>3, <2>4, <2>6, <2>7
<1>6. CASE Crash
  <2> DEFINE image == [e \in Taken |-> msg[e]]
             messages == {msg[e] : e \in Taken}
  <2>1. image \in Surjection(Taken, messages)
    BY DEF Surjection
  <2>2. IsFiniteSet(messages) /\ Cardinality(messages) <= Cardinality(Taken)
    BY <1>0, <2>1, TakenBound, FS_Surjection
  <2>3. Gone' \subseteq Gone \cup messages
    BY <1>0, <1>6 DEF Crash, Gone, Held, Taken, ConsumerTypeOK
  <2>4. IsFiniteSet(Gone \cup messages)
        /\ Cardinality(Gone \cup messages)
              = Cardinality(Gone) + Cardinality(messages) - Cardinality(Gone \cap messages)
    BY <1>0, <2>2, FS_Union
  <2>5. IsFiniteSet(Gone \cap messages)
    BY <1>0, FS_Subset
  <2>6. IsFiniteSet(Gone') /\ Cardinality(Gone') <= Cardinality(Gone \cup messages)
    BY <2>3, <2>4, FS_Subset
  <2>7. /\ Cardinality(messages) \in Nat /\ Cardinality(Gone \cap messages) \in Nat
        /\ Cardinality(Gone') \in Nat /\ Cardinality(Gone \cup messages) \in Nat
        /\ Cardinality(Taken) \in Nat
    BY <1>0, <2>2, <2>4, <2>5, <2>6, TakenBound, FS_CardinalityType
  <2>8. Cardinality(Taken) + Cardinality(MayHaveDropped) <= PerCrash
    BY <1>0, LifeBound
  <2>9. crashes' = crashes + 1
    BY <1>6 DEF Crash
  <2>10. (crashes + 1) * PerCrash = crashes * PerCrash + PerCrash
    BY <1>1, <1>3, Product
  <2>11. Cardinality(Gone') <= Cardinality(Gone) + Cardinality(Taken)
    <3> HIDE DEF messages
    <3> QED BY <1>3, <2>2, <2>4, <2>6, <2>7
  <2> HIDE DEF messages
  <2> QED BY <1>0, <1>1, <1>2, <1>3, <2>6, <2>7, <2>8, <2>9, <2>10, <2>11
<1> QED BY <1>4, <1>5, <1>6

LEMMA ConsumerNextIInv == ConsumerIInv /\ [ConsumerNext]_consumerVars => ConsumerIInv'
<1> SUFFICES ASSUME ConsumerIInv, [ConsumerNext]_consumerVars PROVE ConsumerIInv'
  OBVIOUS
<1>1. CASE ConsumerNext
  BY <1>1, TypeOKInductive, SparedInductive, BoundInductive DEF ConsumerIInv
<1>2. CASE UNCHANGED consumerVars
  BY <1>2 DEF consumerVars, readerVars, ConsumerIInv, ConsumerTypeOK, SomeoneSpared, Spared, Gone, Held, PerCrash, MayHaveDropped
<1> QED BY <1>1, <1>2

\* What is behind the committed offset and lost is gone.
LEMMA IInvBound == ConsumerIInv => LossBound
<1> SUFFICES ASSUME ConsumerIInv PROVE LossBound
  OBVIOUS
<1>1. Lost \subseteq Gone
  BY DEF ConsumerIInv, ConsumerTypeOK, Lost, Gone
<1>2. IsFiniteSet(Lost) /\ Cardinality(Lost) <= Cardinality(Gone)
  BY <1>1, FS_Subset DEF ConsumerIInv
<1>3. /\ Cardinality(Lost) \in Nat /\ Cardinality(Gone) \in Nat /\ crashes * PerCrash \in Nat
      /\ Cardinality(MayHaveDropped) \in Nat
  BY <1>2, FS_CardinalityType, PerCrashNat, DroppedFinite DEF ConsumerIInv, ConsumerTypeOK
<1> QED BY <1>2, <1>3 DEF LossBound, ConsumerIInv

\* The types, and that no two executors have the same message.
THEOREM KafkaConsumerTypes == ConsumerSpec => []ConsumerTypeOK
<1>1. ConsumerIInv => ConsumerTypeOK
  BY DEF ConsumerIInv
<1> QED BY <1>1, ConsumerInitIInv, ConsumerNextIInv, PTL DEF ConsumerSpec

\* At most one message for each executor and life of the process is never seen by a
\* handler; with commits after the handler one less, and none without a crash.
THEOREM KafkaLossBound == ConsumerSpec => []LossBound
<1> QED BY IInvBound, ConsumerInitIInv, ConsumerNextIInv, PTL DEF ConsumerSpec
===============================================================================
