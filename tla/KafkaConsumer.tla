------------------------------ MODULE KafkaConsumer ------------------------------
(***************************************************************************)
(* The consumer of mq/kafkamq: executors that share one reader of a topic, *)
(* with commits by the reader (ReadMessage) or after the handler           *)
(* (FetchMessage, CommitMessages); Stop; and a process that dies and is    *)
(* started again.                                                          *)
(*                                                                         *)
(* The reader (kafka-go) and the broker are external: the reader hands out *)
(* each offset once, merges the commits of a second into the largest, and  *)
(* starts at the committed offset.  A commit names the offset to go on at. *)
(***************************************************************************)
EXTENDS Naturals, FiniteSets

CONSTANTS
    Executors,     \* of Consume
    MaxMessages,   \* bound: messages of the topic
    MaxCrashes     \* bound: crashes

ASSUME KafkaConsumerAssumption ==
    /\ IsFiniteSet(Executors) /\ Executors # {}
    /\ MaxMessages \in Nat /\ MaxCrashes \in Nat

VARIABLES
    auto,       \* WithAutoCommit
    produced,   \* messages in the topic
    next,       \* the offset the reader hands out next
    asked,      \* the largest commit of this second, 0 for none
    committed,  \* the offset the broker knows
    executorPc, \* where an executor is
    msg,        \* its message
    stop,       \* "no", "cancelled", "closed": how far Stop is
    handed,     \* messages for which a handler was started
    crashes

readerVars == <<next, asked, committed>>
consumerVars == <<auto, produced, readerVars, executorPc, msg, stop, handed, crashes>>

ConsumerInit ==
    /\ auto \in BOOLEAN
    /\ produced = 0
    /\ next = 0 /\ asked = 0 /\ committed = 0
    /\ executorPc = [e \in Executors |-> "loop"]
    /\ msg = [e \in Executors |-> 0]
    /\ stop = "no"
    /\ handed = {}
    /\ crashes = 0

isDone == stop # "no"
Larger(m, n) == IF m > n THEN m ELSE n

Goto(e, label) == executorPc' = [executorPc EXCEPT ![e] = label]

-------------------------------------------------------------------------------
(* The topic, and what the reader does by itself.                          *)

Produce ==
    /\ produced < MaxMessages
    /\ produced' = produced + 1
    /\ UNCHANGED <<auto, readerVars, executorPc, msg, stop, handed, crashes>>

\* The end of a second, or Close: the broker takes the offset as it comes, which
\* may be smaller than the one before.
Flush ==
    /\ committed' = IF asked > 0 THEN asked ELSE committed
    /\ asked' = 0

FlushCommits ==
    /\ asked > 0 /\ stop # "closed"
    /\ Flush
    /\ UNCHANGED <<auto, produced, next, executorPc, msg, stop, handed, crashes>>

-------------------------------------------------------------------------------
(* An executor.                                                            *)

Loop(e) ==
    /\ executorPc[e] = "loop"
    /\ Goto(e, IF isDone THEN "ended" ELSE "fetch")
    /\ UNCHANGED <<auto, produced, readerVars, msg, stop, handed, crashes>>

\* Mutant: the message is committed when it is fetched, whatever the option says.
FetchCommits(e) ==
    /\ executorPc[e] = "fetch"
    /\ stop # "closed" /\ next < produced
    /\ msg' = [msg EXCEPT ![e] = next]
    /\ next' = next + 1
    /\ asked' = Larger(asked, next + 1)
    /\ Goto(e, "fetched")
    /\ UNCHANGED <<auto, produced, committed, stop, handed, crashes>>

\* A message may still come after Stop has cancelled the context.  ReadMessage
\* asks for the commit before it returns.
Fetch(e) ==
    /\ executorPc[e] = "fetch"
    /\ stop # "closed" /\ next < produced
    /\ msg' = [msg EXCEPT ![e] = next]
    /\ next' = next + 1
    /\ asked' = IF auto THEN Larger(asked, next + 1) ELSE asked
    /\ Goto(e, "fetched")
    /\ UNCHANGED <<auto, produced, committed, stop, handed, crashes>>

\* The broker is out of reach: log, sleep, go on.
FetchFails(e) ==
    /\ executorPc[e] = "fetch"
    /\ ~isDone
    /\ Goto(e, "loop")
    /\ UNCHANGED <<auto, produced, readerVars, msg, stop, handed, crashes>>

\* FetchMessage returns once its context is cancelled; ReadMessage has another
\* context, and returns once the reader is closed.
FetchEnds(e) ==
    /\ executorPc[e] = "fetch"
    /\ stop = "closed" \/ (stop = "cancelled" /\ ~auto)
    /\ Goto(e, "ended")
    /\ UNCHANGED <<auto, produced, readerVars, msg, stop, handed, crashes>>

\* Close is under way: ReadMessage takes a message, its own commit is refused, and
\* it returns the error alone; the executor sees that Stop has come, and ends.
FetchDropped(e) ==
    /\ executorPc[e] = "fetch"
    /\ auto /\ stop = "cancelled" /\ next < produced
    /\ next' = next + 1
    /\ Goto(e, "ended")
    /\ UNCHANGED <<auto, produced, asked, committed, msg, stop, handed, crashes>>

Handle(e) ==
    /\ executorPc[e] = "fetched"
    /\ Goto(e, "handling")
    /\ handed' = handed \cup {msg[e]}
    /\ UNCHANGED <<auto, produced, readerVars, msg, stop, crashes>>

\* With ReadMessage the error of the handler is ignored; else CommitMessages,
\* which may find the context cancelled or the reader closed.
HandlerOk(e, late) ==
    /\ executorPc[e] = "handling"
    /\ late => isDone
    /\ asked' = IF auto \/ late \/ stop = "closed" THEN asked ELSE Larger(asked, msg[e] + 1)
    /\ Goto(e, "loop")
    /\ UNCHANGED <<auto, produced, next, committed, msg, stop, handed, crashes>>

\* Mutant: the handler is called without RunSafe; here only the executor dies.
HandlerFailsEnds(e) ==
    /\ executorPc[e] = "handling"
    /\ Goto(e, "ended")
    /\ UNCHANGED <<auto, produced, readerVars, msg, stop, handed, crashes>>

\* An error, or a panic that RunSafe catches: no commit, and on to the next message.
HandlerFails(e) ==
    /\ executorPc[e] = "handling"
    /\ Goto(e, "loop")
    /\ UNCHANGED <<auto, produced, readerVars, msg, stop, handed, crashes>>

-------------------------------------------------------------------------------
Cancel ==
    /\ stop = "no"
    /\ stop' = "cancelled"
    /\ UNCHANGED <<auto, produced, readerVars, executorPc, msg, handed, crashes>>

\* Mutant: Stop only cancels the context.
CloseNothing ==
    /\ FALSE
    /\ UNCHANGED consumerVars

Close ==
    /\ stop = "cancelled"
    /\ stop' = "closed"
    /\ Flush
    /\ UNCHANGED <<auto, produced, next, executorPc, msg, handed, crashes>>

\* The process dies, before or after Stop, and NewConsumer and Consume start again.
Crash ==
    /\ crashes < MaxCrashes
    /\ crashes' = crashes + 1
    /\ next' = committed
    /\ asked' = 0
    /\ executorPc' = [e \in Executors |-> "loop"]
    /\ msg' = [e \in Executors |-> 0]
    /\ stop' = "no"
    /\ UNCHANGED <<auto, produced, committed, handed>>

HandlerEnds(e) == (\E late \in BOOLEAN : HandlerOk(e, late)) \/ HandlerFails(e)
Works(e) == Loop(e) \/ Handle(e) \/ FetchEnds(e)

ConsumerNext ==
    \/ Produce \/ FlushCommits \/ Cancel \/ Close \/ Crash
    \/ \E e \in Executors : Works(e) \/ Fetch(e) \/ FetchDropped(e) \/ FetchFails(e) \/ HandlerEnds(e)

\* The handlers end, Stop goes on, and the broker is not out of reach for ever.
ConsumerFairness ==
    /\ WF_consumerVars(Close)
    /\ \A e \in Executors : WF_consumerVars(Works(e)) /\ WF_consumerVars(HandlerEnds(e)) /\ SF_consumerVars(Fetch(e))

ConsumerSpec == ConsumerInit /\ [][ConsumerNext]_consumerVars
ConsumerFairSpec == ConsumerSpec /\ ConsumerFairness

-------------------------------------------------------------------------------
\* An executor has this message, and has not started the handler.
Held(o) == \E e \in Executors : executorPc[e] = "fetched" /\ msg[e] = o

\* The executors that hold a message hold different ones, all handed out by the
\* reader; nothing is committed that it did not hand out.
ConsumerTypeOK ==
    /\ auto \in BOOLEAN
    /\ produced \in 0..MaxMessages
    /\ next \in 0..produced /\ asked \in 0..next /\ committed \in 0..next
    /\ executorPc \in [Executors -> {"loop", "fetch", "fetched", "handling", "ended"}]
    /\ msg \in [Executors -> Nat]
    /\ \A e \in Executors : executorPc[e] \in {"fetched", "handling"} => msg[e] < next
    /\ \A e, f \in Executors :
          e # f /\ executorPc[e] \in {"fetched", "handling"} /\ executorPc[f] \in {"fetched", "handling"}
             => msg[e] # msg[f]
    /\ stop \in {"no", "cancelled", "closed"}
    /\ handed \subseteq 0..produced - 1
    /\ crashes \in 0..MaxCrashes

Lost == {o \in 0..committed - 1 : o \notin handed /\ ~Held(o)}
PerCrash == IF auto THEN Cardinality(Executors) ELSE Cardinality(Executors) - 1

\* An executor whose ReadMessage may have dropped a message: it has ended.
MayHaveDropped == {e \in Executors : auto /\ executorPc[e] = "ended"}

\* A commit covers all messages before it, those of other executors too: a message
\* that no handler ever saw is behind the committed offset only if a crash took it
\* from its executor, or ReadMessage dropped it while Stop closed the reader: at
\* most one for every executor and life of the process.  With commits after the
\* handler it is one less, as the last message fetched was not committed, and Stop
\* without a crash loses none.
LossBound == Cardinality(Lost) <= crashes * PerCrash + Cardinality(MayHaveDropped)

\* Stop ends all executors, also those that wait for a message.
StopEnds == isDone ~> (\A e \in Executors : executorPc[e] = "ended") \/ ~isDone

\* A handler that fails or panics, and a broker out of reach for a while, stop
\* nothing: every message reaches a handler, unless it is lost as above or Stop comes.
EveryMessage ==
    \A o \in 0..MaxMessages - 1 : produced > o ~> o \in handed \/ o \in Lost \/ isDone
===============================================================================
