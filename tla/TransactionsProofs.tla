--------------------------- MODULE TransactionsProofs ---------------------------
(***************************************************************************)
(* Transactions for any number of goroutines and connections, any depth    *)
(* and number of calls and writes: no connection stays behind, and the     *)
(* result of a call says what became of its writes.                        *)
(***************************************************************************)
EXTENDS Transactions, FiniteSetTheorems, SequenceTheorems, TLAPS

StackType ==
    /\ stack \in [Goroutines -> Seq(Frames)]
    /\ \A g \in Goroutines : Depth(g) <= MaxDepth
    /\ \A g \in Goroutines : \A d \in 1..Depth(g) : stack[g][d].on <= d

\* The frame at depth d of g began the transaction of session on.
Begins(g, d, on) == stack[g][d].kind = "tx" /\ stack[g][d].began /\ stack[g][d].on = on

\* A goroutine that waits to begin has room for the call, and a session for it.
Room ==
    \A g \in Goroutines : wants[g].op = "begin" =>
        /\ Depth(g) < MaxDepth /\ wants[g].on <= Depth(g) + 1
        /\ <<g, wants[g].on>> \notin closed \cup open

\* The same of the next state.
BeginsNext(g, d, on) == stack'[g][d].kind = "tx" /\ stack'[g][d].began /\ stack'[g][d].on = on

\* A session has one frame that began its transaction, which is open or was closed
\* by a call nested in this one; Context closes sessions it made itself.
Framed ==
    \A g \in Goroutines : \A d \in 1..Depth(g) :
        LET frame == stack[g][d] IN
        /\ frame.kind = "plain" /\ frame.began => frame.on = d
        /\ frame.kind = "tx" /\ frame.began =>
              /\ <<g, frame.on>> \in open \cup closed
              /\ \A e \in 1..Depth(g) : Begins(g, e, frame.on) => e = d

\* Every write is of one transaction, or of none.
Unique ==
    /\ durable \subseteq 1..written
    /\ \A s \in Sessions : made[s] \subseteq 1..written
    /\ \A s, t \in Sessions : s # t => made[s] \cap made[t] = {}
    /\ \A g \in Goroutines : wants[g].op = "write" =>
          \A s \in Sessions : wants[g].on \notin made[s]

\* What became of the writes of a transaction.
Fate(s) ==
    IF s \in open THEN pending[s] = made[s] /\ nested[s] = "none" /\ made[s] \cap durable = {}
    ELSE /\ made[s] \subseteq durable \/ made[s] \cap durable = {}
         /\ nested[s] = "ok" => made[s] \subseteq durable
         /\ nested[s] \in {"error", "panic"} => made[s] \cap durable = {}
         /\ nested[s] # "none"
Fates == \A g \in Goroutines : \A d \in 1..Depth(g) :
             stack[g][d].kind = "tx" /\ stack[g][d].began => Fate(<<g, stack[g][d].on>>)

IInv == TypeOK /\ IsFiniteSet(open) /\ Room /\ Framed /\ NoLeak /\ Unique /\ Fates

\* What the steps that leave stacks or transactions alone keep.
LEMMA FramedKept ==
    ASSUME Framed, UNCHANGED <<stack, open, closed>>
    PROVE  Framed'
<1>1. \A g \in Goroutines : Depth(g)' = Depth(g)
  BY DEF Depth
<1> QED BY <1>1 DEF Framed, Begins

LEMMA FatesKept ==
    ASSUME Fates, UNCHANGED <<stack, open, pending, durable, made, nested>>
    PROVE  Fates'
<1>1. \A g \in Goroutines : Depth(g)' = Depth(g)
  BY DEF Depth
<1>2. \A s : Fate(s)' <=> Fate(s)
  BY DEF Fate
<1> QED BY <1>1, <1>2 DEF Fates

-------------------------------------------------------------------------------
(* The stacks. *)

LEMMA Stacked ==
    ASSUME StackType, NEW g \in Goroutines
    PROVE  /\ stack[g] \in Seq(Frames) /\ Depth(g) \in Nat
           /\ \A d \in 1..Depth(g) : stack[g][d] \in Frames
  BY LenProperties DEF StackType, Depth

LEMMA Pushed ==
    ASSUME StackType, TransactionsAssumption, NEW g \in Goroutines, NEW kind \in {"tx", "plain"},
           NEW on \in 1..MaxDepth, NEW began \in BOOLEAN,
           Push(g, kind, on, began), Depth(g) < MaxDepth, on <= Depth(g) + 1
    PROVE  /\ StackType'
           /\ Depth(g)' = Depth(g) + 1
           /\ stack'[g][Depth(g) + 1] = [kind |-> kind, on |-> on, began |-> began]
           /\ \A d \in 1..Depth(g) : stack'[g][d] = stack[g][d]
           /\ \A h \in Goroutines : h # g => stack'[h] = stack[h]
<1> DEFINE frame == [kind |-> kind, on |-> on, began |-> began]
<1>1. frame \in Frames /\ frame.on = on
  BY DEF Frames
<1>2. stack[g] \in Seq(Frames) /\ Depth(g) \in Nat /\ Len(stack[g]) = Depth(g)
  BY Stacked DEF Depth
<1>3. stack' = [stack EXCEPT ![g] = Append(stack[g], frame)]
  BY DEF Push
<1> HIDE DEF frame
<1>4. /\ Append(stack[g], frame) \in Seq(Frames)
      /\ Len(Append(stack[g], frame)) = Depth(g) + 1
      /\ \A d \in 1..Depth(g) : Append(stack[g], frame)[d] = stack[g][d]
      /\ Append(stack[g], frame)[Depth(g) + 1] = frame
  BY <1>1, <1>2, AppendProperties
<1>5. /\ stack'[g] = Append(stack[g], frame)
      /\ \A h \in Goroutines : h # g => stack'[h] = stack[h]
      /\ stack' \in [Goroutines -> Seq(Frames)]
  BY <1>3, <1>4 DEF StackType
<1>6. Depth(g)' = Depth(g) + 1 /\ \A h \in Goroutines : h # g => Depth(h)' = Depth(h)
  BY <1>4, <1>5 DEF Depth
<1>7. \A h \in Goroutines : Depth(h)' <= MaxDepth
  BY <1>2, <1>6, TransactionsAssumption DEF StackType
<1>8. \A h \in Goroutines : \A d \in 1..Depth(h)' : stack'[h][d].on <= d
  <2>1. ASSUME NEW d \in 1..Depth(g) + 1 PROVE stack'[g][d].on <= d
    <3>1. CASE d = Depth(g) + 1
      BY <1>1, <1>4, <1>5, <3>1
    <3>2. CASE d \in 1..Depth(g)
      BY <1>4, <1>5, <3>2 DEF StackType
    <3> QED BY <1>2, <3>1, <3>2
  <2> QED BY <1>5, <1>6, <2>1 DEF StackType
<1> QED BY <1>4, <1>5, <1>6, <1>7, <1>8 DEF StackType, frame

LEMMA Popping ==
    ASSUME StackType, TransactionsAssumption, NEW g \in Goroutines, Depth(g) > 0,
           stack' = [stack EXCEPT ![g] = SubSeq(@, 1, Depth(g) - 1)]
    PROVE  /\ StackType'
           /\ Depth(g)' = Depth(g) - 1
           /\ \A d \in 1..Depth(g) - 1 : stack'[g][d] = stack[g][d]
           /\ \A h \in Goroutines : h # g => stack'[h] = stack[h]
<1>1. stack[g] \in Seq(Frames) /\ Depth(g) \in Nat /\ Len(stack[g]) = Depth(g)
      /\ \A d \in 1..Depth(g) : stack[g][d] \in Frames
  BY Stacked DEF Depth
<1> DEFINE rest == SubSeq(stack[g], 1, Depth(g) - 1)
<1>2. /\ rest \in Seq(Frames) /\ Len(rest) = Depth(g) - 1
      /\ \A d \in 1..Depth(g) - 1 : rest[d] = stack[g][d]
  <2>1. \A d \in 1..Depth(g) - 1 : stack[g][d] \in Frames
    BY <1>1
  <2>2. rest \in Seq(Frames)
    BY <1>1, <2>1, SubSeqProperties
  <2>3. Len(rest) = IF 1 <= Depth(g) - 1 THEN Depth(g) - 1 - 1 + 1 ELSE 0
    BY <1>1, <2>1, SubSeqProperties
  <2>4. \A d \in 1..Depth(g) - 1 - 1 + 1 : rest[d] = stack[g][1 + d - 1]
    BY <1>1, <2>1, SubSeqProperties
  <2> QED BY <1>1, <2>2, <2>3, <2>4
<1> HIDE DEF rest
<1>3. /\ stack'[g] = rest
      /\ \A h \in Goroutines : h # g => stack'[h] = stack[h]
      /\ stack' \in [Goroutines -> Seq(Frames)]
  BY <1>2 DEF StackType, rest
<1>4. Depth(g)' = Depth(g) - 1 /\ \A h \in Goroutines : h # g => Depth(h)' = Depth(h)
  BY <1>2, <1>3 DEF Depth
<1>5. \A h \in Goroutines : Depth(h)' <= MaxDepth
  <2>1. Depth(g)' <= MaxDepth
    BY <1>1, <1>4, TransactionsAssumption DEF StackType
  <2> QED BY <1>4, <2>1 DEF StackType
<1>6. \A h \in Goroutines : \A d \in 1..Depth(h)' : stack'[h][d].on <= d
  <2>1. ASSUME NEW d \in 1..Depth(g) - 1 PROVE stack'[g][d].on <= d
    <3>1. d \in 1..Depth(g)
      BY <1>1
    <3>2. stack[g][d].on <= d
      BY <3>1 DEF StackType
    <3>3. stack'[g][d] = stack[g][d]
      BY <1>2, <1>3
    <3> QED BY <3>2, <3>3
  <2>2. ASSUME NEW h \in Goroutines, h # g, NEW d \in 1..Depth(h) PROVE stack'[h][d].on <= d
    BY <1>3, <2>2 DEF StackType
  <2> QED BY <1>4, <2>1, <2>2
<1> QED BY <1>2, <1>3, <1>4, <1>5, <1>6 DEF StackType

\* The frames after a push and after a pop, in terms of those before.
Kept(h, d) == d \in 1..Depth(h)' /\ stack'[h][d] = stack[h][d]
Grown(g, frame) ==
    /\ \A h \in Goroutines : \A d \in 1..Depth(h) : Kept(h, d)
    /\ \A h \in Goroutines : \A d \in 1..Depth(h)' :
          d \in 1..Depth(h) \/ (h = g /\ d = Depth(g) + 1)
    /\ stack'[g][Depth(g) + 1] = frame /\ Depth(g)' = Depth(g) + 1
    /\ \A h \in Goroutines : h # g => Depth(h)' = Depth(h)
Shrunk(g) ==
    /\ \A h \in Goroutines : \A d \in 1..Depth(h)' :
          d \in 1..Depth(h) /\ stack'[h][d] = stack[h][d] /\ ~(h = g /\ d = Depth(g))
    /\ \A h \in Goroutines : \A d \in 1..Depth(h) : d \in 1..Depth(h)' \/ (h = g /\ d = Depth(g))
    /\ \A h \in Goroutines : h # g => Depth(h)' = Depth(h)

LEMMA Growing ==
    ASSUME StackType, TransactionsAssumption, NEW g \in Goroutines, NEW kind \in {"tx", "plain"},
           NEW on \in 1..MaxDepth, NEW began \in BOOLEAN,
           Push(g, kind, on, began), Depth(g) < MaxDepth, on <= Depth(g) + 1
    PROVE  StackType' /\ Grown(g, [kind |-> kind, on |-> on, began |-> began])
<1>1. /\ StackType'
      /\ Depth(g)' = Depth(g) + 1
      /\ stack'[g][Depth(g) + 1] = [kind |-> kind, on |-> on, began |-> began]
      /\ \A d \in 1..Depth(g) : stack'[g][d] = stack[g][d]
      /\ \A h \in Goroutines : h # g => stack'[h] = stack[h]
  BY Pushed
<1>2. \A h \in Goroutines : Depth(h) \in Nat /\ (h # g => Depth(h)' = Depth(h))
  BY <1>1, Stacked DEF Depth
<1>3. \A h \in Goroutines : \A d \in 1..Depth(h) : Kept(h, d)
  BY <1>1, <1>2 DEF Kept
<1>4. \A h \in Goroutines : \A d \in 1..Depth(h)' :
        d \in 1..Depth(h) \/ (h = g /\ d = Depth(g) + 1)
  BY <1>1, <1>2
<1> QED BY <1>1, <1>2, <1>3, <1>4 DEF Grown

LEMMA Shrinking ==
    ASSUME StackType, TransactionsAssumption, NEW g \in Goroutines, Depth(g) > 0,
           NEW outcome, Pop(g, outcome)
    PROVE  StackType' /\ Shrunk(g)
<1>1. /\ StackType'
      /\ Depth(g)' = Depth(g) - 1
      /\ \A d \in 1..Depth(g) - 1 : stack'[g][d] = stack[g][d]
      /\ \A h \in Goroutines : h # g => stack'[h] = stack[h]
  BY Popping DEF Pop
<1>2. \A h \in Goroutines : Depth(h) \in Nat /\ (h # g => Depth(h)' = Depth(h))
  BY <1>1, Stacked DEF Depth
<1>3. \A h \in Goroutines : \A d \in 1..Depth(h)' :
          d \in 1..Depth(h) /\ stack'[h][d] = stack[h][d] /\ ~(h = g /\ d = Depth(g))
  <2>1. ASSUME NEW d \in 1..Depth(g)'
        PROVE d \in 1..Depth(g) /\ stack'[g][d] = stack[g][d] /\ d # Depth(g)
    BY <1>1, <1>2
  <2> QED BY <1>1, <1>2, <2>1
<1>4. \A h \in Goroutines : \A d \in 1..Depth(h) : d \in 1..Depth(h)' \/ (h = g /\ d = Depth(g))
  BY <1>1, <1>2
<1> QED BY <1>1, <1>2, <1>3, <1>4 DEF Shrunk

LEMMA TopFrame ==
    ASSUME StackType, NEW g \in Goroutines, Depth(g) > 0
    PROVE  /\ Depth(g) \in 1..Depth(g) /\ Depth(g) \in Nat /\ Top(g) = stack[g][Depth(g)]
           /\ Top(g) \in Frames /\ Top(g).on <= Depth(g) /\ Session(g) \in Sessions
<1>1. Depth(g) \in Nat /\ Depth(g) \in 1..Depth(g)
  BY Stacked
<1>2. Top(g) = stack[g][Depth(g)] /\ Top(g) \in Frames
  BY <1>1, Stacked DEF Top
<1>3. Top(g).on <= Depth(g)
  BY <1>1, <1>2 DEF StackType
<1> QED BY <1>1, <1>2, <1>3 DEF Session, Sessions, Frames

-------------------------------------------------------------------------------
(* A call starts. *)

\* TypeOK without the stacks.
Types ==
    /\ wants \in [Goroutines -> [op : {"none", "begin", "write"}, on : Nat]]
    /\ \A g \in Goroutines : wants[g].op = "begin" => wants[g].on \in 1..MaxDepth
    /\ \A g \in Goroutines : wants[g].op = "write" => wants[g].on \in 1..written
    /\ result \in [Goroutines -> Outcomes]
    /\ calls \in 0..MaxCalls
    /\ open \subseteq Sessions /\ closed \subseteq Sessions /\ open \cap closed = {}
    /\ pending \in [Sessions -> SUBSET Writes]
    /\ written \in 0..MaxWrites
    /\ durable \subseteq Writes
    /\ made \in [Sessions -> SUBSET Writes]
    /\ nested \in [Sessions -> Outcomes]

LEMMA TypeParts == TypeOK <=> StackType /\ Types
BY DEF TypeOK, StackType, Types

\* An open session is at most as deep as the calls of its goroutine.
LEMMA OpenDeep ==
    ASSUME IInv, NEW g \in Goroutines, NEW on, <<g, on>> \in open
    PROVE  on <= Depth(g)
<1>1. PICK d \in 1..Depth(g) : stack[g][d].on = on
  BY DEF IInv, NoLeak
<1>2. StackType /\ Depth(g) \in Nat /\ stack[g][d] \in Frames /\ stack[g][d].on <= d
  BY TypeParts, Stacked DEF IInv, StackType
<1> QED BY <1>1, <1>2 DEF Frames

LEMMA Started ==
    ASSUME IInv, TransactionsAssumption, NEW g \in Goroutines, CallStarts(g), NEW own \in BOOLEAN
    PROVE  LET on == SessionFor(g, own) IN
           /\ on \in 1..MaxDepth /\ on <= Depth(g) + 1
           /\ ~Found(g, own) => on = Depth(g) + 1
           /\ Found(g, own) => on = Top(g).on /\ Session(g) \notin closed /\ Depth(g) > 0
           /\ Fresh(g, on) \subseteq closed /\ closed \subseteq Fresh(g, on) \cup {<<g, Depth(g) + 1>>}
           /\ <<g, on>> \notin Fresh(g, on)
           /\ wants[g] = Idle /\ Depth(g) < MaxDepth
           /\ calls' \in 0..MaxCalls /\ result' \in [Goroutines -> Outcomes]
<1>1. StackType /\ Types /\ Depth(g) \in Nat
  BY TypeParts, Stacked DEF IInv
<1>2. wants[g] = Idle /\ Depth(g) < MaxDepth
  BY DEF CallStarts, Runs
<1>3. calls' \in 0..MaxCalls /\ result' \in [Goroutines -> Outcomes]
  BY <1>1, TransactionsAssumption DEF CallStarts, Types, Outcomes
<1>4. CASE Found(g, own)
  <2>1. SessionFor(g, own) = Top(g).on /\ Session(g) \notin closed /\ Depth(g) > 0
    BY <1>4 DEF SessionFor, Found
  <2>2. Top(g).on \in 1..MaxDepth /\ Top(g).on <= Depth(g)
    BY <1>1, <2>1, TopFrame DEF Frames
  <2>3. Fresh(g, Top(g).on) = closed
    BY <1>1, <2>2 DEF Fresh
  <2> QED BY <1>1, <1>2, <1>3, <1>4, <2>1, <2>2, <2>3 DEF Session
<1>5. CASE ~Found(g, own)
  <2>1. SessionFor(g, own) = Depth(g) + 1
    BY <1>5 DEF SessionFor
  <2>2. Depth(g) + 1 \in 1..MaxDepth
    BY <1>1, <1>2, TransactionsAssumption
  <2>3. Fresh(g, Depth(g) + 1) = closed \ {<<g, Depth(g) + 1>>}
    BY <1>1 DEF Fresh
  <2> QED BY <1>1, <1>2, <1>3, <1>5, <2>1, <2>2, <2>3
<1> QED BY <1>4, <1>5

\* A frame that begins no transaction.
LEMMA InnerFrame ==
    ASSUME IInv, TransactionsAssumption, NEW g \in Goroutines, NEW kind \in {"tx", "plain"},
           NEW on \in 1..MaxDepth, NEW began \in BOOLEAN, Push(g, kind, on, began),
           on <= Depth(g) + 1, Depth(g) < MaxDepth, wants[g] = Idle,
           kind = "plain" \/ ~began, kind = "plain" /\ began => on = Depth(g) + 1,
           closed' \subseteq closed, closed \subseteq closed' \cup {<<g, Depth(g) + 1>>},
           calls' \in 0..MaxCalls, result' \in [Goroutines -> Outcomes],
           UNCHANGED <<wants, open, pending, durable, made, nested, written>>
    PROVE  IInv'
<1> DEFINE frame == [kind |-> kind, on |-> on, began |-> began]
<1>1. StackType /\ Types /\ Depth(g) \in Nat
  BY TypeParts, Stacked DEF IInv
<1>2. StackType' /\ Grown(g, frame)
  BY <1>1, Growing
<1>3. TypeOK'
  <2>1. Types'
    BY <1>1 DEF Types
  <2>2. StackType' /\ Types' => TypeOK'
    BY DEF TypeOK, StackType, Types
  <2> QED BY <1>2, <2>1, <2>2
<1>4. Room'
  BY <1>2 DEF IInv, Room, Grown, Idle
<1>5. ~(frame.kind = "tx" /\ frame.began) /\ (frame.kind = "plain" /\ frame.began => frame.on = Depth(g) + 1)
  OBVIOUS
<1>6. ASSUME NEW h \in Goroutines, NEW d \in 1..Depth(h)', NEW s, BeginsNext(h, d, s)
      PROVE  d \in 1..Depth(h) /\ Begins(h, d, s) /\ stack'[h][d] = stack[h][d]
  BY <1>2, <1>5, <1>6 DEF Grown, Kept, Begins, BeginsNext
<1> HIDE DEF frame
<1>7. Framed'
  <2> SUFFICES ASSUME NEW h \in Goroutines, NEW d \in 1..Depth(h)'
               PROVE  LET f == stack'[h][d] IN
                      /\ f.kind = "plain" /\ f.began => f.on = d
                      /\ f.kind = "tx" /\ f.began =>
                            /\ <<h, f.on>> \in open' \cup closed'
                            /\ \A e \in 1..Depth(h)' : BeginsNext(h, e, f.on) => e = d
    BY DEF Framed, Begins, BeginsNext
  <2>1. CASE d \in 1..Depth(h)
    <3>1. stack'[h][d] = stack[h][d]
      BY <1>2, <2>1 DEF Grown, Kept
    <3>2. stack[h][d].on <= d /\ stack[h][d].on \in Nat /\ Depth(h) \in Nat
      <4>1. stack[h][d] \in Frames /\ Depth(h) \in Nat
        BY <1>1, <2>1, Stacked
      <4> QED BY <1>1, <2>1, <4>1 DEF StackType, Frames
    <3>3. <<h, stack[h][d].on>> # <<g, Depth(g) + 1>>
      BY <1>1, <2>1, <3>2
    <3>4. \A e \in 1..Depth(h)' : BeginsNext(h, e, stack[h][d].on) =>
              e \in 1..Depth(h) /\ Begins(h, e, stack[h][d].on)
      BY <1>6
    <3> QED BY <2>1, <3>1, <3>3, <3>4 DEF IInv, Framed
  <2>2. CASE h = g /\ d = Depth(g) + 1
    BY <1>2, <1>5, <2>2 DEF Grown
  <2> QED BY <1>2, <2>1, <2>2 DEF Grown
<1>8. NoLeak'
  <2>1. \A s \in open' : \E d \in 1..Depth(s[1])' :
           stack'[s[1]][d].kind = "tx" /\ stack'[s[1]][d].began /\ stack'[s[1]][d].on = s[2]
    <3> SUFFICES ASSUME NEW s \in open
                 PROVE \E d \in 1..Depth(s[1])' :
           stack'[s[1]][d].kind = "tx" /\ stack'[s[1]][d].began /\ stack'[s[1]][d].on = s[2]
      OBVIOUS
    <3>1. s[1] \in Goroutines
      BY <1>1 DEF Types, Sessions
    <3>2. PICK d \in 1..Depth(s[1]) :
             stack[s[1]][d].kind = "tx" /\ stack[s[1]][d].began /\ stack[s[1]][d].on = s[2]
      BY DEF IInv, NoLeak
    <3> QED BY <1>2, <3>1, <3>2 DEF Grown, Kept
  <2> QED BY <2>1 DEF IInv, NoLeak
<1>9. Unique'
  BY DEF IInv, Unique
<1>10. Fates'
  <2> SUFFICES ASSUME NEW h \in Goroutines, NEW d \in 1..Depth(h)',
                      stack'[h][d].kind = "tx" /\ stack'[h][d].began,
                      NEW s, s = <<h, stack'[h][d].on>>
               PROVE  Fate(s)'
    BY DEF Fates, Fate
  <2>1. BeginsNext(h, d, stack'[h][d].on)
    BY DEF BeginsNext
  <2>2. d \in 1..Depth(h) /\ stack'[h][d] = stack[h][d]
    BY <1>6, <2>1
  <2>3. Fate(s)
    BY <2>2 DEF IInv, Fates
  <2> QED BY <2>2, <2>3 DEF Fate
<1> QED BY <1>3, <1>4, <1>7, <1>8, <1>9, <1>10 DEF IInv

LEMMA JoinInv ==
    ASSUME IInv, TransactionsAssumption, NEW g \in Goroutines, Join(g)
    PROVE  IInv'
<1>1. StackType /\ Depth(g) > 0
  BY TypeParts DEF IInv, Join, Found
<1>2. Top(g).on \in 1..MaxDepth /\ Top(g).on <= Depth(g) /\ Depth(g) \in Nat
  BY <1>1, TopFrame DEF Frames
<1>3. /\ wants[g] = Idle /\ Depth(g) < MaxDepth
      /\ calls' \in 0..MaxCalls /\ result' \in [Goroutines -> Outcomes]
  BY Started DEF Join
<1>4. UNCHANGED <<wants, open, pending, durable, made, nested, written>> /\ closed' = closed
  BY DEF Join, sessionVars
<1>5. Push(g, "tx", Top(g).on, FALSE)
  BY DEF Join
<1>6. Top(g).on <= Depth(g) + 1
  BY <1>2
<1>7. closed' \subseteq closed /\ closed \subseteq closed' \cup {<<g, Depth(g) + 1>>}
  BY <1>4
<1> QED BY <1>2, <1>3, <1>4, <1>5, <1>6, <1>7, InnerFrame

LEMMA ContextInv ==
    ASSUME IInv, TransactionsAssumption, NEW g \in Goroutines, NEW own \in BOOLEAN,
           CallContext(g, own)
    PROVE  IInv'
<1> DEFINE on == SessionFor(g, own)
<1>1. /\ on \in 1..MaxDepth /\ on <= Depth(g) + 1
      /\ ~Found(g, own) => on = Depth(g) + 1
      /\ Fresh(g, on) \subseteq closed /\ closed \subseteq Fresh(g, on) \cup {<<g, Depth(g) + 1>>}
      /\ wants[g] = Idle /\ Depth(g) < MaxDepth
      /\ calls' \in 0..MaxCalls /\ result' \in [Goroutines -> Outcomes]
  BY Started DEF CallContext
<1>2. Push(g, "plain", on, ~Found(g, own)) /\ closed' = Fresh(g, on)
      /\ UNCHANGED <<wants, open, pending, durable, made, nested, written>>
  BY DEF CallContext
<1>3. (~Found(g, own)) \in BOOLEAN
  BY DEF Found
<1> HIDE DEF on
<1> QED BY <1>1, <1>2, <1>3, InnerFrame

LEMMA CallTxInv ==
    ASSUME IInv, TransactionsAssumption, NEW g \in Goroutines, NEW own \in BOOLEAN,
           CallTx(g, own)
    PROVE  IInv'
<1> DEFINE on == SessionFor(g, own)
<1>1. /\ on \in 1..MaxDepth /\ on <= Depth(g) + 1
      /\ ~Found(g, own) => on = Depth(g) + 1
      /\ Found(g, own) => on = Top(g).on
      /\ Fresh(g, on) \subseteq closed /\ closed \subseteq Fresh(g, on) \cup {<<g, Depth(g) + 1>>}
      /\ <<g, on>> \notin Fresh(g, on)
      /\ Depth(g) < MaxDepth
      /\ calls' \in 0..MaxCalls /\ result' \in [Goroutines -> Outcomes]
  BY Started DEF CallTx
<1>2. wants' = [wants EXCEPT ![g] = [op |-> "begin", on |-> on]] /\ closed' = Fresh(g, on)
      /\ ~(Found(g, own) /\ Session(g) \in open)
      /\ UNCHANGED <<stack, open, pending, durable, made, nested, written>>
  BY DEF CallTx
<1>3. StackType /\ Types /\ Depth(g) \in Nat
  BY TypeParts, Stacked DEF IInv
<1>4. <<g, on>> \notin open
  <2>1. CASE Found(g, own)
    BY <1>1, <1>2, <2>1 DEF Session
  <2>2. CASE ~Found(g, own)
    BY <1>1, <1>3, <2>2, OpenDeep
  <2> QED BY <2>1, <2>2
<1> HIDE DEF on
<1>5. \A h \in Goroutines : wants'[h] = IF h = g THEN [op |-> "begin", on |-> on] ELSE wants[h]
  BY <1>2, <1>3 DEF Types
<1>6. TypeOK'
  <2>1. Types'
    <3>1. wants' \in [Goroutines -> [op : {"none", "begin", "write"}, on : Nat]]
      BY <1>1, <1>2, <1>3 DEF Types
    <3> QED BY <1>1, <1>2, <1>3, <1>5, <3>1 DEF Types
  <2>2. StackType' /\ Types' => TypeOK'
    BY DEF TypeOK, StackType, Types
  <2>3. StackType'
    BY <1>2, <1>3 DEF StackType, Depth
  <2> QED BY <2>1, <2>2, <2>3
<1>7. \A h \in Goroutines : Depth(h)' = Depth(h)
  BY <1>2 DEF Depth
<1>8. Room'
  BY <1>1, <1>2, <1>4, <1>5, <1>7 DEF IInv, Room
<1>9. Framed'
  <2> SUFFICES ASSUME NEW h \in Goroutines, NEW d \in 1..Depth(h), stack[h][d].kind = "tx" /\ stack[h][d].began
               PROVE  <<h, stack[h][d].on>> \in open \cup closed'
    BY <1>2, <1>7 DEF IInv, Framed, Begins
  <2>1. <<h, stack[h][d].on>> \in open \cup closed
    BY DEF IInv, Framed
  <2>2. stack[h][d].on <= d /\ stack[h][d].on \in Nat /\ Depth(h) \in Nat
    <3>1. stack[h][d] \in Frames /\ Depth(h) \in Nat
      BY <1>3, Stacked
    <3> QED BY <1>3, <3>1 DEF StackType, Frames
  <2>3. <<h, stack[h][d].on>> # <<g, Depth(g) + 1>>
    BY <1>3, <2>2
  <2> QED BY <1>1, <1>2, <2>1, <2>3
<1>10. NoLeak'
  BY <1>2 DEF IInv, NoLeak, Depth
<1>11. Unique'
  BY <1>2, <1>5 DEF IInv, Unique
<1>12. Fates'
  BY <1>2, FatesKept DEF IInv
<1>13. IsFiniteSet(open)'
  BY <1>2 DEF IInv
<1> QED BY <1>6, <1>8, <1>9, <1>10, <1>11, <1>12, <1>13 DEF IInv

-------------------------------------------------------------------------------
(* A call begins its transaction, or does not. *)

LEMMA BeginInv ==
    ASSUME IInv, TransactionsAssumption, NEW g \in Goroutines, Begin(g)
    PROVE  IInv'
<1> DEFINE on == wants[g].on
           s == <<g, on>>
           frame == [kind |-> "tx", on |-> on, began |-> TRUE]
<1>1. StackType /\ Types /\ Depth(g) \in Nat
  BY TypeParts, Stacked DEF IInv
<1>2. /\ wants[g].op = "begin" /\ on \in 1..MaxDepth /\ s \in Sessions
      /\ Depth(g) < MaxDepth /\ on <= Depth(g) + 1 /\ s \notin closed \cup open
  BY <1>1 DEF Begin, IInv, Room, Types, Sessions
<1>3. /\ Cardinality(open) < Conns
      /\ open' = open \cup {s}
      /\ made' = [made EXCEPT ![s] = {}] /\ nested' = [nested EXCEPT ![s] = "none"]
      /\ Push(g, "tx", on, TRUE)
      /\ wants' = [wants EXCEPT ![g] = Idle]
      /\ UNCHANGED <<result, calls, closed, pending, durable, written>>
  BY DEF Begin, FreeConn
<1>4. StackType' /\ Grown(g, frame)
  BY <1>1, <1>2, <1>3, Growing
<1>5. /\ \A h \in Goroutines : wants'[h] = IF h = g THEN Idle ELSE wants[h]
      /\ \A x \in Sessions : made'[x] = IF x = s THEN {} ELSE made[x]
      /\ \A x \in Sessions : nested'[x] = IF x = s THEN "none" ELSE nested[x]
      /\ wants' \in [Goroutines -> [op : {"none", "begin", "write"}, on : Nat]]
      /\ made' \in [Sessions -> SUBSET Writes] /\ nested' \in [Sessions -> Outcomes]
  BY <1>1, <1>2, <1>3 DEF Types, Idle, Outcomes
<1>6. pending[s] = {}
  BY <1>2 DEF IInv, NoLeak
<1>7. IsFiniteSet(open') /\ Cardinality(open') = Cardinality(open) + 1 /\ Cardinality(open) \in Nat
  BY <1>2, <1>3, FS_AddElement, FS_CardinalityType DEF IInv
<1> HIDE DEF on, s, frame
<1>8. TypeOK'
  <2>1. Types'
    BY <1>1, <1>2, <1>3, <1>5 DEF Types, Idle
  <2>2. StackType' /\ Types' => TypeOK'
    BY DEF TypeOK, StackType, Types
  <2> QED BY <1>4, <2>1, <2>2
<1>9. Room'
  <2> SUFFICES ASSUME NEW h \in Goroutines, wants'[h].op = "begin"
               PROVE /\ Depth(h)' < MaxDepth /\ wants'[h].on <= Depth(h)' + 1
                     /\ <<h, wants'[h].on>> \notin closed' \cup open'
    BY DEF Room
  <2>1. h # g /\ wants'[h] = wants[h]
    BY <1>5 DEF Idle
  <2>2. Depth(h)' = Depth(h) /\ <<h, wants[h].on>> # s
    BY <1>4, <2>1 DEF Grown, s
  <2> QED BY <1>3, <2>1, <2>2 DEF IInv, Room
<1>10. frame.kind = "tx" /\ frame.began /\ frame.on = on /\ s = <<g, on>>
  BY DEF frame, s
<1>11. ASSUME NEW h \in Goroutines, NEW d \in 1..Depth(h)', stack'[h][d].kind = "tx" /\ stack'[h][d].began
       PROVE  \/ h = g /\ d = Depth(g) + 1 /\ stack'[h][d].on = on
              \/ /\ d \in 1..Depth(h) /\ stack'[h][d] = stack[h][d]
                 /\ <<h, stack[h][d].on>> \in open \cup closed /\ <<h, stack[h][d].on>> # s
                 /\ <<h, stack[h][d].on>> \in Sessions
  <2>1. CASE d \in 1..Depth(h)
    <3>1. stack'[h][d] = stack[h][d] /\ stack[h][d] \in Frames
      BY <1>1, <1>4, <2>1, Stacked DEF Grown, Kept
    <3>2. <<h, stack[h][d].on>> \in open \cup closed
      BY <1>11, <2>1, <3>1 DEF IInv, Framed
    <3> QED BY <1>2, <2>1, <3>1, <3>2 DEF Sessions, Frames
  <2>2. CASE h = g /\ d = Depth(g) + 1
    BY <1>4, <1>10, <2>2 DEF Grown
  <2> QED BY <1>4, <2>1, <2>2 DEF Grown
<1>12. Framed'
  <2> SUFFICES ASSUME NEW h \in Goroutines, NEW d \in 1..Depth(h)'
               PROVE  LET f == stack'[h][d] IN
                      /\ f.kind = "plain" /\ f.began => f.on = d
                      /\ f.kind = "tx" /\ f.began =>
                            /\ <<h, f.on>> \in open' \cup closed'
                            /\ \A e \in 1..Depth(h)' : BeginsNext(h, e, f.on) => e = d
    BY DEF Framed, Begins, BeginsNext
  <2>1. stack'[h][d].kind = "plain" /\ stack'[h][d].began => stack'[h][d].on = d
    <3>1. CASE d \in 1..Depth(h)
      <4>1. stack'[h][d] = stack[h][d]
        BY <1>4, <3>1 DEF Grown, Kept
      <4> QED BY <3>1, <4>1 DEF IInv, Framed
    <3>2. CASE h = g /\ d = Depth(g) + 1
      BY <1>4, <1>10, <3>2 DEF Grown
    <3> QED BY <1>4, <3>1, <3>2 DEF Grown
  <2>2. ASSUME stack'[h][d].kind = "tx" /\ stack'[h][d].began
        PROVE <<h, stack'[h][d].on>> \in open' \cup closed'
    BY <1>3, <1>10, <1>11, <2>2
  <2>3. ASSUME stack'[h][d].kind = "tx" /\ stack'[h][d].began,
               NEW e \in 1..Depth(h)', BeginsNext(h, e, stack'[h][d].on)
        PROVE e = d
    <3>1. stack'[h][e].kind = "tx" /\ stack'[h][e].began /\ stack'[h][e].on = stack'[h][d].on
      BY <2>3 DEF BeginsNext
    <3>2. CASE h = g /\ d = Depth(g) + 1 /\ stack'[h][d].on = on
      BY <1>10, <1>11, <3>1, <3>2
    <3>3. CASE d \in 1..Depth(h) /\ stack'[h][d] = stack[h][d] /\ <<h, stack[h][d].on>> # s
      <4>1. e \in 1..Depth(h) /\ stack'[h][e] = stack[h][e]
        BY <1>10, <1>11, <3>1, <3>3
      <4>2. Begins(h, e, stack[h][d].on)
        BY <3>1, <3>3, <4>1 DEF Begins
      <4> QED BY <2>3, <3>3, <4>1, <4>2 DEF IInv, Framed
    <3> QED BY <1>11, <2>3, <3>2, <3>3
  <2> QED BY <2>1, <2>2, <2>3
<1>13. NoLeak'
  <2>1. ASSUME NEW x \in open'
        PROVE \E d \in 1..Depth(x[1])' :
           stack'[x[1]][d].kind = "tx" /\ stack'[x[1]][d].began /\ stack'[x[1]][d].on = x[2]
    <3>1. CASE x = s
      <4>1. x[1] = g /\ x[2] = on
        BY <1>10, <3>1
      <4>2. Depth(g) + 1 \in 1..Depth(g)'
        BY <1>1, <1>4 DEF Grown
      <4> QED BY <1>4, <1>10, <4>1, <4>2 DEF Grown
    <3>2. CASE x \in open
      <4>1. x[1] \in Goroutines
        BY <1>1, <3>2 DEF Types, Sessions
      <4>2. PICK d \in 1..Depth(x[1]) :
               stack[x[1]][d].kind = "tx" /\ stack[x[1]][d].began /\ stack[x[1]][d].on = x[2]
        BY <3>2 DEF IInv, NoLeak
      <4> QED BY <1>4, <4>1, <4>2 DEF Grown, Kept
    <3> QED BY <1>3, <3>1, <3>2
  <2>2. Cardinality(open') <= Conns
    BY <1>3, <1>7, TransactionsAssumption
  <2>3. \A x \in Sessions : x \notin open' => pending'[x] = {}
    BY <1>3 DEF IInv, NoLeak
  <2> QED BY <2>1, <2>2, <2>3 DEF NoLeak
<1>14. Unique'
  BY <1>3, <1>5 DEF IInv, Unique, Idle
<1>15. Fates'
  <2> SUFFICES ASSUME NEW h \in Goroutines, NEW d \in 1..Depth(h)',
                      stack'[h][d].kind = "tx" /\ stack'[h][d].began,
                      NEW x, x = <<h, stack'[h][d].on>>
               PROVE  Fate(x)'
    BY DEF Fates, Fate
  <2>1. CASE h = g /\ d = Depth(g) + 1 /\ stack'[h][d].on = on
    <3>1. x = s /\ s \in Sessions
      BY <1>2, <1>10, <2>1
    <3> QED BY <1>3, <1>5, <1>6, <3>1 DEF Fate
  <2>2. CASE /\ d \in 1..Depth(h) /\ stack'[h][d] = stack[h][d]
             /\ <<h, stack[h][d].on>> # s /\ <<h, stack[h][d].on>> \in Sessions
    <3>1. Fate(x) /\ x # s /\ x \in Sessions
      BY <2>2 DEF IInv, Fates
    <3> QED BY <1>3, <1>5, <3>1 DEF Fate
  <2> QED BY <1>11, <2>1, <2>2
<1> QED BY <1>7, <1>8, <1>9, <1>12, <1>13, <1>14, <1>15 DEF IInv

LEMMA BeginFailsInv ==
    ASSUME IInv, TransactionsAssumption, NEW g \in Goroutines, BeginFails(g)
    PROVE  IInv'
<1>1. StackType /\ Types
  BY TypeParts DEF IInv
<1>2. /\ wants' = [wants EXCEPT ![g] = Idle] /\ result' = [result EXCEPT ![g] = "error"]
      /\ UNCHANGED <<stack, calls, open, closed, pending, durable, made, nested, written>>
  BY DEF BeginFails, sessionVars
<1>3. \A h \in Goroutines : wants'[h] = IF h = g THEN Idle ELSE wants[h]
  BY <1>1, <1>2 DEF Types
<1>4. TypeOK'
  <2>1. Types'
    <3>1. /\ wants' \in [Goroutines -> [op : {"none", "begin", "write"}, on : Nat]]
          /\ result' \in [Goroutines -> Outcomes]
      BY <1>1, <1>2 DEF Types, Idle, Outcomes
    <3> QED BY <1>1, <1>2, <1>3, <3>1 DEF Types, Idle
  <2>2. StackType' /\ Types' => TypeOK'
    BY DEF TypeOK, StackType, Types
  <2>3. StackType'
    BY <1>1, <1>2 DEF StackType, Depth
  <2> QED BY <2>1, <2>2, <2>3
<1>5. Room' /\ Unique'
  BY <1>2, <1>3 DEF IInv, Room, Unique, Idle, Depth
<1>6. Framed' /\ IsFiniteSet(open)'
  BY <1>2, FramedKept DEF IInv
<1>8. Fates'
  BY <1>2, FatesKept DEF IInv
<1>7. NoLeak'
  BY <1>2 DEF IInv, NoLeak, Depth
<1> QED BY <1>4, <1>5, <1>6, <1>7, <1>8 DEF IInv

-------------------------------------------------------------------------------
(* Writes. *)

LEMMA WriteInTxInv ==
    ASSUME IInv, TransactionsAssumption, NEW g \in Goroutines, WriteInTx(g)
    PROVE  IInv'
<1> DEFINE s == Session(g)
           w == written + 1
<1>1. StackType /\ Types /\ Depth(g) > 0
  BY TypeParts DEF IInv, WriteInTx, Found
<1>2. s \in Sessions /\ s \in open
  BY <1>1, TopFrame DEF WriteInTx
<1>3. w \in Writes /\ written' = w /\ w \notin 1..written /\ 1..written \subseteq 1..w /\ w \in 1..w
      /\ written' \in 0..MaxWrites
  BY <1>1, TransactionsAssumption DEF WriteInTx, Types, Writes
<1>4. /\ pending' = [pending EXCEPT ![s] = pending[s] \cup {w}]
      /\ made' = [made EXCEPT ![s] = made[s] \cup {w}]
      /\ UNCHANGED <<stack, wants, result, calls, open, closed, durable, nested>>
  BY DEF WriteInTx
<1> HIDE DEF s, w
<1>5. /\ \A x \in Sessions : pending'[x] = IF x = s THEN pending[s] \cup {w} ELSE pending[x]
      /\ \A x \in Sessions : made'[x] = IF x = s THEN made[s] \cup {w} ELSE made[x]
      /\ pending' \in [Sessions -> SUBSET Writes] /\ made' \in [Sessions -> SUBSET Writes]
  BY <1>1, <1>2, <1>3, <1>4 DEF Types
<1>6. TypeOK'
  <2>1. Types'
    BY <1>1, <1>3, <1>4, <1>5 DEF Types
  <2>2. StackType' /\ Types' => TypeOK'
    BY DEF TypeOK, StackType, Types
  <2>3. StackType'
    BY <1>1, <1>4 DEF StackType, Depth
  <2> QED BY <2>1, <2>2, <2>3
<1>7. Room' /\ Framed' /\ IsFiniteSet(open)'
  BY <1>4, FramedKept DEF IInv, Room, Depth
<1>8. NoLeak'
  <2>1. \A x \in Sessions : x \notin open' => pending'[x] = {}
    BY <1>2, <1>4, <1>5 DEF IInv, NoLeak
  <2> QED BY <1>4, <2>1 DEF IInv, NoLeak, Depth
<1>9. Unique'
  <2>1. \A h \in Goroutines : wants[h].op = "write" => wants[h].on # w
    BY <1>1, <1>3 DEF Types
  <2>2. \A x \in Sessions : w \notin made[x]
    BY <1>3 DEF IInv, Unique
  <2> QED BY <1>2, <1>3, <1>4, <1>5, <2>1, <2>2 DEF IInv, Unique
<1>10. Fates'
  <2> SUFFICES ASSUME NEW h \in Goroutines, NEW d \in 1..Depth(h)',
                      stack'[h][d].kind = "tx" /\ stack'[h][d].began,
                      NEW x, x = <<h, stack'[h][d].on>>
               PROVE  Fate(x)'
    BY DEF Fates, Fate
  <2>0. /\ d \in 1..Depth(h) /\ x = <<h, stack[h][d].on>>
        /\ stack[h][d].kind = "tx" /\ stack[h][d].began
    BY <1>4 DEF Depth
  <2>1. Fate(x)
    BY <2>0 DEF IInv, Fates
  <2>2. x \in Sessions
    <3>1. stack[h][d] \in Frames
      BY <1>1, <2>0, Stacked
    <3> QED BY <2>0, <3>1 DEF Frames, Sessions
  <2>3. w \notin durable
    BY <1>3 DEF IInv, Unique
  <2>4. CASE x = s
    <3>1. pending[s] = made[s] /\ nested[s] = "none" /\ made[s] \cap durable = {}
      BY <1>2, <2>1, <2>4 DEF Fate
    <3>2. pending'[x] = made'[x] /\ nested'[x] = "none" /\ made'[x] \cap durable' = {}
      BY <1>2, <1>4, <1>5, <2>3, <2>4, <3>1
    <3> QED BY <1>2, <1>4, <2>4, <3>2 DEF Fate
  <2>5. CASE x # s
    <3>1. made'[x] = made[x] /\ pending'[x] = pending[x]
      BY <1>5, <2>2, <2>5
    <3> QED BY <1>4, <2>1, <3>1 DEF Fate
  <2> QED BY <2>4, <2>5
<1> QED BY <1>6, <1>7, <1>8, <1>9, <1>10 DEF IInv

LEMMA WriteAloneInv ==
    ASSUME IInv, TransactionsAssumption, NEW g \in Goroutines, NEW own \in BOOLEAN,
           WriteAlone(g, own)
    PROVE  IInv'
<1> DEFINE w == written + 1
<1>1. StackType /\ Types
  BY TypeParts DEF IInv
<1>2. w \in Nat /\ written' = w /\ w \notin 1..written /\ 1..written \subseteq 1..w /\ w \in 1..w
      /\ written' \in 0..MaxWrites
  BY <1>1, TransactionsAssumption DEF WriteAlone, Types
<1>3. /\ wants' = [wants EXCEPT ![g] = [op |-> "write", on |-> w]]
      /\ UNCHANGED <<stack, result, calls, open, closed, pending, durable, made, nested>>
  BY DEF WriteAlone, sessionVars
<1> HIDE DEF w
<1>4. \A h \in Goroutines : wants'[h] = IF h = g THEN [op |-> "write", on |-> w] ELSE wants[h]
  BY <1>1, <1>3 DEF Types
<1>5. TypeOK'
  <2>1. Types'
    <3>1. wants' \in [Goroutines -> [op : {"none", "begin", "write"}, on : Nat]]
      BY <1>1, <1>2, <1>3 DEF Types
    <3> QED BY <1>1, <1>2, <1>3, <1>4, <3>1 DEF Types
  <2>2. StackType' /\ Types' => TypeOK'
    BY DEF TypeOK, StackType, Types
  <2>3. StackType'
    BY <1>1, <1>3 DEF StackType, Depth
  <2> QED BY <2>1, <2>2, <2>3
<1>6. Room'
  BY <1>3, <1>4 DEF IInv, Room, Depth
<1>7. Framed' /\ IsFiniteSet(open)'
  BY <1>3, FramedKept DEF IInv
<1>10. Fates'
  BY <1>3, FatesKept DEF IInv
<1>8. NoLeak'
  BY <1>3 DEF IInv, NoLeak, Depth
<1>9. Unique'
  BY <1>2, <1>3, <1>4 DEF IInv, Unique
<1> QED BY <1>5, <1>6, <1>7, <1>8, <1>9, <1>10 DEF IInv

LEMMA AutoCommitInv ==
    ASSUME IInv, TransactionsAssumption, NEW g \in Goroutines, AutoCommit(g)
    PROVE  IInv'
<1> DEFINE w == wants[g].on
<1>1. StackType /\ Types
  BY TypeParts DEF IInv
<1>2. w \in 1..written /\ w \in Writes /\ (\A x \in Sessions : w \notin made[x])
  BY <1>1, TransactionsAssumption DEF AutoCommit, Types, Writes, IInv, Unique
<1>3. /\ durable' = durable \cup {w} /\ wants' = [wants EXCEPT ![g] = Idle]
      /\ UNCHANGED <<stack, result, calls, open, closed, pending, made, nested, written>>
  BY DEF AutoCommit
<1> HIDE DEF w
<1>4. \A h \in Goroutines : wants'[h] = IF h = g THEN Idle ELSE wants[h]
  BY <1>1, <1>3 DEF Types
<1>5. TypeOK'
  <2>1. Types'
    <3>1. wants' \in [Goroutines -> [op : {"none", "begin", "write"}, on : Nat]]
      BY <1>1, <1>3 DEF Types, Idle
    <3> QED BY <1>1, <1>2, <1>3, <1>4, <3>1 DEF Types, Idle
  <2>2. StackType' /\ Types' => TypeOK'
    BY DEF TypeOK, StackType, Types
  <2>3. StackType'
    BY <1>1, <1>3 DEF StackType, Depth
  <2> QED BY <2>1, <2>2, <2>3
<1>6. Room'
  BY <1>3, <1>4 DEF IInv, Room, Depth, Idle
<1>7. Framed' /\ IsFiniteSet(open)'
  BY <1>3, FramedKept DEF IInv
<1>8. NoLeak'
  BY <1>3 DEF IInv, NoLeak, Depth
<1>9. Unique'
  <2>1. durable' \subseteq 1..written
    BY <1>2, <1>3 DEF IInv, Unique
  <2>2. \A h \in Goroutines : wants'[h].op = "write" => wants'[h] = wants[h]
    BY <1>4 DEF Idle
  <2> QED BY <1>3, <2>1, <2>2 DEF IInv, Unique
<1>10. Fates'
  <2> SUFFICES ASSUME NEW h \in Goroutines, NEW d \in 1..Depth(h),
                      stack[h][d].kind = "tx" /\ stack[h][d].began,
                      NEW x, x = <<h, stack[h][d].on>>
               PROVE  Fate(x)'
    BY <1>3 DEF Fates, Fate, Depth
  <2>1. Fate(x)
    BY DEF IInv, Fates
  <2>2. x \in Sessions
    <3>1. stack[h][d] \in Frames
      BY <1>1, Stacked
    <3> QED BY <3>1 DEF Frames, Sessions
  <2> QED BY <1>2, <1>3, <2>1, <2>2 DEF Fate
<1> QED BY <1>5, <1>6, <1>7, <1>8, <1>9, <1>10 DEF IInv

-------------------------------------------------------------------------------
(* A call ends. *)

\* Every way in which the session of a call is closed with it; add is what becomes
\* durable.
Closes(g, outcome, add) ==
    /\ Depth(g) > 0 /\ wants[g] = Idle
    /\ CloseSession(g)
    /\ Pop(g, outcome)
    /\ durable' = durable \cup add
    /\ UNCHANGED <<wants, calls, made, written>>

\* Context made the session.
MadeHere(g) == Top(g).kind = "plain" /\ Top(g).began

\* The outcome and what becomes durable fit, and the session is the call's to close.
Settles(g, outcome, add) ==
    /\ add = {} \/ add = pending[Session(g)]
    /\ Top(g).kind = "tx" /\ outcome = "ok" => add = pending[Session(g)]
    /\ outcome \in {"error", "panic"} => add = {}
    /\ Top(g).kind = "tx" \/ MadeHere(g)

\* A frame that stays is that of another session, or the session was joined.
LEMMA Staying ==
    ASSUME IInv, NEW g \in Goroutines, Depth(g) > 0, Shrunk(g),
           NEW h \in Goroutines, NEW d \in 1..Depth(h)', stack'[h][d].kind = "tx" /\ stack'[h][d].began,
           NEW x, x = <<h, stack'[h][d].on>>
    PROVE  /\ d \in 1..Depth(h) /\ stack'[h][d] = stack[h][d] /\ x \in Sessions
           /\ Fate(x) /\ x \in open \cup closed
           /\ x = Session(g) => Top(g).kind # "plain" \/ ~Top(g).began
           /\ x = Session(g) => Top(g).kind # "tx" \/ ~Top(g).began
<1>1. StackType
  BY TypeParts DEF IInv
<1>2. d \in 1..Depth(h) /\ stack'[h][d] = stack[h][d] /\ ~(h = g /\ d = Depth(g))
  BY DEF Shrunk
<1>3. stack[h][d] \in Frames /\ Depth(h) \in Nat
  BY <1>1, <1>2, Stacked
<1>4. x \in Sessions /\ x = <<h, stack[h][d].on>>
  BY <1>2, <1>3 DEF Frames, Sessions
<1>5. Fate(x) /\ x \in open \cup closed
  BY <1>2, <1>4 DEF IInv, Fates, Framed
<1>6. Depth(g) \in 1..Depth(g) /\ Top(g) = stack[g][Depth(g)] /\ Top(g) \in Frames
  BY <1>1, TopFrame
<1>7. ASSUME x = Session(g)
      PROVE  h = g /\ stack[g][d].on = Top(g).on /\ d # Depth(g) /\ d \in 1..Depth(g)
  BY <1>2, <1>4, <1>7 DEF Session
<1>8. ASSUME x = Session(g), Top(g).kind = "plain", Top(g).began PROVE FALSE
  <2>1. \A e \in 1..Depth(g) : stack[g][e].kind = "plain" /\ stack[g][e].began => stack[g][e].on = e
    BY DEF IInv, Framed
  <2>3. Top(g).on = Depth(g)
    BY <1>6, <1>8, <2>1
  <2>2. stack[g][d].on <= d
    BY <1>1, <1>2, <1>7, <1>8 DEF StackType
  <2> QED BY <1>3, <1>7, <1>8, <2>3, <2>2
<1>9. ASSUME x = Session(g), Top(g).kind = "tx", Top(g).began PROVE FALSE
  <2>1. Begins(g, Depth(g), Top(g).on)
    BY <1>6, <1>9 DEF Begins
  <2>2. Begins(g, Depth(g), stack[g][d].on)
    BY <1>7, <1>9, <2>1
  <2>3. stack[g][d].kind = "tx" /\ stack[g][d].began
    BY <1>2, <1>7, <1>9
  <2>4. Depth(g) = d
    BY <1>6, <1>7, <1>9, <2>2, <2>3 DEF IInv, Framed
  <2> QED BY <1>7, <1>9, <2>4
<1> QED BY <1>2, <1>4, <1>5, <1>8, <1>9

\* What a pop leaves in place: the frames.
LEMMA FramesStay ==
    ASSUME IInv, NEW g \in Goroutines, Depth(g) > 0, Shrunk(g),
           open \cup closed \subseteq open' \cup closed'
    PROVE  Framed'
<1> SUFFICES ASSUME NEW h \in Goroutines, NEW d \in 1..Depth(h)'
             PROVE  LET f == stack'[h][d] IN
                    /\ f.kind = "plain" /\ f.began => f.on = d
                    /\ f.kind = "tx" /\ f.began =>
                          /\ <<h, f.on>> \in open' \cup closed'
                          /\ \A e \in 1..Depth(h)' : BeginsNext(h, e, f.on) => e = d
  BY DEF Framed, Begins, BeginsNext
<1>1. \A e \in 1..Depth(h)' : e \in 1..Depth(h) /\ stack'[h][e] = stack[h][e]
  BY DEF Shrunk
<1>2. \A e \in 1..Depth(h)' : BeginsNext(h, e, stack[h][d].on) => Begins(h, e, stack[h][d].on)
  BY <1>1 DEF Begins, BeginsNext
<1> QED BY <1>1, <1>2 DEF IInv, Framed

LEMMA Added ==
    ASSUME IInv, NEW g \in Goroutines, Depth(g) > 0
    PROVE  /\ pending[Session(g)] \subseteq made[Session(g)]
           /\ Session(g) \notin open => pending[Session(g)] = {}
<1>1. StackType /\ Types
  BY TypeParts DEF IInv
<1>2. Session(g) \in Sessions /\ Session(g) = <<g, Top(g).on>>
  BY <1>1, TopFrame DEF Session
<1>3. Session(g) \notin open => pending[Session(g)] = {}
  BY <1>2 DEF IInv, NoLeak
<1>4. ASSUME Session(g) \in open PROVE pending[Session(g)] = made[Session(g)]
  <2>1. PICK d \in 1..Depth(g) : stack[g][d].kind = "tx" /\ stack[g][d].began /\ stack[g][d].on = Top(g).on
    BY <1>2, <1>4 DEF IInv, NoLeak
  <2>2. Fate(Session(g))
    BY <1>2, <2>1 DEF IInv, Fates
  <2> QED BY <1>4, <2>2 DEF Fate
<1> QED BY <1>3, <1>4

LEMMA ClosesInv ==
    ASSUME IInv, TransactionsAssumption, NEW g \in Goroutines, NEW outcome \in Outcomes \ {"none"},
           NEW add, Closes(g, outcome, add), Settles(g, outcome, add)
    PROVE  IInv'
<1> USE DEF Settles, MadeHere
<1> DEFINE s == Session(g)
<1>1. StackType /\ Types /\ Depth(g) > 0
  BY TypeParts DEF IInv, Closes
<1>2. s \in Sessions
  BY <1>1, TopFrame
<1>3. /\ open' = open \ {s} /\ closed' = closed \cup {s}
      /\ pending' = [pending EXCEPT ![s] = {}]
      /\ durable' = durable \cup add
      /\ UNCHANGED <<wants, calls, made, written>>
      /\ result' = [result EXCEPT ![g] = outcome]
      /\ nested' = IF Top(g).kind = "tx" /\ ~Top(g).began /\ s \in open
                   THEN [nested EXCEPT ![s] = outcome] ELSE nested
  BY DEF Closes, CloseSession, Pop
<1>4. StackType' /\ Shrunk(g)
  BY <1>1, Shrinking DEF Closes
<1>5. add \subseteq made[s] /\ (s \notin open => add = {})
  BY <1>1, Added
<1> HIDE DEF s
<1>6. /\ \A x \in Sessions : pending'[x] = IF x = s THEN {} ELSE pending[x]
      /\ \A x \in Sessions : x # s => nested'[x] = nested[x]
      /\ Top(g).kind = "tx" /\ ~Top(g).began /\ s \in open => nested'[s] = outcome
      /\ s \notin open => nested'[s] = nested[s]
      /\ pending' \in [Sessions -> SUBSET Writes] /\ nested' \in [Sessions -> Outcomes]
      /\ result' \in [Goroutines -> Outcomes]
  BY <1>1, <1>2, <1>3 DEF Types
<1>7. TypeOK'
  <2>1. add \subseteq Writes
    BY <1>1, <1>2, <1>5 DEF Types
  <2>2. Types'
    BY <1>1, <1>2, <1>3, <1>6, <2>1 DEF Types
  <2>3. StackType' /\ Types' => TypeOK'
    BY DEF TypeOK, StackType, Types
  <2> QED BY <1>4, <2>2, <2>3
<1>8. IsFiniteSet(open') /\ Cardinality(open') <= Conns
  <2>1. IsFiniteSet(open) /\ Cardinality(open) <= Conns
    BY DEF IInv, NoLeak
  <2>2. IsFiniteSet(open') /\ Cardinality(open') <= Cardinality(open)
    BY <1>3, <2>1, FS_Subset
  <2>3. Cardinality(open) \in Nat /\ Cardinality(open') \in Nat
    BY <2>1, <2>2, FS_CardinalityType
  <2> QED BY <2>1, <2>2, <2>3, TransactionsAssumption
<1>9. Room'
  <2> SUFFICES ASSUME NEW h \in Goroutines, wants[h].op = "begin"
               PROVE /\ Depth(h)' < MaxDepth /\ wants[h].on <= Depth(h)' + 1
                     /\ <<h, wants[h].on>> \notin closed' \cup open'
    BY <1>3 DEF Room
  <2>1. h # g
    BY DEF Closes, Idle
  <2>2. Depth(h)' = Depth(h) /\ <<h, wants[h].on>> # s
    BY <1>4, <2>1 DEF Shrunk, s, Session
  <2> QED BY <1>3, <2>2 DEF IInv, Room
<1>10. Framed'
  <2>1. open \cup closed \subseteq open' \cup closed'
    BY <1>3
  <2> QED BY <1>1, <1>4, <2>1, FramesStay
<1>11. NoLeak'
  <2>1. ASSUME NEW x \in open'
        PROVE \E d \in 1..Depth(x[1])' :
           stack'[x[1]][d].kind = "tx" /\ stack'[x[1]][d].began /\ stack'[x[1]][d].on = x[2]
    <3>1. x \in open /\ x # s /\ x[1] \in Goroutines /\ x = <<x[1], x[2]>>
      BY <1>1, <1>3, <2>1 DEF Types, Sessions
    <3>2. PICK d \in 1..Depth(x[1]) :
             stack[x[1]][d].kind = "tx" /\ stack[x[1]][d].began /\ stack[x[1]][d].on = x[2]
      BY <3>1 DEF IInv, NoLeak
    <3>3. ~(x[1] = g /\ d = Depth(g))
      BY <3>1, <3>2 DEF s, Session, Top
    <3>4. d \in 1..Depth(x[1])'
      BY <1>4, <3>1, <3>3 DEF Shrunk
    <3>5. stack'[x[1]][d] = stack[x[1]][d]
      BY <1>4, <3>1, <3>4 DEF Shrunk
    <3> QED BY <3>2, <3>4, <3>5
  <2>2. \A x \in Sessions : x \notin open' => pending'[x] = {}
    BY <1>3, <1>6 DEF IInv, NoLeak
  <2> QED BY <1>8, <2>1, <2>2 DEF NoLeak
<1>12. Unique'
  <2>1. durable' \subseteq 1..written
    BY <1>2, <1>3, <1>5 DEF IInv, Unique
  <2> QED BY <1>3, <2>1 DEF IInv, Unique
<1>13. Fates'
  <2> SUFFICES ASSUME NEW h \in Goroutines, NEW d \in 1..Depth(h)',
                      stack'[h][d].kind = "tx" /\ stack'[h][d].began,
                      NEW x, x = <<h, stack'[h][d].on>>
               PROVE  Fate(x)'
    BY DEF Fates, Fate
  <2>1. /\ x \in Sessions /\ Fate(x)
        /\ x = s => Top(g).kind = "tx" /\ ~Top(g).began
    BY <1>1, <1>4, Staying DEF s
  <2>2. CASE x # s
    <3>1. nested'[x] = nested[x] /\ pending'[x] = pending[x] /\ made'[x] = made[x]
          /\ (x \in open' <=> x \in open)
      BY <1>3, <1>6, <2>1, <2>2
    <3>2. made[x] \cap add = {}
      BY <1>2, <1>5, <2>1, <2>2 DEF IInv, Unique
    <3>3. /\ made[x] \subseteq durable => made[x] \subseteq durable'
          /\ made[x] \cap durable = {} => made[x] \cap durable' = {}
      BY <1>3, <3>2
    <3> QED BY <2>1, <3>1, <3>3 DEF Fate
  <2>3. CASE x = s /\ s \in open
    <3>1. pending[s] = made[s] /\ made[s] \cap durable = {}
      BY <2>1, <2>3 DEF Fate
    <3>2. nested'[x] = outcome /\ made'[x] = made[s] /\ x \notin open'
      BY <1>3, <1>6, <2>1, <2>3
    <3>3. add = {} \/ add = made[s]
      BY <3>1 DEF s
    <3>4. made[s] \subseteq durable' \/ made[s] \cap durable' = {}
      BY <1>3, <3>1, <3>3
    <3>5. outcome = "ok" => made[s] \subseteq durable'
      BY <1>3, <2>1, <2>3, <3>1 DEF s
    <3>6. outcome \in {"error", "panic"} => made[s] \cap durable' = {}
      BY <1>3, <3>1
    <3> QED BY <3>2, <3>4, <3>5, <3>6 DEF Fate
  <2>4. CASE x = s /\ s \notin open
    <3>1. nested'[x] = nested[x] /\ made'[x] = made[x] /\ x \notin open' /\ durable' = durable
      BY <1>3, <1>5, <1>6, <2>4
    <3> QED BY <2>1, <2>4, <3>1 DEF Fate
  <2> QED BY <2>2, <2>3, <2>4
<1> QED BY <1>7, <1>8, <1>9, <1>10, <1>11, <1>12, <1>13 DEF IInv

\* The closer of a session that was found is discarded.
LEMMA DiscardInv ==
    ASSUME IInv, TransactionsAssumption, NEW g \in Goroutines, NEW outcome \in Outcomes \ {"none"},
           LeaveContext(g, outcome), ~Top(g).began
    PROVE  IInv'
<1>1. StackType /\ Types /\ Depth(g) > 0 /\ Top(g).kind = "plain"
  BY TypeParts DEF IInv, LeaveContext
<1>2. /\ UNCHANGED <<open, closed, pending, wants, calls, durable, made, written, nested>>
      /\ result' = [result EXCEPT ![g] = outcome]
  BY <1>1 DEF LeaveContext, Pop
<1>3. StackType' /\ Shrunk(g)
  BY <1>1, Shrinking DEF LeaveContext
<1>4. TypeOK'
  <2>1. Types'
    BY <1>1, <1>2 DEF Types
  <2>2. StackType' /\ Types' => TypeOK'
    BY DEF TypeOK, StackType, Types
  <2> QED BY <1>3, <2>1, <2>2
<1>5. Room'
  <2>1. wants[g].op # "begin"
    BY DEF LeaveContext, Idle
  <2> QED BY <1>2, <1>3, <2>1 DEF IInv, Room, Shrunk
<1>6. Framed'
  BY <1>1, <1>2, <1>3, FramesStay
<1>7. NoLeak'
  <2>1. ASSUME NEW x \in open
        PROVE \E d \in 1..Depth(x[1])' :
           stack'[x[1]][d].kind = "tx" /\ stack'[x[1]][d].began /\ stack'[x[1]][d].on = x[2]
    <3>1. x[1] \in Goroutines
      BY <1>1 DEF Types, Sessions
    <3>2. PICK d \in 1..Depth(x[1]) :
             stack[x[1]][d].kind = "tx" /\ stack[x[1]][d].began /\ stack[x[1]][d].on = x[2]
      BY DEF IInv, NoLeak
    <3>3. ~(x[1] = g /\ d = Depth(g))
      BY <1>1, <3>2 DEF Top
    <3>4. d \in 1..Depth(x[1])'
      BY <1>3, <3>1, <3>3 DEF Shrunk
    <3>5. stack'[x[1]][d] = stack[x[1]][d]
      BY <1>3, <3>1, <3>4 DEF Shrunk
    <3> QED BY <3>2, <3>4, <3>5
  <2> QED BY <1>2, <2>1 DEF IInv, NoLeak
<1>8. Unique' /\ IsFiniteSet(open)'
  BY <1>2 DEF IInv, Unique
<1>9. Fates'
  <2> SUFFICES ASSUME NEW h \in Goroutines, NEW d \in 1..Depth(h)',
                      stack'[h][d].kind = "tx" /\ stack'[h][d].began,
                      NEW x, x = <<h, stack'[h][d].on>>
               PROVE  Fate(x)'
    BY DEF Fates, Fate
  <2>1. Fate(x)
    BY <1>1, <1>3, Staying
  <2> QED BY <1>2, <2>1 DEF Fate
<1> QED BY <1>4, <1>5, <1>6, <1>7, <1>8, <1>9 DEF IInv

LEMMA EndsInv ==
    ASSUME IInv, TransactionsAssumption, NEW g \in Goroutines, Ends(g)
    PROVE  IInv'
<1>0. durable = durable \cup {}
  OBVIOUS
<1>1. ASSUME NEW outcome \in {"error", "panic"}, FnFails(g, outcome) PROVE IInv'
  <2>1. Closes(g, outcome, {}) /\ Top(g).kind = "tx"
    BY <1>0, <1>1 DEF Closes, FnFails
  <2>2. outcome \in Outcomes \ {"none"} /\ outcome # "ok"
    BY DEF Outcomes
  <2>3. Settles(g, outcome, {})
    BY <2>1, <2>2 DEF Settles
  <2> QED BY <2>1, <2>2, <2>3, ClosesInv
<1>2. ASSUME Commit(g) PROVE IInv'
  <2>1. Closes(g, "ok", pending[Session(g)]) /\ Top(g).kind = "tx"
    BY <1>2 DEF Closes, Commit, Returns, Runs
  <2>2. "ok" \in Outcomes \ {"none"}
    BY DEF Outcomes
  <2>3. Settles(g, "ok", pending[Session(g)])
    BY <2>1 DEF Settles
  <2> QED BY <2>1, <2>2, <2>3, ClosesInv
<1>3. ASSUME NEW applied \in BOOLEAN, CommitFails(g, applied) PROVE IInv'
  <2>1. PICK add : (add = {} \/ add = pending[Session(g)]) /\ durable' = durable \cup add
    BY <1>0, <1>3 DEF CommitFails
  <2>2. Closes(g, "uncertain", add) /\ Top(g).kind = "tx"
    BY <1>3, <2>1 DEF Closes, CommitFails, Returns, Runs
  <2>3. "uncertain" \in Outcomes \ {"none"}
    BY DEF Outcomes
  <2>4. Settles(g, "uncertain", add)
    BY <2>1, <2>2 DEF Settles
  <2> QED BY <2>2, <2>3, <2>4, ClosesInv
<1>4. ASSUME NEW outcome \in {"ok", "error", "panic"}, LeaveContext(g, outcome) PROVE IInv'
  <2>1. outcome \in Outcomes \ {"none"}
    BY DEF Outcomes
  <2>2. CASE Top(g).began
    <3>1. Closes(g, outcome, {}) /\ Top(g).kind = "plain"
      BY <1>0, <1>4, <2>2 DEF Closes, LeaveContext
    <3>2. Settles(g, outcome, {})
      BY <2>2, <3>1 DEF Settles, MadeHere
    <3> QED BY <2>1, <3>1, <3>2, ClosesInv
  <2>3. CASE ~Top(g).began
    BY <1>4, <2>1, <2>3, DiscardInv
  <2> QED BY <2>2, <2>3
<1> QED BY <1>1, <1>2, <1>3, <1>4 DEF Ends

-------------------------------------------------------------------------------
(* The invariant. *)

LEMMA InitIInv == Init /\ TransactionsAssumption => IInv
<1> SUFFICES ASSUME Init, TransactionsAssumption PROVE IInv
  OBVIOUS
<1>1. \A g \in Goroutines : stack[g] = <<>> /\ Depth(g) = 0 /\ wants[g] = Idle
  BY DEF Init, Depth
<1>2. \A g \in Goroutines : 1..Depth(g) = {}
  BY <1>1
<1>3. StackType
  <2>1. <<>> \in Seq(Frames)
    BY EmptySeq
  <2>2. stack \in [Goroutines -> Seq(Frames)]
    BY <2>1 DEF Init
  <2> QED BY <1>1, <1>2, <2>2, TransactionsAssumption DEF StackType
<1>4. Types
  BY <1>1, TransactionsAssumption DEF Init, Types, Idle, Outcomes
<1>5. Room /\ Framed /\ Fates
  BY <1>1, <1>2 DEF Room, Framed, Fates, Idle
<1>6. IsFiniteSet(open) /\ Cardinality(open) = 0
  BY FS_EmptySet DEF Init
<1>7. NoLeak
  BY <1>6, TransactionsAssumption DEF Init, NoLeak
<1>8. Unique
  BY <1>1 DEF Init, Unique, Idle
<1> QED BY <1>3, <1>4, <1>5, <1>6, <1>7, <1>8, TypeParts DEF IInv

LEMMA Inductive == IInv /\ TransactionsAssumption /\ [Next]_vars => IInv'
<1> SUFFICES ASSUME IInv, TransactionsAssumption, [Next]_vars PROVE IInv'
  OBVIOUS
<1>1. ASSUME UNCHANGED vars PROVE IInv'
  <2>1. UNCHANGED <<stack, wants, result, calls, open, closed, pending, durable, made, nested, written>>
    BY <1>1 DEF vars, sessionVars
  <2>2. TypeOK' /\ IsFiniteSet(open)'
    BY <2>1 DEF IInv, TypeOK, Depth
  <2>3. Room' /\ Unique'
    BY <2>1 DEF IInv, Room, Unique, Depth
  <2>4. Framed'
    BY <2>1, FramedKept DEF IInv
  <2>5. NoLeak'
    BY <2>1 DEF IInv, NoLeak, Depth
  <2>6. Fates'
    BY <2>1, FatesKept DEF IInv
  <2> QED BY <2>2, <2>3, <2>4, <2>5, <2>6 DEF IInv
<1>2. ASSUME NEW g \in Goroutines, Step(g) PROVE IInv'
  <2>1. CASE Join(g)
    BY <2>1, JoinInv
  <2>2. ASSUME NEW own \in BOOLEAN, CallTx(g, own) \/ CallContext(g, own) \/ WriteAlone(g, own) PROVE IInv'
    BY <2>2, CallTxInv, ContextInv, WriteAloneInv
  <2>3. CASE WriteInTx(g) \/ Begin(g) \/ BeginFails(g)
    BY <2>3, WriteInTxInv, BeginInv, BeginFailsInv
  <2>4. CASE AutoCommit(g) \/ Ends(g)
    BY <2>4, AutoCommitInv, EndsInv
  <2> QED BY <1>2, <2>1, <2>2, <2>3, <2>4 DEF Step
<1> QED BY <1>1, <1>2 DEF Next

LEMMA Invariance == Spec => []IInv
<1>1. TransactionsAssumption
  BY TransactionsAssumption
<1> QED BY <1>1, InitIInv, Inductive, PTL DEF Spec

\* No connection stays behind, however the calls end.
THEOREM TxNoLeak == Spec => []NoLeak
<1>1. IInv => NoLeak
  BY DEF IInv
<1> QED BY <1>1, Invariance, PTL

\* Every variable stays in its type.
THEOREM TxTypes == Spec => []TypeOK
<1>1. IInv => TypeOK
  BY DEF IInv
<1> QED BY <1>1, Invariance, PTL

-------------------------------------------------------------------------------
(* The outcome of a call. *)

OutcomeOf(g) ==
    Popped(g) /\ Top(g).kind = "tx" /\ Top(g).began =>
         LET all == made[Session(g)] IN
         /\ all \subseteq durable' \/ all \cap durable' = {}
         /\ result'[g] = "ok" /\ nested[Session(g)] \in {"none", "ok"} => all \subseteq durable'
         /\ result'[g] \in {"error", "panic"} /\ nested[Session(g)] # "ok"
               /\ nested[Session(g)] # "uncertain" => all \cap durable' = {}

\* Only the end of its own call takes a frame of a goroutine away.
LEMMA OnlyEnds ==
    ASSUME IInv, TransactionsAssumption, NEW g \in Goroutines, [Next]_vars, Popped(g),
           Top(g).kind = "tx"
    PROVE  \/ \E outcome \in {"error", "panic"} : FnFails(g, outcome)
           \/ Commit(g)
           \/ \E applied \in BOOLEAN : CommitFails(g, applied)
<1>1. StackType /\ Types /\ Depth(g) \in Nat /\ Len(stack[g]) = Depth(g)
  BY TypeParts, Stacked DEF IInv, Depth
<1>2. stack'[g] # stack[g]
  BY <1>1 DEF Popped
<1>3. PICK h \in Goroutines : Step(h)
  BY <1>2 DEF Next, vars
<1>4. ASSUME NEW kind \in {"tx", "plain"}, NEW on \in 1..MaxDepth, NEW began \in BOOLEAN,
             Push(h, kind, on, began), Depth(h) < MaxDepth, on <= Depth(h) + 1
      PROVE  FALSE
  <2>1. Depth(h)' = Depth(h) + 1
    BY <1>1, <1>4, Pushed
  <2>2. \A x \in Goroutines : x # h => stack'[x] = stack[x]
    BY <1>1, <1>4 DEF Push, StackType
  <2> QED BY <1>1, <1>2, <2>1, <2>2 DEF Popped, Depth
<1>5. ASSUME Join(h) PROVE FALSE
  <2>1. Depth(h) > 0
    BY <1>5 DEF Join, Found
  <2>2. Top(h).on \in 1..MaxDepth /\ Top(h).on <= Depth(h) /\ Depth(h) \in Nat
    BY <1>1, <2>1, TopFrame DEF Frames
  <2>3. Depth(h) < MaxDepth /\ Push(h, "tx", Top(h).on, FALSE)
    BY <1>5 DEF Join, CallStarts
  <2>4. Top(h).on <= Depth(h) + 1
    BY <2>2
  <2> QED BY <1>4, <2>2, <2>3, <2>4
<1>6. ASSUME NEW own \in BOOLEAN, CallContext(h, own) PROVE FALSE
  <2>1. SessionFor(h, own) \in 1..MaxDepth /\ SessionFor(h, own) <= Depth(h) + 1 /\ Depth(h) < MaxDepth
    BY <1>6, Started DEF CallContext
  <2>2. Push(h, "plain", SessionFor(h, own), ~Found(h, own)) /\ (~Found(h, own)) \in BOOLEAN
    BY <1>6 DEF CallContext, Found
  <2> QED BY <1>4, <2>1, <2>2
<1>7. ASSUME Begin(h) PROVE FALSE
  <2>1. wants[h].on \in 1..MaxDepth /\ Depth(h) < MaxDepth /\ wants[h].on <= Depth(h) + 1
    BY <1>1, <1>7 DEF Begin, Types, IInv, Room
  <2>2. Push(h, "tx", wants[h].on, TRUE)
    BY <1>7 DEF Begin
  <2> QED BY <1>4, <2>1, <2>2
<1>8. ~BeginFails(h) /\ ~WriteInTx(h) /\ ~AutoCommit(h)
      /\ \A own \in BOOLEAN : ~CallTx(h, own) /\ ~WriteAlone(h, own)
  BY <1>2 DEF BeginFails, WriteInTx, AutoCommit, CallTx, WriteAlone
<1>9. Ends(h)
  <2>1. ~Join(h) /\ ~Begin(h)
    BY <1>5, <1>7
  <2>2. \A own \in BOOLEAN : ~CallContext(h, own)
    BY <1>6
  <2> QED BY <1>3, <1>8, <2>1, <2>2 DEF Step
<1>10. h = g
  BY <1>1, <1>2, <1>9 DEF Ends, FnFails, Commit, CommitFails, LeaveContext, Pop, StackType
<1> QED BY <1>9, <1>10 DEF Ends, LeaveContext

LEMMA OutcomeStep ==
    ASSUME IInv, TransactionsAssumption, [Next]_vars, NEW g \in Goroutines
    PROVE  OutcomeOf(g)
<1> SUFFICES ASSUME Popped(g), Top(g).kind = "tx", Top(g).began
             PROVE  LET all == made[Session(g)] IN
         /\ all \subseteq durable' \/ all \cap durable' = {}
         /\ result'[g] = "ok" /\ nested[Session(g)] \in {"none", "ok"} => all \subseteq durable'
         /\ result'[g] \in {"error", "panic"} /\ nested[Session(g)] # "ok"
               /\ nested[Session(g)] # "uncertain" => all \cap durable' = {}
  BY DEF OutcomeOf
<1> DEFINE s == Session(g)
<1>1. StackType /\ Types
  BY TypeParts DEF IInv
<1>2. \/ \E outcome \in {"error", "panic"} : FnFails(g, outcome)
      \/ Commit(g)
      \/ \E applied \in BOOLEAN : CommitFails(g, applied)
  BY OnlyEnds
<1>3. Depth(g) > 0
  BY <1>2 DEF FnFails, Commit, CommitFails, Returns
<1>4. s \in Sessions /\ Fate(s)
  <2>1. Depth(g) \in 1..Depth(g) /\ Top(g) = stack[g][Depth(g)] /\ s \in Sessions
    BY <1>1, <1>3, TopFrame
  <2> QED BY <2>1 DEF IInv, Fates, Session
<1>5. nested[s] \in Outcomes /\ (s \notin open => pending[s] = {})
  BY <1>1, <1>4 DEF Types, IInv, NoLeak
<1>6. ASSUME NEW outcome \in {"error", "panic"}, FnFails(g, outcome)
      PROVE durable' = durable /\ result'[g] = outcome
  BY <1>1, <1>6 DEF FnFails, Pop, Types
<1>7. ASSUME Commit(g) PROVE durable' = durable \cup pending[s] /\ result'[g] = "ok"
  BY <1>1, <1>7 DEF Commit, Pop, Types
<1>8. ASSUME NEW applied \in BOOLEAN, CommitFails(g, applied)
      PROVE /\ durable' = durable \/ durable' = durable \cup pending[s]
            /\ result'[g] = "uncertain" /\ s \in open
  BY <1>1, <1>8 DEF CommitFails, Pop, Types
<1> HIDE DEF s
<1>9. CASE s \in open
  <2>1. pending[s] = made[s] /\ made[s] \cap durable = {}
    BY <1>4, <1>9 DEF Fate
  <2>2. ASSUME NEW outcome \in {"error", "panic"}, FnFails(g, outcome)
        PROVE made[s] \cap durable' = {} /\ result'[g] # "ok"
    BY <1>6, <2>1, <2>2
  <2>3. ASSUME Commit(g) PROVE made[s] \subseteq durable' /\ result'[g] = "ok"
    BY <1>7, <2>1, <2>3
  <2>4. ASSUME NEW applied \in BOOLEAN, CommitFails(g, applied)
        PROVE /\ made[s] \subseteq durable' \/ made[s] \cap durable' = {}
              /\ result'[g] = "uncertain"
    BY <1>8, <2>1, <2>4
  <2> QED BY <1>2, <2>2, <2>3, <2>4 DEF s
<1>10. CASE s \notin open
  <2>1. /\ made[s] \subseteq durable \/ made[s] \cap durable = {}
        /\ nested[s] = "ok" => made[s] \subseteq durable
        /\ nested[s] \in {"error", "panic"} => made[s] \cap durable = {}
        /\ nested[s] # "none"
    BY <1>4, <1>10 DEF Fate
  <2>2. durable' = durable
    BY <1>2, <1>5, <1>6, <1>7, <1>8, <1>10
  <2> QED BY <1>5, <2>1, <2>2 DEF s, Outcomes
<1> QED BY <1>9, <1>10

\* The result of WithTx tells what became of the writes.
THEOREM TxOutcome == Spec => Outcome
<1>1. TransactionsAssumption
  BY TransactionsAssumption
<1>2. IInv /\ TransactionsAssumption /\ [Next]_vars =>
        [\A g \in Goroutines : Popped(g) /\ Top(g).kind = "tx" /\ Top(g).began =>
         LET all == made[Session(g)] IN
         /\ all \subseteq durable' \/ all \cap durable' = {}
         /\ result'[g] = "ok" /\ nested[Session(g)] \in {"none", "ok"} => all \subseteq durable'
         /\ result'[g] \in {"error", "panic"} /\ nested[Session(g)] # "ok"
               /\ nested[Session(g)] # "uncertain" => all \cap durable' = {}]_vars
  BY OutcomeStep DEF OutcomeOf
<1> QED BY <1>1, <1>2, Invariance, PTL DEF Spec, Outcome
===============================================================================
