------------------------------ MODULE HttpCallProofs ------------------------------
(***************************************************************************)
(* HttpCall for any services, any placement of the filters and any number  *)
(* of requests: the trace id and the source of a request, who a guarded    *)
(* handler runs for, and the entries of sentinel.                          *)
(*                                                                         *)
(* Then the discovery that its callers find their targets with, for any    *)
(* services, instances and clients and any number of changes and faults.   *)
(***************************************************************************)
EXTENDS HttpCall, Discovery, FiniteSetTheorems, TLAPS

\* A handler has a trace id, and makes requests only once it has its context,
\* which does not change after that.
Contexts ==
    /\ \A r \in 1..used : Begun(r) => ctx[r].trace # 0
    /\ \A r \in 1..used : from[r] # 0 => from[r] \in 1..used /\ Begun(from[r])

\* Only the outside sends requests that name no sender.
Sources == \A r \in 1..used : from[r] = 0 => wire[r].source \in {Outside, None}

IInv == TypeOK /\ Contexts /\ TraceKept /\ Sources /\ VerifiedSender /\ Balances

LEMMA Requests1 == ASSUME TypeOK PROVE 1..used \subseteq Requests
  BY HttpCallAssumption DEF TypeOK, Requests

LEMMA OpenBelow == ASSUME TypeOK, Balances PROVE \A q \in open : q \in 1..used
<1> SUFFICES ASSUME NEW q \in open PROVE q \in 1..used
  OBVIOUS
<1>1. q \in Requests /\ pc[q] # "none"
  BY DEF TypeOK, Balances, Running
<1> QED BY <1>1, HttpCallAssumption DEF TypeOK, Requests

LEMMA NoHeadersType == NoHeaders \in Headers
  BY HttpCallAssumption DEF NoHeaders, Headers, Names, Signs

\* The headers of a call: its trace id is that of the context, its source the caller.
LEMMA OutgoingHeaders ==
    ASSUME NEW me \in Services, NEW server \in Services, NEW context \in Headers,
           NEW secret \in BOOLEAN
    PROVE  /\ Outgoing(me, server, context, secret) \in Headers
           /\ Outgoing(me, server, context, secret).source = me
           /\ context.trace # 0 => Outgoing(me, server, context, secret).trace = context.trace
<1> DEFINE sent == [NoHeaders EXCEPT !.target = server,
                                     !.sign = IF secret THEN Secret(me, server) ELSE None]
           replaced == Replaced(sent, context)
           named == [replaced EXCEPT !.source = me]
<1>1. \A t \in Services : Secret(me, t) \in Signs
  BY DEF Signs
<1>2. sent \in Headers /\ sent.target = server
  BY <1>1, NoHeadersType DEF Headers, NoHeaders
<1>3. /\ replaced \in Headers
      /\ replaced.target \in Services
      /\ context.trace # 0 => replaced.trace = context.trace
  <2> HIDE DEF sent
  <2> QED BY <1>2 DEF Replaced, Headers
<1>4. /\ named \in Headers /\ named.source = me /\ named.target \in Services
      /\ context.trace # 0 => named.trace = context.trace
  <2> HIDE DEF replaced
  <2> QED BY <1>3 DEF Headers, Names
<1>5. Outgoing(me, server, context, secret)
        = IF me \in Signing THEN [named EXCEPT !.sign = Secret(me, named.target)] ELSE named
  BY DEF Outgoing, Signed
<1> HIDE DEF named
<1> QED BY <1>1, <1>4, <1>5 DEF Headers

LEMMA InitIInv == Init => IInv
<1> SUFFICES ASSUME Init PROVE IInv
  OBVIOUS
<1> USE HttpCallAssumption DEF Init
<1>1. TypeOK
  BY NoHeadersType DEF TypeOK, Requests
<1>2. Contexts /\ TraceKept /\ Sources /\ VerifiedSender
  BY DEF Contexts, TraceKept, Sources, VerifiedSender, Begun, Running
<1>3. Balances
  BY FS_EmptySet DEF Balances, Running
<1> QED BY <1>1, <1>2, <1>3 DEF IInv

-------------------------------------------------------------------------------
(* New requests. *)

LEMMA NewRequestTypes ==
    ASSUME TypeOK, NEW r \in 0..used, NEW s \in Services, NEW h \in Headers,
           NewRequest(r, s, h)
    PROVE  /\ used + 1 \in Requests /\ used' = used + 1 /\ used' \in 0..MaxRequests
           /\ from' \in [Requests -> 0..MaxRequests]
           /\ to' \in [Requests -> Services \cup {None}]
           /\ wire' \in [Requests -> Headers]
           /\ \A q \in 1..used' : to'[q] \in Services /\ from'[q] < q
           /\ \A q \in 1..used : from'[q] = from[q] /\ to'[q] = to[q] /\ wire'[q] = wire[q]
           /\ from'[used + 1] = r /\ to'[used + 1] = s /\ wire'[used + 1] = h
  BY HttpCallAssumption DEF TypeOK, NewRequest, Requests

LEMMA OutsideInductive ==
    ASSUME IInv, NEW s \in Services, NEW traced \in BOOLEAN, NEW signed \in BOOLEAN,
           OutsideCall(s, traced, signed)
    PROVE  IInv'
<1> USE HttpCallAssumption DEF IInv
<1> DEFINE h == [trace  |-> IF traced THEN used + 1 ELSE 0,
                 source |-> IF signed THEN Outside ELSE None,
                 target |-> None,
                 sign   |-> IF signed THEN Secret(Outside, s) ELSE None]
<1>0. NewRequest(0, s, h)
  BY DEF OutsideCall
<1>1. h \in Headers
  BY <1>0 DEF Headers, Names, Signs, NewRequest, TypeOK
<1>2. h.source \in {Outside, None}
  OBVIOUS
<1> HIDE DEF h
<1>3. 0 \in 0..used
  BY DEF TypeOK
<1>4. /\ used + 1 \in Requests /\ used' = used + 1 /\ used' \in 0..MaxRequests
      /\ from' \in [Requests -> 0..MaxRequests]
      /\ to' \in [Requests -> Services \cup {None}]
      /\ wire' \in [Requests -> Headers]
      /\ \A q \in 1..used' : to'[q] \in Services /\ from'[q] < q
      /\ \A q \in 1..used : from'[q] = from[q] /\ to'[q] = to[q] /\ wire'[q] = wire[q]
      /\ from'[used + 1] = 0 /\ to'[used + 1] = s /\ wire'[used + 1] = h
  BY <1>0, <1>1, <1>3, NewRequestTypes
<1>5. /\ pc' = [pc EXCEPT ![used + 1] = "sent"]
      /\ UNCHANGED <<ctx, child, proxied, status, counted, open>>
  BY DEF OutsideCall, callVars
<1>6. /\ \A q \in 1..used' : q \in 1..used \/ q = used + 1
      /\ \A q \in 1..used : q \in Requests /\ q \in 1..used' /\ pc'[q] = pc[q]
      /\ pc'[used + 1] = "sent"
  BY <1>4, <1>5 DEF TypeOK, Requests
<1>7. TypeOK'
  <2>1. pc' \in [Requests -> {"none", "sent", "guarded", "handling", "calling", "answered"}]
    <3>1. pc \in [Requests -> {"none", "sent", "guarded", "handling", "calling", "answered"}]
      BY DEF TypeOK
    <3> QED BY <3>1, <1>5
  <2>2. \A q \in Requests : pc'[q] = "none" <=> q > used'
    BY <1>4, <1>5 DEF TypeOK, Requests
  <2>3. \A q \in Requests : pc'[q] = "calling" <=> child'[q] # 0
    BY <1>4, <1>5, <1>6 DEF TypeOK, Requests
  <2>4. \A q \in Requests :
            child'[q] # 0 => child'[q] \in 1..used' /\ from'[child'[q]] = q
    BY <1>4, <1>5, <1>6 DEF TypeOK
  <2> QED BY <1>4, <1>5, <2>1, <2>2, <2>3, <2>4 DEF TypeOK
<1>8. Contexts'
  BY <1>4, <1>5, <1>6 DEF Contexts, Begun
<1>9. TraceKept' /\ Sources'
  BY <1>2, <1>4, <1>5, <1>6 DEF TraceKept, Sources, Contexts, Begun
<1>10. VerifiedSender'
  BY <1>4, <1>5, <1>6 DEF VerifiedSender, Running, Contexts
<1>11. Balances'
  <2>1. \A q \in open : Running(q)' /\ GuardOf[to'[q]] = "sentinel"
    BY <1>4, <1>6, OpenBelow DEF Balances, Running
  <2>2. \A q \in 1..used' : Running(q)' /\ GuardOf[to'[q]] = "sentinel" => q \in open
    BY <1>4, <1>6 DEF Balances, Running
  <2>3. \A q \in 1..used' :
           pc'[q] = "answered" => status[q] # 0 /\ counted[q] \in {0, status[q]}
    BY <1>4, <1>6 DEF Balances
  <2>4. \A q \in Requests : counted[q] # 0 => pc'[q] = "answered"
    BY <1>4, <1>5 DEF TypeOK, Balances, Requests
  <2> QED BY <1>5, <2>1, <2>2, <2>3, <2>4 DEF Balances, Requests
<1> QED BY <1>7, <1>8, <1>9, <1>10, <1>11

LEMMA SendInductive ==
    ASSUME IInv, NEW r \in Requests, NEW s \in Services, NEW detached \in BOOLEAN,
           NEW secret \in BOOLEAN, NEW proxy \in BOOLEAN,
           Send(r, s, detached, secret, proxy)
    PROVE  IInv'
<1> USE HttpCallAssumption DEF IInv
<1> DEFINE context == IF detached THEN Detached(ctx[r]) ELSE ctx[r]
           h == Outgoing(to[r], s, context, secret)
<1>0. pc[r] = "handling" /\ r \in 1..used /\ to[r] \in Services /\ r \in 0..used
  BY DEF Send, TypeOK, Requests
<1>1. context \in Headers /\ context.trace = ctx[r].trace /\ context.trace # 0
  <2>1. ctx[r] \in Headers /\ ctx[r].trace # 0
    BY <1>0 DEF TypeOK, Contexts, Begun
  <2>2. Detached(ctx[r]) \in Headers /\ Detached(ctx[r]).trace = ctx[r].trace
    BY <2>1, NoHeadersType DEF Detached, Headers
  <2> QED BY <2>1, <2>2
<1>2. NewRequest(r, s, h)
  BY DEF Send
<1> HIDE DEF context
<1>3. h \in Headers /\ h.source = to[r] /\ h.trace = ctx[r].trace
  <2>0. \A me \in Services, c \in Headers :
           /\ Outgoing(me, s, c, secret) \in Headers
           /\ Outgoing(me, s, c, secret).source = me
           /\ c.trace # 0 => Outgoing(me, s, c, secret).trace = c.trace
    BY OutgoingHeaders
  <2>1. /\ Outgoing(to[r], s, context, secret) \in Headers
        /\ Outgoing(to[r], s, context, secret).source = to[r]
        /\ context.trace # 0 => Outgoing(to[r], s, context, secret).trace = context.trace
    BY <1>0, <1>1, <2>0
  <2> QED BY <1>1, <2>1
<1>31. /\ pc' = [pc EXCEPT ![r] = "calling", ![used + 1] = "sent"]
      /\ child' = [child EXCEPT ![r] = used + 1]
      /\ proxied' = [proxied EXCEPT ![r] = proxy]
      /\ UNCHANGED <<ctx, status, counted, open>>
  BY DEF Send
<1> HIDE DEF h
<1>4. /\ used + 1 \in Requests /\ used' = used + 1 /\ used' \in 0..MaxRequests
      /\ from' \in [Requests -> 0..MaxRequests]
      /\ to' \in [Requests -> Services \cup {None}]
      /\ wire' \in [Requests -> Headers]
      /\ \A q \in 1..used' : to'[q] \in Services /\ from'[q] < q
      /\ \A q \in 1..used : from'[q] = from[q] /\ to'[q] = to[q] /\ wire'[q] = wire[q]
      /\ from'[used + 1] = r /\ to'[used + 1] = s /\ wire'[used + 1] = h
  BY <1>0, <1>2, <1>3, NewRequestTypes
<1>6. /\ \A q \in 1..used' : q \in 1..used \/ q = used + 1
      /\ \A q \in 1..used : q \in Requests /\ q \in 1..used' /\ (q # r => pc'[q] = pc[q])
      /\ pc'[used + 1] = "sent" /\ pc'[r] = "calling"
  BY <1>0, <1>31, <1>4 DEF TypeOK, Requests
<1>7. TypeOK'
  <2>1. pc' \in [Requests -> {"none", "sent", "guarded", "handling", "calling", "answered"}]
    <3>1. pc \in [Requests -> {"none", "sent", "guarded", "handling", "calling", "answered"}]
      BY DEF TypeOK
    <3> QED BY <3>1, <1>31
  <2>0. /\ \A q \in Requests : q # r /\ q # used + 1 => pc'[q] = pc[q]
        /\ \A q \in Requests : pc[q] = "none" <=> q > used
        /\ \A q \in Requests : pc[q] = "calling" <=> child[q] # 0
        /\ used \in Nat /\ Requests \subseteq Nat
    BY <1>31 DEF TypeOK, Requests
  <2>2. \A q \in Requests : pc'[q] = "none" <=> q > used'
    BY <1>0, <1>4, <1>6, <2>0
  <2>3. /\ child' \in [Requests -> 0..MaxRequests] /\ proxied' \in [Requests -> BOOLEAN]
        /\ child'[r] = used + 1 /\ \A q \in Requests : q # r => child'[q] = child[q]
    BY <1>4, <1>31 DEF TypeOK, Requests
  <2>4. \A q \in Requests : pc'[q] = "calling" <=> child'[q] # 0
    <3>1. child[used + 1] = 0 /\ used + 1 # r
      BY <1>0, <1>4, <2>0
    <3> QED BY <1>6, <2>0, <2>3, <3>1
  <2>5. \A q \in Requests :
            child'[q] # 0 => child'[q] \in 1..used' /\ from'[child'[q]] = q
    BY <1>0, <1>4, <1>6, <2>3 DEF TypeOK
  <2> QED BY <1>4, <1>31, <2>1, <2>2, <2>3, <2>4, <2>5 DEF TypeOK
<1>8. Contexts'
  <2>1. \A q \in 1..used : Begun(q) => q \in 1..used' /\ Begun(q)'
    BY <1>0, <1>6 DEF Begun
  <2>2. \A q \in 1..used' : Begun(q)' => ctx'[q].trace # 0
    BY <1>0, <1>31, <1>6 DEF Begun, Contexts
  <2>4. from'[used + 1] \in 1..used' /\ pc'[from'[used + 1]] = "calling"
    BY <1>0, <1>4, <1>6
  <2>5. \A q \in 1..used' : from'[q] # 0 =>
           from'[q] \in 1..used' /\ pc'[from'[q]] \in {"guarded", "handling", "calling", "answered"}
    BY <1>4, <1>6, <2>1, <2>4 DEF Contexts, Begun
  <2> QED BY <2>2, <2>5 DEF Contexts, Begun
<1>9. TraceKept' /\ Sources'
  <2>1. TraceKept'
    <3>1. ASSUME NEW q \in 1..used, from[q] # 0
          PROVE  /\ wire[q].trace = ctx[from[q]].trace /\ ctx[from[q]].trace # 0
                 /\ Begun(q)' => ctx[q].trace = wire[q].trace
                 /\ wire[q].source = to'[from[q]]
      <4>1. Begun(q)' => Begun(q)
        BY <1>0, <1>6 DEF Begun
      <4>2. to'[from[q]] = to[from[q]]
        BY <1>4, <3>1 DEF Contexts
      <4> QED BY <3>1, <4>1, <4>2 DEF TraceKept
    <3>2. /\ wire'[used + 1].trace = ctx[r].trace /\ ctx[r].trace # 0
          /\ pc'[used + 1] = "sent" /\ wire'[used + 1].source = to'[r]
      BY <1>0, <1>1, <1>3, <1>4, <1>6 DEF Begun
    <3>3. ASSUME NEW q \in 1..used', from'[q] # 0
          PROVE  /\ wire'[q].trace = ctx[from'[q]].trace /\ ctx[from'[q]].trace # 0
                 /\ Begun(q)' => ctx[q].trace = wire'[q].trace
                 /\ wire'[q].source = to'[from'[q]]
      <4>1. CASE q \in 1..used
        BY <1>4, <3>1, <3>3, <4>1
      <4>2. CASE q = used + 1
        BY <1>4, <3>2, <4>2 DEF Begun
      <4> QED BY <1>6, <4>1, <4>2
    <3>4. ctx' = ctx
      BY <1>31
    <3> QED BY <3>3, <3>4 DEF TraceKept
  <2>2. Sources'
    BY <1>0, <1>4, <1>6 DEF Sources
  <2> QED BY <2>1, <2>2
<1>10. VerifiedSender'
  BY <1>0, <1>31, <1>4, <1>6 DEF VerifiedSender, Running, Contexts
<1>11. Balances'
  <2>1. \A q \in open : Running(q)' /\ GuardOf[to'[q]] = "sentinel"
    BY <1>4, <1>6, OpenBelow DEF Balances, Running
  <2>2. \A q \in 1..used' : Running(q)' /\ GuardOf[to'[q]] = "sentinel" => q \in open
    BY <1>0, <1>4, <1>6 DEF Balances, Running
  <2>3. \A q \in 1..used' :
           pc'[q] = "answered" => status[q] # 0 /\ counted[q] \in {0, status[q]}
    BY <1>0, <1>4, <1>6 DEF Balances
  <2>4. \A q \in Requests : counted[q] # 0 => pc'[q] = "answered"
    <3>1. \A q \in Requests : counted[q] # 0 => pc[q] = "answered" /\ q \in 1..used
      <4>1. \A q \in Requests : counted[q] # 0 => pc[q] = "answered"
        BY DEF Balances
      <4>2. \A q \in Requests : pc[q] = "none" <=> q > used
        BY DEF TypeOK
      <4>3. used \in 0..MaxRequests
        BY DEF TypeOK
      <4> QED BY <4>1, <4>2, <4>3 DEF Requests
    <3>2. pc[r] # "answered"
      BY <1>0
    <3>3. \A q \in 1..used : q # r => pc'[q] = pc[q]
      BY <1>6
    <3>4. counted' = counted
      BY <1>31
    <3> QED BY <3>1, <3>2, <3>3, <3>4
  <2> QED BY <1>31, <2>1, <2>2, <2>3, <2>4 DEF Balances, Requests
<1> QED BY <1>7, <1>8, <1>9, <1>10, <1>11

-------------------------------------------------------------------------------
(* The other steps change neither who sent what to whom, nor, but for Receive, *)
(* a context.                                                                  *)

LEMMA WireKept ==
    ASSUME IInv, UNCHANGED <<used, from, to, wire, ctx>>,
           \A q \in 1..used : Begun(q)' <=> Begun(q)
    PROVE  Contexts' /\ TraceKept' /\ Sources'
<1>1. Contexts'
  <2>1. \A q \in 1..used : from[q] # 0 => Begun(from[q])'
    BY DEF IInv, Contexts
  <2> QED BY <2>1 DEF IInv, Contexts, Begun
<1>2. TraceKept'
  BY DEF IInv, TraceKept
<1>3. Sources'
  BY DEF IInv, Sources
<1> QED BY <1>1, <1>2, <1>3

LEMMA CallReturnsInductive ==
    ASSUME IInv, NEW r \in Requests, Response(r) \/ CallFails(r) PROVE IInv'
<1> USE HttpCallAssumption DEF IInv
<1>1. /\ pc[r] = "calling" /\ pc' = [pc EXCEPT ![r] = "handling"]
      /\ child' = [child EXCEPT ![r] = 0] /\ proxied' = [proxied EXCEPT ![r] = FALSE]
      /\ UNCHANGED <<used, from, to, wire, ctx, counted, open>>
  BY DEF Response, CallFails, Returns, wireVars
<1>2. status' = status \/ (status[r] = 0 /\ status' = [status EXCEPT ![r] = status[child[r]]])
  BY DEF Response, CallFails
<1>3. child[r] \in Requests
  BY <1>1, Requests1 DEF TypeOK
<1>4. TypeOK'
  <2>1. status' \in [Requests -> {0, 200, 401, 403, 423, 429, 500}]
    BY <1>2, <1>3 DEF TypeOK
  <2>2. /\ \A q \in Requests : q # r => pc'[q] = pc[q] /\ child'[q] = child[q]
        /\ pc'[r] = "handling" /\ child'[r] = 0
    BY <1>1 DEF TypeOK
  <2>3. \A q \in Requests : pc'[q] = "none" <=> q > used
    BY <1>1, <2>2 DEF TypeOK
  <2>4. \A q \in Requests : pc'[q] = "calling" <=> child'[q] # 0
    BY <2>2 DEF TypeOK
  <2>5. \A q \in Requests : child'[q] # 0 => child'[q] \in 1..used /\ from[child'[q]] = q
    BY <2>2 DEF TypeOK
  <2>6. /\ pc' \in [Requests -> {"none", "sent", "guarded", "handling", "calling", "answered"}]
        /\ child' \in [Requests -> 0..MaxRequests] /\ proxied' \in [Requests -> BOOLEAN]
    BY <1>1 DEF TypeOK
  <2> QED BY <1>1, <2>1, <2>3, <2>4, <2>5, <2>6 DEF TypeOK
<1>5. Contexts' /\ TraceKept' /\ Sources'
  <2>1. \A q \in 1..used : Begun(q)' <=> Begun(q)
    BY <1>1 DEF Begun, TypeOK
  <2> QED BY <1>1, <2>1, WireKept
<1>6. \A q \in Requests : Running(q)' <=> Running(q)
  BY <1>1 DEF Running, TypeOK
<1>7. VerifiedSender'
  BY <1>1, <1>6, Requests1 DEF VerifiedSender
<1>8. Balances'
  <2>1. \A q \in Requests : q # r => pc'[q] = pc[q] /\ status'[q] = status[q]
    BY <1>1, <1>2 DEF TypeOK
  <2>2. pc'[r] = "handling" /\ counted[r] = 0
    BY <1>1 DEF TypeOK, Balances
  <2>3. \A q \in open : q \in Requests
    BY DEF TypeOK
  <2>4. \A q \in 1..used : q \in Requests
    BY Requests1
  <2>5. \A q \in open : Running(q)' /\ GuardOf[to[q]] = "sentinel"
    BY <1>6, <2>3 DEF Balances
  <2>6. \A q \in 1..used : Running(q)' /\ GuardOf[to[q]] = "sentinel" => q \in open
    BY <1>6, <2>4 DEF Balances
  <2>7. \A q \in 1..used :
           pc'[q] = "answered" => status'[q] # 0 /\ counted[q] \in {0, status'[q]}
    BY <2>1, <2>2, <2>4 DEF Balances
  <2>8. \A q \in Requests : counted[q] # 0 => pc'[q] = "answered"
    BY <2>1, <2>2 DEF Balances
  <2> QED BY <1>1, <2>5, <2>6, <2>7, <2>8 DEF Balances
<1> QED BY <1>4, <1>5, <1>7, <1>8

LEMMA ReceiveInductive ==
    ASSUME IInv, NEW r \in Requests, Receive(r) PROVE IInv'
<1> USE HttpCallAssumption DEF IInv
<1>1. /\ pc[r] = "sent" /\ pc' = [pc EXCEPT ![r] = "guarded"]
      /\ ctx' = [ctx EXCEPT ![r] = WithTrace(r, wire[r])]
      /\ UNCHANGED <<used, from, to, wire, child, proxied, status, counted, open>>
  BY DEF Receive, wireVars, callVars
<1>2. WithTrace(r, wire[r]) \in Headers /\ WithTrace(r, wire[r]).trace # 0
  <2>1. wire[r] \in Headers /\ r \in 0..MaxRequests /\ r # 0
    BY DEF TypeOK, Requests
  <2> QED BY <2>1 DEF WithTrace, Headers
<1>3. TypeOK'
  BY <1>1, <1>2 DEF TypeOK
<1>4. \A q \in Requests : q # r => pc'[q] = pc[q] /\ ctx'[q] = ctx[q]
  BY <1>1 DEF TypeOK
<1>5. pc'[r] = "guarded" /\ ctx'[r].trace # 0
  BY <1>1, <1>2 DEF TypeOK
<1>6. \A q \in 1..used : q \in Requests
  BY Requests1
<1>7. ~Begun(r)
  BY <1>1 DEF Begun
<1>8. \A q \in 1..used : from[q] # 0 => from[q] # r /\ from[q] \in Requests /\ Begun(from[q])
  BY <1>6, <1>7 DEF Contexts
<1>9. Contexts'
  <2>1. \A q \in 1..used : Begun(q)' => ctx'[q].trace # 0
    BY <1>4, <1>5, <1>6 DEF Contexts, Begun
  <2>2. \A q \in 1..used : from[q] # 0 => from[q] \in 1..used
    BY DEF Contexts
  <2>3. \A q \in 1..used : from[q] # 0 =>
           pc'[from[q]] \in {"guarded", "handling", "calling", "answered"}
    BY <1>4, <1>8 DEF Begun
  <2> QED BY <1>1, <2>1, <2>2, <2>3 DEF Contexts, Begun
<1>10. TraceKept' /\ Sources'
  <2>1. from[r] # 0 /\ r \in 1..used => ctx'[r].trace = wire[r].trace
    <3>1. wire[r].trace # 0 => WithTrace(r, wire[r]).trace = wire[r].trace
      BY DEF WithTrace, TypeOK, Headers
    <3>2. ctx'[r] = WithTrace(r, wire[r])
      BY <1>1 DEF TypeOK
    <3> QED BY <3>1, <3>2 DEF TraceKept
  <2>2. TraceKept'
    BY <1>1, <1>4, <1>6, <1>8, <2>1 DEF TraceKept, Begun
  <2>3. Sources'
    BY <1>1 DEF Sources
  <2> QED BY <2>2, <2>3
<1>11. \A q \in Requests : Running(q)' <=> Running(q)
  BY <1>1, <1>4, <1>5 DEF Running
<1>12. VerifiedSender'
  BY <1>1, <1>6, <1>11 DEF VerifiedSender
<1>13. Balances'
  <2>1. \A q \in open : q \in Requests
    BY DEF TypeOK
  <2>2. \A q \in open : Running(q)' /\ GuardOf[to[q]] = "sentinel"
    BY <1>11, <2>1 DEF Balances
  <2>3. \A q \in 1..used : Running(q)' /\ GuardOf[to[q]] = "sentinel" => q \in open
    BY <1>6, <1>11 DEF Balances
  <2>4. counted[r] = 0
    BY <1>1 DEF Balances
  <2> QED BY <1>1, <1>4, <1>5, <1>6, <2>2, <2>3, <2>4 DEF Balances
<1> QED BY <1>3, <1>9, <1>10, <1>12, <1>13

LEMMA PassInductive ==
    ASSUME IInv, NEW r \in Requests, Pass(r) PROVE IInv'
<1> USE HttpCallAssumption DEF IInv
<1>1. /\ pc[r] = "guarded" /\ pc' = [pc EXCEPT ![r] = "handling"]
      /\ open' = IF GuardOf[to[r]] = "sentinel" THEN open \cup {r} ELSE open
      /\ UNCHANGED <<used, from, to, wire, ctx, child, proxied, status, counted>>
  BY DEF Pass, wireVars, callVars
<1>2. TypeOK'
  BY <1>1 DEF TypeOK
<1>3. \A q \in Requests : q # r => pc'[q] = pc[q]
  BY <1>1 DEF TypeOK
<1>4. pc'[r] = "handling" /\ r \in 1..used /\ counted[r] = 0
  BY <1>1 DEF TypeOK, Balances, Requests
<1>5. \A q \in 1..used : q \in Requests
  BY Requests1
<1>6. Contexts' /\ TraceKept' /\ Sources'
  <2>1. \A q \in 1..used : Begun(q)' <=> Begun(q)
    BY <1>1, <1>3, <1>4, <1>5 DEF Begun
  <2> QED BY <1>1, <2>1, WireKept
<1>7. VerifiedSender'
  <2>1. GuardOf[to[r]] = "sign" =>
           wire[r].sign = Secret(IF from[r] = 0 THEN Outside ELSE to[from[r]], to[r])
    <3>1. GuardOf[to[r]] = "sign" =>
             wire[r].source # None /\ wire[r].sign = Secret(wire[r].source, to[r])
      BY DEF Pass, Passes, SignRight
    <3>2. wire[r].source # None =>
             wire[r].source = IF from[r] = 0 THEN Outside ELSE to[from[r]]
      BY <1>4 DEF Sources, TraceKept
    <3> QED BY <3>1, <3>2
  <2> QED BY <1>1, <1>3, <1>4, <1>5, <2>1 DEF VerifiedSender, Running
<1>8. Balances'
  <2>1. IsFiniteSet(open) /\ Cardinality(open) \in Nat
    <3>1. IsFiniteSet(Requests)
      BY FS_Interval DEF Requests
    <3> QED BY <3>1, FS_Subset, FS_CardinalityType DEF TypeOK
  <2>2. Cardinality(open') <= Limit
    <3>1. CASE GuardOf[to[r]] = "sentinel"
      <4>1. Cardinality(open) < Limit
        BY <3>1 DEF Pass, Passes
      <4>2. Cardinality(open \cup {r}) \in {Cardinality(open), Cardinality(open) + 1}
        BY <2>1, FS_AddElement
      <4> QED BY <1>1, <2>1, <3>1, <4>1, <4>2
    <3>2. CASE GuardOf[to[r]] # "sentinel"
      BY <1>1, <3>2 DEF Balances
    <3> QED BY <3>1, <3>2
  <2>3. \A q \in open' : Running(q)' /\ GuardOf[to[q]] = "sentinel"
    BY <1>1, <1>3, <1>4 DEF Balances, Running, TypeOK
  <2>4. \A q \in 1..used : Running(q)' /\ GuardOf[to[q]] = "sentinel" => q \in open'
    BY <1>1, <1>3, <1>5 DEF Balances, Running
  <2>5. \A q \in 1..used : pc'[q] = "answered" => status[q] # 0 /\ counted[q] \in {0, status[q]}
    BY <1>3, <1>4, <1>5 DEF Balances
  <2>6. \A q \in Requests : counted[q] # 0 => pc'[q] = "answered"
    BY <1>3, <1>4 DEF Balances
  <2> QED BY <1>1, <2>2, <2>3, <2>4, <2>5, <2>6 DEF Balances
<1> QED BY <1>2, <1>6, <1>7, <1>8

LEMMA WriteInductive ==
    ASSUME IInv, NEW r \in Requests, Write(r) PROVE IInv'
<1> USE HttpCallAssumption DEF IInv
<1>1. /\ pc[r] = "handling" /\ status' = [status EXCEPT ![r] = 200]
      /\ UNCHANGED <<used, from, to, wire, ctx, pc, child, proxied, counted, open>>
  BY DEF Write, wireVars, callVars
<1>2. TypeOK'
  BY <1>1 DEF TypeOK
<1>3. Contexts' /\ TraceKept' /\ Sources'
  BY <1>1, WireKept DEF Begun
<1>4. VerifiedSender'
  BY <1>1 DEF VerifiedSender, Running
<1>5. Balances'
  <2>1. \A q \in 1..used : q \in Requests
    BY Requests1
  <2> QED BY <1>1, <2>1 DEF Balances, Running, TypeOK
<1> QED BY <1>2, <1>3, <1>4, <1>5

\* A request is answered by the filter, the handler or recoverFilter.
LEMMA EndInductive ==
    ASSUME IInv, NEW r \in Requests, Block(r) \/ HandlerReturns(r) \/ HandlerPanics(r)
    PROVE  IInv'
<1> USE HttpCallAssumption DEF IInv
<1> DEFINE code == status'[r]
<1>1. /\ pc[r] \in {"guarded", "handling"} /\ pc' = [pc EXCEPT ![r] = "answered"]
      /\ UNCHANGED <<used, from, to, wire, ctx, child, proxied>>
  BY DEF Block, HandlerReturns, HandlerPanics, Ends, wireVars, callVars
<1>2. /\ code \in {200, 401, 403, 423, 429, 500}
      /\ status' = [status EXCEPT ![r] = code]
      /\ counted' = counted \/ counted' = [counted EXCEPT ![r] = code]
  <2>1. CASE Block(r)
    <3>1. GuardOf[to[r]] \in {"whitelist", "sentinel", "switch", "sign"}
      <4>1. to[r] \in Services
        BY <1>1 DEF TypeOK, Requests
      <4> QED BY <2>1, <4>1 DEF Block, MayBlock
    <3>2. PICK c \in Blocked[GuardOf[to[r]]] :
             Ends(r, c) /\ counted' = [counted EXCEPT ![r] = c]
      BY <2>1 DEF Block
    <3>3. c \in {401, 403, 423, 429, 500}
      BY <3>1, <3>2 DEF Blocked
    <3> QED BY <3>2, <3>3 DEF Ends, TypeOK
  <2>2. CASE HandlerReturns(r)
    BY <2>2 DEF HandlerReturns, Ends, TypeOK
  <2>3. CASE HandlerPanics(r)
    BY <2>3 DEF HandlerPanics, Ends, TypeOK
  <2> QED BY <2>1, <2>2, <2>3
<1>3. open' = open \ {r}
  <2>1. CASE Block(r)
    BY <2>1 DEF Block, Balances, Running
  <2> QED BY <2>1 DEF HandlerReturns, HandlerPanics
<1> HIDE DEF code
<1>4. TypeOK'
  BY <1>1, <1>2, <1>3 DEF TypeOK
<1>5. \A q \in Requests : q # r =>
         pc'[q] = pc[q] /\ status'[q] = status[q] /\ counted'[q] = counted[q]
  BY <1>1, <1>2 DEF TypeOK
<1>6. pc'[r] = "answered" /\ status'[r] = code /\ counted[r] = 0 /\ counted'[r] \in {0, code}
  BY <1>1, <1>2 DEF TypeOK, Balances
<1>7. \A q \in 1..used : q \in Requests
  BY Requests1
<1>8. Contexts' /\ TraceKept' /\ Sources'
  <2>1. \A q \in 1..used : Begun(q)' <=> Begun(q)
    BY <1>1, <1>5, <1>6, <1>7 DEF Begun
  <2> QED BY <1>1, <2>1, WireKept
<1>9. VerifiedSender'
  BY <1>1, <1>5, <1>6, <1>7 DEF VerifiedSender, Running
<1>10. Balances'
  <2>1. IsFiniteSet(open) /\ Cardinality(open) \in Nat
    <3>1. IsFiniteSet(Requests)
      BY FS_Interval DEF Requests
    <3> QED BY <3>1, FS_Subset, FS_CardinalityType DEF TypeOK
  <2>2. Cardinality(open') <= Limit
    <3>1. Cardinality(open \ {r}) <= Cardinality(open) /\ Cardinality(open \ {r}) \in Nat
      <4>1. open \ {r} \in SUBSET open
        OBVIOUS
      <4>2. IsFiniteSet(open \ {r}) /\ Cardinality(open \ {r}) <= Cardinality(open)
        BY <2>1, <4>1, FS_Subset
      <4> QED BY <4>2, FS_CardinalityType
    <3>2. Cardinality(open) <= Limit
      BY DEF Balances
    <3> QED BY <1>3, <2>1, <3>1, <3>2
  <2>3. \A q \in open' : Running(q)' /\ GuardOf[to[q]] = "sentinel"
    BY <1>3, <1>5 DEF Balances, Running, TypeOK
  <2>4. \A q \in 1..used : Running(q)' /\ GuardOf[to[q]] = "sentinel" => q \in open'
    BY <1>3, <1>5, <1>6, <1>7 DEF Balances, Running
  <2>5. \A q \in 1..used :
           pc'[q] = "answered" => status'[q] # 0 /\ counted'[q] \in {0, status'[q]}
    BY <1>2, <1>5, <1>6, <1>7 DEF Balances
  <2>6. \A q \in Requests : counted'[q] # 0 => pc'[q] = "answered"
    BY <1>5, <1>6 DEF Balances
  <2> QED BY <1>1, <2>2, <2>3, <2>4, <2>5, <2>6 DEF Balances
<1> QED BY <1>4, <1>8, <1>9, <1>10

LEMMA NextIInv == IInv /\ [Next]_vars => IInv'
<1> SUFFICES ASSUME IInv, [Next]_vars PROVE IInv'
  OBVIOUS
<1>1. CASE UNCHANGED vars
  BY <1>1 DEF vars, wireVars, callVars, IInv, TypeOK, Contexts, TraceKept, Sources,
     VerifiedSender, Balances, Begun, Running
<1>2. ASSUME NEW s \in Services, NEW traced \in BOOLEAN, NEW signed \in BOOLEAN,
             OutsideCall(s, traced, signed)
      PROVE IInv'
  BY <1>2, OutsideInductive
<1>3. ASSUME NEW r \in Requests, NEW s \in Services, NEW detached \in BOOLEAN,
             NEW secret \in BOOLEAN, NEW proxy \in BOOLEAN,
             Send(r, s, detached, secret, proxy)
      PROVE IInv'
  BY <1>3, SendInductive
<1>4. ASSUME NEW r \in Requests, ServerStep(r) \/ CallFails(r) \/ Write(r) \/ HandlerPanics(r)
      PROVE IInv'
  BY <1>4, CallReturnsInductive, ReceiveInductive, PassInductive, WriteInductive, EndInductive
     DEF ServerStep
<1> QED BY <1>1, <1>2, <1>3, <1>4 DEF Next

\* The types, and that calls and requests belong to each other.
THEOREM HttpCallTypes == Spec => []TypeOK
<1>1. IInv => TypeOK
  BY DEF IInv
<1> QED BY <1>1, InitIInv, NextIInv, PTL DEF Spec

\* All requests that a request leads to carry its trace id and name their sender.
THEOREM HttpTraceKept == Spec => []TraceKept
<1>1. IInv => TraceKept
  BY DEF IInv
<1> QED BY <1>1, InitIInv, NextIInv, PTL DEF Spec

\* A handler that asks for a sign runs for requests that their sender signed.
THEOREM HttpVerifiedSender == Spec => []VerifiedSender
<1>1. IInv => VerifiedSender
  BY DEF IInv
<1> QED BY <1>1, InitIInv, NextIInv, PTL DEF Spec

\* The entries of sentinel and the statuses that are counted balance.
THEOREM HttpBalances == Spec => []Balances
<1>1. IInv => Balances
  BY DEF IInv
<1> QED BY <1>1, InitIInv, NextIInv, PTL DEF Spec
-------------------------------------------------------------------------------
\* Discovery: each balancer is made once, and its list never goes back in time nor
\* becomes empty again.

\* A balancer that is not made has no list yet; watch asks for made balancers only.
CacheShape ==
    /\ \A n \in ServiceNames \ made : servers[n] = {} /\ asOf[n] = 0
    /\ todo \subseteq made

\* No list was read in the future, and what watch is about to apply was read
\* after what it replaces.  MadeOnce is what keeps a client from installing a
\* list of that name in between.
Timely ==
    /\ \A n \in ServiceNames : asOf[n] <= clock
    /\ \A c \in Clients : gotAt[c] <= clock
    /\ watchPc = "apply" => newsOf \in made /\ asOf[newsOf] <= newsAt /\ newsAt <= clock

DiscoveryIInv == DiscoveryTypeOK /\ MadeOnce /\ CacheShape /\ Timely

LEMMA DiscoveryInitIInv == DiscoveryInit => DiscoveryIInv
<1> SUFFICES ASSUME DiscoveryInit PROVE DiscoveryIInv
  OBVIOUS
<1> USE DiscoveryAssumption DEF DiscoveryInit
<1>1. DiscoveryTypeOK
  <2>1. /\ live \in [Insts -> BOOLEAN]
        /\ entry \in [Insts -> {"absent", "up", "down"}]
        /\ {clock, newsAt} \subseteq 0..MaxChanges /\ faults \in 0..MaxFaults
    OBVIOUS
  <2>2. servers \in [ServiceNames -> SUBSET Insts] /\ asOf \in [ServiceNames -> 0..MaxChanges]
    OBVIOUS
  <2>3. /\ want \in [Clients -> ServiceNames \cup {Nobody}]
        /\ got \in [Clients -> SUBSET Insts]
        /\ gotAt \in [Clients -> 0..MaxChanges]
    OBVIOUS
  <2>4. seen \in [ServiceNames -> SUBSET Insts]
    OBVIOUS
  <2>5. /\ clientPc \in [Clients -> {"idle", "lookup", "lock", "fetch", "install", "choose"}]
        /\ \A c \in Clients : clientPc[c] = "idle"
    OBVIOUS
  <2>6. /\ made = {} /\ cmu = Nobody /\ watchPc = "idle" /\ todo = {}
        /\ news = {} /\ newsOf = Nobody /\ crashed = FALSE
    OBVIOUS
  <2> HIDE DEF DiscoveryInit
  <2> QED BY <2>1, <2>2, <2>3, <2>4, <2>5, <2>6 DEF DiscoveryTypeOK
<1>2. MadeOnce
  BY DEF MadeOnce
<1>3. CacheShape /\ Timely
  BY DEF CacheShape, Timely
<1> QED BY <1>1, <1>2, <1>3 DEF DiscoveryIInv

LEMMA TypeOKInductive == ASSUME DiscoveryIInv, DiscoveryNext PROVE DiscoveryTypeOK'
<1> USE DiscoveryAssumption DEF DiscoveryIInv, DiscoveryTypeOK, CacheShape, Timely
<1> USE DEF dirVars, cacheVars, clientVars, watchVars
<1>1. ASSUME NEW i \in Insts, NEW s \in {"up", "down"}, Publish(i, s) PROVE DiscoveryTypeOK'
  BY <1>1 DEF Publish, DirectoryStep
<1>2. ASSUME NEW i \in Insts, Withdraw(i) PROVE DiscoveryTypeOK'
  BY <1>2 DEF Withdraw, DirectoryStep
<1>3. ASSUME NEW i \in Insts, Die(i) PROVE DiscoveryTypeOK'
  BY <1>3 DEF Die, DirectoryStep
<1>4. ASSUME NEW c \in Clients, NEW n \in ServiceNames, Call(c, n) PROVE DiscoveryTypeOK'
  BY <1>4 DEF Call, At
<1>5. ASSUME NEW c \in Clients, Lookup(c) PROVE DiscoveryTypeOK'
  BY <1>5 DEF Lookup, At
<1>6. ASSUME NEW c \in Clients, Lock(c) PROVE DiscoveryTypeOK'
  BY <1>6 DEF Lock, LookupAgain, At
<1>7. ASSUME NEW c \in Clients, Fetch(c) PROVE DiscoveryTypeOK'
  BY <1>7 DEF Fetch, At, Listed
<1>8. ASSUME NEW c \in Clients, FetchFails(c) PROVE DiscoveryTypeOK'
  BY <1>8 DEF FetchFails, At, Fault
<1>9. ASSUME NEW c \in Clients, Install(c) PROVE DiscoveryTypeOK'
  <2>0. clientPc[c] = "install" /\ clientPc' = [clientPc EXCEPT ![c] = "choose"] /\ want' = want
    BY <1>9 DEF Install, At
  <2>1. want[c] \in ServiceNames /\ got[c] \in SUBSET Insts /\ gotAt[c] \in 0..MaxChanges
    <3>1. clientPc[c] # "idle"
      BY <2>0
    <3> QED BY <3>1
  <2>2. servers' \in [ServiceNames -> SUBSET Insts] /\ asOf' \in [ServiceNames -> 0..MaxChanges]
    BY <1>9, <2>1 DEF Install
  <2>3. /\ got' \in [Clients -> SUBSET Insts]
        /\ gotAt' \in [Clients -> 0..MaxChanges]
        /\ made' \subseteq ServiceNames
    BY <1>9, <2>1 DEF Install
  <2>4. /\ clientPc' \in [Clients -> {"idle", "lookup", "lock", "fetch", "install", "choose"}]
        /\ \A d \in Clients : /\ clientPc'[d] # "idle" => want[d] \in ServiceNames
                              /\ clientPc'[d] = "choose" => want[d] \in made'
    <3>1. made' = made \cup {want[c]}
      BY <1>9 DEF Install
    <3> QED BY <2>0, <2>1, <3>1
  <2> QED BY <1>9, <2>0, <2>2, <2>3, <2>4 DEF Install
<1>10. ASSUME NEW c \in Clients, Choose(c) PROVE DiscoveryTypeOK'
  BY <1>10 DEF Choose, At
<1>11. CASE WatchBegin
  BY <1>11 DEF WatchBegin, Watching
<1>12. ASSUME NEW n \in ServiceNames, WatchAsk(n) PROVE DiscoveryTypeOK'
  BY <1>12 DEF WatchAsk, Watching, Listed
<1>13. CASE WatchApply
  <2>1. newsOf \in ServiceNames /\ news \in SUBSET Insts /\ newsAt \in 0..MaxChanges
    BY <1>13 DEF WatchApply, Watching
  <2>2. servers' \in [ServiceNames -> SUBSET Insts] /\ asOf' \in [ServiceNames -> 0..MaxChanges]
    BY <1>13, <2>1 DEF WatchApply, Apply, SetServers, RuntimeStops
  <2>3. crashed' \in BOOLEAN /\ made' = made
    BY <1>13 DEF WatchApply, Apply, RuntimeStops
  <2> QED BY <1>13, <2>2, <2>3 DEF WatchApply
<1>14. CASE WatchDone \/ WatchFails
  BY <1>14 DEF WatchDone, WatchFails, WatchEnds, Watching, Fault
<1> HIDE DEF DiscoveryIInv, DiscoveryTypeOK, CacheShape, Timely
<1> QED BY <1>1, <1>2, <1>3, <1>4, <1>5, <1>6, <1>7, <1>8, <1>9, <1>10, <1>11, <1>12,
        <1>13, <1>14 DEF DiscoveryNext, ClientStep, WatchStep

\* Only the holder of cmu can be between Lock and Install, and made grows only there.
LEMMA MadeOnceInductive == ASSUME DiscoveryIInv, DiscoveryNext PROVE MadeOnce'
<1> USE DiscoveryAssumption DEF DiscoveryIInv, DiscoveryTypeOK, MadeOnce
<1> USE DEF dirVars, cacheVars, clientVars, watchVars
<1>1. ASSUME NEW c \in Clients, NEW n \in ServiceNames, Call(c, n) PROVE MadeOnce'
  BY <1>1 DEF Call, At
<1>2. ASSUME NEW c \in Clients, Lookup(c) PROVE MadeOnce'
  BY <1>2 DEF Lookup, At
<1>3. ASSUME NEW c \in Clients, Lock(c) PROVE MadeOnce'
  BY <1>3 DEF Lock, LookupAgain, At
<1>4. ASSUME NEW c \in Clients, Fetch(c) PROVE MadeOnce'
  BY <1>4 DEF Fetch, At
<1>5. ASSUME NEW c \in Clients, FetchFails(c) PROVE MadeOnce'
  BY <1>5 DEF FetchFails, At
<1>6. ASSUME NEW c \in Clients, Install(c) PROVE MadeOnce'
  BY <1>6 DEF Install, At
<1>7. ASSUME NEW c \in Clients, Choose(c) PROVE MadeOnce'
  BY <1>7 DEF Choose, At
<1>8. CASE UNCHANGED <<clientVars, made>>
  BY <1>8
<1>9. ASSUME NEW i \in Insts, NEW s \in {"up", "down"}, Publish(i, s) \/ Withdraw(i) \/ Die(i)
      PROVE UNCHANGED <<clientVars, made>>
  BY <1>9 DEF Publish, Withdraw, Die, DirectoryStep
<1>10. ASSUME WatchStep \/ WatchFails PROVE UNCHANGED <<clientVars, made>>
  BY <1>10 DEF WatchStep, WatchBegin, WatchAsk, WatchApply, Apply, RuntimeStops, WatchDone,
               WatchFails
<1> HIDE DEF DiscoveryIInv, DiscoveryTypeOK, MadeOnce, clientVars
<1> QED BY <1>1, <1>2, <1>3, <1>4, <1>5, <1>6, <1>7, <1>8, <1>9, <1>10 DEF DiscoveryNext, ClientStep

LEMMA HistoryInductive == ASSUME DiscoveryIInv, DiscoveryNext PROVE CacheShape' /\ Timely'
<1> DEFINE Goal == CacheShape /\ Timely
<1> USE DiscoveryAssumption DEF DiscoveryIInv, DiscoveryTypeOK, CacheShape, Timely
<1> USE DEF dirVars, cacheVars, clientVars, watchVars
<1>1. ASSUME NEW i \in Insts, NEW s \in {"up", "down"}, Publish(i, s) \/ Withdraw(i) \/ Die(i)
      PROVE Goal'
  BY <1>1 DEF Publish, Withdraw, Die, DirectoryStep
<1>2. ASSUME NEW c \in Clients, NEW n \in ServiceNames, Call(c, n) PROVE Goal'
  BY <1>2 DEF Call, At
<1>3. ASSUME NEW c \in Clients, Lookup(c) \/ Lock(c) \/ FetchFails(c) \/ Choose(c) PROVE Goal'
  BY <1>3 DEF Lookup, Lock, FetchFails, Choose
<1>4. ASSUME NEW c \in Clients, Fetch(c) PROVE Goal'
  BY <1>4 DEF Fetch, At
<1>5. ASSUME NEW c \in Clients, Install(c) PROVE Goal'
  <2>1. want[c] \notin made
    BY <1>5 DEF Install, At, MadeOnce
  <2> QED BY <1>5, <2>1 DEF Install, At
<1>6. CASE WatchBegin
  BY <1>6 DEF WatchBegin, Watching
<1>7. ASSUME NEW n \in ServiceNames, WatchAsk(n) PROVE Goal'
  BY <1>7 DEF WatchAsk, Watching
<1>8. CASE WatchApply
  BY <1>8 DEF WatchApply, Watching, Apply, SetServers, RuntimeStops
<1>9. CASE WatchDone \/ WatchFails
  BY <1>9 DEF WatchDone, WatchFails, WatchEnds, Watching
<1> HIDE DEF DiscoveryIInv, DiscoveryTypeOK, CacheShape, Timely
<1> QED BY <1>1, <1>2, <1>3, <1>4, <1>5, <1>6, <1>7, <1>8, <1>9 DEF DiscoveryNext, ClientStep, WatchStep

LEMMA StutterInductive == ASSUME DiscoveryIInv, UNCHANGED discoveryVars PROVE DiscoveryIInv'
  BY DEF DiscoveryIInv, DiscoveryTypeOK, MadeOnce, CacheShape, Timely, discoveryVars, dirVars, cacheVars, clientVars,
         watchVars

\* The inductive invariant holds in every reachable state.
THEOREM DiscoveryInvariant == DiscoverySpec => []DiscoveryIInv
<1>1. DiscoveryIInv /\ [DiscoveryNext]_discoveryVars => DiscoveryIInv'
  BY TypeOKInductive, MadeOnceInductive, HistoryInductive, StutterInductive DEF DiscoveryIInv
<1> QED BY DiscoveryInitIInv, <1>1, PTL DEF DiscoverySpec

\* Type correctness of the discovery cache, its clients and its watch.
THEOREM DiscoveryTypes == DiscoverySpec => []DiscoveryTypeOK
  BY DiscoveryInvariant, PTL DEF DiscoveryIInv

\* ChooseServer makes the balancer of a name once, however many clients ask for
\* it at the same time: double-checked locking of etcd.go is right.
THEOREM MadeOnceCorrect == DiscoverySpec => []MadeOnce
  BY DiscoveryInvariant, PTL DEF DiscoveryIInv

\* Steps that leave the lists alone.
LEMMA ListsUntouched ==
    ASSUME DiscoveryNext, ~WatchApply, \A c \in Clients : ~Install(c)
    PROVE  UNCHANGED <<servers, asOf>>
<1> USE DEF cacheVars
<1>1. ASSUME NEW i \in Insts, NEW s \in {"up", "down"}, Publish(i, s) \/ Withdraw(i) \/ Die(i)
      PROVE UNCHANGED <<servers, asOf>>
  BY <1>1 DEF Publish, Withdraw, Die, DirectoryStep
<1>2. ASSUME NEW c \in Clients, (\E n \in ServiceNames : Call(c, n)) \/ Lookup(c) \/ Lock(c)
                                \/ Fetch(c) \/ FetchFails(c) \/ Choose(c)
      PROVE UNCHANGED <<servers, asOf>>
  BY <1>2 DEF Call, Lookup, Lock, Fetch, FetchFails, Choose
<1>3. ASSUME WatchBegin \/ (\E n \in ServiceNames : WatchAsk(n)) \/ WatchDone \/ WatchFails
      PROVE UNCHANGED <<servers, asOf>>
  BY <1>3 DEF WatchBegin, WatchAsk, WatchDone, WatchFails
<1> QED BY <1>1, <1>2, <1>3 DEF DiscoveryNext, ClientStep, WatchStep

\* The two steps that change a list put a younger one in place, and no empty one
\* in the place of a list that has servers.
LEMMA ListSteps ==
    ASSUME DiscoveryIInv, [DiscoveryNext]_discoveryVars, NEW n \in ServiceNames
    PROVE  asOf'[n] >= asOf[n] /\ (servers[n] # {} => servers'[n] # {})
<1>1. asOf \in [ServiceNames -> Nat] /\ servers \in [ServiceNames -> SUBSET Insts]
  BY DiscoveryAssumption DEF DiscoveryIInv, DiscoveryTypeOK
<1>2. ASSUME NEW c \in Clients, Install(c) PROVE asOf'[n] >= asOf[n] /\ (servers[n] # {} => servers'[n] # {})
  <2>1. want[c] \in ServiceNames \ made /\ gotAt[c] \in Nat
    <3>1. clientPc[c] = "install"
      BY <1>2 DEF Install, At
    <3>2. want[c] \in ServiceNames /\ gotAt[c] \in Nat
      BY <3>1, DiscoveryAssumption DEF DiscoveryIInv, DiscoveryTypeOK
    <3>3. want[c] \notin made
      BY <3>1 DEF DiscoveryIInv, MadeOnce
    <3> QED BY <3>2, <3>3
  <2>2. servers[want[c]] = {} /\ asOf[want[c]] = 0
    BY <2>1 DEF DiscoveryIInv, CacheShape
  <2> QED BY <1>1, <1>2, <2>1, <2>2 DEF Install
<1>3. CASE WatchApply
  <2>1. asOf[newsOf] <= newsAt /\ newsAt \in Nat
    BY <1>3, DiscoveryAssumption DEF DiscoveryIInv, DiscoveryTypeOK, Timely, WatchApply, Watching
  <2> QED BY <1>1, <1>3, <2>1 DEF WatchApply, Apply, SetServers, RuntimeStops, cacheVars
<1>4. CASE UNCHANGED <<servers, asOf>>
  BY <1>1, <1>4
<1> QED BY <1>2, <1>3, <1>4, ListsUntouched DEF discoveryVars, cacheVars

\* watch and ChooseServer read etcd independently of each other, and yet no
\* balancer gets a list that was read before the one it has, nor an empty one.
THEOREM NeverBackwardsCorrect == DiscoverySpec => NeverBackwards
<1>1. DiscoveryIInv /\ [DiscoveryNext]_discoveryVars =>
        [\A n \in ServiceNames :
            asOf'[n] >= asOf[n] /\ (servers[n] # {} => servers'[n] # {})]_discoveryVars
  BY ListSteps
<1> QED BY DiscoveryInvariant, <1>1, PTL DEF DiscoverySpec, NeverBackwards
===============================================================================
