-------------------------------- MODULE HttpCall --------------------------------
(***************************************************************************)
(* Calls between services: the client of http/httpclient, the filters of   *)
(* http/httpserver, and the headers with the prefix z- that a request      *)
(* hands on to the requests made while it is handled.                      *)
(*                                                                         *)
(* A request has the number of the call that made it, and a trace id the   *)
(* number of the request it was generated for.  A handler makes one call   *)
(* after the other; everything the client does before the request goes out *)
(* touches nothing that another goroutine sees, so that it is one step.    *)
(***************************************************************************)
EXTENDS Naturals, FiniteSets

CONSTANTS
    Services,      \* services that call each other
    Outside,       \* a client that is none of them
    None,          \* a header that is not there
    GuardOf,       \* the filter in front of each service's handler
    Signing,       \* services that registered an AuthInterceptor
    Limit,         \* concurrent entries sentinel admits
    MaxRequests    \* bound: requests

ASSUME HttpCallAssumption ==
    /\ Outside \notin Services /\ None \notin Services \cup {Outside}
    /\ GuardOf \in [Services -> {"none", "whitelist", "sentinel", "switch", "sign"}]
    /\ Limit \in Nat /\ MaxRequests \in Nat

Requests == 1..MaxRequests

VARIABLES
    used,     \* requests so far
    from, to, \* the request whose handler made a request (0: the outside), the receiver
    wire,     \* its z- headers when it was sent
    ctx,      \* rpcheader.Header in the context of its handler
    pc,       \* where it is
    child,    \* the call its handler waits for, 0 for none
    proxied,  \* is that call one of Proxy?
    status,   \* the status written for it, 0 for none
    counted,  \* the status promFilter has counted, 0 for none
    open      \* requests with an open sentinel entry

wireVars == <<used, from, to, wire>>
callVars == <<child, proxied>>
vars == <<wireVars, ctx, pc, callVars, status, counted, open>>

\* The secret that a client and a server share signs; the timestamp is left out.
Secret(client, server) == <<client, server>>
NoHeaders == [trace |-> 0, source |-> None, target |-> None, sign |-> None]

Init ==
    /\ used = 0
    /\ from = [r \in Requests |-> 0] /\ to = [r \in Requests |-> None]
    /\ wire = [r \in Requests |-> NoHeaders] /\ ctx = [r \in Requests |-> NoHeaders]
    /\ pc = [r \in Requests |-> "none"]
    /\ child = [r \in Requests |-> 0] /\ proxied = [r \in Requests |-> FALSE]
    /\ status = [r \in Requests |-> 0] /\ counted = [r \in Requests |-> 0]
    /\ open = {}

-------------------------------------------------------------------------------
(* The client. *)

\* headerInterceptor: the z- headers of the context replace those that are set.
Replaced(header, by) ==
    [header EXCEPT !.trace  = IF by.trace # 0 THEN by.trace ELSE @,
                   !.target = IF by.target # None THEN by.target ELSE @,
                   !.sign   = IF by.sign # None THEN by.sign ELSE @]

\* AuthInterceptor signs for the service that the target header names.
Signed(me, headers) ==
    IF me \in Signing THEN [headers EXCEPT !.sign = Secret(me, headers.target)] ELSE headers

\* NewCtxFromOldCtx keeps the trace id only.
Detached(headers) == [NoHeaders EXCEPT !.trace = headers.trace]

\* Mutant: headerInterceptor hands on the source it was given.
OutgoingKeepsSource(me, server, context, secret) ==
    LET sent == [NoHeaders EXCEPT !.target = server,
                                  !.sign = IF secret THEN Secret(me, server) ELSE None,
                                  !.source = IF context.source # None THEN context.source ELSE me]
        headers == Replaced(sent, context)
    IN  Signed(me, headers)

\* send sets the target, and a sign if it was given a secret; then the
\* interceptors run in the order in which they were registered: headerInterceptor,
\* which also sets the source, and an AuthInterceptor.  The headers that Proxy
\* copies are in the context too.
Outgoing(me, server, context, secret) ==
    LET sent == [NoHeaders EXCEPT !.target = server,
                                  !.sign = IF secret THEN Secret(me, server) ELSE None]
        headers == [Replaced(sent, context) EXCEPT !.source = me]
    IN  Signed(me, headers)

NewRequest(r, server, headers) ==
    /\ used < MaxRequests
    /\ used' = used + 1
    /\ from' = [from EXCEPT ![used + 1] = r]
    /\ to' = [to EXCEPT ![used + 1] = server]
    /\ wire' = [wire EXCEPT ![used + 1] = headers]

\* A client that is not part of the system may send a trace id, and may sign.
OutsideCall(server, traced, signed) ==
    /\ NewRequest(0, server, [trace  |-> IF traced THEN used + 1 ELSE 0,
                              source |-> IF signed THEN Outside ELSE None,
                              target |-> None,
                              sign   |-> IF signed THEN Secret(Outside, server) ELSE None])
    /\ pc' = [pc EXCEPT ![used + 1] = "sent"]
    /\ UNCHANGED <<ctx, callVars, status, counted, open>>

\* A handler calls a service with its own context, or a detached one; or it
\* proxies its request.  If discovery has no server the call is an error at once.
Send(r, server, detached, secret, proxy) ==
    LET context == IF detached THEN Detached(ctx[r]) ELSE ctx[r] IN
    /\ pc[r] = "handling"
    /\ ~(proxy /\ detached)
    /\ NewRequest(r, server, Outgoing(to[r], server, context, secret))
    /\ pc' = [pc EXCEPT ![r] = "calling", ![used + 1] = "sent"]
    /\ child' = [child EXCEPT ![r] = used + 1]
    /\ proxied' = [proxied EXCEPT ![r] = proxy]
    /\ UNCHANGED <<ctx, status, counted, open>>

Returns(r) ==
    /\ pc[r] = "calling"
    /\ pc' = [pc EXCEPT ![r] = "handling"]
    /\ child' = [child EXCEPT ![r] = 0]
    /\ proxied' = [proxied EXCEPT ![r] = FALSE]
    /\ UNCHANGED <<wireVars, ctx, counted, open>>

\* Proxy hands the status on to its own client; a call turns all but 200 into an error.
Response(r) ==
    /\ Returns(r)
    /\ pc[child[r]] = "answered"
    /\ status' = IF proxied[r] /\ status[r] = 0 THEN [status EXCEPT ![r] = status[child[r]]] ELSE status

\* The connection fails or the context of the caller ends; the callee may go on.
CallFails(r) ==
    /\ Returns(r)
    /\ UNCHANGED status

-------------------------------------------------------------------------------
(* The server: recoverFilter, headerFilter, promFilter, then the route. *)

\* A request without a trace id gets one.
WithTrace(r, headers) == [headers EXCEPT !.trace = IF @ = 0 THEN r ELSE @]

Receive(r) ==
    /\ pc[r] = "sent"
    /\ pc' = [pc EXCEPT ![r] = "guarded"]
    /\ ctx' = [ctx EXCEPT ![r] = WithTrace(r, wire[r])]
    /\ UNCHANGED <<wireVars, callVars, status, counted, open>>

\* Mutant: the secret of the caller is not asked for by the name it gives.
SignRightAnySource(r) ==
    /\ wire[r].sign # None
    /\ \E s \in Services \cup {Outside} : wire[r].sign = Secret(s, to[r])

\* ValidateClientAuthSign
SignRight(r) ==
    /\ wire[r].sign # None
    /\ wire[r].source # None
    /\ wire[r].sign = Secret(wire[r].source, to[r])

\* What the filter of the route may decide; the white list holds addresses, the
\* switch is read from the dynamic properties, a sign may be older than one hour,
\* and its sender may have no secret here.  Sentinel has to refuse at the Limit,
\* and its flow and breaker rules may refuse at any load.  The handler that
\* WithApiSwitch may run when the switch is off (after) is like the one it runs
\* when the switch is on: both are let pass.
Passes(r) ==
    /\ GuardOf[to[r]] = "sentinel" => Cardinality(open) < Limit
    /\ GuardOf[to[r]] = "sign" => SignRight(r)
MayBlock(r) == GuardOf[to[r]] # "none"
Blocked == [whitelist |-> {403}, sentinel |-> {429}, switch |-> {423}, sign |-> {401, 500}]

Pass(r) ==
    /\ pc[r] = "guarded"
    /\ Passes(r)
    /\ pc' = [pc EXCEPT ![r] = "handling"]
    /\ open' = IF GuardOf[to[r]] = "sentinel" THEN open \cup {r} ELSE open
    /\ UNCHANGED <<wireVars, ctx, callVars, status, counted>>

Ends(r, code) ==
    /\ pc' = [pc EXCEPT ![r] = "answered"]
    /\ status' = [status EXCEPT ![r] = code]
    /\ UNCHANGED <<wireVars, ctx, callVars>>

\* c.String and c.Abort; promFilter counts the request.
Block(r) ==
    /\ pc[r] = "guarded"
    /\ MayBlock(r)
    /\ \E code \in Blocked[GuardOf[to[r]]] :
          Ends(r, code) /\ counted' = [counted EXCEPT ![r] = code]
    /\ UNCHANGED open

\* The handler writes its answer, for whose status 200 stands, and may go on.
Write(r) ==
    /\ pc[r] = "handling"
    /\ status[r] = 0
    /\ status' = [status EXCEPT ![r] = 200]
    /\ UNCHANGED <<wireVars, ctx, pc, callVars, counted, open>>

\* gin answers 200 if nothing was written.
HandlerReturns(r) ==
    LET code == IF status[r] = 0 THEN 200 ELSE status[r] IN
    /\ pc[r] = "handling"
    /\ Ends(r, code)
    /\ counted' = [counted EXCEPT ![r] = code]
    /\ open' = open \ {r}

\* Mutant: the entry of sentinel is not released by a deferred call.
HandlerPanicsOpen(r) ==
    /\ pc[r] = "handling"
    /\ Ends(r, IF status[r] = 0 THEN 500 ELSE status[r])
    /\ UNCHANGED <<counted, open>>

\* The panic passes promFilter, which counts nothing, and the deferred Exit of
\* sentinel; recoverFilter answers if nothing was written yet.
HandlerPanics(r) ==
    /\ pc[r] = "handling"
    /\ Ends(r, IF status[r] = 0 THEN 500 ELSE status[r])
    /\ open' = open \ {r}
    /\ UNCHANGED counted

-------------------------------------------------------------------------------
ServerStep(r) == Receive(r) \/ Pass(r) \/ Block(r) \/ HandlerReturns(r) \/ Response(r)

Next ==
    \/ \E s \in Services, traced, signed \in BOOLEAN : OutsideCall(s, traced, signed)
    \/ \E r \in Requests :
          \/ \E s \in Services, detached, secret, proxy \in BOOLEAN :
                Send(r, s, detached, secret, proxy)
          \/ ServerStep(r) \/ CallFails(r) \/ Write(r) \/ HandlerPanics(r)

Spec == Init /\ [][Next]_vars

-------------------------------------------------------------------------------
Names == Services \cup {Outside, None}
Signs == {Secret(c, s) : c \in Services \cup {Outside}, s \in Services} \cup {None}
Headers == [trace : 0..MaxRequests, source : Names, target : Services \cup {None}, sign : Signs]

TypeOK ==
    /\ used \in 0..MaxRequests
    /\ from \in [Requests -> 0..MaxRequests]
    /\ to \in [Requests -> Services \cup {None}]
    /\ \A r \in 1..used : to[r] \in Services /\ from[r] < r
    /\ wire \in [Requests -> Headers] /\ ctx \in [Requests -> Headers]
    /\ pc \in [Requests -> {"none", "sent", "guarded", "handling", "calling", "answered"}]
    /\ \A r \in Requests : pc[r] = "none" <=> r > used
    /\ child \in [Requests -> 0..MaxRequests] /\ proxied \in [Requests -> BOOLEAN]
    /\ \A r \in Requests : pc[r] = "calling" <=> child[r] # 0
    /\ \A r \in Requests : child[r] # 0 => child[r] \in 1..used /\ from[child[r]] = r
    /\ status \in [Requests -> {0, 200, 401, 403, 423, 429, 500}]
    /\ counted \in [Requests -> {0, 200, 401, 403, 423, 429, 500}]
    /\ open \subseteq Requests

\* However many services a request passes, and whether their handlers use its
\* context, a detached one or Proxy: all the requests it leads to, and the contexts
\* they are handled in, have its trace id, and each names its true sender as its
\* source, although the context it was sent from holds the source of an earlier hop.
Begun(r) == pc[r] \in {"guarded", "handling", "calling", "answered"}
TraceKept ==
    \A r \in 1..used : from[r] # 0 =>
        /\ wire[r].trace = ctx[from[r]].trace
        /\ ctx[from[r]].trace # 0
        /\ Begun(r) => ctx[r].trace = wire[r].trace
        /\ wire[r].source = to[from[r]]

\* A handler behind ValidateClientAuthSign runs only for a request whose sender
\* itself signed it for this service: the sign of an earlier hop, which the
\* context hands on as it does with every z- header, is not taken for it.
Running(r) == pc[r] \in {"handling", "calling"}
VerifiedSender ==
    \A r \in 1..used : GuardOf[to[r]] = "sign" /\ Running(r) =>
        wire[r].sign = Secret(IF from[r] = 0 THEN Outside ELSE to[from[r]], to[r])

\* However a handler ends - it returns, panics, is blocked - the books balance: the
\* sentinel entries that are open are those of the handlers at work, no more of
\* them than admitted; a request that has been answered has a status, and
\* promFilter counted this status and no other.
Balances ==
    /\ \A r \in open : Running(r) /\ GuardOf[to[r]] = "sentinel"
    /\ \A r \in 1..used : Running(r) /\ GuardOf[to[r]] = "sentinel" => r \in open
    /\ Cardinality(open) <= Limit
    /\ \A r \in 1..used : pc[r] = "answered" => status[r] # 0 /\ counted[r] \in {0, status[r]}
    /\ \A r \in Requests : counted[r] # 0 => pc[r] = "answered"
===============================================================================
