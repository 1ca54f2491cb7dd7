-------------------------------- MODULE Gateway --------------------------------
(***************************************************************************)
(* The gateway of apigw: routes are added before the server starts, then   *)
(* goroutines serve requests.  A request takes the transport of the best   *)
(* matching route; its body is read, its path rewritten and a host         *)
(* selected; then it is answered by the mock, or authorized if the route   *)
(* asks for that, and sent to the host.                                    *)
(*                                                                         *)
(* A path is a sequence of pieces, "/" among them.  A transport has the    *)
(* number of the AddRouter call that made it.  The calls of the http       *)
(* client, of service discovery and of an AuthFunc have every outcome the  *)
(* code tells apart.                                                       *)
(***************************************************************************)
EXTENDS Weights, SequencesExt

CONSTANTS
    Pieces,     \* pieces of paths
    Configs,    \* RouterConfigs the application adds
    Paths,      \* paths of requests
    Instances,  \* host:port of the servers discovery may choose
    Workers,    \* goroutines of the http server
    Nobody,     \* no host, no token
    MaxRoutes   \* bound: transports

ASSUME GatewayAssumption ==
    /\ \A c \in Configs : /\ c.path \in Seq(Pieces) /\ c.replace \in Seq(Pieces)
                         /\ c.targets \in Seq([host : STRING, weight : Int])
                         /\ c.needAuth \in BOOLEAN
    /\ "/" \in Pieces /\ Paths \subseteq Seq(Pieces)
    /\ Nobody \notin Instances \cup Workers
    /\ MaxRoutes \in Nat \ {0}

VARIABLES
    serving,       \* all routes are added
    added,         \* config of each transport
    fullMatch, prefixMatch,   \* routersImpl: the transport of a path, 0 for none
    current, max,  \* selector of each transport: index or current, and max
    pc,            \* per goroutine: place of its request
    path, trans,   \* path and transport of the request
    url,           \* ApiContext.url: host and path
    header,        \* ApiContext.header: the token the auth service has added
    verdict,       \* history: what the auth service or the AuthFunc said
    written,       \* history: answers written to the client
    picks          \* history: choices of each target since the last full cycle

routeVars == <<serving, added, fullMatch, prefixMatch>>
selectorVars == <<current, max, picks>>
requestVars == <<path, trans, url, header, verdict>>
vars == <<routeVars, selectorVars, pc, requestVars, written>>

RoutePaths == {c.path : c \in Configs}
Transports == 1..Len(added)

Init ==
    /\ serving = FALSE /\ added = <<>>
    /\ fullMatch = [p \in RoutePaths |-> 0] /\ prefixMatch = [p \in RoutePaths |-> 0]
    /\ current = <<>> /\ max = <<>> /\ picks = <<>>
    /\ pc = [w \in Workers |-> "idle"] /\ path = [w \in Workers |-> <<>>]
    /\ trans = [w \in Workers |-> 0] /\ url = [w \in Workers |-> <<Nobody, <<>>>>]
    /\ header = [w \in Workers |-> Nobody] /\ verdict = [w \in Workers |-> "none"]
    /\ written = [w \in Workers |-> <<>>]

-------------------------------------------------------------------------------
(* AddRouter *)

\* The keys of fetcherMap have the type Source, and are looked up as strings:
\* two keys of a sync.Map that never are equal.
Sources == {"header", "cookie", "path", "host", "crcMod2Header"}
Fetchers == {[type |-> "Source", name |-> s] : s \in Sources}
KnownSource(s) == [type |-> "string", name |-> s] \in Fetchers

\* RouterConfig.Validate.  The AuthConfig is not looked at.
Valid(c) ==
    /\ c.match \in {"full", "prefix", "expr"}
    /\ IF c.match = "expr" THEN KnownSource(c.source) ELSE c.path # <<>>
    /\ \/ c.target = "discovery"
       \/ c.target = "domain" /\ c.targets # <<>> /\ \A i \in DOMAIN c.targets : c.targets[i].host # ""
       \/ c.target = "mock" /\ c.mockValid
    /\ c.target # "mock" =>
          /\ c.lb \in {"round_robin", "weighted_round_robin"}
          /\ c.rewrite \in {"copyFullPath", "stripPrefix", "replaceAny"}
          /\ c.rewrite = "replaceAny" => c.replace # <<>>

\* domainTarget: a target without a positive weight has weight 1.
TargetsOf(c) ==
    [i \in DOMAIN c.targets |->
        [host |-> c.targets[i].host,
         weight |-> IF c.targets[i].weight <= 0 THEN 1 ELSE c.targets[i].weight]]

\* Mutant: the path is put into the table before the config is validated.
AddRouterPutsFirst(c) ==
    LET t == Len(added) + 1 IN
    /\ ~serving
    /\ t <= MaxRoutes
    /\ fullMatch' = IF c.match = "full" THEN [fullMatch EXCEPT ![c.path] = t] ELSE fullMatch
    /\ prefixMatch' = IF c.match = "prefix" THEN [prefixMatch EXCEPT ![c.path] = t] ELSE prefixMatch
    /\ IF Valid(c)
       THEN /\ added' = Append(added, c)
            /\ current' = Append(current, 0)
            /\ max' = Append(max, IF c.target = "domain" THEN MaxWeight(TargetsOf(c)) ELSE 0)
            /\ picks' = Append(picks, NoCounts(c.targets))
       ELSE UNCHANGED <<added, selectorVars>>
    /\ UNCHANGED <<serving, pc, requestVars, written>>

\* An invalid config is refused and changes nothing; so every config with an
\* expression is.
AddRouter(c) ==
    LET t == Len(added) + 1 IN
    /\ ~serving
    /\ Valid(c)
    /\ t <= MaxRoutes
    /\ added' = Append(added, c)
    /\ fullMatch' = IF c.match = "full" THEN [fullMatch EXCEPT ![c.path] = t] ELSE fullMatch
    /\ prefixMatch' = IF c.match = "prefix" THEN [prefixMatch EXCEPT ![c.path] = t] ELSE prefixMatch
    /\ current' = Append(current, 0)
    /\ max' = Append(max, IF c.target = "domain" THEN MaxWeight(TargetsOf(c)) ELSE 0)
    /\ picks' = Append(picks, NoCounts(c.targets))
    /\ UNCHANGED <<serving, pc, requestVars, written>>

Serve ==
    /\ ~serving /\ added # <<>>
    /\ serving' = TRUE
    /\ UNCHANGED <<added, fullMatch, prefixMatch, selectorVars, pc, requestVars, written>>

-------------------------------------------------------------------------------
(* FindTransport; a request without a transport goes on to the next handler. *)

FullHit(p) == p \in RoutePaths /\ fullMatch[p] # 0
PrefixHits(p) == {q \in RoutePaths : prefixMatch[q] # 0 /\ IsPrefix(q, p)}
Longest(paths) == CHOOSE q \in paths : \A x \in paths : Len(x) <= Len(q)

\* Mutant: the prefixes are tried first.
FindPrefixFirst(p) ==
    IF PrefixHits(p) # {} THEN prefixMatch[Longest(PrefixHits(p))]
    ELSE IF FullHit(p) THEN fullMatch[p] ELSE 0

FindTransport(p) ==
    IF FullHit(p) THEN fullMatch[p]
    ELSE IF PrefixHits(p) # {} THEN prefixMatch[Longest(PrefixHits(p))]
    ELSE 0

\* Mutant: header is not made for each request.
RequestKeepsHeader(w, p) ==
    /\ serving
    /\ pc[w] = "idle"
    /\ FindTransport(p) # 0
    /\ pc' = [pc EXCEPT ![w] = "body"]
    /\ path' = [path EXCEPT ![w] = p]
    /\ trans' = [trans EXCEPT ![w] = FindTransport(p)]
    /\ url' = [url EXCEPT ![w] = <<Nobody, <<>>>>]
    /\ verdict' = [verdict EXCEPT ![w] = "none"]
    /\ written' = [written EXCEPT ![w] = <<>>]
    /\ UNCHANGED <<routeVars, selectorVars, header>>

\* A new ApiContext.
Request(w, p) ==
    /\ serving
    /\ pc[w] = "idle"
    /\ FindTransport(p) # 0
    /\ pc' = [pc EXCEPT ![w] = "body"]
    /\ path' = [path EXCEPT ![w] = p]
    /\ trans' = [trans EXCEPT ![w] = FindTransport(p)]
    /\ url' = [url EXCEPT ![w] = <<Nobody, <<>>>>]
    /\ header' = [header EXCEPT ![w] = Nobody]
    /\ verdict' = [verdict EXCEPT ![w] = "none"]
    /\ written' = [written EXCEPT ![w] = <<>>]
    /\ UNCHANGED <<routeVars, selectorVars>>

Config(w) == added[trans[w]]

-------------------------------------------------------------------------------
(* transportImpl.Handle *)

At(w, from, to) ==
    /\ pc[w] = from
    /\ pc' = [pc EXCEPT ![w] = to]

\* The request is over; what was written for it is kept until the next one.
Answer(w, from, what) ==
    /\ At(w, from, "idle")
    /\ written' = [written EXCEPT ![w] = Append(@, what)]
    /\ UNCHANGED <<routeVars, path, trans, url, header>>

ReadBody(w) ==
    /\ At(w, "body", "select")
    /\ UNCHANGED <<routeVars, selectorVars, requestVars, written>>

\* Mutant: Handle goes on after the answer.
BodyErrorGoesOn(w) ==
    /\ At(w, "body", "select")
    /\ written' = [written EXCEPT ![w] = Append(@, "bad request")]
    /\ UNCHANGED <<routeVars, selectorVars, requestVars>>

\* Unreadable, or more than 10 MB.
BodyError(w) ==
    /\ Answer(w, "body", "bad request")
    /\ UNCHANGED <<selectorVars, verdict>>

Rooted(p) == IF p # <<>> /\ Head(p) = "/" THEN p ELSE <<"/">> \o p

\* strings.TrimPrefix
TrimPrefix(p, prefix) == IF IsPrefix(prefix, p) THEN SubSeq(p, Len(prefix) + 1, Len(p)) ELSE p

Rewrite(c, p) ==
    CASE c.rewrite = "copyFullPath" -> p
      [] c.rewrite = "stripPrefix"  -> TrimPrefix(p, c.path)
      [] c.rewrite = "replaceAny"   -> c.replace

Selecting(w, target) == pc[w] = "select" /\ Config(w).target = target
Authorizing(w, known) == pc[w] = "auth" /\ (Config(w).auth = "nil" <=> ~known)

\* The selected host and the rewritten path make the url.
Selected(w, host) ==
    /\ At(w, "select", IF Config(w).needAuth THEN "auth" ELSE "forward")
    /\ url' = [url EXCEPT ![w] = <<host, Rooted(Rewrite(Config(w), path[w]))>>]
    /\ UNCHANGED <<routeVars, path, trans, header, verdict, written>>

SelectMock(w) ==
    /\ Selecting(w, "mock")
    /\ At(w, "select", "mock")
    /\ UNCHANGED <<routeVars, selectorVars, requestVars, written>>

\* Mutant: the index is read, not incremented.
RoundRobinStuck(t, targets) == current[t]

\* roundRobinSelector: one atomic increment.
RoundRobin(t, targets) == (current[t] + 1) % Len(targets)

\* weightedRoundRobinSelector, under its mutex: the loop moves current and max on
\* until the weight of a target reaches max.
Weighted(t, targets) ==
    LET turn[place \in (0 .. Len(targets) - 1) \X (1..MaxWeight(targets))] ==
            IF Reached(targets, Moved(targets, place)) THEN Moved(targets, place)
            ELSE turn[Moved(targets, place)]
    IN  turn[<<current[t], max[t]>>]

SelectTarget(w) ==
    LET t == trans[w]
        targets == TargetsOf(Config(w))
        weighted == Config(w).lb = "weighted_round_robin"
        choice == IF weighted THEN Weighted(t, targets) ELSE <<RoundRobin(t, targets), max[t]>>
        share == IF weighted THEN WeightedShare(targets) ELSE EqualShare(targets)
    IN  /\ Selecting(w, "domain")
        /\ current' = [current EXCEPT ![t] = choice[1]]
        /\ max' = [max EXCEPT ![t] = choice[2]]
        /\ picks' = [picks EXCEPT ![t] = Counted(@, choice[1] + 1, share)]
        /\ Selected(w, targets[choice[1] + 1].host)

SelectInstance(w) ==
    /\ Selecting(w, "discovery")
    /\ \E i \in Instances : Selected(w, i)
    /\ UNCHANGED selectorVars

SelectFails(w) ==
    /\ Selecting(w, "discovery")
    /\ Answer(w, "select", "error")
    /\ UNCHANGED <<selectorVars, verdict>>

Mock(w) ==
    /\ Answer(w, "mock", "mock")
    /\ UNCHANGED <<selectorVars, verdict>>

-------------------------------------------------------------------------------
(* httpExecutor.Handle *)

\* The headers that the authorization of a request may leave.
OwnHeaders(w) ==
    IF ~Config(w).needAuth THEN {Nobody}
    ELSE IF Config(w).auth = "func" THEN {Nobody, w}
    ELSE {w}

\* The AuthFunc of the route, which may set headers (ReqHeader), or a POST to its
\* auth service that is answered 200; headers of that answer are passed through,
\* never those of the client.
Authorize(w) ==
    /\ Authorizing(w, TRUE)
    /\ At(w, "auth", "forward")
    /\ verdict' = [verdict EXCEPT ![w] = "yes"]
    /\ \E own \in OwnHeaders(w) : header' = [header EXCEPT ![w] = own]
    /\ UNCHANGED <<routeVars, selectorVars, path, trans, url, written>>

\* Any other answer, an error or a timeout; the error message is written.  An
\* AuthFunc that refuses is assumed to write an answer itself.
Refuse(w) ==
    /\ Authorizing(w, TRUE)
    /\ Answer(w, "auth", "refused")
    /\ verdict' = [verdict EXCEPT ![w] = "no"]
    /\ UNCHANGED selectorVars

\* needAuth without an AuthFunc and an AuthConfig: the nil config is dereferenced,
\* and net/http ends the connection.
AuthPanics(w) ==
    /\ Authorizing(w, FALSE)
    /\ Answer(w, "auth", "panic")
    /\ UNCHANGED <<selectorVars, verdict>>

\* httpClient.Do
Forward(w) ==
    /\ At(w, "forward", "sent")
    /\ UNCHANGED <<routeVars, selectorVars, requestVars, written>>

\* http.NewRequest fails: the url cannot be parsed.
NoRequest(w) ==
    /\ Answer(w, "forward", "error")
    /\ UNCHANGED <<selectorVars, verdict>>

Response(w) ==
    /\ \E what \in {"response", "error"} : Answer(w, "sent", what)
    /\ UNCHANGED <<selectorVars, verdict>>

-------------------------------------------------------------------------------
Step(w) ==
    \/ ReadBody(w) \/ BodyError(w)
    \/ SelectMock(w) \/ SelectTarget(w) \/ SelectInstance(w) \/ SelectFails(w) \/ Mock(w)
    \/ Authorize(w) \/ Refuse(w) \/ AuthPanics(w)
    \/ Forward(w) \/ NoRequest(w) \/ Response(w)

Next ==
    \/ \E c \in Configs : AddRouter(c)
    \/ Serve
    \/ \E w \in Workers : (\E p \in Paths : Request(w, p)) \/ Step(w)

Spec == Init /\ [][Next]_vars

-------------------------------------------------------------------------------
Places == {"idle", "body", "select", "mock", "auth", "forward", "sent"}
Answers == {"bad request", "error", "mock", "refused", "panic", "response"}
Hosts == (UNION {{c.targets[i].host : i \in DOMAIN c.targets} : c \in Configs}) \cup Instances

TypeOK ==
    /\ serving \in BOOLEAN
    /\ added \in Seq(Configs) /\ Len(added) <= MaxRoutes
    /\ fullMatch \in [RoutePaths -> 0..Len(added)]
    /\ prefixMatch \in [RoutePaths -> 0..Len(added)]
    /\ current \in Seq(Nat) /\ max \in Seq(Nat) /\ picks \in Seq(Seq(Int))
    /\ Len(current) = Len(added) /\ Len(max) = Len(added) /\ Len(picks) = Len(added)
    /\ \A t \in Transports : added[t].target = "domain" =>
          current[t] + 1 \in DOMAIN added[t].targets /\ max[t] \in 1..MaxWeight(TargetsOf(added[t]))
    /\ pc \in [Workers -> Places]
    /\ path \in [Workers -> Paths \cup {<<>>}]
    /\ trans \in [Workers -> 0..Len(added)]
    /\ \A w \in Workers : pc[w] # "idle" => trans[w] \in Transports
    /\ url \in [Workers -> (Hosts \cup {Nobody}) \X Seq(Pieces)]
    /\ header \in [Workers -> Workers \cup {Nobody}]
    /\ verdict \in [Workers -> {"none", "yes", "no"}]
    /\ written \in [Workers -> Seq(Answers)]

\* The transport of a request is the one of the last full match route added for
\* its path, else the last one of the longest prefix; and what is sent goes to a
\* host of that route, under the path that the route makes of the path asked for.
Best(p) ==
    LET full == {t \in Transports : added[t].match = "full" /\ added[t].path = p}
        prefix == {t \in Transports : added[t].match = "prefix" /\ IsPrefix(added[t].path, p)}
        long == {t \in prefix : \A x \in prefix : Len(added[x].path) <= Len(added[t].path)}
    IN  IF full # {} THEN Max(full) ELSE Max(long)
Reaches(c, p, host, sent) ==
    /\ \/ c.target = "discovery" /\ host \in Instances
       \/ c.target = "domain" /\ \E i \in DOMAIN c.targets : c.targets[i].host = host
    /\ Head(sent) = "/"
    /\ CASE c.rewrite = "copyFullPath" -> sent = p \/ Tail(sent) = p
         [] c.rewrite = "stripPrefix"  -> c.path \o sent = p \/ c.path \o Tail(sent) = p
         [] c.rewrite = "replaceAny"   -> sent = c.replace \/ Tail(sent) = c.replace
RightRoute ==
    \A w \in Workers : pc[w] # "idle" =>
        /\ trans[w] = Best(path[w])
        /\ pc[w] = "sent" => Reaches(Config(w), path[w], url[w][1], url[w][2])

\* A request of a route that asks for authorization is sent only if it was
\* authorized itself, and the headers that are sent along are those of its own
\* authorization: nothing is left of the goroutine's last request, and nothing
\* comes from a request served meanwhile.
AuthorizedOnly ==
    \A w \in Workers : pc[w] = "sent" =>
        /\ Config(w).needAuth => verdict[w] = "yes"
        /\ header[w] \in OwnHeaders(w)

\* Every request ends with exactly one answer (or its connection is ended): an
\* error ends it, and a request on its way upstream has had no answer yet.
OneAnswer ==
    \A w \in Workers :
        Len(written[w]) = IF pc[w] = "idle" /\ trans[w] # 0 THEN 1 ELSE 0

\* However the requests overlap, and whatever becomes of them after the
\* selection, every full cycle of a route chooses its targets in proportion to
\* their weights (each once under round robin).
Balanced ==
    \A t \in Transports :
        LET targets == TargetsOf(added[t])
            share == IF added[t].lb = "round_robin" THEN EqualShare(targets)
                     ELSE WeightedShare(targets)
        IN  added[t].target = "domain" /\ Total(picks[t]) = Total(share) => picks[t] = share
===============================================================================
