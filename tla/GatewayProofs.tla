----------------------------- MODULE GatewayProofs -----------------------------
(***************************************************************************)
(* Proofs about the gateway, for any routes, requests and goroutines.      *)
(*                                                                         *)
(* The tables of the routes always hold the last transport added for each  *)
(* path, so that a request gets the best one; a goroutine past a step of a *)
(* request keeps what that step has established, because routes no longer  *)
(* change once requests are served; and the counts of a transport's        *)
(* targets are those that its selector's place and level stand for.        *)
(*                                                                         *)
(* Then the cache of regular expressions that its routes compare with, for *)
(* any number of requests, expressions and values.                         *)
(***************************************************************************)
EXTENDS Gateway, RegexpCache, WeightsProofs, SequenceTheorems

\* m is the number of the last transport of those in ts, 0 if there are none.
IsLast(m, ts) == IF ts = {} THEN m = 0 ELSE m \in ts /\ \A x \in ts : x <= m

\* The tables hold the last transport that was added for each path.
Tables ==
    \A p \in RoutePaths :
        /\ IsLast(fullMatch[p], {t \in Transports : added[t].match = "full" /\ added[t].path = p})
        /\ IsLast(prefixMatch[p], {t \in Transports : added[t].match = "prefix" /\ added[t].path = p})

\* A route with an expression is never added.
Matches(c, p) ==
    \/ c.match = "full" /\ c.path = p
    \/ c.match = "prefix" /\ IsPrefix(c.path, p)

\* How far the request of w has come.
Stage(w) ==
    /\ pc[w] # "idle" => serving /\ path[w] \in Paths /\ trans[w] = Best(path[w])
                         /\ Matches(Config(w), path[w])
    /\ pc[w] \in {"auth", "forward", "sent"} =>
          Reaches(Config(w), path[w], url[w][1], url[w][2])
    /\ pc[w] = "auth" => Config(w).needAuth
    /\ pc[w] \in {"body", "select", "mock", "auth"} => header[w] = Nobody
    /\ pc[w] \in {"forward", "sent"} =>
          /\ Config(w).needAuth => verdict[w] = "yes"
          /\ header[w] \in OwnHeaders(w)

ShareOf(c) == IF c.lb = "round_robin" THEN EqualShare(TargetsOf(c)) ELSE WeightedShare(TargetsOf(c))

\* The counts of a transport's targets.
Turns(c, counts, now, level) ==
    IF c.lb = "round_robin" THEN InTurn(counts, ShareOf(c), 1, now, 1)
    ELSE /\ IsLevel(TargetsOf(c), level)
         /\ InTurn(counts, ShareOf(c), Top(TargetsOf(c)), now, level \div Gcd(TargetsOf(c)))

ValidAdded == \A t \in Transports : Valid(added[t])
Stages == \A w \in Workers : Stage(w)
AllTurns ==
    \A t \in Transports : added[t].target = "domain" =>
       Turns(added[t], picks[t], current[t], max[t])

IInv == TypeOK /\ ValidAdded /\ Tables /\ Stages /\ OneAnswer /\ AllTurns

-------------------------------------------------------------------------------
(* Configs and paths. *)

\* The parts of a config.
LEMMA ConfigIs ==
    ASSUME NEW c \in Configs
    PROVE  /\ c.path \in Seq(Pieces) /\ c.replace \in Seq(Pieces)
           /\ Len(c.targets) \in Nat /\ DOMAIN c.targets = 1..Len(c.targets)
           /\ \A i \in DOMAIN c.targets : c.targets[i].host \in STRING /\ c.targets[i].weight \in Int
<1>1. /\ c.path \in Seq(Pieces) /\ c.replace \in Seq(Pieces)
      /\ c.targets \in Seq([host : STRING, weight : Int])
  BY GatewayAssumption DEF GatewayAssumption
<1>2. Len(c.targets) \in Nat /\ DOMAIN c.targets = 1..Len(c.targets)
  BY <1>1
<1>3. \A i \in DOMAIN c.targets : c.targets[i] \in [host : STRING, weight : Int]
  BY <1>1, <1>2, ElementOfSeq
<1> QED BY <1>1, <1>2, <1>3

\* A valid config with targets gives a list with weights.
LEMMA TargetsAre ==
    ASSUME NEW c \in Configs, Valid(c), c.target = "domain"
    PROVE  /\ HasWeights(TargetsOf(c)) /\ Len(TargetsOf(c)) = Len(c.targets)
           /\ DOMAIN TargetsOf(c) = DOMAIN c.targets
           /\ \A i \in DOMAIN c.targets : TargetsOf(c)[i].host = c.targets[i].host
<1> DEFINE ts == TargetsOf(c)
           n == Len(c.targets)
<1>1. n \in Nat /\ DOMAIN c.targets = 1..n /\ \A i \in 1..n : c.targets[i].weight \in Int
  BY ConfigIs
<1>2. n # 0
  <2>1. c.targets # <<>> /\ c.targets \in Seq([host : STRING, weight : Int])
    BY GatewayAssumption DEF Valid, GatewayAssumption
  <2> QED BY <2>1
<1>3. /\ DOMAIN ts = 1..n
      /\ \A i \in 1..n : /\ ts[i].host = c.targets[i].host
                         /\ ts[i].weight = IF c.targets[i].weight <= 0 THEN 1 ELSE c.targets[i].weight
  BY <1>1 DEF TargetsOf
<1>4. Len(ts) = n
  <2> DEFINE R == {ts[i] : i \in 1..n}
  <2>1. ts \in [1..n -> R]
    BY <1>1 DEF TargetsOf
  <2>2. ts \in Seq(R)
    <3> HIDE DEF ts, R, n
    <3> QED BY <1>1, <2>1, SeqDef
  <2> HIDE DEF ts, R, n
  <2> QED BY <1>1, <1>3, <2>2, LenProperties
<1>5. \A i \in 1..n : ts[i].weight \in Nat \ {0}
  BY <1>1, <1>3
<1> QED BY <1>1, <1>2, <1>3, <1>4, <1>5 DEF HasWeights

\* A path is its prefix and the rest.
LEMMA PrefixIs ==
    ASSUME NEW q \in Seq(Pieces), NEW p \in Seq(Pieces), IsPrefix(q, p)
    PROVE  /\ Len(q) <= Len(p) /\ q = SubSeq(p, 1, Len(q))
           /\ q \o SubSeq(p, Len(q) + 1, Len(p)) = p
           /\ SubSeq(p, Len(q) + 1, Len(p)) \in Seq(Pieces)
<1> DEFINE r == SubSeq(p, Len(q) + 1, Len(p))
<1>1. Len(q) \in Nat /\ Len(p) \in Nat /\ Len(q) <= Len(p)
  BY DEF IsPrefix
<1>2. q = SubSeq(p, 1, Len(q))
  BY SubSeqFull DEF IsPrefix
<1>3. \A i \in 1..Len(q) : q[i] = p[i]
  <2>1. \A i \in 1..Len(q) : p[i] \in Pieces
    BY <1>1
  <2>2. \A i \in 1 .. Len(q) - 1 + 1 : SubSeq(p, 1, Len(q))[i] = p[1 + i - 1]
    BY <1>1, <2>1, SubSeqProperties
  <2> QED BY <1>1, <1>2, <2>2
<1>4. /\ r \in Seq(Pieces) /\ Len(r) = Len(p) - Len(q)
      /\ \A i \in 1..Len(r) : r[i] = p[Len(q) + i]
  <2>1. \A i \in Len(q) + 1 .. Len(p) : p[i] \in Pieces
    BY <1>1
  <2>2. /\ r \in Seq(Pieces)
        /\ Len(r) = IF Len(q) + 1 <= Len(p) THEN Len(p) - (Len(q) + 1) + 1 ELSE 0
        /\ \A i \in 1 .. Len(p) - (Len(q) + 1) + 1 : r[i] = p[(Len(q) + 1) + i - 1]
    BY <1>1, <2>1, SubSeqProperties
  <2> QED BY <1>1, <2>2
<1>5. q \o r = p
  <2>1. /\ q \o r \in Seq(Pieces) /\ Len(q \o r) = Len(q) + Len(r)
        /\ \A i \in 1 .. Len(q) + Len(r) :
              (q \o r)[i] = IF i <= Len(q) THEN q[i] ELSE r[i - Len(q)]
    BY <1>4, ConcatProperties
  <2>2. \A i \in 1..Len(p) : (q \o r)[i] = p[i]
    BY <1>1, <1>3, <1>4, <2>1
  <2> QED BY <1>1, <1>4, <2>1, <2>2, SeqEqual
<1> QED BY <1>1, <1>2, <1>4, <1>5

\* A rooted path starts with a slash and is the path but for that slash.
LEMMA RootedIs ==
    ASSUME NEW p \in Seq(Pieces)
    PROVE  /\ Rooted(p) \in Seq(Pieces) /\ Head(Rooted(p)) = "/"
           /\ Rooted(p) = p \/ Tail(Rooted(p)) = p
<1>1. CASE p # <<>> /\ Head(p) = "/"
  BY <1>1 DEF Rooted
<1>2. CASE ~ (p # <<>> /\ Head(p) = "/")
  <2> DEFINE s == <<"/">> \o p
  <2>1. Rooted(p) = s
    BY <1>2 DEF Rooted
  <2>2. /\ s \in Seq(Pieces) /\ Len(s) = 1 + Len(p) /\ s[1] = "/"
        /\ \A i \in 1..Len(p) : s[i + 1] = p[i]
    <3>1. <<"/">> \in Seq(Pieces) /\ Len(<<"/">>) = 1 /\ <<"/">>[1] = "/"
      <4>1. "/" \in Pieces
        BY GatewayAssumption DEF GatewayAssumption
      <4>2. ASSUME NEW x \in Pieces PROVE <<x>> \in Seq(Pieces) /\ Len(<<x>>) = 1 /\ <<x>>[1] = x
        <5>1. <<x>> \in Seq(Pieces)
          OBVIOUS
        <5>2. Len(<<x>>) = 1 /\ <<x>>[1] = x
          OBVIOUS
        <5> QED BY <5>1, <5>2
      <4> QED BY <4>1, <4>2
    <3> DEFINE h == <<"/">>
    <3> HIDE DEF h
    <3>2. /\ h \o p \in Seq(Pieces) /\ Len(h \o p) = Len(h) + Len(p)
          /\ \A i \in 1 .. Len(h) + Len(p) : (h \o p)[i] = IF i <= Len(h) THEN h[i] ELSE p[i - Len(h)]
      BY <3>1, ConcatProperties DEF h
    <3>3. Len(p) \in Nat
      OBVIOUS
    <3> QED BY <3>1, <3>2, <3>3 DEF h
  <2> HIDE DEF s
  <2>3. s # <<>> /\ Head(s) = "/"
    BY <2>2
  <2>4. /\ Tail(s) \in Seq(Pieces) /\ Len(Tail(s)) = Len(p)
        /\ \A i \in 1..Len(p) : Tail(s)[i] = p[i]
    BY <2>2, <2>3, HeadTailProperties
  <2>5. Tail(s) = p
    BY <2>4, SeqEqual
  <2> QED BY <2>1, <2>2, <2>3, <2>5
<1> QED BY <1>1, <1>2

\* The path that is sent is the one the route makes of a path that it matches.
LEMMA RewriteReaches ==
    ASSUME NEW c \in Configs, Valid(c), NEW p \in Seq(Pieces), Matches(c, p), NEW host,
           \/ c.target = "discovery" /\ host \in Instances
           \/ c.target = "domain" /\ \E i \in DOMAIN c.targets : c.targets[i].host = host
    PROVE  /\ Rooted(Rewrite(c, p)) \in Seq(Pieces)
           /\ Reaches(c, p, host, Rooted(Rewrite(c, p)))
<1>1. c.rewrite \in {"copyFullPath", "stripPrefix", "replaceAny"}
  BY DEF Valid
<1>2. c.path \in Seq(Pieces) /\ c.replace \in Seq(Pieces)
  BY ConfigIs
<1>3. CASE c.rewrite = "copyFullPath"
  BY <1>3, RootedIs DEF Rewrite, Reaches
<1>4. CASE c.rewrite = "replaceAny"
  BY <1>2, <1>4, RootedIs DEF Rewrite, Reaches
<1>5. CASE c.rewrite = "stripPrefix"
  <2> DEFINE r == SubSeq(p, Len(c.path) + 1, Len(p))
  <2>1. IsPrefix(c.path, p)
    <3>1. CASE c.path = p
      BY <3>1 DEF IsPrefix
    <3> QED BY <3>1 DEF Matches
  <2>2. Rewrite(c, p) = r
    BY <1>5, <2>1 DEF Rewrite, TrimPrefix
  <2>3. r \in Seq(Pieces) /\ c.path \o r = p
    BY <1>2, <2>1, PrefixIs
  <2>4. /\ Rooted(r) \in Seq(Pieces) /\ Head(Rooted(r)) = "/"
        /\ Rooted(r) = r \/ Tail(Rooted(r)) = r
    BY <2>3, RootedIs
  <2> HIDE DEF r
  <2> QED BY <1>5, <2>2, <2>3, <2>4 DEF Reaches
<1> QED BY <1>1, <1>3, <1>4, <1>5

-------------------------------------------------------------------------------
(* The tables find the best transport. *)

\* The last transport of a set is its largest number.
LEMMA LastIsMax ==
    ASSUME NEW ts \in SUBSET Nat, NEW m, IsLast(m, ts), m # 0
    PROVE  Max(ts) = m /\ m \in ts
<1>1. m \in ts /\ \A x \in ts : x <= m
  BY DEF IsLast
<1>2. \A x \in ts : m >= x
  BY <1>1
<1> DEFINE M == Max(ts)
<1>3. M \in ts /\ \A x \in ts : M >= x
  BY <1>1, <1>2 DEF Max
<1> HIDE DEF M
<1>4. M \in Nat /\ m \in Nat /\ M >= m /\ m >= M
  BY <1>1, <1>2, <1>3
<1>5. M = m
  BY <1>4
<1> QED BY <1>1, <1>5 DEF M

\* A transport that is added is the last of its set.
LEMMA LastAdded ==
    ASSUME NEW n \in Nat, NEW ts, ts \subseteq 1..n
    PROVE  IsLast(n + 1, ts \cup {n + 1})
BY DEF IsLast

FullOf(p) == {t \in Transports : added[t].match = "full" /\ added[t].path = p}
PrefixOf(p) == {t \in Transports : added[t].match = "prefix" /\ added[t].path = p}

\* The longest prefix that hits is one that hits, and none is longer.
LEMMA LongestIs ==
    ASSUME NEW p \in Seq(Pieces), PrefixHits(p) # {}, RoutePaths \subseteq Seq(Pieces)
    PROVE  /\ Longest(PrefixHits(p)) \in PrefixHits(p)
           /\ \A q \in PrefixHits(p) : Len(q) <= Len(Longest(PrefixHits(p)))
<1> DEFINE H == PrefixHits(p)
           T == {Len(p) - Len(q) : q \in H}
<1>1. \A q \in H : q \in Seq(Pieces) /\ Len(q) \in Nat /\ Len(q) <= Len(p)
  BY PrefixIs DEF PrefixHits
<1>2. Len(p) \in Nat
  OBVIOUS
<1> HIDE DEF H
<1>3. T \in SUBSET Nat /\ T # {}
  BY <1>1, <1>2 DEF H
<1>4. PICK m \in T : \A k \in T : m <= k
  <2> HIDE DEF T
  <2> QED BY <1>3, Least
<1>5. PICK q \in H : m = Len(p) - Len(q)
  OBVIOUS
<1>6. ASSUME NEW x \in H PROVE Len(x) <= Len(q)
  <2>1. m <= Len(p) - Len(x)
    BY <1>4
  <2> QED BY <2>1, <1>1, <1>2, <1>5
<1>7. Longest(H) \in H /\ \A x \in H : Len(x) <= Len(Longest(H))
  BY <1>6 DEF Longest
<1> QED BY <1>7 DEF H

\* FindTransport gives the best of all routes that match.
LEMMA BestFound ==
    ASSUME TypeOK, Tables, NEW p \in Paths, FindTransport(p) # 0
    PROVE  /\ FindTransport(p) \in Transports /\ FindTransport(p) = Best(p)
           /\ Matches(added[FindTransport(p)], p)
<1> DEFINE full == FullOf(p)
           prefix == {t \in Transports : added[t].match = "prefix" /\ IsPrefix(added[t].path, p)}
           long == {t \in prefix : \A x \in prefix : Len(added[x].path) <= Len(added[t].path)}
           H == PrefixHits(p)
           q == Longest(H)
<1>1. /\ Transports \subseteq Nat /\ 0 \notin Transports
      /\ \A t \in Transports : added[t] \in Configs /\ added[t].path \in RoutePaths
  <2>1. added \in Seq(Configs)
    BY DEF TypeOK
  <2>2. \A t \in Transports : added[t] \in Configs
    BY <2>1 DEF Transports
  <2> QED BY <2>1, <2>2 DEF Transports, RoutePaths
<1>2. p \in Seq(Pieces) /\ RoutePaths \subseteq Seq(Pieces)
  <2>1. Paths \subseteq Seq(Pieces)
    BY GatewayAssumption DEF GatewayAssumption
  <2> QED BY <2>1, ConfigIs DEF RoutePaths
<1>3. \A r \in RoutePaths : IsLast(fullMatch[r], FullOf(r)) /\ IsLast(prefixMatch[r], PrefixOf(r))
  BY DEF Tables, FullOf, PrefixOf
<1>4. \A r : FullOf(r) \in SUBSET Nat /\ PrefixOf(r) \in SUBSET Nat
  BY <1>1 DEF FullOf, PrefixOf
<1>5. Best(p) = IF full # {} THEN Max(full) ELSE Max(long)
  BY DEF Best, FullOf
<1>6. CASE FullHit(p)
  <2>1. fullMatch[p] = Max(full) /\ fullMatch[p] \in full /\ FindTransport(p) = fullMatch[p]
    BY <1>3, <1>4, <1>6, LastIsMax DEF FullHit, FindTransport
  <2>2. added[fullMatch[p]].match = "full" /\ added[fullMatch[p]].path = p /\ fullMatch[p] \in Transports
    BY <2>1 DEF FullOf
  <2> QED BY <1>5, <2>1, <2>2 DEF Matches
<1>7. CASE ~ FullHit(p)
  <2>1. full = {}
    <3>1. CASE p \in RoutePaths
      <4>1. fullMatch[p] = 0
        BY <3>1, <1>7 DEF FullHit
      <4>2. 0 \notin full
        BY <1>1 DEF FullOf
      <4> QED BY <3>1, <4>1, <4>2, <1>3 DEF IsLast
    <3>2. CASE p \notin RoutePaths
      BY <3>2, <1>1 DEF FullOf
    <3> QED BY <3>1, <3>2
  <2>2. H # {} /\ FindTransport(p) = prefixMatch[q]
    BY <1>7 DEF FindTransport
  <2>3. q \in H /\ \A x \in H : Len(x) <= Len(q)
    BY <2>2, <1>2, LongestIs
  <2> HIDE DEF q
  <2>4. q \in RoutePaths /\ prefixMatch[q] # 0 /\ IsPrefix(q, p)
    BY <2>3 DEF PrefixHits
  <2>5. prefixMatch[q] = Max(PrefixOf(q)) /\ prefixMatch[q] \in PrefixOf(q)
    BY <2>4, <1>3, <1>4, LastIsMax
  <2>6. PrefixOf(q) \subseteq prefix
    BY <2>4 DEF PrefixOf
  <2>7. \A x \in prefix : added[x].path \in H
    <3> SUFFICES ASSUME NEW x \in prefix PROVE added[x].path \in H
      OBVIOUS
    <3> DEFINE r == added[x].path
    <3>1. r \in RoutePaths /\ x \in PrefixOf(r) /\ IsPrefix(r, p)
      BY <1>1 DEF PrefixOf
    <3>2. 0 \notin PrefixOf(r)
      BY <1>1 DEF PrefixOf
    <3>3. prefixMatch[r] # 0
      <4> HIDE DEF r
      <4> QED BY <3>1, <3>2, <1>3 DEF IsLast
    <3> QED BY <3>1, <3>3 DEF PrefixHits
  <2>8. \A x \in H : Len(x) \in Nat /\ x \in Seq(Pieces) /\ IsPrefix(x, p)
    BY <1>2 DEF PrefixHits
  <2>9. \A x \in H : Len(x) = Len(q) => x = q
    BY <2>3, <2>8, <1>2, PrefixIs
  <2>10. long = PrefixOf(q)
    <3>1. ASSUME NEW t \in PrefixOf(q) PROVE t \in long
      <4>1. t \in prefix /\ added[t].path = q
        BY <2>6 DEF PrefixOf
      <4> QED BY <4>1, <2>3, <2>7
    <3>2. ASSUME NEW t \in long PROVE t \in PrefixOf(q)
      <4>1. t \in Transports /\ added[t].match = "prefix" /\ added[t].path \in H
        BY <2>7
      <4>2. Len(q) <= Len(added[t].path)
        <5>1. prefixMatch[q] \in prefix /\ added[prefixMatch[q]].path = q
          BY <2>5, <2>6 DEF PrefixOf
        <5> QED BY <5>1
      <4>3. Len(added[t].path) = Len(q)
        BY <4>1, <4>2, <2>3, <2>8
      <4>4. added[t].path = q
        BY <4>1, <4>3, <2>9
      <4> QED BY <4>1, <4>4 DEF PrefixOf
    <3> QED BY <3>1, <3>2
  <2>11. /\ prefixMatch[q] \in Transports /\ added[prefixMatch[q]].match = "prefix"
         /\ added[prefixMatch[q]].path = q
    BY <2>5 DEF PrefixOf
  <2> HIDE DEF full, long
  <2> QED BY <1>5, <2>1, <2>2, <2>4, <2>5, <2>10, <2>11 DEF Matches
<1> QED BY <1>6, <1>7

-------------------------------------------------------------------------------
(* The loop of weighted round robin ends, and ends at a place that is due. *)

\* One round of the loop of a selector, with f for the rounds behind it.
Turn(seq, f, x) == IF Reached(seq, Moved(seq, x)) THEN Moved(seq, x) ELSE f[Moved(seq, x)]
IsTurn(seq, f) == f = [x \in PlacesOf(seq) |-> Turn(seq, f, x)]

\* How far it is from place c to place b.
Way(n, b, c) == IF c < b THEN b - c ELSE b - c + n

\* Some place has the largest weight, and no level is above it.
LEMMA Heaviest ==
    ASSUME NEW seq, HasWeights(seq)
    PROVE  \E b \in 0 .. Len(seq) - 1 :
              \A x \in PlacesOf(seq) :
                 /\ Way(Len(seq), b, x[1]) \in 1..Len(seq)
                 /\ Reached(seq, Moved(seq, x))
                    \/ Way(Len(seq), b, Moved(seq, x)[1]) = Way(Len(seq), b, x[1]) - 1
<1>1. Len(seq) \in Nat \ {0} /\ DOMAIN seq = 1..Len(seq)
  BY DEF HasWeights
<1>2. PICK j \in DOMAIN seq : seq[j].weight = MaxWeight(seq)
  BY MaxWeightIs
<1>3. MaxWeight(seq) \in Nat
  BY MaxWeightIs
<1>4. j - 1 \in 0 .. Len(seq) - 1
  BY <1>1
<1>5. ASSUME NEW x \in PlacesOf(seq)
      PROVE  /\ Way(Len(seq), j - 1, x[1]) \in 1..Len(seq)
             /\ Reached(seq, Moved(seq, x))
                \/ Way(Len(seq), j - 1, Moved(seq, x)[1]) = Way(Len(seq), j - 1, x[1]) - 1
  <2> DEFINE n == Len(seq)
             y == Moved(seq, x)
  <2>1. x[1] \in 0..n - 1
    BY DEF PlacesOf
  <2>2. y[1] = (IF x[1] + 1 = n THEN 0 ELSE x[1] + 1) /\ y \in PlacesOf(seq)
    BY MovedIs
  <2>3. y[2] \in 1..MaxWeight(seq)
    BY <2>2 DEF PlacesOf
  <2>4. CASE y[1] = j - 1
    <3>1. y[1] + 1 = j
      BY <2>4, <1>1
    <3>2. Reached(seq, y)
      BY <3>1, <2>3, <1>2, <1>3 DEF Reached
    <3> QED BY <3>2, <2>1, <1>1, <1>4 DEF Way
  <2>5. CASE y[1] # j - 1
    <3>1. n \in Nat \ {0} /\ j - 1 \in 0..n - 1
      BY <1>1, <1>4
    <3>2. /\ Way(n, j - 1, x[1]) \in 1..n
          /\ Way(n, j - 1, y[1]) = Way(n, j - 1, x[1]) - 1
      <4> HIDE DEF y, n
      <4>1. CASE x[1] + 1 = n
        <5>1. x[1] = n - 1 /\ y[1] = 0
          BY <2>1, <2>2, <3>1, <4>1
        <5>2. j \in 1..n /\ j - 1 # 0 /\ j - 1 <= n - 1 /\ j - 1 >= 0
          BY <1>1, <2>5, <3>1, <5>1 DEF n
        <5>3. Way(n, j - 1, x[1]) = j /\ Way(n, j - 1, y[1]) = j - 1
          BY <5>1, <5>2, <3>1 DEF Way
        <5> QED BY <5>2, <5>3
      <4>2. CASE x[1] + 1 # n
        BY <2>1, <2>2, <2>5, <3>1, <4>2 DEF Way
      <4> QED BY <4>1, <4>2
    <3> QED BY <3>2
  <2> QED BY <2>4, <2>5
<1> QED BY <1>4, <1>5

\* The loop ends from every place, so that there is such a function.
LEMMA TurnExists ==
    ASSUME NEW seq, HasWeights(seq)
    PROVE  \E f : IsTurn(seq, f)
<1> DEFINE S == PlacesOf(seq)
           n == Len(seq)
<1>1. PICK b \in 0..n - 1 : \A x \in S : /\ Way(n, b, x[1]) \in 1..n
                                         /\ Reached(seq, Moved(seq, x))
                                            \/ Way(n, b, Moved(seq, x)[1]) = Way(n, b, x[1]) - 1
  BY Heaviest
<1> DEFINE Upto(f, k) == \A x \in S : Way(n, b, x[1]) <= k => f[x] = Turn(seq, f, x)
           B == {k \in Nat : \E f \in [S -> S] : Upto(f, k)}
<1>2. \A x \in S : Moved(seq, x) \in S
  BY MovedIs
<1>3. n \in Nat
  BY DEF HasWeights
<1> HIDE DEF S, n
<1>4. 0 \in B
  <2> DEFINE f == [x \in S |-> x]
  <2>1. f \in [S -> S]
    OBVIOUS
  <2>2. Upto(f, 0)
    BY <1>1, <1>3
  <2> QED BY <2>1, <2>2
<1>5. ASSUME NEW k \in Nat, k \in B PROVE k + 1 \in B
  <2>1. PICK f \in [S -> S] : Upto(f, k)
    BY <1>5
  <2> DEFINE h == [x \in S |-> Turn(seq, f, x)]
  <2>2. h \in [S -> S]
    <3>1. \A x \in S : Turn(seq, f, x) \in S
      BY <1>2 DEF Turn
    <3> QED BY <3>1
  <2>3. ASSUME NEW x \in S, Way(n, b, x[1]) <= k + 1 PROVE h[x] = Turn(seq, h, x)
    <3>1. h[x] = Turn(seq, f, x)
      OBVIOUS
    <3>2. CASE Reached(seq, Moved(seq, x))
      BY <3>1, <3>2 DEF Turn
    <3>3. CASE ~ Reached(seq, Moved(seq, x))
      <4> DEFINE y == Moved(seq, x)
      <4>1. y \in S /\ Way(n, b, y[1]) <= k
        <5>1. Way(n, b, y[1]) = Way(n, b, x[1]) - 1 /\ Way(n, b, x[1]) \in 1..n
          BY <3>3, <1>1
        <5> QED BY <5>1, <1>2, <1>3, <2>3
      <4>2. f[y] = Turn(seq, f, y) /\ h[y] = Turn(seq, f, y)
        BY <4>1, <2>1
      <4> HIDE DEF h
      <4> QED BY <3>1, <3>3, <4>2 DEF Turn
    <3> QED BY <3>2, <3>3
  <2>4. Upto(h, k + 1)
    <3> HIDE DEF h
    <3> QED BY <2>3
  <2>5. \E e \in [S -> S] : Upto(e, k + 1)
    <3> HIDE DEF h, Upto
    <3> QED BY <2>2, <2>4
  <2> QED BY <2>5
<1>6. n \in B
  <2>1. Nat \subseteq B
    <3> HIDE DEF B
    <3> QED BY <1>4, <1>5, NatSetInduction
  <2> QED BY <1>3, <2>1
<1>7. PICK f \in [S -> S] : Upto(f, n)
  BY <1>6
<1>8. \A x \in S : f[x] = Turn(seq, f, x)
  BY <1>1, <1>3, <1>7
<1>9. f = [x \in S |-> Turn(seq, f, x)]
  BY <1>8
<1> QED BY <1>9 DEF IsTurn, S

\* Weighted is that function at the place of the selector.
LEMMA WeightedIs ==
    ASSUME NEW seq, HasWeights(seq), NEW t
    PROVE  \E f : IsTurn(seq, f) /\ Weighted(t, seq) = f[<<current[t], max[t]>>]
<1> DEFINE chosen == CHOOSE f : f = [x \in PlacesOf(seq) |-> Turn(seq, f, x)]
<1>1. Weighted(t, seq) = chosen[<<current[t], max[t]>>]
  BY DEF Weighted, PlacesOf, Turn
<1>2. IsTurn(seq, chosen)
  BY TurnExists DEF IsTurn
<1> QED BY <1>1, <1>2

\* The choice that the loop ends with is the one that is due.
LEMMA TurnIs ==
    ASSUME NEW seq, HasWeights(seq), NEW f, IsTurn(seq, f), NEW counts,
           NEW x, AtPlace(seq, counts, x)
    PROVE  AtPlace(seq, Counted(counts, f[x][1] + 1, WeightedShare(seq)), f[x])
<1> DEFINE S == PlacesOf(seq)
           n == Len(seq)
           Good(z) == AtPlace(seq, counts, z) =>
                         AtPlace(seq, Counted(counts, f[z][1] + 1, WeightedShare(seq)), f[z])
<1>1. PICK b \in 0..n - 1 : \A z \in S : /\ Way(n, b, z[1]) \in 1..n
                                         /\ Reached(seq, Moved(seq, z))
                                            \/ Way(n, b, Moved(seq, z)[1]) = Way(n, b, z[1]) - 1
  BY Heaviest
<1> DEFINE B == {k \in Nat : \A z \in S : Way(n, b, z[1]) <= k => Good(z)}
<1>2. n \in Nat
  BY DEF HasWeights
<1> HIDE DEF n
<1>3. 0 \in B
  BY <1>1, <1>2
<1>4. ASSUME NEW k \in Nat, k \in B PROVE k + 1 \in B
  <2> SUFFICES ASSUME NEW z \in S, Way(n, b, z[1]) <= k + 1, AtPlace(seq, counts, z)
               PROVE  AtPlace(seq, Counted(counts, f[z][1] + 1, WeightedShare(seq)), f[z])
    OBVIOUS
  <2> DEFINE y == Moved(seq, z)
  <2>1. f[z] = Turn(seq, f, z)
    BY DEF IsTurn
  <2>2. CASE Reached(seq, y)
    <3>1. f[z] = y
      BY <2>1, <2>2 DEF Turn
    <3> QED BY <3>1, <2>2, Round
  <2>3. CASE ~ Reached(seq, y)
    <3>1. f[z] = f[y]
      BY <2>1, <2>3 DEF Turn
    <3>2. AtPlace(seq, counts, y)
      BY <2>3, Round
    <3>3. y \in S /\ Way(n, b, y[1]) <= k
      <4>1. Way(n, b, y[1]) = Way(n, b, z[1]) - 1 /\ Way(n, b, z[1]) \in 1..n
        BY <2>3, <1>1
      <4> QED BY <4>1, <3>2, <1>2 DEF AtPlace
    <3>4. Good(y)
      BY <3>3, <1>4
    <3> HIDE DEF y
    <3> QED BY <3>1, <3>2, <3>4
  <2> QED BY <2>2, <2>3
<1>5. n \in B
  <2>1. Nat \subseteq B
    <3> HIDE DEF B
    <3> QED BY <1>3, <1>4, NatSetInduction
  <2> QED BY <1>2, <2>1
<1>6. x \in S /\ Way(n, b, x[1]) <= n
  BY <1>1, <1>2 DEF AtPlace
<1>7. Good(x)
  BY <1>5, <1>6
<1> QED BY <1>7

\* A new selector has chosen nothing, and nothing is due.
LEMMA FirstTurn ==
    ASSUME NEW c \in Configs, Valid(c), c.target = "domain"
    PROVE  Turns(c, NoCounts(c.targets), 0, MaxWeight(TargetsOf(c)))
<1> DEFINE ts == TargetsOf(c)
           n == Len(ts)
<1>1. HasWeights(ts) /\ n = Len(c.targets) /\ DOMAIN c.targets = 1..n
  BY TargetsAre, ConfigIs
<1>2. NoCounts(c.targets) = None(n)
  BY <1>1 DEF NoCounts, None
<1> HIDE DEF ts, n
<1>3. CASE c.lb = "round_robin"
  <2>1. IsShare(n, 1, EqualShare(ts))
    BY <1>1, SharesAre DEF n
  <2>2. Due(EqualShare(ts), 1, 0, 1) = None(n)
    BY <2>1, DueAtFirst
  <2> QED BY <1>2, <1>3, <2>2 DEF Turns, ShareOf, InTurn, ts
<1>4. CASE c.lb # "round_robin"
  <2>1. /\ IsShare(n, Top(ts), WeightedShare(ts))
        /\ IsLevel(ts, MaxWeight(ts)) /\ MaxWeight(ts) \div Gcd(ts) = Top(ts)
    BY <1>1, SharesAre, MaxIsLevel DEF n
  <2>2. Due(WeightedShare(ts), Top(ts), 0, Top(ts)) = None(n)
    BY <2>1, DueAtFirst
  <2> QED BY <1>2, <1>4, <2>1, <2>2 DEF Turns, ShareOf, InTurn, ts
<1> QED BY <1>3, <1>4

\* A choice is one of the targets, and keeps the counts to what is due.
LEMMA WeightedTurn ==
    ASSUME NEW c \in Configs, Valid(c), c.target = "domain", c.lb = "weighted_round_robin", NEW t,
           current[t] + 1 \in DOMAIN c.targets, current[t] \in Nat,
           max[t] \in 1..MaxWeight(TargetsOf(c)),
           Turns(c, picks[t], current[t], max[t])
    PROVE  LET y == Weighted(t, TargetsOf(c)) IN
           /\ y[1] \in Nat /\ y[1] + 1 \in DOMAIN c.targets /\ y[2] \in 1..MaxWeight(TargetsOf(c))
           /\ Turns(c, Counted(picks[t], y[1] + 1, WeightedShare(TargetsOf(c))), y[1], y[2])
<1> DEFINE ts == TargetsOf(c)
           n == Len(ts)
           x == <<current[t], max[t]>>
<1>1. HasWeights(ts) /\ n \in Nat /\ DOMAIN c.targets = 1..n
  BY TargetsAre, ConfigIs
<1>2. x \in PlacesOf(ts)
  BY <1>1 DEF PlacesOf
<1>3. AtPlace(ts, picks[t], x)
  BY <1>2 DEF AtPlace, Turns, ShareOf
<1>4. PICK f : IsTurn(ts, f) /\ Weighted(t, ts) = f[x]
  BY <1>1, WeightedIs
<1> DEFINE y == f[x]
<1>5. AtPlace(ts, Counted(picks[t], y[1] + 1, WeightedShare(ts)), y)
  <2> HIDE DEF ts, x
  <2> QED BY <1>1, <1>3, <1>4, TurnIs
<1>6. y[1] \in 0..n - 1 /\ y[2] \in 1..MaxWeight(ts)
  BY <1>5 DEF AtPlace, PlacesOf
<1>7. y[1] \in Nat /\ y[1] + 1 \in DOMAIN c.targets
  <2> HIDE DEF y, n
  <2> QED BY <1>1, <1>6
<1>8. Turns(c, Counted(picks[t], y[1] + 1, WeightedShare(ts)), y[1], y[2])
  BY <1>5 DEF AtPlace, Turns, ShareOf
<1> QED BY <1>4, <1>6, <1>7, <1>8

\* The same for round robin.
LEMMA RoundRobinTurn ==
    ASSUME NEW c \in Configs, Valid(c), c.target = "domain", c.lb = "round_robin", NEW t,
           current[t] + 1 \in DOMAIN c.targets, current[t] \in Nat, NEW level,
           Turns(c, picks[t], current[t], level)
    PROVE  LET r == RoundRobin(t, TargetsOf(c)) IN
           /\ r \in Nat /\ r + 1 \in DOMAIN c.targets
           /\ Turns(c, Counted(picks[t], r + 1, EqualShare(TargetsOf(c))), r, level)
<1> DEFINE ts == TargetsOf(c)
           n == Len(ts)
           r == RoundRobin(t, ts)
           share == EqualShare(ts)
<1>1. HasWeights(ts) /\ n \in Nat \ {0} /\ DOMAIN c.targets = 1..n
  BY TargetsAre, ConfigIs DEF HasWeights
<1>2. r = (current[t] + 1) % n
  BY DEF RoundRobin
<1>3. IsShare(n, 1, share)
  BY <1>1, SharesAre
<1>4. share = [i \in 1..n |-> 1]
  BY <1>1, TargetsAre DEF EqualShare
<1> HIDE DEF ts, n, r, share
<1>5. current[t] \in 0..n - 1
  BY <1>1
<1>6. r = IF current[t] + 1 = n THEN 0 ELSE current[t] + 1
  BY <1>1, <1>2, <1>5
<1>7. IsNext(n, 1, current[t], 1, r, 1)
  BY <1>6 DEF IsNext
<1>8. r \in 0..n - 1 /\ share[r + 1] >= 1
  BY <1>1, <1>4, <1>5, <1>6
<1>9. InTurn(picks[t], share, 1, current[t], 1)
  BY DEF Turns, ShareOf, share, ts
<1>10. InTurn(Counted(picks[t], r + 1, share), share, 1, r, 1)
  BY <1>3, <1>5, <1>7, <1>8, <1>9, Choose
<1>11. Turns(c, Counted(picks[t], r + 1, share), r, level)
  BY <1>10 DEF Turns, ShareOf, share, ts
<1> QED BY <1>1, <1>8, <1>11 DEF r, share, ts

-------------------------------------------------------------------------------
(* The inductive invariant. *)

LEMMA InitHolds == Init => IInv
<1> SUFFICES ASSUME Init PROVE IInv
  OBVIOUS
<1>1. added = <<>> /\ Transports = {} /\ Len(added) = 0
  BY DEF Init, Transports
<1>2. TypeOK
  <2>1. /\ added \in Seq(Configs) /\ Len(added) <= MaxRoutes
        /\ current \in Seq(Nat) /\ max \in Seq(Nat) /\ picks \in Seq(Seq(Int))
    BY <1>1, GatewayAssumption DEF Init, GatewayAssumption
  <2>2. Len(current) = Len(added) /\ Len(max) = Len(added) /\ Len(picks) = Len(added)
    BY <1>1 DEF Init
  <2>3. url \in [Workers -> (Hosts \cup {Nobody}) \X Seq(Pieces)]
    <3>1. <<>> \in Seq(Pieces)
      OBVIOUS
    <3>2. <<Nobody, <<>>>> \in (Hosts \cup {Nobody}) \X Seq(Pieces)
      BY <3>1
    <3> QED BY <3>2 DEF Init
  <2>4. written \in [Workers -> Seq(Answers)]
    BY DEF Init
  <2>5. /\ fullMatch \in [RoutePaths -> 0..Len(added)]
        /\ prefixMatch \in [RoutePaths -> 0..Len(added)]
        /\ trans \in [Workers -> 0..Len(added)]
    BY <1>1 DEF Init
  <2>6. /\ pc \in [Workers -> Places] /\ path \in [Workers -> Paths \cup {<<>>}]
        /\ header \in [Workers -> Workers \cup {Nobody}]
        /\ verdict \in [Workers -> {"none", "yes", "no"}]
        /\ serving \in BOOLEAN /\ \A w \in Workers : pc[w] = "idle"
    BY DEF Init, Places
  <2> QED BY <1>1, <2>1, <2>2, <2>3, <2>4, <2>5, <2>6 DEF TypeOK
<1>3. Tables
  BY <1>1 DEF Init, Tables, IsLast
<1>4. OneAnswer
  BY DEF Init, OneAnswer
<1>5. Stages
  BY DEF Init, Stages, Stage
<1> QED BY <1>1, <1>2, <1>3, <1>4, <1>5 DEF IInv, ValidAdded, AllTurns

\* What leaves the variables of a request alone keeps what it has established.
LEMMA SameStage ==
    ASSUME UNCHANGED routeVars, NEW v, Stage(v), pc'[v] = pc[v], path'[v] = path[v],
           trans'[v] = trans[v], url'[v] = url[v], header'[v] = header[v], verdict'[v] = verdict[v]
    PROVE  Stage(v)'
<1>1. added' = added /\ serving' = serving
  BY DEF routeVars
<1>2. \A p : Best(p)' = Best(p)
  BY <1>1 DEF Best, Transports
<1>3. Config(v)' = Config(v)
  BY <1>1 DEF Config
<1> QED BY <1>1, <1>2, <1>3 DEF Stage, OwnHeaders

LEMMA SameRoutes ==
    ASSUME UNCHANGED routeVars, ValidAdded, Tables
    PROVE  ValidAdded' /\ Tables'
<1>1. /\ added' = added /\ fullMatch' = fullMatch /\ prefixMatch' = prefixMatch
      /\ Transports' = Transports
  BY DEF routeVars, Transports
<1> QED BY <1>1 DEF ValidAdded, Tables

LEMMA SameTurns ==
    ASSUME UNCHANGED <<routeVars, selectorVars>>, AllTurns
    PROVE  AllTurns'
<1>1. /\ added' = added /\ Transports' = Transports
      /\ picks' = picks /\ current' = current /\ max' = max
  BY DEF routeVars, selectorVars, Transports
<1> QED BY <1>1 DEF AllTurns

LEMMA RequestTypes ==
    ASSUME TypeOK, UNCHANGED <<routeVars, selectorVars>>,
           pc' \in [Workers -> Places], path' \in [Workers -> Paths \cup {<<>>}],
           trans' \in [Workers -> 0..Len(added)],
           \A w \in Workers : pc'[w] # "idle" => trans'[w] \in Transports,
           url' \in [Workers -> (Hosts \cup {Nobody}) \X Seq(Pieces)],
           header' \in [Workers -> Workers \cup {Nobody}],
           verdict' \in [Workers -> {"none", "yes", "no"}],
           written' \in [Workers -> Seq(Answers)]
    PROVE  TypeOK'
<1>1. /\ added' = added /\ serving' = serving /\ Transports' = Transports
      /\ fullMatch' = fullMatch /\ prefixMatch' = prefixMatch
      /\ picks' = picks /\ current' = current /\ max' = max
  BY DEF routeVars, selectorVars, Transports
<1> QED BY <1>1 DEF TypeOK

\* What is appended comes last.
LEMMA Appended ==
    ASSUME NEW S, NEW s \in Seq(S), NEW e \in S, NEW s1, s1 = Append(s, e)
    PROVE  /\ s1 \in Seq(S) /\ Len(s) \in Nat /\ Len(s1) = Len(s) + 1
           /\ \A i \in 1..Len(s) : s1[i] = s[i]
           /\ s1[Len(s) + 1] = e
BY AppendProperties

\* One lemma for each action, or for those that are alike.
LEMMA AddRouterKeeps ==
    ASSUME IInv, NEW c \in Configs, AddRouter(c)
    PROVE  IInv'
<1> DEFINE n == Len(added)
           t == n + 1
           top == IF c.target = "domain" THEN MaxWeight(TargetsOf(c)) ELSE 0
<1> USE DEF IInv
<1>1. /\ ~serving /\ Valid(c) /\ t <= MaxRoutes
      /\ added' = Append(added, c)
      /\ fullMatch' = IF c.match = "full" THEN [fullMatch EXCEPT ![c.path] = t] ELSE fullMatch
      /\ prefixMatch' = IF c.match = "prefix" THEN [prefixMatch EXCEPT ![c.path] = t] ELSE prefixMatch
      /\ current' = Append(current, 0) /\ max' = Append(max, top)
      /\ picks' = Append(picks, NoCounts(c.targets))
      /\ serving' = serving /\ pc' = pc /\ path' = path /\ trans' = trans /\ url' = url
      /\ header' = header /\ verdict' = verdict /\ written' = written
  BY DEF AddRouter, requestVars
<1>2. /\ added \in Seq(Configs) /\ current \in Seq(Nat) /\ max \in Seq(Nat) /\ picks \in Seq(Seq(Int))
      /\ Len(current) = n /\ Len(max) = n /\ Len(picks) = n
  BY DEF TypeOK
<1>3. top \in Nat /\ (c.target = "domain" => top \in 1..MaxWeight(TargetsOf(c)))
  BY <1>1, TargetsAre, MaxWeightIs
<1>4. NoCounts(c.targets) \in Seq(Int)
  BY <1>1, ConfigIs DEF NoCounts
<1> HIDE DEF top
<1>5. /\ n \in Nat /\ added' \in Seq(Configs) /\ Len(added') = t
      /\ \A i \in 1..n : added'[i] = added[i]
      /\ added'[t] = c
  BY <1>1, <1>2, Appended
<1>6. /\ current' \in Seq(Nat) /\ Len(current') = t /\ current'[t] = 0
      /\ \A i \in 1..n : current'[i] = current[i]
  BY <1>1, <1>2, Appended
<1>7. /\ max' \in Seq(Nat) /\ Len(max') = t /\ max'[t] = top
      /\ \A i \in 1..n : max'[i] = max[i]
  BY <1>1, <1>2, <1>3, Appended
<1>8. /\ picks' \in Seq(Seq(Int)) /\ Len(picks') = t /\ picks'[t] = NoCounts(c.targets)
      /\ \A i \in 1..n : picks'[i] = picks[i]
  BY <1>1, <1>2, <1>4, Appended
<1>9. /\ Transports = 1..n /\ Transports' = 1..t
      /\ \A i \in 1..t : i \in 1..n \/ i = t
  BY <1>5 DEF Transports
<1>10. /\ fullMatch \in [RoutePaths -> 0..n] /\ prefixMatch \in [RoutePaths -> 0..n]
       /\ trans \in [Workers -> 0..n] /\ c.path \in RoutePaths
  BY DEF TypeOK, RoutePaths
<1>11. \A w \in Workers : pc[w] = "idle"
  BY <1>1 DEF Stages, Stage
<1>12. TypeOK'
  <2>1. /\ fullMatch' \in [RoutePaths -> 0..t] /\ prefixMatch' \in [RoutePaths -> 0..t]
        /\ trans' \in [Workers -> 0..t]
    BY <1>1, <1>5, <1>10
  <2>2. ASSUME NEW i \in Transports', added'[i].target = "domain"
        PROVE  current'[i] + 1 \in DOMAIN added'[i].targets /\ max'[i] \in 1..MaxWeight(TargetsOf(added'[i]))
    <3>1. CASE i \in 1..n
      <4>1. added[i].target = "domain" /\ i \in Transports
        BY <3>1, <2>2, <1>5, <1>9
      <4>2. current[i] + 1 \in DOMAIN added[i].targets /\ max[i] \in 1..MaxWeight(TargetsOf(added[i]))
        BY <4>1 DEF TypeOK
      <4> QED BY <3>1, <4>2, <1>5, <1>6, <1>7
    <3>2. CASE i = t
      <4>1. DOMAIN c.targets = 1..Len(c.targets) /\ Len(c.targets) \in Nat \ {0}
        BY <3>2, <2>2, <1>1, <1>5, TargetsAre, ConfigIs DEF HasWeights
      <4> QED BY <4>1, <3>2, <2>2, <1>3, <1>5, <1>6, <1>7
    <3> QED BY <3>1, <3>2, <1>9
  <2>3. /\ pc' \in [Workers -> Places] /\ path' \in [Workers -> Paths \cup {<<>>}]
        /\ url' \in [Workers -> (Hosts \cup {Nobody}) \X Seq(Pieces)]
        /\ header' \in [Workers -> Workers \cup {Nobody}]
        /\ verdict' \in [Workers -> {"none", "yes", "no"}]
        /\ written' \in [Workers -> Seq(Answers)]
        /\ serving' \in BOOLEAN
        /\ \A w \in Workers : pc'[w] # "idle" => trans'[w] \in Transports'
    BY <1>1, <1>11 DEF TypeOK
  <2> QED BY <2>1, <2>2, <2>3, <1>1, <1>5, <1>6, <1>7, <1>8 DEF TypeOK
<1>13. ValidAdded'
  BY <1>1, <1>5, <1>9 DEF ValidAdded
<1>14. Tables'
  <2> SUFFICES ASSUME NEW p \in RoutePaths
               PROVE  /\ IsLast(fullMatch'[p], {i \in Transports' : added'[i].match = "full" /\ added'[i].path = p})
                      /\ IsLast(prefixMatch'[p], {i \in Transports' : added'[i].match = "prefix" /\ added'[i].path = p})
    BY DEF Tables
  <2> DEFINE full == {i \in Transports : added[i].match = "full" /\ added[i].path = p}
             prefix == {i \in Transports : added[i].match = "prefix" /\ added[i].path = p}
             fullNow == {i \in Transports' : added'[i].match = "full" /\ added'[i].path = p}
             prefixNow == {i \in Transports' : added'[i].match = "prefix" /\ added'[i].path = p}
  <2>1. IsLast(fullMatch[p], full) /\ IsLast(prefixMatch[p], prefix)
    BY DEF Tables
  <2>2. fullNow = full \cup (IF c.match = "full" /\ c.path = p THEN {t} ELSE {})
    BY <1>5, <1>9
  <2>3. prefixNow = prefix \cup (IF c.match = "prefix" /\ c.path = p THEN {t} ELSE {})
    BY <1>5, <1>9
  <2>4. full \subseteq 1..n /\ prefix \subseteq 1..n
    BY <1>9
  <2>5. fullMatch'[p] = (IF c.match = "full" /\ c.path = p THEN t ELSE fullMatch[p])
    BY <1>1, <1>10
  <2>6. prefixMatch'[p] = (IF c.match = "prefix" /\ c.path = p THEN t ELSE prefixMatch[p])
    BY <1>1, <1>10
  <2> HIDE DEF full, prefix, fullNow, prefixNow
  <2>7. IsLast(fullMatch'[p], fullNow)
    <3>1. CASE c.match = "full" /\ c.path = p
      BY <3>1, <2>2, <2>4, <2>5, <1>5, LastAdded
    <3>2. CASE ~ (c.match = "full" /\ c.path = p)
      <4>1. fullNow = full /\ fullMatch'[p] = fullMatch[p]
        BY <3>2, <2>2, <2>5
      <4> QED BY <4>1, <2>1
    <3> QED BY <3>1, <3>2
  <2>8. IsLast(prefixMatch'[p], prefixNow)
    <3>1. CASE c.match = "prefix" /\ c.path = p
      BY <3>1, <2>3, <2>4, <2>6, <1>5, LastAdded
    <3>2. CASE ~ (c.match = "prefix" /\ c.path = p)
      <4>1. prefixNow = prefix /\ prefixMatch'[p] = prefixMatch[p]
        BY <3>2, <2>3, <2>6
      <4> QED BY <4>1, <2>1
    <3> QED BY <3>1, <3>2
  <2> QED BY <2>7, <2>8 DEF fullNow, prefixNow
<1>15. Stages' /\ OneAnswer'
  BY <1>1, <1>11 DEF Stages, Stage, OneAnswer
<1>16. AllTurns'
  <2> SUFFICES ASSUME NEW i \in Transports', added'[i].target = "domain"
               PROVE  Turns(added'[i], picks'[i], current'[i], max'[i])
    BY DEF AllTurns
  <2>1. CASE i \in 1..n
    BY <2>1, <1>5, <1>6, <1>7, <1>8, <1>9 DEF AllTurns
  <2>2. CASE i = t
    BY <2>2, <1>1, <1>5, <1>6, <1>7, <1>8, FirstTurn DEF top
  <2> QED BY <2>1, <2>2, <1>9
<1> QED BY <1>12, <1>13, <1>14, <1>15, <1>16

LEMMA ServeKeeps ==
    ASSUME IInv, Serve
    PROVE  IInv'
<1> USE DEF IInv
<1>1. /\ serving' = TRUE /\ added' = added /\ fullMatch' = fullMatch /\ prefixMatch' = prefixMatch
      /\ current' = current /\ max' = max /\ picks' = picks /\ pc' = pc /\ path' = path
      /\ trans' = trans /\ url' = url /\ header' = header /\ verdict' = verdict /\ written' = written
      /\ Transports' = Transports
  BY DEF Serve, selectorVars, requestVars, Transports
<1>2. \A w \in Workers : pc[w] = "idle"
  BY DEF Serve, Stages, Stage
<1>3. TypeOK'
  BY <1>1 DEF TypeOK
<1>4. ValidAdded' /\ Tables' /\ AllTurns'
  BY <1>1 DEF ValidAdded, Tables, AllTurns
<1>5. Stages' /\ OneAnswer'
  BY <1>1, <1>2 DEF Stages, Stage, OneAnswer
<1> QED BY <1>3, <1>4, <1>5

\* What a step of w leaves alone: the routes, and what is kept for the others.
Others(w) ==
    /\ UNCHANGED routeVars
    /\ \A v \in Workers \ {w} :
          /\ pc'[v] = pc[v] /\ path'[v] = path[v] /\ trans'[v] = trans[v] /\ url'[v] = url[v]
          /\ header'[v] = header[v] /\ verdict'[v] = verdict[v] /\ written'[v] = written[v]

\* A step of w keeps the invariant if it keeps the types, what w has got and what
\* is due.
LEMMA WorkerKeeps ==
    ASSUME IInv, NEW w \in Workers, Others(w), TypeOK', AllTurns', Stage(w)',
           Len(written'[w]) = IF pc'[w] = "idle" /\ trans'[w] # 0 THEN 1 ELSE 0
    PROVE  IInv'
<1> USE DEF IInv
<1>1. UNCHANGED routeVars
  BY DEF Others
<1>2. ValidAdded' /\ Tables'
  BY <1>1, SameRoutes
<1>3. ASSUME NEW v \in Workers PROVE Stage(v)'
  <2>1. CASE v = w
    BY <2>1
  <2>2. CASE v # w
    <3>1. Stage(v)
      BY DEF Stages
    <3> QED BY <3>1, <2>2, <1>1, SameStage DEF Others
  <2> QED BY <2>1, <2>2
<1>4. Stages'
  BY <1>3 DEF Stages
<1>5. OneAnswer'
  BY DEF OneAnswer, Others
<1> QED BY <1>2, <1>4, <1>5

LEMMA RequestKeeps ==
    ASSUME IInv, NEW w \in Workers, NEW p \in Paths, Request(w, p)
    PROVE  IInv'
<1> DEFINE t == FindTransport(p)
<1> USE DEF IInv
<1>1. /\ serving /\ pc[w] = "idle" /\ t # 0
      /\ pc' = [pc EXCEPT ![w] = "body"] /\ path' = [path EXCEPT ![w] = p]
      /\ trans' = [trans EXCEPT ![w] = t] /\ url' = [url EXCEPT ![w] = <<Nobody, <<>>>>]
      /\ header' = [header EXCEPT ![w] = Nobody] /\ verdict' = [verdict EXCEPT ![w] = "none"]
      /\ written' = [written EXCEPT ![w] = <<>>]
      /\ UNCHANGED <<routeVars, selectorVars>>
  BY DEF Request
<1>2. t \in Transports /\ t = Best(p) /\ Matches(added[t], p)
  BY <1>1, BestFound
<1> HIDE DEF t
<1>3. /\ pc \in [Workers -> Places] /\ path \in [Workers -> Paths \cup {<<>>}]
      /\ trans \in [Workers -> 0..Len(added)]
      /\ url \in [Workers -> (Hosts \cup {Nobody}) \X Seq(Pieces)]
      /\ header \in [Workers -> Workers \cup {Nobody}]
      /\ verdict \in [Workers -> {"none", "yes", "no"}]
      /\ written \in [Workers -> Seq(Answers)]
      /\ \A v \in Workers : pc[v] # "idle" => trans[v] \in Transports
      /\ Len(added) \in Nat
  BY DEF TypeOK
<1>4. TypeOK'
  <2>1. t \in 0..Len(added)
    BY <1>2, <1>3 DEF Transports
  <2>2. <<Nobody, <<>>>> \in (Hosts \cup {Nobody}) \X Seq(Pieces)
    <3>1. <<>> \in Seq(Pieces)
      OBVIOUS
    <3> QED BY <3>1
  <2>3. url' \in [Workers -> (Hosts \cup {Nobody}) \X Seq(Pieces)]
    BY <1>1, <1>3, <2>2
  <2>4. written' \in [Workers -> Seq(Answers)]
    BY <1>1, <1>3
  <2>5. /\ pc' \in [Workers -> Places] /\ path' \in [Workers -> Paths \cup {<<>>}]
        /\ trans' \in [Workers -> 0..Len(added)]
        /\ header' \in [Workers -> Workers \cup {Nobody}]
        /\ verdict' \in [Workers -> {"none", "yes", "no"}]
        /\ \A v \in Workers : pc'[v] # "idle" => trans'[v] \in Transports
    BY <1>1, <1>2, <1>3, <2>1 DEF Places
  <2> QED BY <1>1, <2>3, <2>4, <2>5, RequestTypes
<1>5. AllTurns'
  BY <1>1, SameTurns
<1>6. Others(w)
  BY <1>1, <1>3 DEF Others
<1>7. /\ pc'[w] = "body" /\ path'[w] = p /\ trans'[w] = t /\ header'[w] = Nobody /\ written'[w] = <<>>
      /\ serving' /\ added' = added
  BY <1>1, <1>3 DEF routeVars
<1>8. Stage(w)'
  <2>1. Best(p)' = Best(p)
    BY <1>7 DEF Best, Transports
  <2>2. Config(w)' = added[t]
    BY <1>7 DEF Config
  <2> QED BY <1>2, <1>7, <2>1, <2>2 DEF Stage
<1>9. Len(written'[w]) = IF pc'[w] = "idle" /\ trans'[w] # 0 THEN 1 ELSE 0
  BY <1>7
<1> QED BY <1>4, <1>5, <1>6, <1>8, <1>9, WorkerKeeps

\* What the type invariant says of the requests.
RequestTyped ==
    /\ pc \in [Workers -> Places] /\ path \in [Workers -> Paths \cup {<<>>}]
    /\ trans \in [Workers -> 0..Len(added)] /\ Len(added) \in Nat
    /\ url \in [Workers -> (Hosts \cup {Nobody}) \X Seq(Pieces)]
    /\ header \in [Workers -> Workers \cup {Nobody}]
    /\ verdict \in [Workers -> {"none", "yes", "no"}]
    /\ written \in [Workers -> Seq(Answers)]
    /\ \A w \in Workers : pc[w] # "idle" => trans[w] \in Transports

LEMMA TypedRequest == TypeOK => RequestTyped
BY DEF TypeOK, RequestTyped

\* A request under way has a transport, whose config is valid and matches its path.
LEMMA UnderWay ==
    ASSUME IInv, NEW w \in Workers, pc[w] # "idle"
    PROVE  /\ serving /\ trans[w] \in Transports /\ trans[w] = Best(path[w])
           /\ Config(w) \in Configs /\ Valid(Config(w)) /\ Matches(Config(w), path[w])
           /\ path[w] \in Paths /\ path[w] \in Seq(Pieces)
           /\ written[w] \in Seq(Answers) /\ Len(written[w]) = 0
<1>1. TypeOK /\ ValidAdded /\ Stage(w) /\ OneAnswer
  BY DEF IInv, Stages
<1>2. trans[w] \in Transports /\ added \in Seq(Configs) /\ written[w] \in Seq(Answers)
  BY <1>1 DEF TypeOK
<1>3. Config(w) \in Configs /\ Valid(Config(w))
  BY <1>1, <1>2 DEF Config, Transports, ValidAdded
<1>4. path[w] \in Paths /\ path[w] \in Seq(Pieces)
  BY <1>1, GatewayAssumption DEF Stage, GatewayAssumption
<1> QED BY <1>1, <1>2, <1>3, <1>4 DEF Stage, OneAnswer

\* A request goes on with nothing but its place changed, or is over, or is authorized.
LEMMA MoveKeeps ==
    ASSUME IInv, NEW w \in Workers, NEW from, NEW to, At(w, from, to),
           <<from, to>> \in {<<"body", "select">>, <<"select", "mock">>, <<"forward", "sent">>},
           UNCHANGED <<routeVars, selectorVars, requestVars, written>>
    PROVE  IInv'
<1>0. TypeOK /\ Stage(w) /\ AllTurns /\ OneAnswer
  BY DEF IInv, Stages
<1>1. RequestTyped
  BY <1>0, TypedRequest
<1>2. /\ pc[w] = from /\ pc' = [pc EXCEPT ![w] = to]
      /\ path' = path /\ trans' = trans /\ url' = url /\ header' = header /\ verdict' = verdict
      /\ written' = written /\ UNCHANGED <<routeVars, selectorVars>> /\ added' = added
      /\ serving' = serving
  BY DEF At, requestVars, routeVars
<1>3. from # "idle" /\ to # "idle" /\ to \in Places
  BY DEF Places
<1>4. pc' \in [Workers -> Places] /\ pc'[w] = to /\ \A v \in Workers \ {w} : pc'[v] = pc[v]
  BY <1>1, <1>2, <1>3 DEF RequestTyped
<1>5. TypeOK'
  <2>1. \A v \in Workers : pc'[v] # "idle" => trans'[v] \in Transports
    BY <1>1, <1>2, <1>3, <1>4 DEF RequestTyped
  <2> QED BY <1>0, <1>1, <1>2, <1>4, <2>1, RequestTypes DEF RequestTyped
<1>6. AllTurns'
  BY <1>0, <1>2, SameTurns
<1>7. Others(w)
  BY <1>2, <1>4 DEF Others
<1>8. Stage(w)'
  <2>1. \A p : Best(p)' = Best(p)
    BY <1>2 DEF Best, Transports
  <2>2. Config(w)' = Config(w)
    BY <1>2 DEF Config
  <2> QED BY <1>0, <1>2, <1>3, <1>4, <2>1, <2>2 DEF Stage, OwnHeaders
<1>9. Len(written'[w]) = IF pc'[w] = "idle" /\ trans'[w] # 0 THEN 1 ELSE 0
  BY <1>2, <1>3, <1>4, UnderWay
<1> QED BY <1>5, <1>6, <1>7, <1>8, <1>9, WorkerKeeps

LEMMA AnswerKeeps ==
    ASSUME IInv, NEW w \in Workers, NEW from, from # "idle", NEW what \in Answers,
           Answer(w, from, what), UNCHANGED selectorVars,
           verdict' = verdict \/ verdict' = [verdict EXCEPT ![w] = "no"]
    PROVE  IInv'
<1>0. TypeOK /\ Stage(w) /\ AllTurns /\ OneAnswer
  BY DEF IInv, Stages
<1>1. RequestTyped
  BY <1>0, TypedRequest
<1>2. /\ pc[w] = from /\ pc' = [pc EXCEPT ![w] = "idle"]
      /\ path' = path /\ trans' = trans /\ url' = url /\ header' = header
      /\ written' = [written EXCEPT ![w] = Append(@, what)]
      /\ UNCHANGED <<routeVars, selectorVars>>
  BY DEF Answer, At
<1>3. /\ written[w] \in Seq(Answers) /\ Len(written[w]) = 0 /\ trans[w] \in Transports
  BY <1>2, UnderWay
<1>4. Append(written[w], what) \in Seq(Answers) /\ Len(Append(written[w], what)) = 1
  BY <1>3
<1>5. /\ pc' \in [Workers -> Places] /\ pc'[w] = "idle" /\ \A v \in Workers \ {w} : pc'[v] = pc[v]
      /\ verdict' \in [Workers -> {"none", "yes", "no"}]
      /\ \A v \in Workers \ {w} : verdict'[v] = verdict[v]
  BY <1>1, <1>2 DEF RequestTyped, Places
<1>6. /\ written' \in [Workers -> Seq(Answers)] /\ Len(written'[w]) = 1
      /\ \A v \in Workers \ {w} : written'[v] = written[v]
  BY <1>1, <1>2, <1>4 DEF RequestTyped
<1>7. TypeOK'
  <2>1. \A v \in Workers : pc'[v] # "idle" => trans'[v] \in Transports
    BY <1>1, <1>2, <1>5 DEF RequestTyped
  <2> QED BY <1>0, <1>1, <1>2, <1>5, <1>6, <2>1, RequestTypes DEF RequestTyped
<1>8. AllTurns'
  BY <1>0, <1>2, SameTurns
<1>9. Others(w)
  BY <1>2, <1>5, <1>6 DEF Others
<1>10. Stage(w)'
  BY <1>5 DEF Stage
<1>11. Len(written'[w]) = IF pc'[w] = "idle" /\ trans'[w] # 0 THEN 1 ELSE 0
  BY <1>2, <1>3, <1>5, <1>6 DEF Transports
<1> QED BY <1>7, <1>8, <1>9, <1>10, <1>11, WorkerKeeps

LEMMA AuthorizeKeeps ==
    ASSUME IInv, NEW w \in Workers, Authorize(w)
    PROVE  IInv'
<1>0. TypeOK /\ Stage(w) /\ AllTurns /\ OneAnswer
  BY DEF IInv, Stages
<1>1. RequestTyped
  BY <1>0, TypedRequest
<1>12. PICK h \in OwnHeaders(w) : header' = [header EXCEPT ![w] = h]
  BY DEF Authorize
<1>2. /\ pc[w] = "auth" /\ pc' = [pc EXCEPT ![w] = "forward"]
      /\ path' = path /\ trans' = trans /\ url' = url /\ header' = [header EXCEPT ![w] = h]
      /\ verdict' = [verdict EXCEPT ![w] = "yes"]
      /\ written' = written /\ UNCHANGED <<routeVars, selectorVars>> /\ added' = added
      /\ serving' = serving
  BY <1>12 DEF Authorize, At, routeVars
<1>3. h \in Workers \cup {Nobody}
  BY DEF OwnHeaders
<1>4. /\ pc' \in [Workers -> Places] /\ pc'[w] = "forward"
      /\ header' \in [Workers -> Workers \cup {Nobody}] /\ header'[w] = h
      /\ verdict' \in [Workers -> {"none", "yes", "no"}] /\ verdict'[w] = "yes"
      /\ \A v \in Workers \ {w} : pc'[v] = pc[v] /\ header'[v] = header[v] /\ verdict'[v] = verdict[v]
  BY <1>1, <1>2, <1>3 DEF RequestTyped, Places
<1>5. TypeOK'
  <2>1. \A v \in Workers : pc'[v] # "idle" => trans'[v] \in Transports
    BY <1>1, <1>2, <1>4 DEF RequestTyped
  <2> QED BY <1>0, <1>1, <1>2, <1>4, <2>1, RequestTypes DEF RequestTyped
<1>6. AllTurns'
  BY <1>0, <1>2, SameTurns
<1>7. Others(w)
  BY <1>2, <1>4 DEF Others
<1>8. Stage(w)'
  <2>1. \A p : Best(p)' = Best(p)
    BY <1>2 DEF Best, Transports
  <2>2. Config(w)' = Config(w)
    BY <1>2 DEF Config
  <2> QED BY <1>0, <1>2, <1>4, <2>1, <2>2 DEF Stage, OwnHeaders
<1>9. Len(written'[w]) = IF pc'[w] = "idle" /\ trans'[w] # 0 THEN 1 ELSE 0
  BY <1>2, <1>4, UnderWay
<1> QED BY <1>5, <1>6, <1>7, <1>8, <1>9, WorkerKeeps

\* The selection, given that it keeps the types and the counts of the selectors.
LEMMA SelectedKeeps ==
    ASSUME IInv, NEW w \in Workers, NEW host, Selected(w, host), TypeOK', AllTurns',
           \/ Config(w).target = "discovery" /\ host \in Instances
           \/ Config(w).target = "domain" /\ \E i \in DOMAIN Config(w).targets : Config(w).targets[i].host = host
    PROVE  IInv'
<1>0. TypeOK /\ Stage(w) /\ OneAnswer
  BY DEF IInv, Stages
<1>1. RequestTyped
  BY <1>0, TypedRequest
<1> DEFINE to == IF Config(w).needAuth THEN "auth" ELSE "forward"
           sent == Rooted(Rewrite(Config(w), path[w]))
<1>2. /\ pc[w] = "select" /\ pc' = [pc EXCEPT ![w] = to]
      /\ path' = path /\ trans' = trans /\ url' = [url EXCEPT ![w] = <<host, sent>>]
      /\ header' = header /\ verdict' = verdict
      /\ written' = written /\ UNCHANGED routeVars /\ added' = added /\ serving' = serving
  BY DEF Selected, At, routeVars
<1>3. /\ Config(w) \in Configs /\ Valid(Config(w)) /\ Matches(Config(w), path[w])
      /\ path[w] \in Seq(Pieces) /\ Len(written[w]) = 0
  BY <1>2, UnderWay
<1>4. Reaches(Config(w), path[w], host, sent)
  BY <1>3, RewriteReaches
<1> HIDE DEF sent, to
<1>5. to # "idle" /\ (to = "auth" \/ to = "forward") /\ (to = "auth" <=> Config(w).needAuth)
  BY DEF to
<1>6. /\ pc'[w] = to /\ url'[w] = <<host, sent>>
      /\ \A v \in Workers \ {w} : pc'[v] = pc[v] /\ url'[v] = url[v]
  BY <1>1, <1>2 DEF RequestTyped
<1>7. Others(w)
  BY <1>2, <1>6 DEF Others
<1>8. Stage(w)'
  <2>1. \A p : Best(p)' = Best(p)
    BY <1>2 DEF Best, Transports
  <2>2. Config(w)' = Config(w)
    BY <1>2 DEF Config
  <2>3. Reaches(Config(w), path[w], url[w][1], url[w][2])'
    BY <1>2, <1>4, <1>6, <2>2
  <2> QED BY <1>0, <1>2, <1>5, <1>6, <2>1, <2>2, <2>3 DEF Stage, OwnHeaders
<1>9. Len(written'[w]) = IF pc'[w] = "idle" /\ trans'[w] # 0 THEN 1 ELSE 0
  BY <1>2, <1>3, <1>5, <1>6
<1> QED BY <1>7, <1>8, <1>9, WorkerKeeps

\* The types of a request after the selection.
LEMMA SelectedTypes ==
    ASSUME IInv, NEW w \in Workers, NEW host, Selected(w, host),
           \/ Config(w).target = "discovery" /\ host \in Instances
           \/ Config(w).target = "domain" /\ \E i \in DOMAIN Config(w).targets : Config(w).targets[i].host = host
    PROVE  /\ pc' \in [Workers -> Places] /\ path' = path /\ trans' = trans
           /\ \A v \in Workers : pc'[v] # "idle" => trans'[v] \in Transports
           /\ url' \in [Workers -> (Hosts \cup {Nobody}) \X Seq(Pieces)]
           /\ header' = header /\ verdict' = verdict /\ written' = written /\ UNCHANGED routeVars
<1>0. TypeOK
  BY DEF IInv
<1>1. RequestTyped
  BY <1>0, TypedRequest
<1> DEFINE to == IF Config(w).needAuth THEN "auth" ELSE "forward"
           sent == Rooted(Rewrite(Config(w), path[w]))
<1>2. /\ pc[w] = "select" /\ pc' = [pc EXCEPT ![w] = to]
      /\ path' = path /\ trans' = trans /\ url' = [url EXCEPT ![w] = <<host, sent>>]
      /\ header' = header /\ verdict' = verdict /\ written' = written /\ UNCHANGED routeVars
  BY DEF Selected, At
<1>3. /\ Config(w) \in Configs /\ Valid(Config(w)) /\ Matches(Config(w), path[w])
      /\ path[w] \in Seq(Pieces) /\ trans[w] \in Transports
  BY <1>2, UnderWay
<1>4. sent \in Seq(Pieces)
  BY <1>3, RewriteReaches
<1>5. host \in Hosts
  BY <1>3 DEF Hosts
<1>6. to \in Places
  BY DEF Places
<1> HIDE DEF sent, to
<1>7. <<host, sent>> \in (Hosts \cup {Nobody}) \X Seq(Pieces)
  BY <1>4, <1>5
<1>8. url' \in [Workers -> (Hosts \cup {Nobody}) \X Seq(Pieces)]
  BY <1>1, <1>2, <1>7 DEF RequestTyped
<1>9. pc' \in [Workers -> Places] /\ \A v \in Workers : pc'[v] # "idle" => trans'[v] \in Transports
  BY <1>1, <1>2, <1>3, <1>6 DEF RequestTyped
<1> QED BY <1>2, <1>8, <1>9

LEMMA SelectInstanceKeeps ==
    ASSUME IInv, NEW w \in Workers, SelectInstance(w)
    PROVE  IInv'
<1>1. PICK i \in Instances : Selected(w, i)
  BY DEF SelectInstance
<1>2. Config(w).target = "discovery" /\ UNCHANGED selectorVars
  BY DEF SelectInstance, Selecting
<1>3. TypeOK /\ AllTurns /\ RequestTyped
  BY TypedRequest DEF IInv
<1>4. /\ pc' \in [Workers -> Places] /\ path' = path /\ trans' = trans
      /\ \A v \in Workers : pc'[v] # "idle" => trans'[v] \in Transports
      /\ url' \in [Workers -> (Hosts \cup {Nobody}) \X Seq(Pieces)]
      /\ header' = header /\ verdict' = verdict /\ written' = written /\ UNCHANGED routeVars
  BY <1>1, <1>2, SelectedTypes
<1>5. TypeOK'
  BY <1>2, <1>3, <1>4, RequestTypes DEF RequestTyped
<1>6. AllTurns'
  BY <1>2, <1>3, <1>4, SameTurns
<1> QED BY <1>1, <1>2, <1>5, <1>6, SelectedKeeps

LEMMA SelectTargetKeeps ==
    ASSUME IInv, NEW w \in Workers, SelectTarget(w)
    PROVE  IInv'
<1> DEFINE t == trans[w]
           c == Config(w)
           ts == TargetsOf(c)
           weighted == c.lb = "weighted_round_robin"
           choice == IF weighted THEN Weighted(t, ts) ELSE <<RoundRobin(t, ts), max[t]>>
           share == IF weighted THEN WeightedShare(ts) ELSE EqualShare(ts)
           counts == Counted(picks[t], choice[1] + 1, share)
           host == ts[choice[1] + 1].host
<1>0. TypeOK /\ AllTurns /\ RequestTyped
  BY TypedRequest DEF IInv
<1>1. /\ c.target = "domain" /\ pc[w] = "select"
      /\ current' = [current EXCEPT ![t] = choice[1]] /\ max' = [max EXCEPT ![t] = choice[2]]
      /\ picks' = [picks EXCEPT ![t] = counts] /\ Selected(w, host)
  BY DEF SelectTarget, Selecting
<1>2. c \in Configs /\ Valid(c) /\ t \in Transports /\ added[t] = c
  BY <1>1, UnderWay DEF Config
<1>3. /\ current \in Seq(Nat) /\ max \in Seq(Nat) /\ picks \in Seq(Seq(Int))
      /\ Len(current) = Len(added) /\ Len(max) = Len(added) /\ Len(picks) = Len(added)
      /\ Transports = 1..Len(added) /\ Len(added) \in Nat
      /\ current[t] + 1 \in DOMAIN c.targets /\ current[t] \in Nat /\ max[t] \in 1..MaxWeight(ts)
  <2>1. /\ current \in Seq(Nat) /\ max \in Seq(Nat) /\ picks \in Seq(Seq(Int))
        /\ Len(current) = Len(added) /\ Len(max) = Len(added) /\ Len(picks) = Len(added)
    BY <1>0 DEF TypeOK
  <2>2. Transports = 1..Len(added) /\ Len(added) \in Nat
    BY <1>0 DEF TypeOK, Transports
  <2>3. current[t] + 1 \in DOMAIN c.targets /\ max[t] \in 1..MaxWeight(ts)
    BY <1>0, <1>1, <1>2 DEF TypeOK
  <2>4. current[t] \in Nat
    BY <1>2, <2>1, <2>2
  <2> QED BY <2>1, <2>2, <2>3, <2>4
<1>4. Turns(c, picks[t], current[t], max[t])
  BY <1>0, <1>1, <1>2 DEF AllTurns
<1> HIDE DEF t, c
<1>5. /\ choice[1] \in Nat /\ choice[1] + 1 \in DOMAIN c.targets /\ choice[2] \in 1..MaxWeight(ts)
      /\ Turns(c, counts, choice[1], choice[2])
  <2>1. CASE weighted
    BY <2>1, <1>1, <1>2, <1>3, <1>4, WeightedTurn
  <2>2. CASE ~ weighted
    <3>1. c.lb = "round_robin"
      BY <2>2, <1>1, <1>2 DEF Valid
    <3> QED BY <2>2, <3>1, <1>1, <1>2, <1>3, <1>4, RoundRobinTurn
  <2> QED BY <2>1, <2>2
<1>6. counts \in Seq(Int) /\ MaxWeight(ts) \in Nat
  <2> DEFINE n == Len(ts)
  <2>1. HasWeights(ts) /\ n \in Nat \ {0} /\ DOMAIN c.targets = 1..n /\ choice[1] \in 0..n - 1
    <3>1. HasWeights(ts) /\ n \in Nat \ {0} /\ DOMAIN c.targets = 1..n
      BY <1>1, <1>2, TargetsAre, ConfigIs DEF HasWeights
    <3> HIDE DEF n, choice
    <3> QED BY <3>1, <1>5
  <2>2. IsShare(n, Top(ts), WeightedShare(ts)) /\ IsShare(n, 1, EqualShare(ts))
    BY <2>1, SharesAre
  <2> HIDE DEF counts, choice, n, ts
  <2>3. counts \in [1..n -> Int]
    <3>1. CASE c.lb = "round_robin"
      <4>1. InTurn(counts, EqualShare(ts), 1, choice[1], 1)
        BY <3>1, <1>5 DEF Turns, ShareOf, ts
      <4>2. 1 \in 1..1
        OBVIOUS
      <4> QED BY <4>1, <4>2, <2>1, <2>2, InTurnIs
    <3>2. CASE c.lb # "round_robin"
      <4>1. /\ InTurn(counts, WeightedShare(ts), Top(ts), choice[1], choice[2] \div Gcd(ts))
            /\ choice[2] \div Gcd(ts) \in 1..Top(ts)
        BY <3>2, <1>5 DEF Turns, ShareOf, IsLevel, ts
      <4> QED BY <4>1, <2>1, <2>2, InTurnIs
    <3> QED BY <3>1, <3>2
  <2>4. MaxWeight(ts) \in Nat
    BY <2>1, MaxWeightIs
  <2>5. counts \in Seq(Int)
    BY <2>1, <2>3, SeqDef
  <2> QED BY <2>4, <2>5
<1>7. Config(w).target = "domain" /\ \E i \in DOMAIN Config(w).targets : Config(w).targets[i].host = host
  <2>1. ts[choice[1] + 1].host = c.targets[choice[1] + 1].host
    BY <1>1, <1>2, <1>5, TargetsAre
  <2> HIDE DEF choice
  <2> QED BY <2>1, <1>1, <1>5 DEF c
<1> HIDE DEF counts, choice, host
<1>8. /\ pc' \in [Workers -> Places] /\ path' = path /\ trans' = trans
      /\ \A v \in Workers : pc'[v] # "idle" => trans'[v] \in Transports
      /\ url' \in [Workers -> (Hosts \cup {Nobody}) \X Seq(Pieces)]
      /\ header' = header /\ verdict' = verdict /\ written' = written /\ UNCHANGED routeVars
  BY <1>1, <1>7, SelectedTypes
<1>9. added' = added /\ Transports' = Transports /\ serving' = serving
      /\ fullMatch' = fullMatch /\ prefixMatch' = prefixMatch
  BY <1>8 DEF routeVars, Transports
<1>10. /\ current' \in Seq(Nat) /\ max' \in Seq(Nat) /\ picks' \in Seq(Seq(Int))
       /\ Len(current') = Len(added) /\ Len(max') = Len(added) /\ Len(picks') = Len(added)
       /\ current'[t] = choice[1] /\ max'[t] = choice[2] /\ picks'[t] = counts
       /\ \A x \in Transports \ {t} : current'[x] = current[x] /\ max'[x] = max[x] /\ picks'[x] = picks[x]
  <2>1. choice[2] \in Nat
    BY <1>5, <1>6
  <2>2. current' \in Seq(Nat) /\ Len(current') = Len(added)
    BY <1>1, <1>2, <1>3, <1>5, ExceptSeq
  <2>3. max' \in Seq(Nat) /\ Len(max') = Len(added)
    BY <1>1, <1>2, <1>3, <2>1, ExceptSeq
  <2>4. picks' \in Seq(Seq(Int)) /\ Len(picks') = Len(added)
    BY <1>1, <1>2, <1>3, <1>6, ExceptSeq
  <2>5. DOMAIN current = Transports /\ DOMAIN max = Transports /\ DOMAIN picks = Transports
    BY <1>3
  <2> QED BY <2>2, <2>3, <2>4, <2>5, <1>1, <1>2
<1>11. TypeOK'
  <2>1. ASSUME NEW x \in Transports, added[x].target = "domain"
        PROVE  current'[x] + 1 \in DOMAIN added[x].targets /\ max'[x] \in 1..MaxWeight(TargetsOf(added[x]))
    <3>1. CASE x = t
      BY <3>1, <1>2, <1>5, <1>10
    <3>2. CASE x # t
      BY <3>2, <2>1, <1>0, <1>10 DEF TypeOK
    <3> QED BY <3>1, <3>2
  <2> QED BY <2>1, <1>0, <1>8, <1>9, <1>10 DEF TypeOK
<1>12. AllTurns'
  <2>1. ASSUME NEW x \in Transports, added[x].target = "domain"
        PROVE  Turns(added[x], picks'[x], current'[x], max'[x])
    <3>1. CASE x = t
      BY <3>1, <1>2, <1>5, <1>10
    <3>2. CASE x # t
      BY <3>2, <2>1, <1>0, <1>10 DEF AllTurns
    <3> QED BY <3>1, <3>2
  <2> QED BY <2>1, <1>9 DEF AllTurns
<1> QED BY <1>1, <1>7, <1>11, <1>12, SelectedKeeps

LEMMA NextKeeps == IInv /\ [Next]_vars => IInv'
<1> SUFFICES ASSUME IInv, [Next]_vars PROVE IInv'
  OBVIOUS
<1>1. ASSUME NEW c \in Configs, AddRouter(c) PROVE IInv'
  BY <1>1, AddRouterKeeps
<1>2. CASE Serve
  BY <1>2, ServeKeeps
<1>3. ASSUME NEW w \in Workers, NEW p \in Paths, Request(w, p) PROVE IInv'
  BY <1>3, RequestKeeps
<1>4. ASSUME NEW w \in Workers, Step(w) PROVE IInv'
  <2>1. CASE ReadBody(w) \/ SelectMock(w) \/ Forward(w)
    BY <2>1, MoveKeeps DEF ReadBody, SelectMock, Forward
  <2>2. CASE BodyError(w)
    BY <2>2, AnswerKeeps DEF BodyError, Answers
  <2>3. CASE SelectFails(w)
    BY <2>3, AnswerKeeps DEF SelectFails, Answers
  <2>4. CASE Mock(w)
    BY <2>4, AnswerKeeps DEF Mock, Answers
  <2>5. CASE Refuse(w)
    BY <2>5, AnswerKeeps DEF Refuse, Answers
  <2>6. CASE AuthPanics(w)
    BY <2>6, AnswerKeeps DEF AuthPanics, Answers
  <2>7. CASE Response(w)
    BY <2>7, AnswerKeeps DEF Response, Answers
  <2>11. CASE NoRequest(w)
    BY <2>11, AnswerKeeps DEF NoRequest, Answers
  <2>8. CASE SelectTarget(w)
    BY <2>8, SelectTargetKeeps
  <2>9. CASE SelectInstance(w)
    BY <2>9, SelectInstanceKeeps
  <2>10. CASE Authorize(w)
    BY <2>10, AuthorizeKeeps
  <2> QED BY <1>4, <2>1, <2>2, <2>3, <2>4, <2>5, <2>6, <2>7, <2>8, <2>9, <2>10, <2>11 DEF Step
<1>5. CASE UNCHANGED vars
  <2>1. /\ serving' = serving /\ added' = added /\ fullMatch' = fullMatch /\ prefixMatch' = prefixMatch
        /\ current' = current /\ max' = max /\ picks' = picks /\ pc' = pc /\ path' = path
        /\ trans' = trans /\ url' = url /\ header' = header /\ verdict' = verdict /\ written' = written
        /\ Transports' = Transports
    BY <1>5 DEF vars, routeVars, selectorVars, requestVars, Transports
  <2>2. UNCHANGED <<routeVars, selectorVars>> /\ TypeOK /\ ValidAdded /\ Tables /\ Stages /\ OneAnswer /\ AllTurns
    BY <1>5 DEF vars, routeVars, selectorVars, IInv
  <2>3. TypeOK' /\ OneAnswer'
    BY <2>1, <2>2 DEF TypeOK, OneAnswer
  <2>4. Stages'
    BY <2>1, <2>2, SameStage DEF Stages
  <2> QED BY <2>2, <2>3, <2>4, SameRoutes, SameTurns DEF IInv
<1> QED BY <1>1, <1>2, <1>3, <1>4, <1>5 DEF Next

-------------------------------------------------------------------------------
(* What the invariant implies. *)

\* All of the above holds in every behaviour.
LEMMA Invariance == Spec => []IInv
<1>1. Init => IInv
  BY InitHolds
<1>2. IInv /\ [Next]_vars => IInv'
  BY NextKeeps
<1> QED BY <1>1, <1>2, PTL DEF Spec

\* The state has the types of TypeOK: above all, a request under way has a
\* transport, and the index of every selector is one of its targets.
THEOREM TypeCorrect == Spec => []TypeOK
<1>1. IInv => TypeOK
  BY DEF IInv
<1> QED BY <1>1, Invariance, PTL

\* A request is served by the best of the routes that match its path (last full
\* match, else last of the longest prefix), however the routes were added, and
\* what is sent is what that route makes of the path.
THEOREM RightRouteHolds == Spec => []RightRoute
<1>1. IInv => RightRoute
  BY DEF IInv, Stages, Stage, RightRoute
<1> QED BY <1>1, Invariance, PTL

\* Nothing is sent to a host unless its own request was authorized where the
\* route asks for that, and with no headers but those of that authorization.
THEOREM AuthorizedOnlyHolds == Spec => []AuthorizedOnly
<1>1. IInv => AuthorizedOnly
  BY DEF IInv, Stages, Stage, AuthorizedOnly
<1> QED BY <1>1, Invariance, PTL

\* Every request that is over has had exactly one answer, and none had one before.
THEOREM OneAnswerHolds == Spec => []OneAnswer
<1>1. IInv => OneAnswer
  BY DEF IInv
<1> QED BY <1>1, Invariance, PTL

\* However requests overlap, a full cycle of a transport's selector chooses every
\* target as often as its weight says.
THEOREM BalancedHolds == Spec => []Balanced
<1>1. ASSUME IInv, NEW t \in Transports, added[t].target = "domain"
      PROVE  LET share == ShareOf(added[t])
             IN  Total(picks[t]) = Total(share) => picks[t] = share
  <2> DEFINE c == added[t]
             ts == TargetsOf(c)
             n == Len(ts)
  <2>1. c \in Configs /\ Valid(c) /\ Turns(c, picks[t], current[t], max[t])
        /\ current[t] + 1 \in DOMAIN c.targets /\ current[t] \in Nat
    <3>1. TypeOK /\ ValidAdded /\ AllTurns
      BY <1>1 DEF IInv
    <3>2. added \in Seq(Configs) /\ current \in Seq(Nat) /\ Len(current) = Len(added)
      BY <3>1 DEF TypeOK
    <3>3. t \in 1..Len(added) /\ c \in Configs /\ current[t] \in Nat
      BY <3>2, <1>1 DEF Transports
    <3>4. current[t] + 1 \in DOMAIN c.targets
      BY <3>1, <1>1 DEF TypeOK
    <3>5. Valid(c) /\ Turns(c, picks[t], current[t], max[t])
      BY <3>1, <1>1 DEF ValidAdded, AllTurns
    <3> QED BY <3>3, <3>4, <3>5
  <2>2. HasWeights(ts) /\ n \in Nat \ {0} /\ DOMAIN c.targets = 1..n
    BY <2>1, <1>1, TargetsAre, ConfigIs DEF HasWeights
  <2>3. IsShare(n, Top(ts), WeightedShare(ts)) /\ IsShare(n, 1, EqualShare(ts))
    BY <2>2, SharesAre
  <2>4. current[t] \in 0..n - 1
    <3> HIDE DEF n, c, ts
    <3> QED BY <2>1, <2>2
  <2>5. CASE c.lb = "round_robin"
    <3>1. InTurn(picks[t], EqualShare(ts), 1, current[t], 1) /\ 1 \in 1..1
      BY <2>5, <2>1 DEF Turns, ShareOf
    <3>2. Total(picks[t]) = Total(EqualShare(ts)) => picks[t] = EqualShare(ts)
      BY <3>1, <2>3, <2>4, InTurnIs
    <3> QED BY <3>2, <2>5 DEF ShareOf
  <2>6. CASE c.lb # "round_robin"
    <3>1. /\ InTurn(picks[t], WeightedShare(ts), Top(ts), current[t], max[t] \div Gcd(ts))
          /\ max[t] \div Gcd(ts) \in 1..Top(ts)
      BY <2>6, <2>1 DEF Turns, ShareOf, IsLevel
    <3>2. Total(picks[t]) = Total(WeightedShare(ts)) => picks[t] = WeightedShare(ts)
      BY <3>1, <2>3, <2>4, InTurnIs
    <3> QED BY <3>2, <2>6 DEF ShareOf
  <2> QED BY <2>5, <2>6
<1>2. IInv => Balanced
  BY <1>1 DEF Balanced, ShareOf
<1> QED BY <1>2, Invariance, PTL
-------------------------------------------------------------------------------
\* RegexpCache: every request gets the answer its expression gives, and one
\* request compiles an expression at a time, a valid one once.

\* The three kinds of functions differ.
LEMMA Kinds ==
    /\ Empty # Compiled
    /\ \A c : Waiting(c) # Empty /\ Waiting(c) # Compiled /\ Waiting(c).on = c
    /\ \A c : Waiting(c).kind = "waiting"
    /\ Empty.kind = "none" /\ Compiled.kind = "compiled"
    /\ \A c, d : Waiting(c) = Waiting(d) => c = d
  BY DEF Empty, Compiled, Waiting

\* Who compiles is who left the function to wait in.
Owner ==
    \A c \in Calls : \A e \in Exprs :
        cache[e] = Waiting(c) <=> expr[c] = e /\ callPc[c] \in {"compile", "publish"}

\* A call computes the result of its own expression, before it releases the others.
Computed ==
    \A c \in Calls :
        /\ result[c] # "unset" => result[c] = IF expr[c] \in Compilable THEN "regexp" ELSE "nil"
        /\ callPc[c] \in {"publish", "release"} \/ c \in released => result[c] # "unset"
        /\ callPc[c] \in {"idle", "compile"} => result[c] = "unset"

\* A valid expression that was compiled stays in the cache.
Cached ==
    /\ \A e \in Exprs : cache[e] = Compiled => e \in Compilable
    /\ \A c \in Calls : result[c] = "regexp" /\ callPc[c] # "publish" => cache[expr[c]] = Compiled

\* The function that a call has is one of its own expression.
Got ==
    \A c \in Calls :
        /\ \A d \in Calls : got[c] = Waiting(d) => expr[d] = expr[c]
        /\ got[c] = Compiled => expr[c] \in Compilable
        /\ got[c] = Empty /\ callPc[c] \in {"use", "done"} => expr[c] \notin Compilable

CacheIInv == CacheTypeOK /\ Owner /\ Computed /\ Cached /\ Got /\ RightAnswer

LEMMA IInvImplies == CacheIInv => OneCompiles
  BY Kinds DEF CacheIInv, OneCompiles, Owner, Cached, Computed, CacheTypeOK

LEMMA CacheInitIInv == CacheInit => CacheIInv
  BY Kinds, RegexpCacheAssumption
  DEF CacheInit, CacheIInv, CacheTypeOK, Functions, Owner, Computed, Cached, Got, RightAnswer

LEMMA CacheNextIInv == CacheIInv /\ [CacheNext]_cacheVars => CacheIInv'
<1> SUFFICES ASSUME CacheIInv, [CacheNext]_cacheVars PROVE CacheIInv'
  OBVIOUS
<1> USE DEF CacheIInv
<1>1. ASSUME NEW c \in Calls, LoadOrStore(c) PROVE CacheIInv'
  <2>1. CacheTypeOK'
    BY <1>1 DEF CacheTypeOK, LoadOrStore, Goto, Functions
  <2>2. Owner'
    BY <1>1, Kinds DEF CacheTypeOK, LoadOrStore, Goto, Owner
  <2>3. Computed'
    BY <1>1 DEF CacheTypeOK, LoadOrStore, Goto, Computed
  <2>4. Cached'
    BY <1>1, Kinds DEF CacheTypeOK, LoadOrStore, Goto, Cached, Computed
  <2>5. Got'
    BY <1>1, Kinds DEF CacheTypeOK, LoadOrStore, Goto, Got, Owner, Cached
  <2>6. RightAnswer'
    BY <1>1 DEF CacheTypeOK, LoadOrStore, RightAnswer
  <2> QED BY <2>1, <2>2, <2>3, <2>4, <2>5, <2>6
<1>2. ASSUME NEW c \in Calls, Compile(c) PROVE CacheIInv'
  <2>1. CacheTypeOK'
    BY <1>2 DEF CacheTypeOK, Compile, Goto
  <2>2. Owner'
    BY <1>2 DEF CacheTypeOK, Compile, Goto, Owner
  <2>3. Computed'
    BY <1>2 DEF CacheTypeOK, Compile, Goto, Computed
  <2>4. Cached'
    BY <1>2 DEF CacheTypeOK, Compile, Goto, Cached
  <2>5. Got'
    BY <1>2 DEF CacheTypeOK, Compile, Goto, Got
  <2>6. RightAnswer'
    BY <1>2 DEF CacheTypeOK, Compile, RightAnswer
  <2> QED BY <2>1, <2>2, <2>3, <2>4, <2>5, <2>6
<1>3. ASSUME NEW c \in Calls, Publish(c) PROVE CacheIInv'
  <2>0. cache[expr[c]] = Waiting(c) /\ expr[c] \in Exprs
    BY <1>3 DEF CacheTypeOK, Publish, Owner
  <2>1. CacheTypeOK'
    BY <1>3 DEF CacheTypeOK, Publish, Goto, Functions
  <2>2. Owner'
    BY <1>3, <2>0, Kinds DEF CacheTypeOK, Publish, Goto, Owner
  <2>3. Computed'
    BY <1>3 DEF CacheTypeOK, Publish, Goto, Computed
  <2>4. Cached'
    BY <1>3, <2>0, Kinds DEF CacheTypeOK, Publish, Goto, Cached, Computed
  <2>5. Got'
    BY <1>3 DEF CacheTypeOK, Publish, Goto, Got
  <2>6. RightAnswer'
    BY <1>3 DEF CacheTypeOK, Publish, RightAnswer
  <2> QED BY <2>1, <2>2, <2>3, <2>4, <2>5, <2>6
<1>4. ASSUME NEW c \in Calls, Release(c) PROVE CacheIInv'
  <2>1. CacheTypeOK'
    BY <1>4 DEF CacheTypeOK, Release, Goto, Functions
  <2>2. Owner'
    BY <1>4 DEF CacheTypeOK, Release, Goto, Owner
  <2>3. Computed'
    BY <1>4 DEF CacheTypeOK, Release, Goto, Computed
  <2>4. Cached'
    BY <1>4 DEF CacheTypeOK, Release, Goto, Cached
  <2>5. Got'
    BY <1>4, Kinds DEF CacheTypeOK, Release, Goto, Got, Computed
  <2>6. RightAnswer'
    BY <1>4 DEF CacheTypeOK, Release, RightAnswer
  <2> QED BY <2>1, <2>2, <2>3, <2>4, <2>5, <2>6
<1>5. ASSUME NEW c \in Calls, Use(c) PROVE CacheIInv'
  <2>0. Outcome(c) = IF expr[c] \in Compilable THEN "regexp" ELSE "nil"
    <3>1. CASE got[c] = Compiled
      BY <3>1, Kinds DEF Outcome, Got
    <3>2. CASE got[c] = Empty
      BY <3>2, <1>5, Kinds DEF Outcome, Got, Use
    <3>3. CASE \E d \in Calls : got[c] = Waiting(d)
      <4> PICK d \in Calls : got[c] = Waiting(d)
        BY <3>3
      <4>1. d \in released /\ expr[d] = expr[c]
        BY <1>5, Kinds DEF Use, Ready, Got
      <4> QED BY <4>1, Kinds DEF Outcome, Computed
    <3> QED BY <3>1, <3>2, <3>3 DEF CacheTypeOK, Functions
  <2>1. answer' = [answer EXCEPT ![c] =
                     IF <<expr[c], value[c]>> \in Matching THEN "true" ELSE "false"]
    BY <1>5, <2>0, RegexpCacheAssumption DEF Use, CacheTypeOK
  <2>2. CacheTypeOK'
    BY <1>5, <2>1 DEF CacheTypeOK, Use, Goto
  <2>3. Owner' /\ Computed' /\ Cached' /\ Got'
    BY <1>5 DEF CacheTypeOK, Use, Goto, Owner, Computed, Cached, Got
  <2>4. RightAnswer'
    BY <1>5, <2>1 DEF CacheTypeOK, Use, RightAnswer
  <2> QED BY <2>2, <2>3, <2>4
<1>6. CASE UNCHANGED cacheVars
  BY <1>6 DEF cacheVars, CacheTypeOK, Owner, Computed, Cached, Got, RightAnswer
<1> QED BY <1>1, <1>2, <1>3, <1>4, <1>5, <1>6 DEF CacheNext, CallStep

\* The types, for every instance.
THEOREM RegexpCacheTypes == CacheSpec => []CacheTypeOK
<1>1. CacheIInv => CacheTypeOK
  BY DEF CacheIInv
<1> QED BY <1>1, CacheInitIInv, CacheNextIInv, PTL DEF CacheSpec

\* Every request gets the answer of its own expression, whoever compiled it.
THEOREM RegexpCacheRight == CacheSpec => []RightAnswer
<1>1. CacheIInv => RightAnswer
  BY DEF CacheIInv
<1> QED BY <1>1, CacheInitIInv, CacheNextIInv, PTL DEF CacheSpec

\* One request compiles an expression at a time, and a valid one only once.
THEOREM RegexpCacheOnce == CacheSpec => []OneCompiles
<1> QED BY IInvImplies, CacheInitIInv, CacheNextIInv, PTL DEF CacheSpec
===============================================================================
