----------------------------- MODULE LoadBalancer -----------------------------
(***************************************************************************)
(* One NearbyLoadBalancer: SetServers splits a list of servers by region,  *)
(* zone and version, and goroutines choose from the part that is nearest   *)
(* to the process and has the version of the request, by round robin or    *)
(* by weighted round robin.                                                *)
(*                                                                         *)
(* ChooseServer holds the read lock, so choosing goroutines run together   *)
(* and their plain reads and writes of incr, current and max interleave;   *)
(* SetServers holds the write lock and is one step.                        *)
(***************************************************************************)
EXTENDS Weights

CONSTANTS
    Lists,      \* lists of servers that discovery may hand over
    Versions,   \* versions a request may ask for
    Default,    \* DefaultVersion
    Home,       \* region and zone of the process
    Policies,   \* values of LbPolicy
    Pickers     \* goroutines that choose

ASSUME LoadBalancerAssumption ==
    /\ <<>> \notin Lists
    /\ Lists \subseteq Seq([version : STRING, weight : Nat \ {0}, region : STRING, zone : STRING])
    /\ Default \in Versions
    /\ Policies \subseteq {"round_robin", "weighted_round_robin"}

VARIABLES
    policy,         \* LbPolicy
    servers,        \* allServers
    buckets,        \* per version: the servers of its balancer, in its order
    incr,           \* roundRobinLoadBalancer.incr per version, modulo the servers
    current, max,   \* weightRoundRobinLoadBalancer, per version
    pc, asks,       \* per goroutine: place, version of the request
    tmp,            \* per goroutine: a value it has loaded
    answer,         \* per goroutine: the place in its bucket it returns, 0 for none
    picks,          \* history: choices of each place since the last full cycle, by
                    \* goroutines that had the bucket to themselves
    shared          \* history: buckets two goroutines have used at once

rrVars == <<incr>>
wrrVars == <<current, max>>
pickVars == <<pc, asks, tmp, answer>>
history == <<picks, shared>>
vars == <<policy, servers, buckets, rrVars, wrrVars, pickVars, history>>

-------------------------------------------------------------------------------
(* The lists SetServers builds. *)

\* The servers of list that are in the set keep, in their order.
Only(list, keep) ==
    LET upTo[i \in 0..Len(list)] ==
            IF i = 0 THEN <<>>
            ELSE IF list[i] \in keep THEN Append(upTo[i - 1], list[i])
            ELSE upTo[i - 1]
    IN  upTo[Len(list)]

InRegion(list) == {s \in Range(list) : s.region = Home.region}
InZone(list) == {s \in InRegion(list) : s.zone = Home.zone}

\* The nearest servers: those of the zone, else of the region, else all.
Nearest(list) ==
    IF InZone(list) # {} THEN Only(list, InZone(list))
    ELSE IF InRegion(list) # {} THEN Only(list, InRegion(list))
    ELSE list

\* versionLoadBalancer: every server is in the default bucket too.
OfVersion(list, v) == Only(list, {s \in Range(list) : v = Default \/ s.version = v})

\* Round robin shuffles; the servers of a region come in the order of a Go map.
Ordered(list) == policy # "round_robin" /\ (InZone(list) # {} \/ InRegion(list) = {})
Reorder(seq, f) == [i \in DOMAIN seq |-> seq[f[i]]]
Orders(seq) == {f \in [DOMAIN seq -> DOMAIN seq] : Range(f) = DOMAIN seq}
Split(list) ==
    {b \in [Versions -> UNION {{Reorder(OfVersion(Nearest(list), v), f) :
                                  f \in Orders(OfVersion(Nearest(list), v))} : v \in Versions}] :
        \A v \in Versions :
            IF Ordered(list) THEN b[v] = OfVersion(Nearest(list), v)
            ELSE \E f \in Orders(OfVersion(Nearest(list), v)) :
                    b[v] = Reorder(OfVersion(Nearest(list), v), f)}

\* How often a full cycle of the policy chooses each place.
Share(seq) == IF policy = "round_robin" THEN EqualShare(seq) ELSE WeightedShare(seq)

\* Goroutines that lower max together may drive it ever further below 0: one
\* value stands for all of these.
Below == -1

-------------------------------------------------------------------------------
Init ==
    /\ policy \in Policies
    /\ servers = <<>> /\ buckets = [v \in Versions |-> <<>>]
    /\ incr = [v \in Versions |-> 0]
    /\ current = [v \in Versions |-> 0] /\ max = [v \in Versions |-> 0]
    /\ pc = [p \in Pickers |-> "idle"] /\ asks = [p \in Pickers |-> Default]
    /\ tmp = [p \in Pickers |-> 0] /\ answer = [p \in Pickers |-> 0]
    /\ picks = [v \in Versions |-> <<>>] /\ shared = {}

\* Mutant: the indexes of the old balancers are kept.
SetServersKeepingIndexes(list) ==
    /\ \A p \in Pickers : pc[p] = "idle"
    /\ servers' = list
    /\ buckets' \in Split(list)
    /\ max' = [v \in Versions |-> IF buckets'[v] = <<>> THEN 0 ELSE MaxWeight(buckets'[v])]
    /\ picks' = [v \in Versions |-> NoCounts(buckets'[v])]
    /\ shared' = {}
    /\ UNCHANGED <<policy, incr, current, pickVars>>

\* Under the write lock: nobody is choosing.  New balancers start from scratch.
SetServers(list) ==
    /\ \A p \in Pickers : pc[p] = "idle"
    /\ servers' = list
    /\ buckets' \in Split(list)
    /\ incr' = [v \in Versions |-> 0]
    /\ current' = [v \in Versions |-> 0]
    /\ max' = [v \in Versions |-> IF buckets'[v] = <<>> THEN 0 ELSE MaxWeight(buckets'[v])]
    /\ picks' = [v \in Versions |-> NoCounts(buckets'[v])]
    /\ shared' = {}
    /\ UNCHANGED <<policy, pickVars>>

\* The bucket of a request: of its version, or the default one.
BucketOf(v) == IF buckets[v] = <<>> THEN Default ELSE v
From(p) == BucketOf(asks[p])
Bucket(p) == buckets[From(p)]

\* Another goroutine is choosing from bucket b.
Occupied(p, b) == \E q \in Pickers \ {p} : pc[q] # "idle" /\ From(q) = b

Request(p, v) ==
    /\ pc[p] = "idle"
    /\ servers # <<>>
    /\ pc' = [pc EXCEPT ![p] = IF policy = "round_robin" THEN "read" ELSE "load"]
    /\ asks' = [asks EXCEPT ![p] = v]
    /\ LET b == BucketOf(v) IN
       IF Occupied(p, b)
       THEN shared' = shared \cup {b} /\ picks' = [picks EXCEPT ![b] = NoCounts(buckets[b])]
       ELSE UNCHANGED history
    /\ UNCHANGED <<policy, servers, buckets, rrVars, wrrVars, tmp, answer>>

-------------------------------------------------------------------------------
At(p, here, there) ==
    /\ pc[p] = here
    /\ pc' = [pc EXCEPT ![p] = there]
    /\ UNCHANGED <<policy, servers, buckets, asks, history>>

Load(p, val) == tmp' = [tmp EXCEPT ![p] = val] /\ UNCHANGED answer

(* roundRobinLoadBalancer.ChooseServer: ret is read, then incr is incremented. *)

RoundRobinRead(p) ==
    /\ At(p, "read", "incr")
    /\ answer' = [answer EXCEPT ![p] = incr[From(p)] + 1]
    /\ UNCHANGED <<rrVars, wrrVars, tmp>>

\* incr++ reads it again.
RoundRobinIncr(p) ==
    /\ At(p, "incr", "write")
    /\ Load(p, incr[From(p)])
    /\ UNCHANGED <<rrVars, wrrVars>>

RoundRobinWrite(p) ==
    /\ At(p, "write", "return")
    /\ incr' = [incr EXCEPT ![From(p)] = (tmp[p] + 1) % Len(Bucket(p))]
    /\ UNCHANGED <<wrrVars, tmp, answer>>

(* weightRoundRobinLoadBalancer.ChooseServer, a loop over current and max. *)

LoadCurrent(p) ==
    /\ At(p, "load", "store")
    /\ Load(p, current[From(p)])
    /\ UNCHANGED <<rrVars, wrrVars>>

StoreCurrent(p) ==
    /\ At(p, "store", "wrapped")
    /\ current' = [current EXCEPT ![From(p)] = (tmp[p] + 1) % Len(Bucket(p))]
    /\ UNCHANGED <<rrVars, max, tmp, answer>>

\* if w.current == 0
Wrapped(p) ==
    /\ At(p, "wrapped", IF current[From(p)] = 0 THEN "lower" ELSE "test")
    /\ UNCHANGED <<rrVars, wrrVars, tmp, answer>>

LoadMax(p) ==
    /\ At(p, "lower", "lowered")
    /\ Load(p, max[From(p)])
    /\ UNCHANGED <<rrVars, wrrVars>>

\* Mutant: max is lowered by one, not by the gcd.
StoreMaxLessOne(p) ==
    /\ At(p, "lowered", "reset")
    /\ max' = [max EXCEPT ![From(p)] = IF tmp[p] <= 1 THEN 0 ELSE tmp[p] - 1]
    /\ UNCHANGED <<rrVars, current, tmp, answer>>

StoreMax(p) ==
    /\ At(p, "lowered", "reset")
    /\ LET less == tmp[p] - Gcd(Bucket(p)) IN
       max' = [max EXCEPT ![From(p)] = IF less < 0 THEN Below ELSE less]
    /\ UNCHANGED <<rrVars, current, tmp, answer>>

\* Mutant: == for <=.
TestMaxIsZero(p) ==
    /\ At(p, "reset", IF max[From(p)] = 0 THEN "top" ELSE "test")
    /\ UNCHANGED <<rrVars, wrrVars, tmp, answer>>

\* if w.max <= 0
TestMax(p) ==
    /\ At(p, "reset", IF max[From(p)] <= 0 THEN "top" ELSE "test")
    /\ UNCHANGED <<rrVars, wrrVars, tmp, answer>>

ResetMax(p) ==
    /\ At(p, "top", "test")
    /\ max' = [max EXCEPT ![From(p)] = MaxWeight(Bucket(p))]
    /\ UNCHANGED <<rrVars, current, tmp, answer>>

\* Mutant: > for >=.
TestAbove(p) ==
    /\ At(p, "test", IF Bucket(p)[current[From(p)] + 1].weight > max[From(p)]
                     THEN "take" ELSE "load")
    /\ UNCHANGED <<rrVars, wrrVars, tmp, answer>>

\* current is read for the test and read again for the result.
Test(p) ==
    /\ At(p, "test", IF Bucket(p)[current[From(p)] + 1].weight >= max[From(p)]
                     THEN "take" ELSE "load")
    /\ UNCHANGED <<rrVars, wrrVars, tmp, answer>>

Take(p) ==
    /\ At(p, "take", "return")
    /\ answer' = [answer EXCEPT ![p] = current[From(p)] + 1]
    /\ UNCHANGED <<rrVars, wrrVars, tmp>>

Return(p) ==
    /\ pc[p] = "return"
    /\ pc' = [pc EXCEPT ![p] = "idle"]
    /\ asks' = [asks EXCEPT ![p] = Default]
    /\ tmp' = [tmp EXCEPT ![p] = 0]
    /\ answer' = [answer EXCEPT ![p] = 0]
    /\ LET b == From(p) IN
       picks' = IF Occupied(p, b) THEN picks
                ELSE [picks EXCEPT ![b] = Counted(@, answer[p], Share(buckets[b]))]
    /\ UNCHANGED <<policy, servers, buckets, rrVars, wrrVars, shared>>

-------------------------------------------------------------------------------
Step(p) ==
    \/ RoundRobinRead(p) \/ RoundRobinIncr(p) \/ RoundRobinWrite(p)
    \/ LoadCurrent(p) \/ StoreCurrent(p) \/ Wrapped(p) \/ LoadMax(p) \/ StoreMax(p)
    \/ TestMax(p) \/ ResetMax(p) \/ Test(p) \/ Take(p) \/ Return(p)

Next ==
    \/ \E list \in Lists : SetServers(list)
    \/ \E p \in Pickers : (\E v \in Versions : Request(p, v)) \/ Step(p)

\* Goroutines that choose are scheduled.
Fairness == \A p \in Pickers : WF_vars(Step(p))

Spec == Init /\ [][Next]_vars /\ Fairness

-------------------------------------------------------------------------------
TypeOK ==
    /\ policy \in Policies
    /\ servers \in Lists \cup {<<>>}
    /\ DOMAIN buckets = Versions /\ DOMAIN picks = Versions
    /\ incr \in [Versions -> Nat] /\ current \in [Versions -> Nat]
    /\ max \in [Versions -> Nat \cup {Below}]
    /\ \A v \in Versions :
          /\ buckets[v] \in Seq(Range(servers))
          /\ \/ incr[v] + 1 \in DOMAIN buckets[v] /\ current[v] + 1 \in DOMAIN buckets[v]
             \/ buckets[v] = <<>>
          /\ DOMAIN picks[v] = DOMAIN buckets[v]
    /\ pc \in [Pickers -> {"idle", "read", "incr", "write", "load", "store", "wrapped", "lower",
                           "lowered", "reset", "top", "test", "take", "return"}]
    /\ asks \in [Pickers -> Versions]
    /\ tmp \in [Pickers -> Nat \cup {Below}]
    /\ answer \in [Pickers -> Nat]
    /\ shared \subseteq Versions

Distance(s) ==
    CASE s.region # Home.region -> 2
      [] s.region = Home.region /\ s.zone # Home.zone -> 1
      [] OTHER -> 0
Closest == {s \in Range(servers) : \A x \in Range(servers) : Distance(s) <= Distance(x)}

\* Whatever the lists, a request rotates over exactly the closest servers of its
\* version: over all of the closest if it asks for the default version or none of
\* them has its version.
Eligible(v) ==
    LET same == {s \in Closest : s.version = v}
    IN  IF v = Default \/ same = {} THEN Closest ELSE same
Rotation == \A v \in Versions : servers # <<>> => Range(buckets[BucketOf(v)]) = Eligible(v)

\* A full cycle of a bucket chooses its servers in proportion to their weights
\* (each once under round robin).
InProportion(v) ==
    buckets[v] # <<>> /\ Total(picks[v]) = Total(Share(buckets[v])) => picks[v] = Share(buckets[v])

\* As long as one goroutine at a time uses a bucket, every full cycle of it is
\* in proportion.
Proportional == \A v \in Versions \ shared : InProportion(v)

\* What the races of goroutines have left in incr, current and max does not stay:
\* once goroutines do not use a bucket at the same time any more, but go on using
\* it, its full cycles come to be in proportion again.
Calm(v) == \A p \in Pickers : pc[p] # "idle" /\ From(p) = v => ~Occupied(p, v)
Chosen(v) == \E p \in Pickers : pc[p] = "return" /\ From(p) = v
Recovers == \A v \in Versions : <>[]Calm(v) /\ []<>Chosen(v) => <>[]InProportion(v)

Alone(p) == ~Occupied(p, From(p))

\* The loop over current and max ends for a goroutine that has the balancer to
\* itself, whatever the races before have left there.  (Two goroutines in lock
\* step can keep each other from ever seeing current = 0, so that neither
\* answers: nothing stronger holds.)
AnswersAlone == \A p \in Pickers : ~<>[](pc[p] # "idle" /\ Alone(p))
===============================================================================
