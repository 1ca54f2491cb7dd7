-------------------------- MODULE LoadBalancerProofs --------------------------
(***************************************************************************)
(* Proofs about the load balancer, for any lists of servers and any number *)
(* of goroutines that choose at once.                                      *)
(*                                                                         *)
(* A bucket holds the nearest servers of its version whatever the order    *)
(* they are put in, and the indexes stay inside the bucket however the     *)
(* loads and stores of the goroutines interleave.  As long as a bucket is  *)
(* not shared, the one goroutine that is choosing from it is at a point of *)
(* the loop that the counts of the bucket stand for.                       *)
(***************************************************************************)
EXTENDS LoadBalancer, WeightsProofs, SequenceTheorems

\* A bucket has the closest servers of its version, the default one has them all.
BucketsOK ==
    \A v \in Versions :
        /\ \A i \in DOMAIN buckets[v] : buckets[v][i].weight \in Nat \ {0}
        /\ Range(buckets[v]) = {s \in Closest : v = Default \/ s.version = v}

\* What a goroutine can count on at its place, whatever the others do.
Local(p) ==
    /\ pc[p] # "idle" => servers # <<>>
    /\ pc[p] \in {"read", "incr", "write"} => policy = "round_robin"
    /\ pc[p] \notin {"idle", "read", "incr", "write", "return"} => policy # "round_robin"
    /\ pc[p] \in {"incr", "write", "return"} => answer[p] \in DOMAIN Bucket(p)

Locals == \A p \in Pickers : Local(p)

\* Two goroutines in one bucket share it.
Sharing ==
    \A p \in Pickers, q \in Pickers :
        pc[p] # "idle" /\ pc[q] # "idle" /\ p # q /\ From(p) = From(q) => From(p) \in shared

\* Round robin has chosen the first k servers of n in this cycle.
FirstOnes(n, counts, k) ==
    \/ counts = [i \in 1..n |-> IF i <= k THEN 1 ELSE 0]
    \/ k = 0 /\ counts = [i \in 1..n |-> 1]

Free(v) == \A p \in Pickers : pc[p] # "idle" => From(p) # v

\* The counts of a bucket are those its balancer stands for between two choices.
Settled(v) ==
    IF policy = "round_robin" THEN FirstOnes(Len(buckets[v]), picks[v], incr[v])
    ELSE AtPlace(buckets[v], picks[v], <<current[v], max[v]>>)

\* Where the goroutine p is in bucket v, which it has to itself.
Midway(p, v) ==
    LET b == buckets[v]
        n == Len(b)
        last == n - 1
    IN  /\ pc[p] = "read" => FirstOnes(n, picks[v], incr[v])
        /\ pc[p] \in {"incr", "write"} => FirstOnes(n, picks[v], incr[v]) /\ answer[p] = incr[v] + 1
        /\ pc[p] = "write" => tmp[p] = incr[v]
        /\ pc[p] = "return" /\ policy = "round_robin" =>
              /\ FirstOnes(n, picks[v], answer[p] - 1)
              /\ incr[v] = IF answer[p] = n THEN 0 ELSE answer[p]
        /\ pc[p] = "load" => AtPlace(b, picks[v], <<current[v], max[v]>>)
        /\ pc[p] = "store" => AtPlace(b, picks[v], <<current[v], max[v]>>) /\ tmp[p] = current[v]
        /\ pc[p] = "wrapped" => \E c \in 0..last :
              /\ AtPlace(b, picks[v], <<c, max[v]>>)
              /\ current[v] = IF c = last THEN 0 ELSE c + 1
        /\ pc[p] \in {"lower", "lowered"} => AtPlace(b, picks[v], <<last, max[v]>>) /\ current[v] = 0
        /\ pc[p] = "lowered" => tmp[p] = max[v]
        /\ pc[p] \in {"reset", "top"} =>
              /\ AtPlace(b, picks[v], <<last, tmp[p]>>) /\ current[v] = 0
              /\ max[v] = IF tmp[p] - Gcd(b) < 0 THEN Below ELSE tmp[p] - Gcd(b)
        /\ pc[p] = "top" => max[v] <= 0
        /\ pc[p] = "test" => \E x \in PlacesOf(b) :
              AtPlace(b, picks[v], x) /\ Moved(b, x) = <<current[v], max[v]>>
        /\ pc[p] = "take" \/ (pc[p] = "return" /\ policy # "round_robin") =>
              AtPlace(b, Counted(picks[v], current[v] + 1, WeightedShare(b)), <<current[v], max[v]>>)
        /\ pc[p] = "take" \/ (pc[p] = "return" /\ policy # "round_robin") =>
              \E x \in PlacesOf(b) : AtPlace(b, picks[v], x)
        /\ pc[p] = "return" /\ policy # "round_robin" => answer[p] = current[v] + 1

\* A bucket that is not shared is settled, or one goroutine is midway in it.
TurnsOK ==
    \A v \in Versions \ shared : buckets[v] # <<>> =>
        /\ Free(v) => Settled(v)
        /\ \A p \in Pickers : pc[p] # "idle" /\ From(p) = v => Midway(p, v)

IInv == TypeOK /\ BucketsOK /\ Locals /\ Sharing /\ TurnsOK

-------------------------------------------------------------------------------
(* The lists. *)

\* The function by which Only is defined, and that it exists.
OnlyStep(list, keep, f, i) ==
    IF i = 0 THEN <<>>
    ELSE IF list[i] \in keep THEN Append(f[i - 1], list[i]) ELSE f[i - 1]
IsOnly(list, keep, f) == f = [i \in 0..Len(list) |-> OnlyStep(list, keep, f, i)]

LEMMA OnlyExists ==
    ASSUME NEW S, NEW list \in Seq(S), NEW keep
    PROVE  \E f : IsOnly(list, keep, f)
<1> DEFINE n == Len(list)
           Upto(g, k) == \A i \in 0..n : i <= k => g[i] = OnlyStep(list, keep, g, i)
           C == {k \in Nat : \E g : DOMAIN g = 0..n /\ Upto(g, k)}
<1>1. n \in Nat
  OBVIOUS
<1> HIDE DEF n
<1>2. 0 \in C
  <2> DEFINE g == [i \in 0..n |-> <<>>]
  <2>1. DOMAIN g = 0..n /\ Upto(g, 0)
    BY <1>1 DEF OnlyStep
  <2> HIDE DEF g, Upto
  <2> QED BY <2>1
<1>3. ASSUME NEW k \in Nat, k \in C PROVE k + 1 \in C
  <2>1. PICK g : DOMAIN g = 0..n /\ Upto(g, k)
    BY <1>3
  <2> DEFINE h == [i \in 0..n |-> OnlyStep(list, keep, g, i)]
  <2>2. DOMAIN h = 0..n
    OBVIOUS
  <2>3. \A i \in 0..n : h[i] = OnlyStep(list, keep, g, i)
    OBVIOUS
  <2> HIDE DEF h
  <2>4. \A i \in 0..n : i <= k + 1 => OnlyStep(list, keep, h, i) = OnlyStep(list, keep, g, i)
    <3>1. \A i \in 0..n : i <= k => h[i] = g[i]
      BY <2>1, <2>3
    <3>2. \A i \in 0..n : i <= k + 1 /\ i # 0 => h[i - 1] = g[i - 1]
      BY <3>1, <1>1
    <3> QED BY <3>2 DEF OnlyStep
  <2>5. Upto(h, k + 1)
    BY <2>3, <2>4
  <2> HIDE DEF Upto
  <2> QED BY <2>2, <2>5
<1>4. n \in C
  <2> HIDE DEF C
  <2> QED BY <1>1, <1>2, <1>3, NatSetInduction
<1>5. PICK g : DOMAIN g = 0..n /\ Upto(g, n)
  BY <1>4
<1> DEFINE h == [i \in 0..n |-> OnlyStep(list, keep, g, i)]
<1>6. \A i \in 0..n : g[i] = OnlyStep(list, keep, g, i)
  BY <1>1, <1>5
<1>7. \A i \in 0..n : h[i] = g[i]
  BY <1>6
<1>8. \A i \in 0..n : OnlyStep(list, keep, h, i) = OnlyStep(list, keep, g, i)
  BY <1>7, <1>1 DEF OnlyStep
<1>9. h = [i \in 0..n |-> OnlyStep(list, keep, h, i)]
  BY <1>8
<1> QED BY <1>9 DEF IsOnly, n

\* Only keeps the servers of the list that are in keep.
LEMMA OnlyIs ==
    ASSUME NEW S, NEW list \in Seq(S), NEW keep
    PROVE  /\ Only(list, keep) \in Seq(S)
           /\ Range(Only(list, keep)) = Range(list) \cap keep
<1> DEFINE n == Len(list)
           chosen == CHOOSE f : f = [i \in 0..n |-> OnlyStep(list, keep, f, i)]
           B == {k \in Nat : k <= n => /\ chosen[k] \in Seq(S)
                                       /\ Range(chosen[k]) = {list[j] : j \in 1..k} \cap keep}
<1>1. Only(list, keep) = chosen[n]
  BY DEF Only, OnlyStep
<1>2. chosen = [i \in 0..n |-> OnlyStep(list, keep, chosen, i)]
  BY OnlyExists DEF IsOnly
<1>3. n \in Nat /\ DOMAIN list = 1..n /\ \A i \in 1..n : list[i] \in S
  OBVIOUS
<1> HIDE DEF chosen, n
<1>4. 0 \in B
  <2>1. chosen[0] = <<>>
    BY <1>2, <1>3 DEF OnlyStep
  <2>2. <<>> \in Seq(S) /\ DOMAIN <<>> = {}
    OBVIOUS
  <2>3. Range(<<>>) = {} /\ {list[j] : j \in 1..0} = {}
    BY <2>2 DEF Range
  <2> QED BY <2>1, <2>2, <2>3
<1>5. ASSUME NEW k \in Nat, k \in B PROVE k + 1 \in B
  <2> SUFFICES ASSUME k + 1 <= n
               PROVE  /\ chosen[k + 1] \in Seq(S)
                      /\ Range(chosen[k + 1]) = {list[j] : j \in 1..k + 1} \cap keep
    OBVIOUS
  <2> DEFINE x == list[k + 1]
             old == chosen[k]
  <2>1. old \in Seq(S) /\ Range(old) = {list[j] : j \in 1..k} \cap keep
    BY <1>3, <1>5
  <2>2. chosen[k + 1] = IF x \in keep THEN Append(old, x) ELSE old
    <3>1. k + 1 \in 0..n /\ k + 1 # 0 /\ (k + 1) - 1 = k
      BY <1>3
    <3>2. chosen[k + 1] = OnlyStep(list, keep, chosen, k + 1)
      BY <1>2, <3>1
    <3> QED BY <3>1, <3>2 DEF OnlyStep
  <2>3. {list[j] : j \in 1..k + 1} = {list[j] : j \in 1..k} \cup {x}
    OBVIOUS
  <2>4. x \in S
    BY <1>3
  <2> HIDE DEF x, old
  <2>5. Range(Append(old, x)) = Range(old) \cup {x} /\ Append(old, x) \in Seq(S)
    <3>1. /\ Append(old, x) \in Seq(S) /\ Len(Append(old, x)) = Len(old) + 1
          /\ \A i \in 1..Len(old) : Append(old, x)[i] = old[i]
          /\ Append(old, x)[Len(old) + 1] = x
      BY <2>1, <2>4, AppendProperties
    <3>2. DOMAIN old = 1..Len(old) /\ Len(old) \in Nat /\ DOMAIN Append(old, x) = 1..Len(old) + 1
      BY <2>1, <3>1, LenProperties
    <3> QED BY <3>1, <3>2 DEF Range
  <2> QED BY <2>1, <2>2, <2>3, <2>5
<1>6. n \in B
  <2> HIDE DEF B
  <2> QED BY <1>3, <1>4, <1>5, NatSetInduction
<1>7. Range(list) = {list[j] : j \in 1..n}
  BY <1>3 DEF Range
<1> QED BY <1>1, <1>3, <1>6, <1>7

ClosestOf(list) == {s \in Range(list) : \A x \in Range(list) : Distance(s) <= Distance(x)}

\* What is known of a list that discovery hands over.
LEMMA ListIs ==
    ASSUME NEW list \in Lists
    PROVE  /\ list \in Seq(Range(list)) /\ list # <<>> /\ Range(list) # {}
           /\ Len(list) \in Nat \ {0} /\ DOMAIN list = 1..Len(list)
           /\ \A s \in Range(list) : s.weight \in Nat \ {0}
<1> DEFINE S == [version : STRING, weight : Nat \ {0}, region : STRING, zone : STRING]
<1>1. list \in Seq(S) /\ list # <<>>
  BY LoadBalancerAssumption DEF LoadBalancerAssumption
<1>2. \A s \in S : s.weight \in Nat \ {0}
  OBVIOUS
<1> HIDE DEF S
<1>3. /\ Len(list) \in Nat \ {0} /\ DOMAIN list = 1..Len(list) /\ list \in [1..Len(list) -> S]
  BY <1>1, LenProperties, EmptySeq
<1>4. list \in [1..Len(list) -> Range(list)] /\ Range(list) \subseteq S /\ list[1] \in Range(list)
  BY <1>3 DEF Range
<1>5. list \in Seq(Range(list))
  BY <1>3, <1>4, SeqDef
<1> QED BY <1>1, <1>2, <1>3, <1>4, <1>5

\* The nearest servers are those at the least distance.
LEMMA NearestIs ==
    ASSUME NEW list \in Lists
    PROVE  /\ Nearest(list) \in Seq(Range(list))
           /\ Range(Nearest(list)) = ClosestOf(list) /\ ClosestOf(list) # {}
<1> DEFINE R == Range(list)
<1>1. list \in Seq(R) /\ R # {}
  BY ListIs
<1>2. InRegion(list) = {s \in R : s.region = Home.region}
  BY DEF InRegion
<1>3. InZone(list) = {s \in R : s.region = Home.region /\ s.zone = Home.zone}
  BY DEF InZone, InRegion
<1>4. ClosestOf(list) = {s \in R : \A x \in R : Distance(s) <= Distance(x)}
  BY DEF ClosestOf
<1>5. \A s \in R : Distance(s) = IF s.region # Home.region THEN 2
                                 ELSE IF s.zone # Home.zone THEN 1 ELSE 0
  BY DEF Distance
<1> HIDE DEF R
<1>6. CASE InZone(list) # {}
  <2>1. PICK z \in R : z.region = Home.region /\ z.zone = Home.zone
    BY <1>6, <1>3
  <2>2. ClosestOf(list) = InZone(list)
    BY <2>1, <1>3, <1>4, <1>5
  <2>3. Nearest(list) = Only(list, InZone(list))
    BY <1>6 DEF Nearest
  <2> QED BY <2>2, <2>3, <1>1, <1>3, <1>6, OnlyIs DEF R
<1>7. CASE InZone(list) = {} /\ InRegion(list) # {}
  <2>1. PICK z \in R : z.region = Home.region
    BY <1>7, <1>2
  <2>2. ClosestOf(list) = InRegion(list)
    BY <2>1, <1>2, <1>3, <1>4, <1>5, <1>7
  <2>3. Nearest(list) = Only(list, InRegion(list))
    BY <1>7 DEF Nearest
  <2> QED BY <2>2, <2>3, <1>1, <1>2, <1>7, OnlyIs DEF R
<1>8. CASE InZone(list) = {} /\ InRegion(list) = {}
  <2>1. ClosestOf(list) = R
    BY <1>2, <1>4, <1>5, <1>8
  <2>2. Nearest(list) = list
    BY <1>8 DEF Nearest
  <2> QED BY <2>1, <2>2, <1>1 DEF R
<1> QED BY <1>6, <1>7, <1>8

\* The servers of a bucket are the closest ones of its version.
LEMMA OfVersionIs ==
    ASSUME NEW list \in Lists, NEW v \in Versions
    PROVE  /\ OfVersion(Nearest(list), v) \in Seq(Range(list))
           /\ Range(OfVersion(Nearest(list), v)) =
                 {s \in ClosestOf(list) : v = Default \/ s.version = v}
<1>1. Nearest(list) \in Seq(Range(list)) /\ Range(Nearest(list)) = ClosestOf(list)
  BY NearestIs
<1> QED BY <1>1, OnlyIs DEF OfVersion

\* What SetServers may put into the bucket of a version, in whatever order.
BucketFor(list, v, b) ==
    /\ b \in Seq(Range(list))
    /\ Range(b) = {s \in ClosestOf(list) : v = Default \/ s.version = v}

\* Every bucket that SetServers builds is such a bucket.
LEMMA SplitIs ==
    ASSUME NEW list \in Lists, NEW b \in Split(list), NEW v \in Versions
    PROVE  BucketFor(list, v, b[v])
<1> DEFINE o == OfVersion(Nearest(list), v)
           n == Len(o)
<1>1. o \in Seq(Range(list)) /\ Range(o) = {s \in ClosestOf(list) : v = Default \/ s.version = v}
  BY OfVersionIs
<1>2. b[v] = o \/ \E f \in Orders(o) : b[v] = Reorder(o, f)
  BY DEF Split
<1> HIDE DEF o
<1>3. n \in Nat /\ DOMAIN o = 1..n /\ o \in [1..n -> Range(list)]
  BY <1>1, LenProperties
<1>4. CASE b[v] = o
  BY <1>1, <1>4 DEF BucketFor
<1>5. ASSUME NEW f \in Orders(o), b[v] = Reorder(o, f)
      PROVE  BucketFor(list, v, b[v])
  <2> DEFINE r == Reorder(o, f)
  <2>1. f \in [1..n -> 1..n] /\ \A j \in 1..n : \E i \in 1..n : f[i] = j
    BY <1>3 DEF Orders, Range
  <2>2. r = [i \in 1..n |-> o[f[i]]]
    BY <1>3 DEF Reorder
  <2> HIDE DEF r, n
  <2>3. r \in [1..n -> Range(list)] /\ DOMAIN r = 1..n
    BY <1>3, <2>1, <2>2
  <2>4. r \in Seq(Range(list))
    BY <1>3, <2>3, SeqDef
  <2>5. \A i \in 1..n : r[i] = o[f[i]]
    BY <2>2
  <2>6. Range(r) = Range(o)
    <3>1. Range(r) \subseteq Range(o)
      BY <1>3, <2>1, <2>3, <2>5 DEF Range
    <3>2. ASSUME NEW j \in 1..n PROVE o[j] \in Range(r)
      BY <2>1, <2>3, <2>5 DEF Range
    <3>3. Range(o) \subseteq Range(r)
      BY <1>3, <3>2 DEF Range
    <3> QED BY <3>1, <3>3
  <2> QED BY <1>1, <1>5, <2>4, <2>6 DEF BucketFor, r
<1> QED BY <1>2, <1>4, <1>5

-------------------------------------------------------------------------------
(* Buckets and the goroutines that use them. *)

\* With servers, the bucket of every version has some.
LEMMA ServedIs ==
    ASSUME TypeOK, BucketsOK, servers # <<>>
    PROVE  /\ servers \in Lists /\ Closest = ClosestOf(servers)
           /\ \A v \in Versions : /\ BucketOf(v) \in Versions
                                  /\ buckets[BucketOf(v)] # <<>>
<1>1. servers \in Lists
  BY DEF TypeOK
<1>2. Closest = ClosestOf(servers)
  BY DEF Closest, ClosestOf
<1>3. Closest # {}
  BY <1>1, <1>2, NearestIs
<1>4. Default \in Versions
  BY LoadBalancerAssumption DEF LoadBalancerAssumption
<1>5. buckets[Default] # <<>>
  <2>1. Range(buckets[Default]) = Closest
    BY <1>4 DEF BucketsOK
  <2>2. Range(<<>>) = {}
    BY DEF Range
  <2> QED BY <1>3, <2>1, <2>2
<1> QED BY <1>1, <1>2, <1>4, <1>5 DEF BucketOf

\* The indexes of a bucket that is not empty are indexes of its servers.
LEMMA BucketIs ==
    ASSUME TypeOK, BucketsOK, NEW v \in Versions, buckets[v] # <<>>
    PROVE  /\ HasWeights(buckets[v])
           /\ Len(buckets[v]) \in Nat \ {0} /\ DOMAIN buckets[v] = 1..Len(buckets[v])
           /\ incr[v] \in 0..Len(buckets[v]) - 1 /\ current[v] \in 0..Len(buckets[v]) - 1
           /\ max[v] \in Nat \cup {Below} /\ DOMAIN picks[v] = 1..Len(buckets[v])
<1> DEFINE b == buckets[v]
           n == Len(b)
<1>1. b \in Seq(Range(servers)) /\ b # <<>>
  BY DEF TypeOK
<1>2. \A i \in DOMAIN b : b[i].weight \in Nat \ {0}
  BY DEF BucketsOK
<1>3. /\ incr[v] \in Nat /\ current[v] \in Nat /\ max[v] \in Nat \cup {Below}
      /\ incr[v] + 1 \in DOMAIN b /\ current[v] + 1 \in DOMAIN b /\ DOMAIN picks[v] = DOMAIN b
  BY DEF TypeOK
<1> HIDE DEF b
<1>4. n \in Nat \ {0} /\ DOMAIN b = 1..n
  BY <1>1, EmptySeq, LenProperties
<1> QED BY <1>2, <1>3, <1>4 DEF HasWeights, b

\* What is known of a goroutine that is choosing.
LEMMA UnderWay ==
    ASSUME IInv, NEW p \in Pickers, pc[p] # "idle"
    PROVE  /\ TypeOK /\ BucketsOK /\ Local(p)
           /\ From(p) \in Versions /\ buckets[From(p)] # <<>>
           /\ From(p) \notin shared => Midway(p, From(p))
<1>1. TypeOK /\ BucketsOK /\ Local(p) /\ TurnsOK
  BY DEF IInv, Locals
<1>2. servers # <<>> /\ asks[p] \in Versions
  BY <1>1 DEF Local, TypeOK
<1>3. From(p) \in Versions /\ buckets[From(p)] # <<>>
  BY <1>1, <1>2, ServedIs DEF From
<1> QED BY <1>1, <1>3 DEF TurnsOK

\* What a step of p leaves alone when p chooses from bucket b.
OthersKeep(p, b) ==
    /\ UNCHANGED <<policy, servers, buckets, shared>>
    /\ pc[p] # "idle" /\ From(p) = b
    /\ pc'[p] # "idle" => asks'[p] = asks[p]
    /\ \A q \in Pickers \ {p} : /\ pc'[q] = pc[q] /\ asks'[q] = asks[q]
                                /\ tmp'[q] = tmp[q] /\ answer'[q] = answer[q]
    /\ \A v \in Versions \ {b} : /\ incr'[v] = incr[v] /\ current'[v] = current[v]
                                 /\ max'[v] = max[v] /\ picks'[v] = picks[v]

\* A step of p keeps the invariant if it keeps the types and what p itself has to keep.
LEMMA OthersKept ==
    ASSUME IInv, NEW p \in Pickers, NEW b, OthersKeep(p, b), TypeOK', Local(p)',
           b \notin shared => IF pc'[p] = "idle" THEN Settled(b)' ELSE Midway(p, b)'
    PROVE  IInv'
<1>1. /\ UNCHANGED <<policy, servers, buckets, shared>>
      /\ pc[p] # "idle" /\ From(p) = b
      /\ pc'[p] # "idle" => From(p)' = b
      /\ \A q \in Pickers \ {p} : /\ pc'[q] = pc[q] /\ asks'[q] = asks[q] /\ From(q)' = From(q)
                                  /\ tmp'[q] = tmp[q] /\ answer'[q] = answer[q]
      /\ \A v \in Versions \ {b} : /\ incr'[v] = incr[v] /\ current'[v] = current[v]
                                   /\ max'[v] = max[v] /\ picks'[v] = picks[v]
  BY DEF OthersKeep, From, BucketOf
<1>2. BucketsOK'
  BY <1>1 DEF IInv, BucketsOK, Closest
<1>3. Locals'
  <2>1. ASSUME NEW q \in Pickers, q # p PROVE Local(q)'
    BY <1>1, <2>1 DEF IInv, Locals, Local, Bucket
  <2> QED BY <2>1 DEF Locals
<1>4. Sharing'
  BY <1>1 DEF IInv, Sharing
<1>5. ASSUME NEW v \in Versions, v # b PROVE Settled(v)' <=> Settled(v)
  BY <1>1, <1>5 DEF Settled
<1>6. ASSUME NEW v \in Versions, v # b, NEW q \in Pickers, q # p PROVE Midway(q, v)' <=> Midway(q, v)
  BY <1>1, <1>6 DEF Midway
<1>7. TurnsOK'
  <2> SUFFICES ASSUME NEW v \in Versions, v \notin shared, buckets[v] # <<>>
               PROVE  /\ Free(v)' => Settled(v)'
                      /\ \A q \in Pickers : pc'[q] # "idle" /\ From(q)' = v => Midway(q, v)'
    BY <1>1 DEF TurnsOK
  <2>1. /\ Free(v) => Settled(v)
        /\ \A q \in Pickers : pc[q] # "idle" /\ From(q) = v => Midway(q, v)
    BY DEF IInv, TurnsOK
  <2>2. CASE v # b
    <3>1. Free(v)' => Free(v)
      BY <1>1, <2>2 DEF Free
    <3>2. ASSUME NEW q \in Pickers, pc'[q] # "idle", From(q)' = v PROVE Midway(q, v)'
      <4>1. q # p
        BY <1>1, <2>2, <3>2
      <4> QED BY <1>1, <1>6, <2>1, <2>2, <3>2, <4>1
    <3> QED BY <3>1, <3>2, <1>5, <2>1, <2>2
  <2>3. CASE v = b
    <3>1. \A q \in Pickers : q # p /\ pc[q] # "idle" => From(q) # b
      BY <1>1, <2>3 DEF IInv, Sharing
    <3>2. \A q \in Pickers : pc'[q] # "idle" /\ From(q)' = v => q = p
      BY <3>1, <1>1, <2>3
    <3>3. Free(v)' => pc'[p] = "idle"
      BY <1>1, <2>3 DEF Free
    <3> QED BY <3>2, <3>3, <2>3
  <2> QED BY <2>2, <2>3
<1> QED BY <1>2, <1>3, <1>4, <1>7 DEF IInv

-------------------------------------------------------------------------------
(* Every step keeps the invariant. *)

PcIs == pc \in [Pickers -> {"idle", "read", "incr", "write", "load", "store", "wrapped", "lower",
                            "lowered", "reset", "top", "test", "take", "return"}]

\* A goroutine goes on, and what it stores or loads has its type.
LEMMA TypeKept ==
    ASSUME TypeOK, NEW p \in Pickers, NEW b \in Versions, NEW here, NEW there, At(p, here, there),
           there \in {"read", "incr", "write", "load", "store", "wrapped", "lower",
                      "lowered", "reset", "top", "test", "take", "return"},
           \/ tmp' = tmp
           \/ \E x \in Nat \cup {Below} : tmp' = [tmp EXCEPT ![p] = x],
           \/ answer' = answer
           \/ \E x \in Nat : answer' = [answer EXCEPT ![p] = x],
           \/ incr' = incr
           \/ \E x \in Nat : incr' = [incr EXCEPT ![b] = x] /\ x + 1 \in DOMAIN buckets[b],
           \/ current' = current
           \/ \E x \in Nat : current' = [current EXCEPT ![b] = x] /\ x + 1 \in DOMAIN buckets[b],
           \/ max' = max
           \/ \E x \in Nat \cup {Below} : max' = [max EXCEPT ![b] = x]
    PROVE  TypeOK'
<1>1. /\ UNCHANGED <<policy, servers, buckets, asks, picks, shared>>
      /\ pc' = [pc EXCEPT ![p] = there]
  BY DEF At, history
<1>2. PcIs'
  BY <1>1 DEF TypeOK, PcIs
<1>3. tmp' \in [Pickers -> Nat \cup {Below}] /\ answer' \in [Pickers -> Nat]
  <2>1. tmp' \in [Pickers -> Nat \cup {Below}]
    BY DEF TypeOK
  <2>2. answer' \in [Pickers -> Nat]
    BY DEF TypeOK
  <2> QED BY <2>1, <2>2
<1>4. /\ incr' \in [Versions -> Nat] /\ current' \in [Versions -> Nat]
      /\ max' \in [Versions -> Nat \cup {Below}]
  <2>1. incr' \in [Versions -> Nat]
    BY DEF TypeOK
  <2>2. current' \in [Versions -> Nat]
    BY DEF TypeOK
  <2>3. max' \in [Versions -> Nat \cup {Below}]
    BY DEF TypeOK
  <2> QED BY <2>1, <2>2, <2>3
<1>5. \A v \in Versions : buckets[v] # <<>> =>
         incr'[v] + 1 \in DOMAIN buckets[v] /\ current'[v] + 1 \in DOMAIN buckets[v]
  BY DEF TypeOK
<1> QED BY <1>1, <1>2, <1>3, <1>4, <1>5 DEF TypeOK, PcIs

\* A step of p inside its bucket leaves the other goroutines and buckets alone.
LEMMA OthersAre ==
    ASSUME TypeOK, NEW p \in Pickers, NEW b \in Versions, From(p) = b,
           NEW here, NEW there, At(p, here, there), here # "idle",
           tmp' = tmp \/ \E x : tmp' = [tmp EXCEPT ![p] = x],
           answer' = answer \/ \E x : answer' = [answer EXCEPT ![p] = x],
           incr' = incr \/ \E x : incr' = [incr EXCEPT ![b] = x],
           current' = current \/ \E x : current' = [current EXCEPT ![b] = x],
           max' = max \/ \E x : max' = [max EXCEPT ![b] = x]
    PROVE  OthersKeep(p, b) /\ pc'[p] = there /\ From(p)' = b
<1>1. UNCHANGED <<policy, servers, buckets, asks, picks, shared>>
  BY DEF At, history
<1>2. pc[p] # "idle" /\ pc'[p] = there /\ \A q \in Pickers \ {p} : pc'[q] = pc[q]
  BY DEF At, TypeOK
<1>3. From(p)' = b
  BY <1>1 DEF From, BucketOf
<1>4. \A q \in Pickers \ {p} : tmp'[q] = tmp[q] /\ answer'[q] = answer[q]
  <2>1. \A q \in Pickers \ {p} : tmp'[q] = tmp[q]
    BY DEF TypeOK
  <2>2. \A q \in Pickers \ {p} : answer'[q] = answer[q]
    BY DEF TypeOK
  <2> QED BY <2>1, <2>2
<1>5. \A v \in Versions \ {b} : /\ incr'[v] = incr[v] /\ current'[v] = current[v]
                                /\ max'[v] = max[v] /\ picks'[v] = picks[v]
  <2>1. \A v \in Versions \ {b} : incr'[v] = incr[v]
    BY DEF TypeOK
  <2>2. \A v \in Versions \ {b} : current'[v] = current[v]
    BY DEF TypeOK
  <2>3. \A v \in Versions \ {b} : max'[v] = max[v]
    BY DEF TypeOK
  <2> QED BY <1>1, <2>1, <2>2, <2>3
<1> QED BY <1>1, <1>2, <1>3, <1>4, <1>5 DEF OthersKeep

\* One lemma for each step: the invariant is kept.
LEMMA RoundRobinReadKeeps ==
    ASSUME IInv, NEW p \in Pickers, NEW b, b = From(p), RoundRobinRead(p)
    PROVE  IInv'
<1> DEFINE n == Len(buckets[b])
<1>1. /\ At(p, "read", "incr") /\ UNCHANGED <<incr, current, max, tmp>>
      /\ answer' = [answer EXCEPT ![p] = incr[b] + 1]
  BY DEF RoundRobinRead, rrVars, wrrVars
<1>2. pc[p] = "read" /\ UNCHANGED <<buckets, picks>>
  BY <1>1 DEF At, history
<1>3. /\ TypeOK /\ BucketsOK /\ Local(p) /\ b \in Versions /\ buckets[b] # <<>>
      /\ b \notin shared => Midway(p, b)
  BY <1>2, UnderWay
<1>4. n \in Nat \ {0} /\ DOMAIN buckets[b] = 1..n /\ incr[b] \in 0..n - 1
  BY <1>3, BucketIs
<1> HIDE DEF n
<1>5. TypeOK'
  <2>1. incr[b] + 1 \in Nat
    BY <1>4
  <2> QED BY <1>1, <1>3, <2>1, TypeKept
<1>6. OthersKeep(p, b) /\ pc'[p] = "incr" /\ From(p)' = b
  BY <1>1, <1>3, OthersAre
<1>7. answer'[p] = incr[b] + 1
  BY <1>1, <1>3 DEF TypeOK
<1>8. Local(p)'
  BY <1>2, <1>3, <1>4, <1>6, <1>7 DEF Local, Bucket, OthersKeep
<1>9. b \notin shared => Midway(p, b)'
  BY <1>1, <1>2, <1>3, <1>6, <1>7 DEF Midway
<1> QED BY <1>5, <1>6, <1>8, <1>9, OthersKept

LEMMA RoundRobinIncrKeeps ==
    ASSUME IInv, NEW p \in Pickers, NEW b, b = From(p), RoundRobinIncr(p)
    PROVE  IInv'
<1>1. /\ At(p, "incr", "write") /\ UNCHANGED <<answer, incr, current, max>>
      /\ tmp' = [tmp EXCEPT ![p] = incr[b]]
  BY DEF RoundRobinIncr, Load, rrVars, wrrVars
<1>2. pc[p] = "incr" /\ UNCHANGED <<buckets, picks>>
  BY <1>1 DEF At, history
<1>3. /\ TypeOK /\ BucketsOK /\ Local(p) /\ b \in Versions /\ buckets[b] # <<>>
      /\ b \notin shared => Midway(p, b)
  BY <1>2, UnderWay
<1>4. TypeOK'
  <2>1. incr[b] \in Nat
    BY <1>3 DEF TypeOK
  <2> QED BY <1>1, <1>3, <2>1, TypeKept
<1>5. OthersKeep(p, b) /\ pc'[p] = "write" /\ From(p)' = b
  BY <1>1, <1>3, OthersAre
<1>6. tmp'[p] = incr[b]
  BY <1>1, <1>3 DEF TypeOK
<1>7. Local(p)'
  BY <1>1, <1>2, <1>3, <1>5 DEF Local, Bucket, OthersKeep
<1>8. b \notin shared => Midway(p, b)'
  BY <1>1, <1>2, <1>3, <1>5, <1>6 DEF Midway
<1> QED BY <1>4, <1>5, <1>7, <1>8, OthersKept

LEMMA RoundRobinWriteKeeps ==
    ASSUME IInv, NEW p \in Pickers, NEW b, b = From(p), RoundRobinWrite(p)
    PROVE  IInv'
<1> DEFINE n == Len(buckets[b])
           next == (tmp[p] + 1) % n
<1>1. /\ At(p, "write", "return") /\ UNCHANGED <<tmp, answer, current, max>>
      /\ incr' = [incr EXCEPT ![b] = next]
  BY DEF RoundRobinWrite, wrrVars, Bucket
<1>2. pc[p] = "write" /\ UNCHANGED <<buckets, picks>>
  BY <1>1 DEF At, history
<1>3. /\ TypeOK /\ BucketsOK /\ Local(p) /\ b \in Versions /\ buckets[b] # <<>>
      /\ b \notin shared => Midway(p, b)
  BY <1>2, UnderWay
<1>4. n \in Nat \ {0} /\ DOMAIN buckets[b] = 1..n /\ incr[b] \in 0..n - 1 /\ tmp[p] \in Int
  BY <1>3, BucketIs DEF TypeOK, Below
<1>5. next \in 0..n - 1 /\ (tmp[p] \in 0..n - 1 => next = IF tmp[p] + 1 = n THEN 0 ELSE tmp[p] + 1)
  <2> HIDE DEF n
  <2>1. next \in 0..n - 1
    BY <1>4
  <2>2. CASE tmp[p] + 1 = n
    BY <1>4, <2>1, <2>2
  <2>3. CASE tmp[p] + 1 # n
    <3>1. tmp[p] \in 0..n - 1 => (tmp[p] + 1) % n = tmp[p] + 1
      BY <1>4, <2>3
    <3> QED BY <2>1, <2>3, <3>1
  <2> QED BY <2>2, <2>3
<1> HIDE DEF n, next
<1>6. TypeOK'
  <2>1. next \in Nat /\ next + 1 \in DOMAIN buckets[b]
    BY <1>4, <1>5
  <2> QED BY <1>1, <1>3, <2>1, TypeKept
<1>7. OthersKeep(p, b) /\ pc'[p] = "return" /\ From(p)' = b
  BY <1>1, <1>3, OthersAre
<1>8. incr'[b] = next
  BY <1>1, <1>3 DEF TypeOK
<1>9. Local(p)'
  BY <1>1, <1>2, <1>3, <1>7 DEF Local, Bucket, OthersKeep
<1>10. b \notin shared => Midway(p, b)'
  <2>1. policy = "round_robin" /\ policy' = policy
    BY <1>2, <1>3, <1>7 DEF Local, OthersKeep
  <2>2. ASSUME b \notin shared PROVE FirstOnes(n, picks[b], incr[b]) /\ tmp[p] = incr[b] /\ answer[p] = incr[b] + 1
    BY <1>2, <1>3, <2>2 DEF Midway, n
  <2>3. ASSUME b \notin shared PROVE FirstOnes(n, picks[b], answer[p] - 1) /\ next = IF answer[p] = n THEN 0 ELSE answer[p]
    <3>1. answer[p] - 1 = incr[b]
      BY <2>2, <2>3, <1>4
    <3> QED BY <3>1, <2>2, <2>3, <1>4, <1>5
  <2> QED BY <1>1, <1>2, <1>7, <1>8, <2>1, <2>3 DEF Midway, n
<1> QED BY <1>6, <1>7, <1>9, <1>10, OthersKept

\* Where the loop goes from a place.
LEMMA MovedFrom ==
    ASSUME NEW seq, HasWeights(seq), NEW c \in 0..Len(seq) - 1, NEW m \in 1..MaxWeight(seq)
    PROVE  Moved(seq, <<c, m>>) =
              IF c + 1 # Len(seq) THEN <<c + 1, m>>
              ELSE <<0, IF m - Gcd(seq) <= 0 THEN MaxWeight(seq) ELSE m - Gcd(seq)>>
<1> DEFINE y == Moved(seq, <<c, m>>)
<1>1. <<c, m>> \in PlacesOf(seq)
  BY DEF PlacesOf
<1>2. /\ y \in PlacesOf(seq) /\ y[1] = IF c + 1 = Len(seq) THEN 0 ELSE c + 1
      /\ y[2] = IF y[1] # 0 THEN m ELSE IF m - Gcd(seq) <= 0 THEN MaxWeight(seq) ELSE m - Gcd(seq)
  BY <1>1, MovedIs
<1> HIDE DEF y
<1>3. y = <<y[1], y[2]>>
  BY <1>2 DEF PlacesOf
<1>4. Len(seq) \in Nat \ {0} /\ c + 1 # 0
  BY DEF HasWeights
<1> QED BY <1>2, <1>3, <1>4 DEF y

LEMMA LoadCurrentKeeps ==
    ASSUME IInv, NEW p \in Pickers, NEW b, b = From(p), LoadCurrent(p)
    PROVE  IInv'
<1>1. /\ At(p, "load", "store") /\ UNCHANGED <<answer, incr, current, max>>
      /\ tmp' = [tmp EXCEPT ![p] = current[b]]
  BY DEF LoadCurrent, Load, rrVars, wrrVars
<1>2. pc[p] = "load" /\ UNCHANGED <<buckets, picks>>
  BY <1>1 DEF At, history
<1>3. /\ TypeOK /\ BucketsOK /\ Local(p) /\ b \in Versions /\ buckets[b] # <<>>
      /\ b \notin shared => Midway(p, b)
  BY <1>2, UnderWay
<1>4. TypeOK'
  <2>1. current[b] \in Nat
    BY <1>3 DEF TypeOK
  <2> QED BY <1>1, <1>3, <2>1, TypeKept
<1>5. OthersKeep(p, b) /\ pc'[p] = "store" /\ From(p)' = b
  BY <1>1, <1>3, OthersAre
<1>6. tmp'[p] = current[b]
  BY <1>1, <1>3 DEF TypeOK
<1>7. Local(p)'
  BY <1>2, <1>3, <1>5 DEF Local, OthersKeep
<1>8. b \notin shared => Midway(p, b)'
  BY <1>1, <1>2, <1>3, <1>5, <1>6 DEF Midway
<1> QED BY <1>4, <1>5, <1>7, <1>8, OthersKept

LEMMA StoreCurrentKeeps ==
    ASSUME IInv, NEW p \in Pickers, NEW b, b = From(p), StoreCurrent(p)
    PROVE  IInv'
<1> DEFINE n == Len(buckets[b])
           next == (tmp[p] + 1) % n
<1>1. /\ At(p, "store", "wrapped") /\ UNCHANGED <<tmp, answer, incr, max>>
      /\ current' = [current EXCEPT ![b] = next]
  BY DEF StoreCurrent, rrVars, Bucket
<1>2. pc[p] = "store" /\ UNCHANGED <<buckets, picks>>
  BY <1>1 DEF At, history
<1>3. /\ TypeOK /\ BucketsOK /\ Local(p) /\ b \in Versions /\ buckets[b] # <<>>
      /\ b \notin shared => Midway(p, b)
  BY <1>2, UnderWay
<1>4. n \in Nat \ {0} /\ DOMAIN buckets[b] = 1..n /\ current[b] \in 0..n - 1 /\ tmp[p] \in Int
  BY <1>3, BucketIs DEF TypeOK, Below
<1>5. next \in 0..n - 1 /\ (tmp[p] \in 0..n - 1 => next = IF tmp[p] = n - 1 THEN 0 ELSE tmp[p] + 1)
  <2> HIDE DEF n
  <2>1. next \in 0..n - 1
    BY <1>4
  <2>2. CASE tmp[p] = n - 1
    BY <1>4, <2>1, <2>2
  <2>3. CASE tmp[p] # n - 1
    <3>1. tmp[p] \in 0..n - 1 => (tmp[p] + 1) % n = tmp[p] + 1
      BY <1>4, <2>3
    <3> QED BY <2>1, <2>3, <3>1
  <2> QED BY <2>2, <2>3
<1> HIDE DEF n, next
<1>6. TypeOK'
  <2>1. next \in Nat /\ next + 1 \in DOMAIN buckets[b]
    BY <1>4, <1>5
  <2> QED BY <1>1, <1>3, <2>1, TypeKept
<1>7. OthersKeep(p, b) /\ pc'[p] = "wrapped" /\ From(p)' = b
  BY <1>1, <1>3, OthersAre
<1>8. current'[b] = next
  BY <1>1, <1>3 DEF TypeOK
<1>9. Local(p)'
  BY <1>2, <1>3, <1>7 DEF Local, OthersKeep
<1>10. b \notin shared => Midway(p, b)'
  <2>1. ASSUME b \notin shared
        PROVE  /\ AtPlace(buckets[b], picks[b], <<tmp[p], max[b]>>) /\ tmp[p] \in 0..n - 1
               /\ next = IF tmp[p] = n - 1 THEN 0 ELSE tmp[p] + 1
    BY <1>2, <1>3, <1>4, <1>5, <2>1 DEF Midway
  <2> QED BY <1>1, <1>2, <1>7, <1>8, <2>1 DEF Midway, n
<1> QED BY <1>6, <1>7, <1>9, <1>10, OthersKept

LEMMA WrappedKeeps ==
    ASSUME IInv, NEW p \in Pickers, NEW b, b = From(p), Wrapped(p)
    PROVE  IInv'
<1> DEFINE n == Len(buckets[b])
           last == n - 1
           there == IF current[b] = 0 THEN "lower" ELSE "test"
<1>1. At(p, "wrapped", there) /\ UNCHANGED <<tmp, answer, incr, current, max>>
  BY DEF Wrapped, rrVars, wrrVars
<1>2. pc[p] = "wrapped" /\ UNCHANGED <<buckets, picks>>
  BY <1>1 DEF At, history
<1>3. /\ TypeOK /\ BucketsOK /\ Local(p) /\ b \in Versions /\ buckets[b] # <<>>
      /\ b \notin shared => Midway(p, b)
  BY <1>2, UnderWay
<1>4. n \in Nat \ {0} /\ current[b] \in 0..n - 1 /\ HasWeights(buckets[b])
  BY <1>3, BucketIs
<1>5. \E here : here = there /\ At(p, "wrapped", here)
  BY <1>1
<1>6. TypeOK' /\ OthersKeep(p, b) /\ pc'[p] = there /\ From(p)' = b
  <2>1. PICK here : here = there /\ At(p, "wrapped", here)
    BY <1>5
  <2>2. here \in {"lower", "test"}
    BY <2>1
  <2>3. TypeOK'
    BY <1>1, <1>3, <2>1, <2>2, TypeKept
  <2>4. OthersKeep(p, b) /\ pc'[p] = here /\ From(p)' = b
    BY <1>1, <1>3, <2>1, OthersAre
  <2> QED BY <2>1, <2>3, <2>4
<1>7. Local(p)'
  BY <1>2, <1>3, <1>6 DEF Local, OthersKeep
<1>8. b \notin shared => Midway(p, b)'
  <2> SUFFICES ASSUME b \notin shared PROVE Midway(p, b)'
    OBVIOUS
  <2>1. PICK c \in 0..last : /\ AtPlace(buckets[b], picks[b], <<c, max[b]>>)
                             /\ current[b] = IF c = last THEN 0 ELSE c + 1
    BY <1>2, <1>3 DEF Midway
  <2>2. CASE current[b] = 0
    <3>1. c = last
      BY <2>1, <2>2
    <3> QED BY <1>1, <1>2, <1>6, <2>1, <2>2, <3>1 DEF Midway
  <2>3. CASE current[b] # 0
    <3>1. c # last /\ current[b] = c + 1
      BY <2>1, <2>3
    <3>2. <<c, max[b]>> \in PlacesOf(buckets[b])
      BY <2>1 DEF AtPlace
    <3>3. max[b] \in 1..MaxWeight(buckets[b])
      BY <3>2 DEF PlacesOf
    <3>4. Moved(buckets[b], <<c, max[b]>>) = <<current[b], max[b]>>
      <4>1. c \in 0..Len(buckets[b]) - 1 /\ c + 1 # Len(buckets[b])
        BY <1>4, <3>1
      <4> HIDE DEF n, last
      <4> QED BY <1>4, <3>1, <3>3, <4>1, MovedFrom
    <3>5. pc'[p] = "test"
      BY <1>6, <2>3
    <3> HIDE DEF there
    <3> QED BY <1>1, <1>2, <3>5, <2>1, <3>2, <3>4 DEF Midway
  <2> QED BY <2>2, <2>3
<1> HIDE DEF n
<1> QED BY <1>6, <1>7, <1>8, OthersKept

LEMMA LoadMaxKeeps ==
    ASSUME IInv, NEW p \in Pickers, NEW b, b = From(p), LoadMax(p)
    PROVE  IInv'
<1>1. /\ At(p, "lower", "lowered") /\ UNCHANGED <<answer, incr, current, max>>
      /\ tmp' = [tmp EXCEPT ![p] = max[b]]
  BY DEF LoadMax, Load, rrVars, wrrVars
<1>2. pc[p] = "lower" /\ UNCHANGED <<buckets, picks>>
  BY <1>1 DEF At, history
<1>3. /\ TypeOK /\ BucketsOK /\ Local(p) /\ b \in Versions /\ buckets[b] # <<>>
      /\ b \notin shared => Midway(p, b)
  BY <1>2, UnderWay
<1>4. TypeOK'
  <2>1. max[b] \in Nat \cup {Below}
    BY <1>3 DEF TypeOK
  <2> QED BY <1>1, <1>3, <2>1, TypeKept
<1>5. OthersKeep(p, b) /\ pc'[p] = "lowered" /\ From(p)' = b
  BY <1>1, <1>3, OthersAre
<1>6. tmp'[p] = max[b]
  BY <1>1, <1>3 DEF TypeOK
<1>7. Local(p)'
  BY <1>2, <1>3, <1>5 DEF Local, OthersKeep
<1>8. b \notin shared => Midway(p, b)'
  BY <1>1, <1>2, <1>3, <1>5, <1>6 DEF Midway
<1> QED BY <1>4, <1>5, <1>7, <1>8, OthersKept

LEMMA StoreMaxKeeps ==
    ASSUME IInv, NEW p \in Pickers, NEW b, b = From(p), StoreMax(p)
    PROVE  IInv'
<1> DEFINE g == Gcd(buckets[b])
           less == IF tmp[p] - g < 0 THEN Below ELSE tmp[p] - g
<1>1. /\ At(p, "lowered", "reset") /\ UNCHANGED <<tmp, answer, incr, current>>
      /\ max' = [max EXCEPT ![b] = less]
  BY DEF StoreMax, rrVars, Bucket
<1>2. pc[p] = "lowered" /\ UNCHANGED <<buckets, picks>>
  BY <1>1 DEF At, history
<1>3. /\ TypeOK /\ BucketsOK /\ Local(p) /\ b \in Versions /\ buckets[b] # <<>>
      /\ b \notin shared => Midway(p, b)
  BY <1>2, UnderWay
<1>4. less \in Nat \cup {Below}
  <2>1. HasWeights(buckets[b])
    BY <1>3, BucketIs
  <2>2. g \in 1..MaxWeight(buckets[b]) /\ MaxWeight(buckets[b]) \in Nat
    BY <2>1, GcdIs, MaxWeightIs
  <2>3. tmp[p] \in Int /\ g \in Nat
    BY <1>3, <2>2 DEF TypeOK, Below
  <2> HIDE DEF g
  <2> QED BY <2>3
<1> HIDE DEF less
<1>5. TypeOK'
  BY <1>1, <1>3, <1>4, TypeKept
<1>6. OthersKeep(p, b) /\ pc'[p] = "reset" /\ From(p)' = b
  BY <1>1, <1>3, OthersAre
<1>7. max'[b] = less
  BY <1>1, <1>3 DEF TypeOK
<1>8. Local(p)'
  BY <1>2, <1>3, <1>6 DEF Local, OthersKeep
<1>9. b \notin shared => Midway(p, b)'
  <2>1. ASSUME b \notin shared
        PROVE  AtPlace(buckets[b], picks[b], <<Len(buckets[b]) - 1, tmp[p]>>) /\ current[b] = 0
    BY <1>2, <1>3, <2>1 DEF Midway
  <2> QED BY <1>1, <1>2, <1>6, <1>7, <2>1 DEF Midway, less
<1> QED BY <1>5, <1>6, <1>8, <1>9, OthersKept

\* What the loop has lowered max from, and what it has lowered it to.
LEMMA LoweredIs ==
    ASSUME NEW seq, HasWeights(seq), NEW counts, NEW level, AtPlace(seq, counts, <<Len(seq) - 1, level>>)
    PROVE  /\ Gcd(seq) \in Nat /\ MaxWeight(seq) \in Nat \ {0} /\ level \in Nat
           /\ <<Len(seq) - 1, level>> \in PlacesOf(seq)
           /\ Moved(seq, <<Len(seq) - 1, level>>) =
                 <<0, IF level - Gcd(seq) <= 0 THEN MaxWeight(seq) ELSE level - Gcd(seq)>>
<1>1. Len(seq) \in Nat \ {0}
  BY DEF HasWeights
<1>2. Gcd(seq) \in 1..MaxWeight(seq) /\ MaxWeight(seq) \in Nat \ {0}
  BY GcdIs, MaxWeightIs
<1>3. <<Len(seq) - 1, level>> \in PlacesOf(seq)
  BY DEF AtPlace
<1>4. level \in 1..MaxWeight(seq) /\ Len(seq) - 1 \in 0..Len(seq) - 1 /\ (Len(seq) - 1) + 1 = Len(seq)
  BY <1>1, <1>3 DEF PlacesOf
<1>5. Moved(seq, <<Len(seq) - 1, level>>) =
         <<0, IF level - Gcd(seq) <= 0 THEN MaxWeight(seq) ELSE level - Gcd(seq)>>
  BY <1>4, MovedFrom
<1> QED BY <1>2, <1>3, <1>4, <1>5

LEMMA TestMaxKeeps ==
    ASSUME IInv, NEW p \in Pickers, NEW b, b = From(p), TestMax(p)
    PROVE  IInv'
<1> DEFINE seq == buckets[b]
           there == IF max[b] <= 0 THEN "top" ELSE "test"
<1>1. At(p, "reset", there) /\ UNCHANGED <<tmp, answer, incr, current, max>>
  BY DEF TestMax, rrVars, wrrVars
<1>2. pc[p] = "reset" /\ UNCHANGED <<buckets, picks>>
  BY <1>1 DEF At, history
<1>3. /\ TypeOK /\ BucketsOK /\ Local(p) /\ b \in Versions /\ buckets[b] # <<>>
      /\ b \notin shared => Midway(p, b)
  BY <1>2, UnderWay
<1>4. HasWeights(seq)
  BY <1>3, BucketIs
<1>5. /\ TypeOK' /\ OthersKeep(p, b) /\ pc'[p] \in {"top", "test"} /\ From(p)' = b
      /\ pc'[p] = there
  <2>1. \E here : here = there /\ At(p, "reset", here)
    BY <1>1
  <2>2. PICK here : here = there /\ At(p, "reset", here)
    BY <2>1
  <2>3. here \in {"top", "test"}
    BY <2>2
  <2>4. TypeOK'
    BY <1>1, <1>3, <2>2, <2>3, TypeKept
  <2>5. OthersKeep(p, b) /\ pc'[p] = here /\ From(p)' = b
    BY <1>1, <1>3, <2>2, OthersAre
  <2> QED BY <2>2, <2>3, <2>4, <2>5
<1>6. Local(p)'
  BY <1>2, <1>3, <1>5 DEF Local, OthersKeep
<1>7. b \notin shared => Midway(p, b)'
  <2> SUFFICES ASSUME b \notin shared PROVE Midway(p, b)'
    OBVIOUS
  <2> DEFINE x == <<Len(seq) - 1, tmp[p]>>
  <2>1. /\ AtPlace(seq, picks[b], x) /\ current[b] = 0
        /\ max[b] = IF tmp[p] - Gcd(seq) < 0 THEN Below ELSE tmp[p] - Gcd(seq)
    BY <1>2, <1>3 DEF Midway
  <2>2. CASE max[b] <= 0
    <3>1. pc'[p] = "top"
      BY <1>5, <2>2
    <3> QED BY <1>1, <1>2, <2>1, <2>2, <3>1 DEF Midway
  <2>3. CASE ~ (max[b] <= 0)
    <3>1. pc'[p] = "test"
      BY <1>5, <2>3
    <3>2. /\ Gcd(seq) \in Nat /\ tmp[p] \in Nat /\ x \in PlacesOf(seq)
          /\ Moved(seq, x) = <<0, IF tmp[p] - Gcd(seq) <= 0 THEN MaxWeight(seq) ELSE tmp[p] - Gcd(seq)>>
      <4> HIDE DEF seq
      <4> QED BY <1>4, <2>1, LoweredIs
    <3>3. Moved(seq, x) = <<current[b], max[b]>>
      <4>1. max[b] = tmp[p] - Gcd(seq) /\ ~ (tmp[p] - Gcd(seq) <= 0)
        <5> HIDE DEF seq, x
        <5> QED BY <2>1, <2>3, <3>2 DEF Below
      <4> HIDE DEF seq, x
      <4> QED BY <2>1, <3>2, <4>1
    <3> HIDE DEF x
    <3> QED BY <1>1, <1>2, <2>1, <3>1, <3>2, <3>3 DEF Midway
  <2> QED BY <2>2, <2>3
<1> QED BY <1>5, <1>6, <1>7, OthersKept

LEMMA ResetMaxKeeps ==
    ASSUME IInv, NEW p \in Pickers, NEW b, b = From(p), ResetMax(p)
    PROVE  IInv'
<1> DEFINE seq == buckets[b]
           most == MaxWeight(seq)
<1>1. /\ At(p, "top", "test") /\ UNCHANGED <<tmp, answer, incr, current>>
      /\ max' = [max EXCEPT ![b] = most]
  BY DEF ResetMax, rrVars, Bucket
<1>2. pc[p] = "top" /\ UNCHANGED <<buckets, picks>>
  BY <1>1 DEF At, history
<1>3. /\ TypeOK /\ BucketsOK /\ Local(p) /\ b \in Versions /\ buckets[b] # <<>>
      /\ b \notin shared => Midway(p, b)
  BY <1>2, UnderWay
<1>4. HasWeights(seq) /\ most \in Nat
  <2>1. HasWeights(seq)
    BY <1>3, BucketIs
  <2> QED BY <2>1, MaxWeightIs
<1>5. TypeOK'
  BY <1>1, <1>3, <1>4, TypeKept
<1>6. OthersKeep(p, b) /\ pc'[p] = "test" /\ From(p)' = b
  BY <1>1, <1>3, OthersAre
<1>7. max'[b] = most
  BY <1>1, <1>3 DEF TypeOK
<1>8. Local(p)'
  BY <1>2, <1>3, <1>6 DEF Local, OthersKeep
<1>9. b \notin shared => Midway(p, b)'
  <2> SUFFICES ASSUME b \notin shared PROVE Midway(p, b)'
    OBVIOUS
  <2> DEFINE x == <<Len(seq) - 1, tmp[p]>>
  <2>1. /\ AtPlace(seq, picks[b], x) /\ current[b] = 0 /\ max[b] <= 0
        /\ max[b] = IF tmp[p] - Gcd(seq) < 0 THEN Below ELSE tmp[p] - Gcd(seq)
    BY <1>2, <1>3 DEF Midway
  <2>2. /\ Gcd(seq) \in Nat /\ tmp[p] \in Nat /\ x \in PlacesOf(seq)
        /\ Moved(seq, x) = <<0, IF tmp[p] - Gcd(seq) <= 0 THEN most ELSE tmp[p] - Gcd(seq)>>
    <3> HIDE DEF seq
    <3> QED BY <1>4, <2>1, LoweredIs
  <2>3. tmp[p] - Gcd(seq) <= 0
    <3> HIDE DEF seq, x
    <3> QED BY <2>1, <2>2
  <2>4. Moved(seq, x) = <<current[b], most>>
    <3> HIDE DEF seq, x, most
    <3> QED BY <2>1, <2>2, <2>3
  <2> HIDE DEF x, most
  <2> QED BY <1>1, <1>2, <1>6, <1>7, <2>1, <2>2, <2>4 DEF Midway
<1> QED BY <1>5, <1>6, <1>8, <1>9, OthersKept

LEMMA TestKeeps ==
    ASSUME IInv, NEW p \in Pickers, NEW b, b = From(p), Test(p)
    PROVE  IInv'
<1> DEFINE seq == buckets[b]
           y == <<current[b], max[b]>>
           there == IF seq[current[b] + 1].weight >= max[b] THEN "take" ELSE "load"
<1>1. At(p, "test", there) /\ UNCHANGED <<tmp, answer, incr, current, max>>
  BY DEF Test, rrVars, wrrVars, Bucket
<1>2. pc[p] = "test" /\ UNCHANGED <<buckets, picks>>
  BY <1>1 DEF At, history
<1>3. /\ TypeOK /\ BucketsOK /\ Local(p) /\ b \in Versions /\ buckets[b] # <<>>
      /\ b \notin shared => Midway(p, b)
  BY <1>2, UnderWay
<1>4. HasWeights(seq)
  BY <1>3, BucketIs
<1>5. there = IF Reached(seq, y) THEN "take" ELSE "load"
  BY DEF Reached
<1>6. TypeOK' /\ OthersKeep(p, b) /\ pc'[p] = there /\ From(p)' = b
  <2>1. \E here : here = there /\ At(p, "test", here)
    BY <1>1
  <2>2. PICK here : here = there /\ At(p, "test", here)
    BY <2>1
  <2>3. here \in {"take", "load"}
    BY <2>2
  <2>4. TypeOK'
    BY <1>1, <1>3, <2>2, <2>3, TypeKept
  <2>5. OthersKeep(p, b) /\ pc'[p] = here /\ From(p)' = b
    BY <1>1, <1>3, <2>2, OthersAre
  <2> QED BY <2>2, <2>4, <2>5
<1> HIDE DEF there, y, seq
<1>7. pc'[p] \in {"take", "load"}
  BY <1>5, <1>6
<1>8. Local(p)'
  BY <1>2, <1>3, <1>6, <1>7 DEF Local, OthersKeep
<1>9. b \notin shared => Midway(p, b)'
  <2> SUFFICES ASSUME b \notin shared PROVE Midway(p, b)'
    OBVIOUS
  <2>1. PICK x \in PlacesOf(seq) : AtPlace(seq, picks[b], x) /\ Moved(seq, x) = y
    BY <1>2, <1>3 DEF Midway, seq, y
  <2>2. y[1] = current[b]
    BY DEF y
  <2>3. CASE Reached(seq, y)
    <3>1. AtPlace(seq, Counted(picks[b], current[b] + 1, WeightedShare(seq)), y)
      BY <1>4, <2>1, <2>2, <2>3, Round
    <3>2. pc'[p] = "take"
      BY <1>5, <1>6, <2>3
    <3> QED BY <1>1, <1>2, <3>2, <2>1, <3>1 DEF Midway, seq, y
  <2>4. CASE ~ Reached(seq, y)
    <3>1. AtPlace(seq, picks[b], y)
      BY <1>4, <2>1, <2>4, Round
    <3>2. pc'[p] = "load"
      BY <1>5, <1>6, <2>4
    <3> QED BY <1>1, <1>2, <3>2, <3>1 DEF Midway, seq, y
  <2> QED BY <2>3, <2>4
<1> QED BY <1>6, <1>7, <1>8, <1>9, OthersKept

LEMMA TakeKeeps ==
    ASSUME IInv, NEW p \in Pickers, NEW b, b = From(p), Take(p)
    PROVE  IInv'
<1>1. /\ At(p, "take", "return") /\ UNCHANGED <<tmp, incr, current, max>>
      /\ answer' = [answer EXCEPT ![p] = current[b] + 1]
  BY DEF Take, rrVars, wrrVars
<1>2. pc[p] = "take" /\ UNCHANGED <<buckets, picks, policy>>
  BY <1>1 DEF At, history
<1>3. /\ TypeOK /\ BucketsOK /\ Local(p) /\ b \in Versions /\ buckets[b] # <<>>
      /\ b \notin shared => Midway(p, b)
  BY <1>2, UnderWay
<1>4. current[b] \in Nat /\ current[b] + 1 \in Nat /\ current[b] + 1 \in DOMAIN buckets[b]
  BY <1>3 DEF TypeOK
<1>5. TypeOK'
  BY <1>1, <1>3, <1>4, TypeKept
<1>6. OthersKeep(p, b) /\ pc'[p] = "return" /\ From(p)' = b
  BY <1>1, <1>3, OthersAre
<1>7. answer'[p] = current[b] + 1
  BY <1>1, <1>3 DEF TypeOK
<1>8. Local(p)'
  BY <1>2, <1>3, <1>4, <1>6, <1>7 DEF Local, OthersKeep, Bucket
<1>9. b \notin shared => Midway(p, b)'
  <2>1. policy' # "round_robin"
    BY <1>2, <1>3 DEF Local
  <2> QED BY <1>1, <1>2, <1>3, <1>6, <1>7, <2>1 DEF Midway
<1> QED BY <1>5, <1>6, <1>8, <1>9, OthersKept

\* One more choice of round robin.
LEMMA FirstOnesNext ==
    ASSUME NEW seq, HasWeights(seq), NEW i \in 1..Len(seq), NEW counts,
           FirstOnes(Len(seq), counts, i - 1)
    PROVE  FirstOnes(Len(seq), Counted(counts, i, EqualShare(seq)), IF i = Len(seq) THEN 0 ELSE i)
<1> DEFINE n == Len(seq)
           share == EqualShare(seq)
           due == [j \in 1..n |-> IF j <= i - 1 THEN 1 ELSE 0]
<1>1. n \in Nat \ {0} /\ share = [j \in 1..n |-> 1]
  BY DEF HasWeights, EqualShare
<1> HIDE DEF n, share
<1>2. i - 1 = 0 => due = None(n)
  BY DEF None
<1>3. DueNow(n, share, due, i, counts)
  <2>1. counts = due \/ (counts = share /\ due = None(n))
    BY <1>1, <1>2 DEF FirstOnes, n
  <2>2. share \in [1..n -> Int] /\ due \in [1..n -> Int] /\ i \in 1..n
    BY <1>1 DEF n
  <2>3. \A j \in 1..n : due[j] <= share[j]
    BY <1>1
  <2>4. due[i] + 1 <= share[i]
    BY <1>1, <2>2
  <2> QED BY <1>1, <2>1, <2>2, <2>3, <2>4 DEF DueNow
<1>4. Counted(counts, i, share) = More(due, i)
  <2> HIDE DEF due
  <2> QED BY <1>3, CountedIs
<1>5. i \in 1..n
  BY DEF n
<1>6. More(due, i) = [j \in 1..n |-> IF j <= i THEN 1 ELSE 0]
  <2>1. \A j \in 1..n : (IF j = i THEN due[i] + 1 ELSE due[j]) = IF j <= i THEN 1 ELSE 0
    BY <1>1, <1>5
  <2>2. More(due, i) = [j \in 1..n |-> IF j = i THEN due[i] + 1 ELSE due[j]]
    BY <1>5 DEF More
  <2> HIDE DEF due
  <2> QED BY <2>1, <2>2
<1>7. CASE i = n
  <2>1. More(due, i) = [j \in 1..n |-> 1]
    BY <1>1, <1>6, <1>7
  <2> QED BY <1>4, <1>7, <2>1 DEF FirstOnes, n, share
<1>8. CASE i # n
  BY <1>4, <1>6, <1>8 DEF FirstOnes, n, share
<1> QED BY <1>7, <1>8

LEMMA ReturnKeeps ==
    ASSUME IInv, NEW p \in Pickers, NEW b, b = From(p), Return(p)
    PROVE  IInv'
<1> DEFINE seq == buckets[b]
           more == Counted(picks[b], answer[p], Share(seq))
<1>1. /\ pc[p] = "return" /\ UNCHANGED <<policy, servers, buckets, incr, current, max, shared>>
      /\ pc' = [pc EXCEPT ![p] = "idle"]
      /\ asks' = [asks EXCEPT ![p] = Default]
      /\ tmp' = [tmp EXCEPT ![p] = 0]
      /\ answer' = [answer EXCEPT ![p] = 0]
      /\ picks' = IF Occupied(p, b) THEN picks ELSE [picks EXCEPT ![b] = more]
  BY DEF Return, rrVars, wrrVars
<1>2. /\ TypeOK /\ BucketsOK /\ Local(p) /\ b \in Versions /\ buckets[b] # <<>>
      /\ b \notin shared => Midway(p, b)
  BY <1>1, UnderWay
<1>3. HasWeights(seq) /\ DOMAIN seq = 1..Len(seq) /\ answer[p] \in DOMAIN seq
  BY <1>1, <1>2, BucketIs DEF Local, Bucket
<1>4. DOMAIN more = DOMAIN picks[b]
  BY DEF Counted
<1> HIDE DEF more
<1>5. TypeOK'
  <2>1. PcIs' /\ asks' \in [Pickers -> Versions]
    BY <1>1, <1>2, LoadBalancerAssumption DEF TypeOK, PcIs, LoadBalancerAssumption
  <2>2. DOMAIN picks' = Versions /\ \A v \in Versions : DOMAIN picks'[v] = DOMAIN picks[v]
    BY <1>1, <1>2, <1>4 DEF TypeOK
  <2>3. tmp' \in [Pickers -> Nat \cup {Below}] /\ answer' \in [Pickers -> Nat]
    BY <1>1, <1>2 DEF TypeOK
  <2> QED BY <1>1, <1>2, <2>1, <2>2, <2>3 DEF TypeOK, PcIs
<1>6. pc'[p] = "idle"
  BY <1>1, <1>2 DEF TypeOK
<1>7. OthersKeep(p, b)
  BY <1>1, <1>2, <1>6 DEF TypeOK, OthersKeep
<1>8. Local(p)'
  BY <1>6 DEF Local
<1>9. b \notin shared => Settled(b)'
  <2> SUFFICES ASSUME b \notin shared PROVE Settled(b)'
    OBVIOUS
  <2>1. Midway(p, b) /\ picks'[b] = more
    <3>1. ~ Occupied(p, b)
      BY <1>1 DEF IInv, Sharing, Occupied
    <3> QED BY <1>1, <1>2, <3>1 DEF TypeOK
  <2>2. CASE policy = "round_robin"
    <3>1. FirstOnes(Len(seq), picks[b], answer[p] - 1) /\ incr[b] = IF answer[p] = Len(seq) THEN 0 ELSE answer[p]
      BY <1>1, <2>1, <2>2 DEF Midway
    <3>2. FirstOnes(Len(seq), more, incr[b])
      <4> HIDE DEF seq
      <4> QED BY <1>3, <2>2, <3>1, FirstOnesNext DEF Share, more
    <3> QED BY <1>1, <2>1, <2>2, <3>2 DEF Settled
  <2>3. CASE policy # "round_robin"
    <3>1. /\ AtPlace(seq, Counted(picks[b], current[b] + 1, WeightedShare(seq)), <<current[b], max[b]>>)
          /\ answer[p] = current[b] + 1
      BY <1>1, <2>1, <2>3 DEF Midway
    <3>2. AtPlace(seq, more, <<current[b], max[b]>>)
      BY <2>3, <3>1 DEF Share, more
    <3> QED BY <1>1, <2>1, <2>3, <3>2 DEF Settled
  <2> QED BY <2>2, <2>3
<1> QED BY <1>5, <1>6, <1>7, <1>8, <1>9, OthersKept

LEMMA RequestKeeps ==
    ASSUME IInv, NEW p \in Pickers, NEW v \in Versions, NEW b, b = BucketOf(v), Request(p, v)
    PROVE  IInv'
<1> DEFINE Others == \E q \in Pickers \ {p} : pc[q] # "idle" /\ From(q) = b
           first == IF policy = "round_robin" THEN "read" ELSE "load"
<1>1. /\ pc[p] = "idle" /\ servers # <<>>
      /\ UNCHANGED <<policy, servers, buckets, incr, current, max, tmp, answer>>
      /\ pc' = [pc EXCEPT ![p] = first]
      /\ asks' = [asks EXCEPT ![p] = v]
      /\ IF Others THEN shared' = shared \cup {b} /\ picks' = [picks EXCEPT ![b] = NoCounts(buckets[b])]
                   ELSE shared' = shared /\ picks' = picks
  BY DEF Request, Occupied, rrVars, wrrVars, history
<1>2. TypeOK /\ BucketsOK /\ Locals /\ Sharing /\ TurnsOK
  BY DEF IInv
<1>3. b \in Versions /\ buckets[b] # <<>>
  BY <1>1, <1>2, ServedIs
<1>4. /\ pc'[p] = first /\ first \in {"read", "load"} /\ From(p)' = b
      /\ \A q \in Pickers : q # p => pc'[q] = pc[q] /\ From(q)' = From(q)
  BY <1>1, <1>2 DEF TypeOK, From, BucketOf
<1>5. DOMAIN picks' = Versions /\ \A u \in Versions : /\ DOMAIN picks'[u] = DOMAIN buckets[u]
                                                      /\ u # b => picks'[u] = picks[u]
  BY <1>1, <1>2 DEF TypeOK, NoCounts
<1>6. shared' \subseteq Versions /\ shared \subseteq shared' /\ (b \notin shared' => ~ Others /\ picks' = picks)
  <2>1. shared \subseteq Versions
    BY <1>2 DEF TypeOK
  <2>2. CASE Others
    BY <1>1, <1>3, <2>1, <2>2
  <2>3. CASE ~ Others
    BY <1>1, <2>1, <2>3
  <2> QED BY <2>2, <2>3
<1>7. \A q \in Pickers : q # p /\ pc[q] # "idle" /\ From(q) = b => b \in shared'
  BY <1>1
<1> HIDE DEF Others
<1>8. TypeOK'
  <2>1. PcIs' /\ asks' \in [Pickers -> Versions]
    BY <1>1, <1>2 DEF TypeOK, PcIs
  <2> HIDE DEF first
  <2> QED BY <1>1, <1>2, <1>5, <1>6, <2>1 DEF TypeOK, PcIs
<1>9. BucketsOK'
  BY <1>1, <1>2 DEF BucketsOK, Closest
<1>10. Locals'
  <2>1. Local(p)'
    BY <1>1, <1>4 DEF Local
  <2>2. ASSUME NEW q \in Pickers, q # p PROVE Local(q)'
    BY <1>1, <1>2, <1>4, <2>2 DEF Locals, Local, Bucket
  <2> QED BY <2>1, <2>2 DEF Locals
<1>11. Sharing'
  <2> SUFFICES ASSUME NEW q \in Pickers, NEW r \in Pickers,
                      pc'[q] # "idle", pc'[r] # "idle", q # r, From(q)' = From(r)'
               PROVE  From(q)' \in shared'
    BY DEF Sharing
  <2>1. CASE q = p \/ r = p
    BY <1>4, <1>7, <2>1
  <2>2. CASE q # p /\ r # p
    BY <1>2, <1>4, <1>6, <2>2 DEF Sharing
  <2> QED BY <2>1, <2>2
<1>12. TurnsOK'
  <2> SUFFICES ASSUME NEW u \in Versions, u \notin shared', buckets[u] # <<>>
               PROVE  /\ Free(u)' => Settled(u)'
                      /\ \A q \in Pickers : pc'[q] # "idle" /\ From(q)' = u => Midway(q, u)'
    BY <1>1 DEF TurnsOK
  <2>1. u \notin shared /\ picks'[u] = picks[u]
    BY <1>5, <1>6
  <2>2. /\ Free(u) => Settled(u)
        /\ \A q \in Pickers : pc[q] # "idle" /\ From(q) = u => Midway(q, u)
    BY <1>2, <2>1 DEF TurnsOK
  <2>3. Settled(u) <=> Settled(u)'
    BY <1>1, <2>1 DEF Settled
  <2>4. CASE u # b
    <3>1. Free(u)' => Free(u)
      BY <1>1, <1>4 DEF Free
    <3>2. ASSUME NEW q \in Pickers, pc'[q] # "idle", From(q)' = u PROVE Midway(q, u)'
      <4>1. q # p
        BY <1>4, <2>4, <3>2
      <4>2. Midway(q, u) /\ pc'[q] = pc[q]
        BY <1>4, <2>2, <3>2, <4>1
      <4> QED BY <1>1, <2>1, <4>2 DEF Midway
    <3> QED BY <2>2, <2>3, <3>1, <3>2
  <2>5. CASE u = b
    <3>1. Free(u)
      BY <1>1, <1>7, <2>5 DEF Free
    <3>2. ~ Free(u)'
      BY <1>4, <2>5 DEF Free
    <3>3. Midway(p, u)'
      <4>1. Settled(u)
        BY <2>2, <3>1
      <4>2. CASE policy = "round_robin"
        BY <1>1, <1>4, <2>1, <4>1, <4>2 DEF Settled, Midway
      <4>3. CASE policy # "round_robin"
        BY <1>1, <1>4, <2>1, <4>1, <4>3 DEF Settled, Midway
      <4> QED BY <4>2, <4>3
    <3>4. ASSUME NEW q \in Pickers, pc'[q] # "idle", From(q)' = u PROVE q = p
      BY <1>4, <1>7, <2>5, <3>4
    <3> QED BY <3>2, <3>3, <3>4
  <2> QED BY <2>4, <2>5
<1> QED BY <1>8, <1>9, <1>10, <1>11, <1>12 DEF IInv

\* A list with weights of which nothing has been chosen yet.
LEMMA AtFirst ==
    ASSUME NEW seq, HasWeights(seq)
    PROVE  /\ FirstOnes(Len(seq), NoCounts(seq), 0)
           /\ AtPlace(seq, NoCounts(seq), <<0, MaxWeight(seq)>>)
<1> DEFINE top == Top(seq)
           share == WeightedShare(seq)
<1>1. Len(seq) \in Nat \ {0} /\ DOMAIN seq = 1..Len(seq)
  BY DEF HasWeights
<1>2. NoCounts(seq) = [i \in 1..Len(seq) |-> 0]
  BY <1>1 DEF NoCounts
<1>3. IsShare(Len(seq), top, share)
  BY SharesAre
<1>4. IsLevel(seq, MaxWeight(seq)) /\ MaxWeight(seq) \div Gcd(seq) = top
  BY MaxIsLevel
<1>5. <<0, MaxWeight(seq)>> \in PlacesOf(seq)
  <2>1. MaxWeight(seq) \in 1..MaxWeight(seq) /\ 0 \in 0..Len(seq) - 1
    BY <1>1, MaxWeightIs
  <2> QED BY <2>1 DEF PlacesOf
<1>6. Due(share, top, 0, top) = None(Len(seq))
  BY <1>3, DueAtFirst
<1>7. InTurn(NoCounts(seq), share, top, 0, top)
  BY <1>2, <1>6 DEF InTurn, None
<1>8. FirstOnes(Len(seq), NoCounts(seq), 0)
  <2>1. \A i \in 1..Len(seq) : ~ (i <= 0)
    BY <1>1
  <2> QED BY <1>2, <2>1 DEF FirstOnes
<1> QED BY <1>4, <1>5, <1>7, <1>8 DEF AtPlace

LEMMA SetServersKeeps ==
    ASSUME IInv, NEW list \in Lists, SetServers(list)
    PROVE  IInv'
<1>1. /\ \A p \in Pickers : pc[p] = "idle"
      /\ servers' = list /\ buckets' \in Split(list)
      /\ incr' = [v \in Versions |-> 0] /\ current' = [v \in Versions |-> 0]
      /\ max' = [v \in Versions |-> IF buckets'[v] = <<>> THEN 0 ELSE MaxWeight(buckets'[v])]
      /\ picks' = [v \in Versions |-> NoCounts(buckets'[v])]
      /\ shared' = {}
      /\ UNCHANGED <<policy, pc, asks, tmp, answer>>
  BY DEF SetServers, pickVars
<1>2. TypeOK
  BY DEF IInv
<1>3. /\ \A s \in Range(list) : s.weight \in Nat \ {0}
      /\ Closest' = ClosestOf(list) /\ ClosestOf(list) \subseteq Range(list)
  BY <1>1, ListIs DEF Closest, ClosestOf
<1>4. ASSUME NEW v \in Versions
      PROVE  /\ BucketFor(list, v, buckets'[v])
             /\ \A i \in DOMAIN buckets'[v] : buckets'[v][i].weight \in Nat \ {0}
             /\ buckets'[v] # <<>> => HasWeights(buckets'[v])
  <2> DEFINE b == buckets'[v]
  <2>1. BucketFor(list, v, b)
    BY <1>1, SplitIs
  <2> HIDE DEF b
  <2>2. \A i \in DOMAIN b : b[i] \in Range(b)
    BY DEF Range
  <2>3. \A i \in DOMAIN b : b[i] \in ClosestOf(list)
    BY <2>1, <2>2 DEF BucketFor
  <2>4. \A i \in DOMAIN b : b[i].weight \in Nat \ {0}
    BY <1>3, <2>3
  <2>5. b # <<>> => Len(b) \in Nat \ {0} /\ DOMAIN b = 1..Len(b)
    BY <2>1, EmptySeq, LenProperties DEF BucketFor
  <2> QED BY <2>1, <2>4, <2>5 DEF HasWeights, b
<1>5. ASSUME NEW v \in Versions
      PROVE  /\ incr'[v] = 0 /\ current'[v] = 0 /\ picks'[v] = NoCounts(buckets'[v])
             /\ max'[v] = IF buckets'[v] = <<>> THEN 0 ELSE MaxWeight(buckets'[v])
  BY <1>1
<1>6. TypeOK'
  <2>1. DOMAIN buckets' = Versions
    BY <1>1 DEF Split
  <2>2. ASSUME NEW v \in Versions PROVE max'[v] \in Nat
    BY <1>4, <1>5, MaxWeightIs
  <2>3. max' \in [Versions -> Nat \cup {Below}]
    BY <1>1, <2>2
  <2>4. ASSUME NEW v \in Versions
        PROVE  /\ buckets'[v] \in Seq(Range(list))
               /\ buckets'[v] # <<>> => 1 \in DOMAIN buckets'[v]
               /\ DOMAIN picks'[v] = DOMAIN buckets'[v]
    <3>1. buckets'[v] \in Seq(Range(list))
      BY <1>4 DEF BucketFor
    <3>2. ASSUME buckets'[v] # <<>> PROVE 1 \in DOMAIN buckets'[v]
      <4>1. HasWeights(buckets'[v])
        BY <1>4, <3>2
      <4> QED BY <4>1 DEF HasWeights
    <3>3. DOMAIN picks'[v] = DOMAIN buckets'[v]
      BY <1>5 DEF NoCounts
    <3> QED BY <3>1, <3>2, <3>3
  <2>5. DOMAIN picks' = Versions /\ incr' \in [Versions -> Nat] /\ current' \in [Versions -> Nat]
    BY <1>1
  <2> QED BY <1>1, <1>2, <1>5, <2>1, <2>3, <2>4, <2>5 DEF TypeOK
<1>7. BucketsOK'
  BY <1>1, <1>3, <1>4 DEF BucketsOK, BucketFor
<1>8. Locals' /\ Sharing'
  BY <1>1 DEF Locals, Local, Sharing
<1>9. TurnsOK'
  <2>1. ASSUME NEW v \in Versions, buckets'[v] # <<>> PROVE Settled(v)'
    <3>1. /\ FirstOnes(Len(buckets'[v]), picks'[v], incr'[v])
          /\ AtPlace(buckets'[v], picks'[v], <<current'[v], max'[v]>>)
      BY <1>4, <1>5, <2>1, AtFirst
    <3> QED BY <3>1 DEF Settled
  <2> QED BY <1>1, <2>1 DEF TurnsOK
<1> QED BY <1>6, <1>7, <1>8, <1>9 DEF IInv

LEMMA InitHolds == Init => IInv
<1> SUFFICES ASSUME Init PROVE IInv
  OBVIOUS
<1>1. Closest = {}
  BY DEF Init, Closest, Range
<1>2. TypeOK
  BY LoadBalancerAssumption DEF Init, TypeOK, LoadBalancerAssumption
<1>3. BucketsOK
  BY <1>1 DEF Init, BucketsOK, Range
<1>4. Locals /\ Sharing /\ TurnsOK
  BY DEF Init, Locals, Local, Sharing, TurnsOK
<1> QED BY <1>2, <1>3, <1>4 DEF IInv

LEMMA NextKeeps == IInv /\ [Next]_vars => IInv'
<1> SUFFICES ASSUME IInv, [Next]_vars PROVE IInv'
  OBVIOUS
<1>1. CASE UNCHANGED vars
  <2>1. UNCHANGED <<policy, servers, buckets, incr, current, max, pc, asks, tmp, answer, picks, shared>>
    BY <1>1 DEF vars, rrVars, wrrVars, pickVars, history
  <2>2. UNCHANGED <<TypeOK, BucketsOK, Locals, Sharing>>
    BY <2>1 DEF TypeOK, BucketsOK, Closest, Locals, Local, Sharing, Bucket, From, BucketOf
  <2>3. \A v \in Versions : /\ Settled(v)' = Settled(v) /\ Free(v)' = Free(v)
                            /\ \A p \in Pickers : Midway(p, v)' = Midway(p, v) /\ From(p)' = From(p)
    BY <2>1 DEF Settled, Free, Midway, From, BucketOf
  <2>4. TurnsOK'
    BY <2>1, <2>3 DEF IInv, TurnsOK
  <2> QED BY <2>2, <2>4 DEF IInv
<1>2. CASE \E list \in Lists : SetServers(list)
  BY <1>2, SetServersKeeps
<1>3. ASSUME NEW p \in Pickers, NEW v \in Versions, Request(p, v) PROVE IInv'
  <2>1. PICK b : b = BucketOf(v)
    OBVIOUS
  <2> QED BY <1>3, <2>1, RequestKeeps
<1>4. ASSUME NEW p \in Pickers, Step(p) PROVE IInv'
  <2>1. PICK b : b = From(p)
    OBVIOUS
  <2>2. CASE RoundRobinRead(p)
    BY <2>1, <2>2, RoundRobinReadKeeps
  <2>3. CASE RoundRobinIncr(p)
    BY <2>1, <2>3, RoundRobinIncrKeeps
  <2>13. CASE RoundRobinWrite(p)
    BY <2>1, <2>13, RoundRobinWriteKeeps
  <2>4. CASE LoadCurrent(p)
    BY <2>1, <2>4, LoadCurrentKeeps
  <2>5. CASE StoreCurrent(p)
    BY <2>1, <2>5, StoreCurrentKeeps
  <2>6. CASE Wrapped(p)
    BY <2>1, <2>6, WrappedKeeps
  <2>7. CASE LoadMax(p)
    BY <2>1, <2>7, LoadMaxKeeps
  <2>8. CASE StoreMax(p)
    BY <2>1, <2>8, StoreMaxKeeps
  <2>14. CASE TestMax(p)
    BY <2>1, <2>14, TestMaxKeeps
  <2>9. CASE ResetMax(p)
    BY <2>1, <2>9, ResetMaxKeeps
  <2>10. CASE Test(p)
    BY <2>1, <2>10, TestKeeps
  <2>11. CASE Take(p)
    BY <2>1, <2>11, TakeKeeps
  <2>12. CASE Return(p)
    BY <2>1, <2>12, ReturnKeeps
  <2> QED BY <1>4, <2>2, <2>3, <2>4, <2>5, <2>6, <2>7, <2>8, <2>9, <2>10, <2>11, <2>12, <2>13, <2>14 DEF Step
<1> QED BY <1>1, <1>2, <1>3, <1>4 DEF Next

-------------------------------------------------------------------------------
(* What the invariant implies. *)

\* All of the above holds in every behaviour.
LEMMA Invariance == Spec => []IInv
<1>1. Init => IInv
  BY InitHolds
<1>2. IInv /\ [Next]_vars => IInv'
  BY NextKeeps
<1> QED BY <1>1, <1>2, PTL DEF Spec

\* The state has the types of TypeOK: however the loads and stores of incr and
\* current interleave, they are indexes of servers of their bucket.
THEOREM TypeCorrect == Spec => []TypeOK
<1>1. IInv => TypeOK
  BY DEF IInv
<1> QED BY <1>1, Invariance, PTL

\* Whatever lists discovery hands over, and whatever order a map or a shuffle
\* puts them in, a request rotates over exactly the closest servers of its
\* version, or over all of the closest: if it asks for the default version (which
\* readme.md does not say) or if none of the closest has the version it asks for
\* (even if a server further away has it).
THEOREM RotationHolds == Spec => []Rotation
<1>1. ASSUME IInv, NEW v \in Versions, servers # <<>>
      PROVE  Range(buckets[BucketOf(v)]) = Eligible(v)
  <2>1. TypeOK /\ BucketsOK
    BY <1>1 DEF IInv
  <2>2. Default \in Versions /\ BucketOf(v) \in Versions
    BY <1>1, <2>1, ServedIs, LoadBalancerAssumption DEF LoadBalancerAssumption
  <2>3. /\ Range(buckets[Default]) = Closest
        /\ Range(buckets[v]) = {s \in Closest : v = Default \/ s.version = v}
    BY <2>1, <2>2 DEF BucketsOK
  <2>4. buckets[v] = <<>> <=> Range(buckets[v]) = {}
    <3>1. ASSUME buckets[v] # <<>> PROVE Range(buckets[v]) # {}
      <4>1. HasWeights(buckets[v])
        BY <2>1, <3>1, BucketIs
      <4>2. 1 \in DOMAIN buckets[v]
        BY <4>1 DEF HasWeights
      <4> QED BY <4>2 DEF Range
    <3>2. Range(<<>>) = {}
      BY DEF Range
    <3> QED BY <3>1, <3>2
  <2>5. CASE buckets[v] = <<>>
    <3>1. v # Default /\ {s \in Closest : s.version = v} = {}
      BY <1>1, <2>1, <2>3, <2>4, <2>5, ServedIs, NearestIs
    <3> QED BY <2>3, <2>5, <3>1 DEF BucketOf, Eligible
  <2>6. CASE buckets[v] # <<>>
    BY <2>3, <2>4, <2>6 DEF BucketOf, Eligible
  <2> QED BY <2>5, <2>6
<1>2. IInv => Rotation
  BY <1>1 DEF Rotation
<1> QED BY <1>2, Invariance, PTL

\* As long as goroutines choose from a bucket one at a time, a full cycle of its
\* balancer chooses every server as often as its weight says, wherever in the
\* cycle the goroutine of the moment is.
THEOREM ProportionalHolds == Spec => []Proportional
<1>1. ASSUME NEW seq, HasWeights(seq), NEW counts, NEW x, AtPlace(seq, counts, x),
             Total(counts) = Total(WeightedShare(seq))
      PROVE  counts = WeightedShare(seq)
  <2>1. /\ InTurn(counts, WeightedShare(seq), Top(seq), x[1], x[2] \div Gcd(seq))
        /\ x[1] \in 0..Len(seq) - 1 /\ x[2] \div Gcd(seq) \in 1..Top(seq)
    BY <1>1 DEF AtPlace, PlacesOf, IsLevel
  <2>2. IsShare(Len(seq), Top(seq), WeightedShare(seq))
    BY <1>1, SharesAre
  <2> QED BY <1>1, <2>1, <2>2, InTurnIs
<1>2. ASSUME NEW seq, HasWeights(seq), NEW counts, NEW k \in 0..Len(seq) - 1,
             FirstOnes(Len(seq), counts, k), Total(counts) = Total(EqualShare(seq))
      PROVE  counts = EqualShare(seq)
  <2> DEFINE n == Len(seq)
             due == [i \in 1..n |-> IF i <= k THEN 1 ELSE 0]
             share == EqualShare(seq)
  <2>1. n \in Nat \ {0} /\ share = [i \in 1..n |-> 1]
    BY <1>2 DEF HasWeights, EqualShare
  <2>2. counts = due \/ counts = share
    BY <1>2, <2>1 DEF FirstOnes
  <2>3. share \in [1..n -> Int] /\ due \in [1..n -> Int] /\ \A j \in 1..n : due[j] <= share[j]
    BY <2>1
  <2>4. Total(counts) = Total(share)
    BY <1>2
  <2> HIDE DEF n, due, share
  <2>5. counts = share
    BY <2>1, <2>2, <2>3, <2>4, FullCycle
  <2> QED BY <2>5 DEF share
<1>3. ASSUME IInv, NEW v \in Versions \ shared, buckets[v] # <<>>,
             Total(picks[v]) = Total(Share(buckets[v]))
      PROVE  picks[v] = Share(buckets[v])
  <2> DEFINE seq == buckets[v]
  <2>1. /\ TypeOK /\ BucketsOK /\ Locals
        /\ Free(v) => Settled(v)
        /\ \A p \in Pickers : pc[p] # "idle" /\ From(p) = v => Midway(p, v)
    BY <1>3 DEF IInv, TurnsOK
  <2>2. HasWeights(seq) /\ incr[v] \in 0..Len(seq) - 1
    BY <1>3, <2>1, BucketIs
  <2>3. ASSUME NEW p \in Pickers, pc[p] # "idle", From(p) = v
        PROVE  IF policy = "round_robin" THEN \E k \in 0..Len(seq) - 1 : FirstOnes(Len(seq), picks[v], k)
               ELSE \E x : AtPlace(seq, picks[v], x)
    <3>1. Midway(p, v) /\ Local(p)
      BY <2>1, <2>3 DEF Locals
    <3>2. CASE policy = "round_robin"
      <4>1. pc[p] \in {"read", "incr", "write", "return"}
        BY <2>3, <3>1, <3>2 DEF Local
      <4>2. CASE pc[p] = "return"
        <5>1. answer[p] \in 1..Len(seq) /\ Len(seq) \in Nat
          BY <2>2, <2>3, <3>1, <4>2 DEF Local, Bucket, HasWeights
        <5>2. answer[p] - 1 \in 0..Len(seq) - 1
          BY <5>1
        <5>3. FirstOnes(Len(seq), picks[v], answer[p] - 1)
          BY <3>1, <3>2, <4>2 DEF Midway
        <5> QED BY <3>2, <5>2, <5>3
      <4>3. CASE pc[p] \in {"read", "incr", "write"}
        <5>1. FirstOnes(Len(seq), picks[v], incr[v])
          BY <3>1, <4>3 DEF Midway
        <5> QED BY <2>2, <3>2, <5>1
      <4> QED BY <4>1, <4>2, <4>3
    <3>3. CASE policy # "round_robin"
      <4>1. pc[p] \in {"load", "store", "wrapped", "lower", "lowered",
                        "reset", "top", "test", "take", "return"}
        BY <2>1, <2>3, <3>1, <3>3 DEF TypeOK, Local
      <4> HIDE DEF seq
      <4> QED BY <3>1, <3>3, <4>1 DEF Midway, seq
    <3> QED BY <3>2, <3>3
  <2>4. IF policy = "round_robin" THEN \E k \in 0..Len(seq) - 1 : FirstOnes(Len(seq), picks[v], k)
        ELSE \E x : AtPlace(seq, picks[v], x)
    <3>1. CASE Free(v)
      BY <2>1, <2>2, <3>1 DEF Settled
    <3>2. CASE ~ Free(v)
      BY <2>3, <3>2 DEF Free
    <3> QED BY <3>1, <3>2
  <2> HIDE DEF seq
  <2>5. CASE policy = "round_robin"
    BY <1>2, <1>3, <2>2, <2>4, <2>5 DEF Share, seq
  <2>6. CASE policy # "round_robin"
    BY <1>1, <1>3, <2>2, <2>4, <2>6 DEF Share, seq
  <2> QED BY <2>5, <2>6
<1>4. IInv => Proportional
  BY <1>3 DEF Proportional, InProportion
<1> QED BY <1>4, Invariance, PTL
===============================================================================
