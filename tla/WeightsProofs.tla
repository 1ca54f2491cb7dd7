----------------------------- MODULE WeightsProofs -----------------------------
(***************************************************************************)
(* Facts about Weights for any list of servers, which LoadBalancer and     *)
(* Gateway share: totals of counts, the largest weight, the gcd and the    *)
(* shares, and how far weighted round robin is when it is at a place and a *)
(* level.                                                                  *)
(***************************************************************************)
EXTENDS Weights, FiniteSetTheorems, WellFoundedInduction, TLAPS

(* Induction in forms the provers can use, over a set instead of a predicate. *)

\* A set of natural numbers that is not empty has a least element.
LEMMA Least ==
    ASSUME NEW T \in SUBSET Nat, T # {}
    PROVE  \E m \in T : \A k \in T : m <= k
<1> DEFINE R == OpToRel(<, Nat)
<1>1. PICK m \in T : \A k \in T : ~ (<<k, m>> \in R)
  <2>1. IsWellFoundedOn(R, Nat)
    BY NatLessThanWellFounded
  <2> HIDE DEF R
  <2> QED BY <2>1, WFMin
<1>2. \A k \in T : ~ (k < m)
  BY <1>1 DEF OpToRel
<1> HIDE DEF R
<1>3. T \subseteq Nat
  OBVIOUS
<1> QED BY <1>2, <1>3

\* Induction on the natural numbers that belong to a set.
LEMMA NatSetInduction ==
    ASSUME NEW B, 0 \in B, \A k \in Nat : k \in B => k + 1 \in B
    PROVE  Nat \subseteq B
<1> DEFINE T == {k \in Nat : k \notin B}
<1> SUFFICES ASSUME T # {} PROVE FALSE
  OBVIOUS
<1>1. PICK m \in T : \A k \in T : m <= k
  <2>1. T \in SUBSET Nat
    OBVIOUS
  <2> HIDE DEF T
  <2> QED BY <2>1, Least
<1>2. m \in Nat /\ m # 0
  OBVIOUS
<1>3. m - 1 \in Nat /\ (m - 1) + 1 = m
  BY <1>2
<1>4. m - 1 \notin T
  BY <1>1, <1>2, <1>3
<1>5. m - 1 \in B
  BY <1>3, <1>4
<1> QED BY <1>3, <1>5

AnyOf(s) == CHOOSE x \in s : TRUE

LEMMA AnyOfIn == \A s : s # {} => AnyOf(s) \in s
  BY DEF AnyOf

\* What holds of the empty set, and of a set if it holds of the set without one
\* of its elements, holds of every finite set.
LEMMA SubsetInduction ==
    ASSUME NEW S, IsFiniteSet(S), NEW B, {} \in B,
           \A s \in SUBSET S : s # {} /\ s \ {AnyOf(s)} \in B => s \in B
    PROVE  SUBSET S \subseteq B
<1> DEFINE C == {k \in Nat : \A s \in SUBSET S : Cardinality(s) = k => s \in B}
<1>1. \A s \in SUBSET S : IsFiniteSet(s) /\ Cardinality(s) \in Nat
  BY FS_Subset, FS_CardinalityType
<1>2. 0 \in C
  BY <1>1, FS_EmptySet
<1>3. ASSUME NEW k \in Nat, k \in C PROVE k + 1 \in C
  <2> SUFFICES ASSUME NEW s \in SUBSET S, Cardinality(s) = k + 1 PROVE s \in B
    OBVIOUS
  <2>1. s # {}
    BY FS_EmptySet
  <2>2. s \ {AnyOf(s)} \in SUBSET S /\ Cardinality(s \ {AnyOf(s)}) = k
    BY <2>1, <1>1, AnyOfIn, FS_RemoveElement
  <2>3. s \ {AnyOf(s)} \in B
    BY <1>3, <2>2
  <2> QED BY <2>1, <2>3
<1>4. Nat \subseteq C
  <2> HIDE DEF C
  <2> QED BY <1>2, <1>3, NatSetInduction
<1> QED BY <1>1, <1>4

-------------------------------------------------------------------------------
(* Totals. *)

\* What MapThenFoldSet computes for the subsets of S.
SumStep(f, g, s) == IF s = {} THEN 0 ELSE f[AnyOf(s)] + g[s \ {AnyOf(s)}]
IsSums(f, S, g) == g = [s \in SUBSET S |-> SumStep(f, g, s)]

\* The sums of f over all subsets of a finite set, one element taken after the other.
LEMMA SumsExist ==
    ASSUME NEW S, IsFiniteSet(S), NEW f \in [S -> Int]
    PROVE  \E g : IsSums(f, S, g)
<1> DEFINE Upto(g, k) ==
             \A s \in SUBSET S : Cardinality(s) <= k => g[s] = SumStep(f, g, s)
           C == {k \in Nat : \E g \in [SUBSET S -> Int] : Upto(g, k)}
<1>1. \A s \in SUBSET S : IsFiniteSet(s) /\ Cardinality(s) \in Nat /\ Cardinality(s) <= Cardinality(S)
  BY FS_Subset, FS_CardinalityType
<1>2. \A s \in SUBSET S : s # {} => /\ s \ {AnyOf(s)} \in SUBSET S /\ AnyOf(s) \in S
                                    /\ Cardinality(s \ {AnyOf(s)}) = Cardinality(s) - 1
  BY <1>1, AnyOfIn, FS_RemoveElement
<1>3. 0 \in C
  <2> DEFINE g == [s \in SUBSET S |-> 0]
  <2>1. g \in [SUBSET S -> Int]
    OBVIOUS
  <2>2. \A s \in SUBSET S : Cardinality(s) <= 0 => s = {}
    BY <1>1, FS_EmptySet
  <2>3. Upto(g, 0)
    BY <2>2 DEF SumStep
  <2> QED BY <2>1, <2>3
<1>4. ASSUME NEW k \in Nat, k \in C PROVE k + 1 \in C
  <2>1. PICK g \in [SUBSET S -> Int] : Upto(g, k)
    BY <1>4
  <2> DEFINE h == [s \in SUBSET S |-> SumStep(f, g, s)]
  <2>2. h \in [SUBSET S -> Int]
    <3>1. ASSUME NEW s \in SUBSET S PROVE SumStep(f, g, s) \in Int
      <4>1. CASE s = {}
        BY <4>1 DEF SumStep
      <4>2. CASE s # {}
        <5>1. f[AnyOf(s)] \in Int /\ g[s \ {AnyOf(s)}] \in Int
          BY <4>2, <1>2
        <5> QED BY <4>2, <5>1 DEF SumStep
      <4> QED BY <4>1, <4>2
    <3> QED BY <3>1
  <2>3. Upto(h, k + 1)
    <3> SUFFICES ASSUME NEW s \in SUBSET S, Cardinality(s) <= k + 1, s # {}
                 PROVE  h[s] = SumStep(f, h, s)
      BY DEF SumStep
    <3>1. h[s \ {AnyOf(s)}] = g[s \ {AnyOf(s)}]
      <4>1. Cardinality(s \ {AnyOf(s)}) <= k
        BY <1>1, <1>2
      <4> QED BY <4>1, <1>2, <2>1
    <3>2. h[s] = f[AnyOf(s)] + g[s \ {AnyOf(s)}]
      BY DEF SumStep
    <3> HIDE DEF h
    <3> QED BY <3>1, <3>2 DEF SumStep
  <2>4. \E e \in [SUBSET S -> Int] : Upto(e, k + 1)
    <3> HIDE DEF h, Upto
    <3> QED BY <2>2, <2>3
  <2> QED BY <2>4
<1>5. Cardinality(S) \in C
  <2>1. Nat \subseteq C
    <3> HIDE DEF C
    <3> QED BY <1>3, <1>4, NatSetInduction
  <2> QED BY <2>1, FS_CardinalityType
<1>6. PICK g \in [SUBSET S -> Int] : Upto(g, Cardinality(S))
  BY <1>5
<1>7. \A s \in SUBSET S : g[s] = SumStep(f, g, s)
  BY <1>1, <1>6
<1> QED BY <1>7 DEF IsSums

\* Total, a fold over a function, is such a sum.
LEMMA TotalIs ==
    ASSUME NEW S, IsFiniteSet(S), NEW f \in [S -> Int]
    PROVE  \E g : IsSums(f, S, g) /\ Total(f) = g[S]
<1> DEFINE chosen == CHOOSE g : g = [s \in SUBSET S |-> SumStep(f, g, s)]
<1>1. DOMAIN f = S
  OBVIOUS
<1>2. Total(f) = chosen[S]
  BY <1>1 DEF Total, FoldFunction, FoldFunctionOnSet, MapThenFoldSet, SumStep, AnyOf
<1>3. IsSums(f, S, chosen)
  BY SumsExist DEF IsSums
<1> QED BY <1>2, <1>3

\* The total of larger counts is larger, and equal only if the counts are.
LEMMA TotalMonotone ==
    ASSUME NEW S, IsFiniteSet(S), NEW f \in [S -> Int], NEW g \in [S -> Int],
           \A x \in S : f[x] <= g[x], Total(f) = Total(g)
    PROVE  f = g
<1>1. PICK a : IsSums(f, S, a) /\ Total(f) = a[S]
  BY TotalIs
<1>2. PICK b : IsSums(g, S, b) /\ Total(g) = b[S]
  BY TotalIs
<1> DEFINE B == {s \in SUBSET S : /\ a[s] \in Int /\ b[s] \in Int /\ a[s] <= b[s]
                                  /\ a[s] = b[s] => \A x \in s : f[x] = g[x]}
<1>3. {} \in B
  BY <1>1, <1>2 DEF IsSums, SumStep
<1>4. ASSUME NEW s \in SUBSET S, s # {}, s \ {AnyOf(s)} \in B PROVE s \in B
  <2> DEFINE x == AnyOf(s)
             r == s \ {x}
  <2>1. x \in s /\ x \in S /\ s = r \cup {x}
    BY <1>4, AnyOfIn
  <2>2. a[s] = f[x] + a[r] /\ b[s] = g[x] + b[r]
    BY <1>1, <1>2, <1>4 DEF IsSums, SumStep
  <2>3. f[x] \in Int /\ g[x] \in Int /\ f[x] <= g[x]
    BY <2>1
  <2>4. a[r] \in Int /\ b[r] \in Int /\ a[r] <= b[r] /\ (a[r] = b[r] => \A y \in r : f[y] = g[y])
    BY <1>4
  <2> HIDE DEF x, r
  <2>5. a[s] \in Int /\ b[s] \in Int /\ a[s] <= b[s]
    BY <2>2, <2>3, <2>4
  <2>6. ASSUME a[s] = b[s] PROVE \A y \in s : f[y] = g[y]
    <3>1. f[x] = g[x] /\ a[r] = b[r]
      BY <2>2, <2>3, <2>4, <2>6
    <3> QED BY <3>1, <2>1, <2>4
  <2> QED BY <2>5, <2>6
<1>5. S \in B
  <2>1. SUBSET S \subseteq B
    <3> HIDE DEF B
    <3> QED BY <1>3, <1>4, SubsetInduction
  <2> QED BY <2>1
<1>6. \A x \in S : f[x] = g[x]
  BY <1>1, <1>2, <1>5
<1> QED BY <1>6

-------------------------------------------------------------------------------
(* Weights, their gcd and the shares. *)

\* A list of servers: not empty, with weights of at least 1.
HasWeights(seq) ==
    /\ Len(seq) \in Nat \ {0} /\ DOMAIN seq = 1..Len(seq)
    /\ \A i \in DOMAIN seq : seq[i].weight \in Nat \ {0}

\* MaxWeight is the weight of a server, and none is larger.
LEMMA MaxWeightIs ==
    ASSUME NEW seq, HasWeights(seq)
    PROVE  /\ MaxWeight(seq) \in Nat \ {0}
           /\ \A i \in DOMAIN seq : seq[i].weight <= MaxWeight(seq)
           /\ \E i \in DOMAIN seq : seq[i].weight = MaxWeight(seq)
<1> DEFINE n == Len(seq)
           B == {k \in Nat : k = 0 \/ k > n \/
                   \E i \in 1..k : \A j \in 1..k : seq[j].weight <= seq[i].weight}
<1>1. n \in Nat \ {0} /\ DOMAIN seq = 1..n /\ \A i \in 1..n : seq[i].weight \in Nat \ {0}
  BY DEF HasWeights
<1> HIDE DEF n
<1>2. ASSUME NEW k \in Nat, k \in B PROVE k + 1 \in B
  <2> SUFFICES ASSUME k + 1 <= n
               PROVE  \E i \in 1..k + 1 : \A j \in 1..k + 1 : seq[j].weight <= seq[i].weight
    BY <1>1
  <2>1. CASE k = 0
    BY <1>1, <2>1
  <2>2. CASE k # 0
    <3>1. PICK i \in 1..k : \A j \in 1..k : seq[j].weight <= seq[i].weight
      BY <1>1, <1>2, <2>2
    <3>2. CASE seq[k + 1].weight <= seq[i].weight
      <4>1. \A j \in 1..k + 1 : seq[j].weight <= seq[i].weight
        BY <3>1, <3>2, <1>1
      <4> QED BY <4>1
    <3>3. CASE ~ (seq[k + 1].weight <= seq[i].weight)
      <4>1. \A j \in 1..k + 1 : seq[j].weight <= seq[k + 1].weight
        BY <3>1, <3>3, <1>1
      <4> QED BY <4>1
    <3> QED BY <3>2, <3>3
  <2> QED BY <2>1, <2>2
<1>3. n \in B
  <2>1. Nat \subseteq B
    <3>1. 0 \in B
      OBVIOUS
    <3> HIDE DEF B
    <3> QED BY <1>2, <3>1, NatSetInduction
  <2> QED BY <1>1, <2>1
<1>4. PICK i \in 1..n : \A j \in 1..n : seq[j].weight <= seq[i].weight
  BY <1>1, <1>3
<1>5. /\ MaxWeight(seq) \in WeightsOf(seq)
      /\ \A x \in WeightsOf(seq) : x <= MaxWeight(seq)
  BY <1>1, <1>4 DEF MaxWeight, WeightsOf
<1> QED BY <1>1, <1>5 DEF WeightsOf

\* Gcd divides all weights.
LEMMA GcdIs ==
    ASSUME NEW seq, HasWeights(seq)
    PROVE  /\ Gcd(seq) \in 1..MaxWeight(seq)
           /\ \A i \in DOMAIN seq : Divides(Gcd(seq), seq[i].weight)
<1> DEFINE W == MaxWeight(seq)
           Common(d) == \A w \in WeightsOf(seq) : Divides(d, w)
           T == {k \in Nat : W - k \in 1..W /\ Common(W - k)}
<1>1. W \in Nat \ {0} /\ \A w \in WeightsOf(seq) : w \in Nat /\ w <= W
  BY MaxWeightIs DEF WeightsOf, HasWeights
<1> HIDE DEF W
<1>2. T # {}
  <2>1. Common(1)
    BY <1>1 DEF Divides
  <2>2. W - (W - 1) = 1 /\ W - 1 \in Nat /\ 1 \in 1..W
    BY <1>1
  <2>3. W - 1 \in T
    <3> HIDE DEF Common
    <3> QED BY <2>1, <2>2
  <2> QED BY <2>3
<1>3. PICK m \in T : \A k \in T : m <= k
  <2>1. T \in SUBSET Nat
    OBVIOUS
  <2> HIDE DEF T
  <2> QED BY <1>2, <2>1, Least
<1>4. \A e \in W - m + 1 .. W : ~ Common(e)
  <2> SUFFICES ASSUME NEW e \in W - m + 1 .. W, Common(e) PROVE FALSE
    OBVIOUS
  <2> HIDE DEF Common
  <2>1. W - (W - e) = e /\ W - e \in Nat /\ e \in 1..W /\ ~ (m <= W - e)
    BY <1>1, <1>3
  <2> QED BY <2>1, <1>3
<1>5. \E d \in 1..W : Common(d) /\ \A e \in d + 1 .. W : ~ Common(e)
  <2> HIDE DEF Common
  <2> QED BY <1>3, <1>4
<1>6. Gcd(seq) \in 1..W /\ Common(Gcd(seq))
  BY <1>5 DEF Gcd, W
<1> QED BY <1>6 DEF WeightsOf, W

\* A multiple of g is g times its quotient; multiples are ordered as the quotients.
LEMMA Quotient ==
    ASSUME NEW g \in Nat \ {0}, NEW w \in Nat \ {0}, Divides(g, w)
    PROVE  w \div g \in Nat \ {0} /\ w = g * (w \div g)
<1>1. w \div g \in Nat
  OBVIOUS
<1>2. w = g * (w \div g)
  BY DEF Divides
<1>3. w \div g # 0
  BY <1>2
<1> QED BY <1>1, <1>2, <1>3

\* Products with a common factor compare as the other factors do.
LEMMA Multiples ==
    ASSUME NEW g \in Nat \ {0}, NEW a \in Nat, NEW b \in Nat
    PROVE  /\ g * a \in Nat /\ (g * a >= g * b <=> a >= b) /\ (g * a = g * b <=> a = b)
           /\ g * (a - 1) = g * a - g
           /\ (g * a) \div g = a /\ (g * a <= 0 <=> a <= 0)
<1>1. g * a \in Nat /\ g * b \in Nat
  OBVIOUS
<1>2. ASSUME NEW x \in Nat, NEW y \in Nat, x > y PROVE g * x > g * y
  <2>1. PICK d \in Nat : x = y + 1 + d
    <3>1. x - y - 1 \in Nat
      BY <1>2
    <3> QED BY <3>1
  <2>2. g * x = g * y + g + g * d
    BY <2>1
  <2>3. g * d \in Nat /\ g * y \in Nat
    OBVIOUS
  <2> QED BY <2>2, <2>3
<1>3. g * (a - 1) = g * a - g /\ (g * a) \div g = a /\ (g * a <= 0 <=> a <= 0)
  OBVIOUS
<1>4. CASE a > b
  BY <1>1, <1>2, <1>3, <1>4
<1>5. CASE b > a
  BY <1>1, <1>2, <1>3, <1>5
<1>6. CASE a = b
  BY <1>1, <1>3, <1>6
<1> QED BY <1>4, <1>5, <1>6

\* One more choice of place i; no choice at all.
More(counts, i) == [counts EXCEPT ![i] = @ + 1]
None(n) == [i \in 1..n |-> 0]

\* Place i is due, and the counts are the due ones, or complete ones when nothing
\* is due yet.
DueNow(n, share, due, i, counts) ==
    /\ n \in Nat \ {0} /\ share \in [1..n -> Int] /\ due \in [1..n -> Int]
    /\ \A j \in 1..n : due[j] <= share[j]
    /\ i \in 1..n /\ due[i] + 1 <= share[i]
    /\ counts = due \/ (counts = share /\ due = None(n))

\* Such counts go on to the due ones: starting over is never noticed.
LEMMA CountedIs ==
    ASSUME NEW n, NEW share, NEW due, NEW i, NEW counts, DueNow(n, share, due, i, counts)
    PROVE  Counted(counts, i, share) = More(due, i)
<1>0. /\ n \in Nat \ {0} /\ share \in [1..n -> Int] /\ due \in [1..n -> Int]
      /\ \A j \in 1..n : due[j] <= share[j]
      /\ i \in 1..n /\ due[i] + 1 <= share[i]
      /\ counts = due \/ (counts = share /\ due = None(n))
  BY DEF DueNow
<1>1. IsFiniteSet(1..n)
  BY <1>0, FS_Interval
<1>2. CASE counts = due
  <2>1. due # share
    BY <1>0
  <2>2. Total(counts) # Total(share)
    BY <1>0, <1>1, <1>2, <2>1, TotalMonotone
  <2> QED BY <1>2, <2>2 DEF Counted, More
<1>3. CASE counts = share /\ due = None(n)
  BY <1>0, <1>3 DEF Counted, More, None
<1> QED BY <1>0, <1>2, <1>3

\* Counts that are at most the shares make a full cycle only when they are the shares.
LEMMA FullCycle ==
    ASSUME NEW n \in Nat \ {0}, NEW share \in [1..n -> Int], NEW due \in [1..n -> Int],
           \A j \in 1..n : due[j] <= share[j],
           NEW counts, counts = due \/ counts = share, Total(counts) = Total(share)
    PROVE  counts = share
<1>1. IsFiniteSet(1..n)
  BY FS_Interval
<1> QED BY <1>1, TotalMonotone

-------------------------------------------------------------------------------
(* Weighted round robin.  It looks at the places in turn, at a level that sinks *)
(* by one with every round, and chooses a place whose share is not below it.    *)

\* The place and the level after c and k.
IsNext(n, top, c, k, next, less) ==
    /\ next = IF c + 1 = n THEN 0 ELSE c + 1
    /\ less = IF next # 0 THEN k ELSE IF k - 1 <= 0 THEN top ELSE k - 1

\* What has been chosen in a cycle that started at place 0 and level top, when
\* place c and level k have been looked at.
Due(share, top, c, k) ==
    [i \in DOMAIN share |->
        IF share[i] < k THEN 0
        ELSE share[i] - k + (IF i - 1 <= c THEN 1 ELSE 0)
                          - (IF i = 1 /\ share[i] = top THEN 1 ELSE 0)]

\* The counts are what is due at place c and level k, or a full cycle has just ended
\* and nothing is due yet.
InTurn(counts, share, top, c, k) ==
    \/ counts = Due(share, top, c, k)
    \/ counts = share /\ Due(share, top, c, k) = [i \in DOMAIN share |-> 0]

IsShare(n, top, share) == n \in Nat \ {0} /\ top \in Nat \ {0} /\ share \in [1..n -> 1..top]

\* What is due to a place never exceeds its share.
LEMMA DueIs ==
    ASSUME NEW n, NEW top, NEW share, IsShare(n, top, share), NEW c \in 0..n - 1, NEW k \in 1..top
    PROVE  /\ Due(share, top, c, k) \in [1..n -> Int]
           /\ \A i \in 1..n : Due(share, top, c, k)[i] <= share[i]
BY DEF Due, IsShare

\* Nothing is due where the loop starts.
LEMMA DueAtFirst ==
    ASSUME NEW n, NEW top, NEW share, IsShare(n, top, share)
    PROVE  Due(share, top, 0, top) = None(n)
BY DEF Due, IsShare, None

\* The next place and level are a place and a level.
LEMMA NextIs ==
    ASSUME NEW n \in Nat \ {0}, NEW top \in Nat \ {0}, NEW c \in 0..n - 1, NEW k \in 1..top,
           NEW next, NEW less, IsNext(n, top, c, k, next, less)
    PROVE  next \in 0..n - 1 /\ less \in 1..top
BY DEF IsNext

\* A place that is passed over is not due, or all places have had their share.
LEMMA DueSkip ==
    ASSUME NEW n, NEW top, NEW share, IsShare(n, top, share), NEW c \in 0..n - 1, NEW k \in 1..top,
           NEW next, NEW less, IsNext(n, top, c, k, next, less), share[next + 1] < less
    PROVE  \/ Due(share, top, next, less) = Due(share, top, c, k)
           \/ /\ Due(share, top, c, k) = share
              /\ Due(share, top, next, less) = None(n)
<1> DEFINE D == Due(share, top, c, k)
           E == Due(share, top, next, less)
<1>1. CASE next # 0
  <2>1. \A i \in 1..n : E[i] = D[i]
    BY <1>1 DEF Due, IsNext, IsShare
  <2> QED BY <2>1 DEF Due, IsShare
<1>2. CASE next = 0 /\ k > 1
  <2>1. c = n - 1 /\ less = k - 1
    BY <1>2 DEF IsNext, IsShare
  <2>2. ASSUME NEW i \in 1..n PROVE E[i] = D[i]
    <3>1. share[i] \in 1..top /\ share[1] \in 1..top /\ share[1] < less /\ n \in Nat
      BY <1>2 DEF IsShare
    <3>2. D[i] = IF share[i] < k THEN 0
                 ELSE share[i] - k + (IF i - 1 <= c THEN 1 ELSE 0)
                                   - (IF i = 1 /\ share[i] = top THEN 1 ELSE 0)
      BY DEF Due, IsShare
    <3>3. E[i] = IF share[i] < less THEN 0
                 ELSE share[i] - less + (IF i - 1 <= next THEN 1 ELSE 0)
                                      - (IF i = 1 /\ share[i] = top THEN 1 ELSE 0)
      BY DEF Due, IsShare
    <3> HIDE DEF D, E
    <3>4. CASE i = 1
      BY <3>1, <3>2, <3>3, <3>4, <2>1, <1>2
    <3>5. CASE i # 1
      BY <3>1, <3>2, <3>3, <3>5, <2>1, <1>2
    <3> QED BY <3>4, <3>5
  <2> QED BY <2>2 DEF Due, IsShare
<1>3. CASE next = 0 /\ k = 1
  <2>1. \A i \in 1..n : E[i] = 0 /\ D[i] = share[i]
    BY <1>3 DEF Due, IsNext, IsShare
  <2> QED BY <2>1 DEF Due, IsShare, None
<1>4. k > 1 \/ k = 1
  OBVIOUS
<1> QED BY <1>1, <1>2, <1>3, <1>4

\* A place that is chosen was due, and may complete the cycle.
LEMMA DueChoice ==
    ASSUME NEW n, NEW top, NEW share, IsShare(n, top, share), NEW c \in 0..n - 1, NEW k \in 1..top,
           NEW next, NEW less, IsNext(n, top, c, k, next, less), share[next + 1] >= less
    PROVE  LET more == More(Due(share, top, c, k), next + 1)
           IN  /\ Due(share, top, c, k)[next + 1] + 1 <= share[next + 1]
               /\ \/ Due(share, top, next, less) = more
                  \/ more = share /\ Due(share, top, next, less) = None(n)
<1> DEFINE D == Due(share, top, c, k)
           E == Due(share, top, next, less)
           more == More(D, next + 1)
<1>0. /\ n \in Nat \ {0} /\ top \in Nat \ {0} /\ DOMAIN share = 1..n
      /\ next + 1 \in 1..n /\ \A i \in 1..n : share[i] \in 1..top
  BY NextIs DEF IsShare
<1>1. more \in [1..n -> Int] /\ \A i \in 1..n : more[i] = IF i = next + 1 THEN D[i] + 1 ELSE D[i]
  <2>1. D \in [1..n -> Int]
    BY DueIs
  <2> HIDE DEF D
  <2> QED BY <2>1, <1>0 DEF More
<1>2. \A i \in 1..n : /\ D[i] = IF share[i] < k THEN 0
                               ELSE share[i] - k + (IF i - 1 <= c THEN 1 ELSE 0)
                                                 - (IF i = 1 /\ share[i] = top THEN 1 ELSE 0)
                      /\ E[i] = IF share[i] < less THEN 0
                               ELSE share[i] - less + (IF i - 1 <= next THEN 1 ELSE 0)
                                                    - (IF i = 1 /\ share[i] = top THEN 1 ELSE 0)
  BY <1>0 DEF Due
<1>3. E = [i \in 1..n |-> E[i]] /\ share = [i \in 1..n |-> share[i]]
  BY <1>0 DEF Due, IsShare
<1> SUFFICES D[next + 1] + 1 <= share[next + 1] /\ (E = more \/ (more = share /\ E = None(n)))
  OBVIOUS
<1> HIDE DEF D, E, more
<1>4. CASE next # 0
  <2>1. next = c + 1 /\ less = k
    BY <1>4 DEF IsNext
  <2>2. ASSUME NEW i \in 1..n PROVE E[i] = more[i] /\ more[i] <= share[i]
    <3>1. /\ share[i] \in 1..top /\ share[next + 1] \in 1..top
          /\ more[i] = IF i = next + 1 THEN D[i] + 1 ELSE D[i]
      BY <1>0, <1>1
    <3>2. D[i] = IF share[i] < k THEN 0
                 ELSE share[i] - k + (IF i - 1 <= c THEN 1 ELSE 0)
                                   - (IF i = 1 /\ share[i] = top THEN 1 ELSE 0)
      BY <1>2
    <3>3. E[i] = IF share[i] < less THEN 0
                 ELSE share[i] - less + (IF i - 1 <= next THEN 1 ELSE 0)
                                      - (IF i = 1 /\ share[i] = top THEN 1 ELSE 0)
      BY <1>2
    <3>4. CASE i = next + 1
      BY <3>1, <3>2, <3>3, <3>4, <1>0, <1>4, <2>1
    <3>5. CASE i # next + 1
      <4>1. i - 1 <= next <=> i - 1 <= c
        BY <3>5, <1>0, <2>1
      <4> QED BY <3>1, <3>2, <3>3, <3>5, <4>1, <2>1
    <3> QED BY <3>4, <3>5
  <2> QED BY <2>2, <1>0, <1>1, <1>3
<1>5. CASE next = 0 /\ k > 1
  <2>1. c = n - 1 /\ less = k - 1
    BY <1>0, <1>5 DEF IsNext
  <2>2. ASSUME NEW i \in 1..n PROVE E[i] = more[i] /\ more[i] <= share[i]
    <3>1. /\ share[i] \in 1..top /\ share[next + 1] \in 1..top
          /\ more[i] = IF i = next + 1 THEN D[i] + 1 ELSE D[i]
      BY <1>0, <1>1
    <3>2. D[i] = IF share[i] < k THEN 0
                 ELSE share[i] - k + (IF i - 1 <= c THEN 1 ELSE 0)
                                   - (IF i = 1 /\ share[i] = top THEN 1 ELSE 0)
      BY <1>2
    <3>3. E[i] = IF share[i] < less THEN 0
                 ELSE share[i] - less + (IF i - 1 <= next THEN 1 ELSE 0)
                                      - (IF i = 1 /\ share[i] = top THEN 1 ELSE 0)
      BY <1>2
    <3> QED BY <3>1, <3>2, <3>3, <1>0, <1>5, <2>1
  <2> QED BY <2>2, <1>0, <1>1, <1>3
<1>6. CASE next = 0 /\ k = 1
  <2>1. c = n - 1 /\ less = top
    BY <1>0, <1>6 DEF IsNext
  <2>2. ASSUME NEW i \in 1..n PROVE E[i] = 0 /\ more[i] = share[i]
    <3>1. /\ share[i] \in 1..top /\ share[next + 1] \in 1..top
          /\ more[i] = IF i = next + 1 THEN D[i] + 1 ELSE D[i]
      BY <1>0, <1>1
    <3>2. D[i] = IF share[i] < k THEN 0
                 ELSE share[i] - k + (IF i - 1 <= c THEN 1 ELSE 0)
                                   - (IF i = 1 /\ share[i] = top THEN 1 ELSE 0)
      BY <1>2
    <3>3. E[i] = IF share[i] < less THEN 0
                 ELSE share[i] - less + (IF i - 1 <= next THEN 1 ELSE 0)
                                      - (IF i = 1 /\ share[i] = top THEN 1 ELSE 0)
      BY <1>2
    <3> QED BY <3>1, <3>2, <3>3, <1>0, <1>6, <2>1
  <2> QED BY <2>2, <1>0, <1>1, <1>3 DEF None
<1>7. k > 1 \/ k = 1
  OBVIOUS
<1> QED BY <1>4, <1>5, <1>6, <1>7

\* A round of the loop that passes over a place keeps the counts in turn.
LEMMA Skip ==
    ASSUME NEW n, NEW top, NEW share, IsShare(n, top, share), NEW c \in 0..n - 1, NEW k \in 1..top,
           NEW next, NEW less, IsNext(n, top, c, k, next, less), share[next + 1] < less,
           NEW counts, InTurn(counts, share, top, c, k)
    PROVE  InTurn(counts, share, top, next, less)
<1> DEFINE D == Due(share, top, c, k)
           zero == None(n)
<1>1. DOMAIN share = 1..n
  BY DEF IsShare
<1>2. share # zero
  BY DEF IsShare, None
<1>3. CASE Due(share, top, next, less) = D
  BY <1>3 DEF InTurn
<1>4. CASE D = share /\ Due(share, top, next, less) = zero
  BY <1>1, <1>2, <1>4 DEF InTurn, None
<1> QED BY <1>3, <1>4, DueSkip

\* A round that chooses a place keeps the counts in turn, with that choice counted.
LEMMA Choose ==
    ASSUME NEW n, NEW top, NEW share, IsShare(n, top, share), NEW c \in 0..n - 1, NEW k \in 1..top,
           NEW next, NEW less, IsNext(n, top, c, k, next, less), share[next + 1] >= less,
           NEW counts, InTurn(counts, share, top, c, k)
    PROVE  InTurn(Counted(counts, next + 1, share), share, top, next, less)
<1> DEFINE D == Due(share, top, c, k)
           more == More(D, next + 1)
<1>1. DOMAIN share = 1..n /\ share \in [1..n -> Int] /\ n \in Nat \ {0} /\ top \in Nat \ {0}
  BY DEF IsShare
<1>2. next + 1 \in 1..n
  BY <1>1, NextIs
<1>3. D \in [1..n -> Int] /\ \A i \in 1..n : D[i] <= share[i]
  BY DueIs
<1>4. D[next + 1] + 1 <= share[next + 1]
  BY DueChoice
<1>5. counts = D \/ (counts = share /\ D = None(n))
  BY <1>1 DEF InTurn, None
<1>6. Counted(counts, next + 1, share) = more
  <2> DEFINE i == next + 1
  <2>1. i \in 1..n /\ D[i] + 1 <= share[i]
    BY <1>2, <1>4
  <2> HIDE DEF D, i
  <2>2. Counted(counts, i, share) = More(D, i)
    <3>1. DueNow(n, share, D, i, counts)
      BY <1>1, <1>3, <1>5, <2>1 DEF DueNow
    <3> QED BY <3>1, CountedIs
  <2> QED BY <2>2 DEF i
<1>7. \/ Due(share, top, next, less) = more
      \/ more = share /\ Due(share, top, next, less) = None(n)
  BY DueChoice
<1> QED BY <1>1, <1>6, <1>7 DEF InTurn, None

\* Counts in turn make a full cycle only with the shares of all places.
LEMMA InTurnIs ==
    ASSUME NEW n, NEW top, NEW share, IsShare(n, top, share), NEW c \in 0..n - 1, NEW k \in 1..top,
           NEW counts, InTurn(counts, share, top, c, k)
    PROVE  /\ counts \in [1..n -> Int]
           /\ Total(counts) = Total(share) => counts = share
<1> DEFINE D == Due(share, top, c, k)
<1>1. n \in Nat \ {0} /\ share \in [1..n -> Int]
  BY DEF IsShare
<1>2. D \in [1..n -> Int] /\ \A i \in 1..n : D[i] <= share[i]
  BY DueIs
<1>3. counts = D \/ counts = share
  BY DEF InTurn
<1> HIDE DEF D
<1>4. counts \in [1..n -> Int]
  BY <1>1, <1>2, <1>3
<1>5. Total(counts) = Total(share) => counts = share
  BY <1>1, <1>2, <1>3, FullCycle
<1> QED BY <1>4, <1>5

-------------------------------------------------------------------------------
(* The levels of a list of servers: the weights that are multiples of the gcd. *)

\* The levels of the loop, in units of the gcd.
Top(seq) == MaxWeight(seq) \div Gcd(seq)
IsLevel(seq, m) == m \div Gcd(seq) \in 1..Top(seq) /\ m = Gcd(seq) * (m \div Gcd(seq))

\* The shares of both policies are between 1 and the top level.
LEMMA SharesAre ==
    ASSUME NEW seq, HasWeights(seq)
    PROVE  /\ IsShare(Len(seq), Top(seq), WeightedShare(seq))
           /\ IsShare(Len(seq), 1, EqualShare(seq))
           /\ Gcd(seq) \in Nat \ {0} /\ MaxWeight(seq) = Gcd(seq) * Top(seq)
           /\ \A i \in DOMAIN seq : seq[i].weight = Gcd(seq) * WeightedShare(seq)[i]
<1> DEFINE g == Gcd(seq)
           W == MaxWeight(seq)
           share == WeightedShare(seq)
<1>1. /\ Len(seq) \in Nat \ {0} /\ DOMAIN seq = 1..Len(seq)
      /\ \A i \in DOMAIN seq : seq[i].weight \in Nat \ {0}
  BY DEF HasWeights
<1>2. W \in Nat \ {0} /\ \A i \in DOMAIN seq : seq[i].weight <= W
  BY MaxWeightIs
<1>3. PICK j \in DOMAIN seq : seq[j].weight = W
  BY MaxWeightIs
<1>4. g \in Nat \ {0} /\ \A i \in DOMAIN seq : Divides(g, seq[i].weight)
  BY GcdIs, <1>2
<1>5. share = [i \in 1..Len(seq) |-> seq[i].weight \div g]
  BY <1>1 DEF WeightedShare
<1> HIDE DEF g, W, share
<1>6. \A i \in 1..Len(seq) : share[i] \in Nat \ {0} /\ seq[i].weight = g * share[i]
  BY <1>1, <1>4, <1>5, Quotient
<1>7. W \div g = share[j] /\ W = g * share[j]
  BY <1>1, <1>3, <1>5, <1>6
<1>8. \A i \in 1..Len(seq) : share[i] <= share[j]
  <2> SUFFICES ASSUME NEW i \in 1..Len(seq) PROVE share[i] <= share[j]
    OBVIOUS
  <2>1. g * share[j] >= g * share[i]
    BY <1>1, <1>2, <1>6, <1>7
  <2> QED BY <2>1, <1>1, <1>4, <1>6, Multiples
<1>9. IsShare(Len(seq), Top(seq), share)
  BY <1>1, <1>5, <1>6, <1>7, <1>8 DEF IsShare, Top, W, g
<1>10. IsShare(Len(seq), 1, EqualShare(seq))
  BY <1>1 DEF IsShare, EqualShare
<1> QED BY <1>1, <1>4, <1>6, <1>7, <1>9, <1>10 DEF Top, W, g, share

\* The largest weight is the top level.
LEMMA MaxIsLevel ==
    ASSUME NEW seq, HasWeights(seq)
    PROVE  IsLevel(seq, MaxWeight(seq)) /\ MaxWeight(seq) \div Gcd(seq) = Top(seq)
BY SharesAre DEF IsLevel, Top, IsShare

\* One round of the loop, with weights, is one with shares.
IsRound(seq, c, m, next, less) ==
    /\ HasWeights(seq) /\ c \in 0..Len(seq) - 1 /\ IsLevel(seq, m)
    /\ next = IF c + 1 = Len(seq) THEN 0 ELSE c + 1
    /\ less = IF next # 0 THEN m
              ELSE IF m - Gcd(seq) <= 0 THEN MaxWeight(seq) ELSE m - Gcd(seq)

\* A round on weights is a round on shares and levels.
LEMMA LevelNext ==
    ASSUME NEW seq, NEW c, NEW m, NEW next, NEW less, IsRound(seq, c, m, next, less)
    PROVE  /\ IsLevel(seq, less) /\ next \in 0..Len(seq) - 1
           /\ IsNext(Len(seq), Top(seq), c, m \div Gcd(seq), next, less \div Gcd(seq))
           /\ seq[next + 1].weight >= less <=> WeightedShare(seq)[next + 1] >= less \div Gcd(seq)
<1> DEFINE g == Gcd(seq)
           n == Len(seq)
           k == m \div g
           l == less \div g
           top == Top(seq)
           share == WeightedShare(seq)
<1>0. /\ HasWeights(seq) /\ c \in 0..n - 1 /\ IsLevel(seq, m)
      /\ next = IF c + 1 = n THEN 0 ELSE c + 1
      /\ less = IF next # 0 THEN m ELSE IF m - g <= 0 THEN MaxWeight(seq) ELSE m - g
  BY DEF IsRound
<1>1. /\ n \in Nat \ {0} /\ DOMAIN seq = 1..n /\ g \in Nat \ {0}
      /\ top \in Nat \ {0} /\ share \in [1..n -> 1..top]
      /\ MaxWeight(seq) = g * top
      /\ \A i \in 1..n : seq[i].weight = g * share[i]
  BY <1>0, SharesAre DEF IsShare, HasWeights
<1>2. k \in 1..top /\ m = g * k
  BY <1>0 DEF IsLevel
<1>3. c \in 0..n - 1 /\ next = IF c + 1 = n THEN 0 ELSE c + 1
  BY <1>0
<1>4. less = IF next # 0 THEN m ELSE IF m - g <= 0 THEN g * top ELSE m - g
  BY <1>0, <1>1
<1>5. \A j \in Nat : less = g * j => l = j
  <2> SUFFICES ASSUME NEW j \in Nat PROVE (g * j) \div g = j
    OBVIOUS
  <2> HIDE DEF g
  <2> QED BY <1>1, Multiples
<1>6. IsLevel(seq, less) <=> l \in 1..top /\ less = g * l
  BY DEF IsLevel
<1> HIDE DEF g, n, k, l, top, share
<1>7. next \in 0..n - 1
  BY <1>1, <1>3
<1>8. PICK j \in 1..top : less = g * j /\ j = IF next # 0 THEN k ELSE IF k - 1 <= 0 THEN top ELSE k - 1
  <2>1. m - g = g * (k - 1)
    BY <1>1, <1>2, Multiples
  <2>2. m - g <= 0 <=> k - 1 <= 0
    <3>1. k - 1 \in Nat
      BY <1>1, <1>2
    <3>2. g * (k - 1) <= 0 <=> k - 1 <= 0
      BY <3>1, <1>1, Multiples
    <3> QED BY <2>1, <3>1, <3>2
  <2>3. CASE next # 0
    BY <2>3, <1>2, <1>4
  <2>4. CASE next = 0 /\ k - 1 <= 0
    BY <2>2, <2>4, <1>1, <1>4
  <2>5. CASE next = 0 /\ ~ (k - 1 <= 0)
    <3>1. k - 1 \in 1..top
      BY <2>5, <1>1, <1>2
    <3>2. less = g * (k - 1)
      BY <2>1, <2>2, <2>5, <1>4
    <3> QED BY <3>1, <3>2, <2>5
  <2> QED BY <2>3, <2>4, <2>5
<1>9. l = j
  <2>1. j \in Nat
    BY <1>1
  <2> QED BY <2>1, <1>8, <1>5, Zenon
<1>10. IsLevel(seq, less)
  BY <1>8, <1>9, <1>6
<1>11. IsNext(n, top, c, k, next, l)
  BY <1>8, <1>9, <1>3 DEF IsNext
<1>12. seq[next + 1].weight >= less <=> share[next + 1] >= l
  <2>1. next + 1 \in 1..n
    BY <1>1, <1>7
  <2>2. share[next + 1] \in Nat /\ j \in Nat /\ seq[next + 1].weight = g * share[next + 1]
    BY <2>1, <1>1, <1>8
  <2>3. g * share[next + 1] >= g * j <=> share[next + 1] >= j
    BY <2>2, <1>1, Multiples
  <2> QED BY <2>2, <2>3, <1>8, <1>9
<1> QED BY <1>7, <1>10, <1>11, <1>12 DEF g, n, k, l, top, share

\* Where the loop can be.
PlacesOf(seq) == (0 .. Len(seq) - 1) \X (1..MaxWeight(seq))

\* Moved stays among the places of the loop.
LEMMA MovedIs ==
    ASSUME NEW seq, HasWeights(seq), NEW x \in PlacesOf(seq)
    PROVE  /\ Moved(seq, x) \in PlacesOf(seq)
           /\ Moved(seq, x)[1] = IF x[1] + 1 = Len(seq) THEN 0 ELSE x[1] + 1
           /\ Moved(seq, x)[2] = IF Moved(seq, x)[1] # 0 THEN x[2]
                                 ELSE IF x[2] - Gcd(seq) <= 0 THEN MaxWeight(seq) ELSE x[2] - Gcd(seq)
<1> DEFINE n == Len(seq)
           W == MaxWeight(seq)
           g == Gcd(seq)
           next == (x[1] + 1) % n
           less == IF next # 0 THEN x[2] ELSE IF x[2] - g <= 0 THEN W ELSE x[2] - g
<1>1. n \in Nat \ {0} /\ W \in Nat \ {0} /\ g \in 1..W
  BY MaxWeightIs, GcdIs DEF HasWeights
<1>2. x[1] \in 0..n - 1 /\ x[2] \in 1..W
  BY DEF PlacesOf
<1>3. Moved(seq, x) = <<next, less>>
  BY DEF Moved
<1>4. PlacesOf(seq) = (0..n - 1) \X (1..W)
  BY DEF PlacesOf
<1> HIDE DEF n, W, g
<1>5. next = IF x[1] + 1 = n THEN 0 ELSE x[1] + 1
  <2>1. CASE x[1] + 1 = n
    BY <2>1, <1>1
  <2>2. CASE x[1] + 1 # n
    BY <2>2, <1>1, <1>2
  <2> QED BY <2>1, <2>2
<1>6. next \in 0..n - 1
  BY <1>1, <1>2, <1>5
<1>7. less \in 1..W
  BY <1>1, <1>2
<1> HIDE DEF next, less
<1>8. Moved(seq, x)[1] = next /\ Moved(seq, x)[2] = less /\ Moved(seq, x) \in PlacesOf(seq)
  BY <1>3, <1>4, <1>6, <1>7
<1> QED BY <1>5, <1>8 DEF less, n, W, g

\* The counts of servers with weights, at a place of the loop.
AtPlace(seq, counts, x) ==
    /\ x \in PlacesOf(seq) /\ IsLevel(seq, x[2])
    /\ InTurn(counts, WeightedShare(seq), Top(seq), x[1], x[2] \div Gcd(seq))

\* One round of the loop passes over a server, or reaches it.
LEMMA Round ==
    ASSUME NEW seq, HasWeights(seq), NEW counts, NEW x, AtPlace(seq, counts, x)
    PROVE  LET y == Moved(seq, x) IN
           IF Reached(seq, y) THEN AtPlace(seq, Counted(counts, y[1] + 1, WeightedShare(seq)), y)
           ELSE AtPlace(seq, counts, y)
<1> DEFINE y == Moved(seq, x)
           n == Len(seq)
           g == Gcd(seq)
           top == Top(seq)
           share == WeightedShare(seq)
<1>1. /\ y \in PlacesOf(seq)
      /\ y[1] = IF x[1] + 1 = n THEN 0 ELSE x[1] + 1
      /\ y[2] = IF y[1] # 0 THEN x[2] ELSE IF x[2] - g <= 0 THEN MaxWeight(seq) ELSE x[2] - g
  BY MovedIs DEF AtPlace
<1>2. /\ x[1] \in 0..n - 1 /\ IsLevel(seq, x[2]) /\ x[2] \div g \in 1..top
      /\ InTurn(counts, share, top, x[1], x[2] \div g)
  BY DEF AtPlace, PlacesOf, IsLevel
<1>3. IsShare(n, top, share)
  BY SharesAre
<1> HIDE DEF y
<1>4. /\ IsLevel(seq, y[2])
      /\ IsNext(n, top, x[1], x[2] \div g, y[1], y[2] \div g)
      /\ seq[y[1] + 1].weight >= y[2] <=> share[y[1] + 1] >= y[2] \div g
  <2>1. IsRound(seq, x[1], x[2], y[1], y[2])
    BY <1>1, <1>2 DEF IsRound
  <2> QED BY <2>1, LevelNext
<1>5. y[1] \in 0..n - 1 /\ y[2] \div g \in 1..top
  BY <1>1, <1>4 DEF PlacesOf, IsLevel
<1> HIDE DEF n, g, top, share
<1>6. CASE Reached(seq, y)
  <2>1. InTurn(Counted(counts, y[1] + 1, share), share, top, y[1], y[2] \div g)
    BY <1>2, <1>3, <1>4, <1>6, Choose DEF Reached
  <2> QED BY <2>1, <1>1, <1>4, <1>6 DEF AtPlace, y, g, top, share
<1>7. CASE ~ Reached(seq, y)
  <2>1. share[y[1] + 1] < y[2] \div g
    <3>1. share[y[1] + 1] \in Int
      BY <1>3, <1>5 DEF IsShare
    <3> QED BY <3>1, <1>4, <1>5, <1>7 DEF Reached
  <2>2. InTurn(counts, share, top, y[1], y[2] \div g)
    BY <1>2, <1>3, <1>4, <2>1, Skip
  <2> QED BY <2>2, <1>1, <1>4, <1>7 DEF AtPlace, y, g, top, share
<1> QED BY <1>6, <1>7 DEF y
===============================================================================
