-------------------------------- MODULE Weights --------------------------------
(* The arithmetic of weighted round robin, which the load balancer of service  *)
(* discovery and the target selector of the gateway share.  A server here is   *)
(* any record with a positive weight.                                          *)
EXTENDS Integers, Sequences, Functions

WeightsOf(seq) == {seq[i].weight : i \in DOMAIN seq}
MaxWeight(seq) == CHOOSE w \in WeightsOf(seq) : \A x \in WeightsOf(seq) : x <= w

Divides(d, n) == n % d = 0
Gcd(seq) ==
    CHOOSE d \in 1..MaxWeight(seq) :
        /\ \A w \in WeightsOf(seq) : Divides(d, w)
        /\ \A e \in d + 1 .. MaxWeight(seq) : \E w \in WeightsOf(seq) : ~Divides(e, w)

\* One round of the loop of weighted round robin: from place[1] with max at
\* place[2] to the next place; max sinks by the gcd whenever the first one is next.
Moved(seq, place) ==
    LET next == (place[1] + 1) % Len(seq)
        less == place[2] - Gcd(seq)
    IN  <<next, IF next # 0 THEN place[2] ELSE IF less <= 0 THEN MaxWeight(seq) ELSE less>>
\* The loop ends when the weight is not below max.
Reached(seq, place) == seq[place[1] + 1].weight >= place[2]

\* How often each place of seq is chosen when every place gets its due once.
EqualShare(seq) == [i \in DOMAIN seq |-> 1]
WeightedShare(seq) == [i \in DOMAIN seq |-> seq[i].weight \div Gcd(seq)]

Total(counts) == FoldFunction(+, 0, counts)
NoCounts(seq) == [i \in DOMAIN seq |-> 0]

\* One more choice of place i; a full cycle (as long as share says) starts over.
Counted(counts, i, share) ==
    LET since == IF Total(counts) = Total(share) THEN [j \in DOMAIN counts |-> 0] ELSE counts
    IN  [since EXCEPT ![i] = @ + 1]
===============================================================================
