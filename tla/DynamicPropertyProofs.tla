-------------------------- MODULE DynamicPropertyProofs --------------------------
(***************************************************************************)
(* DynamicProperty for any files, rules, length of etcd's log, compactions *)
(* and failures: the local configuration is that of etcd at the last       *)
(* applied revision, and listeners are called once for each event.         *)
(***************************************************************************)
EXTENDS DynamicProperty, WellFoundedInduction, TLAPS

\* A set of natural numbers that is bounded and not empty has a largest element.
LEMMA MaxOf ==
    ASSUME NEW S \in SUBSET Nat, NEW bound \in Nat, \A x \in S : x <= bound, S # {}
    PROVE  Max(S) \in S /\ \A y \in S : y <= Max(S)
<1> DEFINE T == {m \in Nat : \A x \in S : x <= m}
           R == OpToRel(<, Nat)
<1>1. T \subseteq Nat /\ bound \in T
  OBVIOUS
<1>2. PICK m \in T : \A y \in T : ~ (<<y, m>> \in R)
  <2>1. IsWellFoundedOn(R, Nat)
    BY NatLessThanWellFounded
  <2> HIDE DEF R, T
  <2> QED BY <1>1, <2>1, WFMin
<1>3. \A y \in T : ~ (y < m)
  BY <1>1, <1>2 DEF OpToRel
<1> HIDE DEF R
<1>4. m \in S
  <2> SUFFICES ASSUME m \notin S PROVE FALSE
    OBVIOUS
  <2>1. \A x \in S : x < m
    BY <1>2
  <2>2. PICK x \in S : TRUE
    OBVIOUS
  <2>3. m - 1 \in Nat /\ \A y \in S : y <= m - 1
    BY <2>1, <2>2, <1>2
  <2>4. m - 1 \in T /\ m - 1 < m
    BY <2>3, <1>2
  <2> QED BY <2>4, <1>3
<1>5. \E x \in S : \A y \in S : x >= y
  BY <1>2, <1>4
<1> QED BY <1>5 DEF Max

\* The last event of a key: an index, if any, up to the revision, and none after it.
LEMMA LastRevIs ==
    ASSUME NEW k, NEW r \in Nat
    PROVE  /\ LastRev(k, r) \in 0..r
           /\ LastRev(k, r) # 0 => log[LastRev(k, r)].key = k
           /\ \A i \in 1..r : log[i].key = k => i <= LastRev(k, r)
<1> DEFINE S == {0} \cup {i \in 1..r : log[i].key = k}
<1>1. S \in SUBSET Nat /\ S # {} /\ \A x \in S : x <= r
  OBVIOUS
<1>2. Max(S) \in S /\ \A y \in S : y <= Max(S)
  <2> HIDE DEF S
  <2> QED BY <1>1, MaxOf
<1> QED BY <1>2 DEF LastRev

\* The last event that changes a key, like LastRevIs.
LEMMA LastChangeIs ==
    ASSUME NEW k, NEW r \in Nat
    PROVE  /\ LastChange(k, r) \in 0..r
           /\ LastChange(k, r) # 0 => Seen(k, LastChange(k, r)) /\ TakesEffect(LastChange(k, r))
           /\ \A i \in 1..r : Seen(k, i) /\ TakesEffect(i) => i <= LastChange(k, r)
<1> DEFINE S == {0} \cup {i \in 1..r : Seen(k, i) /\ TakesEffect(i)}
<1>1. S \in SUBSET Nat /\ S # {} /\ \A x \in S : x <= r
  OBVIOUS
<1>2. Max(S) \in S /\ \A y \in S : y <= Max(S)
  <2> HIDE DEF S
  <2> QED BY <1>1, MaxOf
<1> QED BY <1>2 DEF LastChange

\* What a key has to show, one revision more.
LEMMA ShownNext ==
    ASSUME NEW k, NEW r \in Nat \ {0}
    PROVE  Shown(k, r) = IF ~(Seen(k, r) /\ TakesEffect(r)) THEN Shown(k, r - 1)
                         ELSE IF log[r].kind = "delete" THEN 0 ELSE r
<1>1. /\ LastChange(k, r) \in 0..r
      /\ \A i \in 1..r : Seen(k, i) /\ TakesEffect(i) => i <= LastChange(k, r)
  BY LastChangeIs
<1>2. CASE Seen(k, r) /\ TakesEffect(r)
  <2>1. LastChange(k, r) = r
    BY <1>1, <1>2
  <2> QED BY <2>1, <1>2 DEF Shown
<1>3. CASE ~(Seen(k, r) /\ TakesEffect(r))
  <2>1. {i \in 1..r : Seen(k, i) /\ TakesEffect(i)} = {i \in 1..r - 1 : Seen(k, i) /\ TakesEffect(i)}
    BY <1>3
  <2> QED BY <2>1, <1>3 DEF Shown, LastChange
<1> QED BY <1>2, <1>3

\* The larger of 0 and at most one other number.
LEMMA MaxOfOne ==
    ASSUME NEW m \in Nat, NEW S, S \subseteq {m}
    PROVE  Max({0} \cup S) = IF m \in S THEN m ELSE 0
<1> DEFINE T == {0} \cup S
<1>1. T \in SUBSET Nat /\ T # {} /\ \A x \in T : x <= m
  OBVIOUS
<1>2. Max(T) \in T /\ \A y \in T : y <= Max(T)
  <2> HIDE DEF T
  <2> QED BY <1>1, MaxOf
<1>3. Max(T) = IF m \in S THEN m ELSE 0
  <2>1. CASE m \in S
    <3>1. Max(T) \in {0, m} /\ m <= Max(T)
      BY <1>2, <2>1
    <3> HIDE DEF T
    <3> QED BY <2>1, <3>1
  <2>2. CASE m \notin S
    <3>1. T = {0}
      BY <2>2
    <3> QED BY <1>2, <2>2, <3>1
  <2> QED BY <2>1, <2>2
<1> QED BY <1>3

\* Of the events up to the Get only the last of each key is seen.
LEMMA ShownAtGet ==
    ASSUME NEW k, first \in Nat
    PROVE  LET last == LastRev(k, first) IN
           Shown(k, first) = IF last = 0 \/ ~TakesEffect(last) \/ log[last].kind = "delete"
                             THEN 0 ELSE last
<1> DEFINE last == LastRev(k, first)
           S == {i \in 1..first : Seen(k, i) /\ TakesEffect(i)}
<1>1. last \in 0..first /\ (last # 0 => log[last].key = k)
  BY LastRevIs
<1>2. S \subseteq {last}
  BY DEF Seen
<1>3. last # 0 => Seen(k, last)
  BY <1>1 DEF Seen
<1>4. last \in S <=> last # 0 /\ TakesEffect(last)
  BY <1>1, <1>3
<1>5. LastChange(k, first) = IF last \in S THEN last ELSE 0
  <2> HIDE DEF last
  <2>1. Max({0} \cup S) = IF last \in S THEN last ELSE 0
    <3>1. last \in Nat
      BY <1>1
    <3> HIDE DEF S
    <3> QED BY <3>1, <1>2, MaxOfOne
  <2> QED BY <2>1 DEF LastChange
<1> HIDE DEF S
<1> QED BY <1>1, <1>4, <1>5 DEF Shown

\* The loader handles what the Get has returned, waits for the event after rev,
\* or applies the ones up to rev.
Phase ==
    /\ pc \notin {"apply", "panicked"} => pos = rev + 1
    /\ pc = "apply" => pos <= rev
    /\ pos <= rev + 1
    /\ pc = "read" => pos = first + 1
    /\ first < pos
    /\ pc \notin {"read", "panicked"} => todo = {}

\* Nothing is in the copy before the Get, nothing of an event still to apply, and
\* nothing of the files that init has still to put.
Past ==
    /\ pc = "init" => rev = 0 /\ first = 0
    /\ \A k \in Keys : value[k] < pos
    /\ \A k \in todo : /\ value[k] = 0
                       /\ LastRev(k, first) # 0
                       /\ log[LastRev(k, first)].kind # "delete"

\* Like NotifiedOnce, and no listener has been called for an event still to come.
Notified == \A r \in Revs : started[r] = IF Notifiable(r) THEN 1 ELSE 0

IInv == TypeOK /\ Phase /\ Past /\ Mirrors /\ FreshAfterDelete /\ Notified

LEMMA InitIInv == Init => IInv
<1> SUFFICES ASSUME Init PROVE IInv
  OBVIOUS
<1> USE DynamicPropertyAssumption DEF Init
<1>1. TypeOK
  <2>1. log \in Seq([key : Keys, kind : Kinds]) /\ Len(log) = 0
    OBVIOUS
  <2>2. 1 \in Nat /\ 0 \in 0..MaxRev /\ 1 \in 1..MaxRev + 1 /\ 0 \in 0..MaxFaults /\ 0 <= MaxRev
    OBVIOUS
  <2>3. /\ value \in [Keys -> 0..MaxRev]
        /\ merged \in [FileKeys -> SUBSET Revs]
        /\ started \in [Revs -> Nat]
    BY <2>2
  <2>4. rev \in 0..Len(log) /\ Len(log) <= MaxRev
    BY <2>1
  <2>5. compacted \in 0..MaxRev /\ pos \in 1..MaxRev + 1 /\ first \in 0..MaxRev
    BY <2>2
  <2> QED BY <2>1, <2>2, <2>3, <2>4, <2>5 DEF TypeOK
<1>2. Mirrors
  <2>1. \A k \in Keys : LastChange(k, 0) = 0
    BY LastChangeIs
  <2> QED BY <2>1 DEF Mirrors, Shown, Keys
<1> QED BY <1>1, <1>2 DEF IInv, Phase, Past, FreshAfterDelete, Notified, Notifiable, Revs, Keys

\* The other clients of etcd.
LEMMA EtcdInductive ==
    ASSUME IInv,
           (\E k \in Keys, kind \in Kinds : Change(k, kind)) \/ (\E r \in Revs : Compact(r))
    PROVE  IInv'
<1> USE DynamicPropertyAssumption DEF IInv
<1>1. /\ UNCHANGED <<pc, rev, pos, first, todo, value, merged, started, canceled, cacheNil, faults>>
      /\ \/ log' = log
         \/ Len(log) < MaxRev /\ \E e \in [key : Keys, kind : Kinds] : log' = Append(log, e)
      /\ compacted' \in 0..MaxRev
  <2>1. ASSUME NEW k \in Keys, NEW kind \in Kinds, Change(k, kind)
        PROVE  <1>1
    <3>1. [key |-> k, kind |-> kind] \in [key : Keys, kind : Kinds]
      OBVIOUS
    <3> QED BY <2>1, <3>1 DEF Change, cacheVars, TypeOK
  <2>2. ASSUME NEW r \in Revs, Compact(r)
        PROVE  <1>1
    BY <2>2 DEF Compact, cacheVars, Revs
  <2> QED BY <2>1, <2>2
<1>3. /\ log' \in Seq([key : Keys, kind : Kinds]) /\ Len(log') <= MaxRev
      /\ Len(log') \in Nat /\ Len(log') >= Len(log) /\ Len(log) \in Nat
      /\ \A i \in 1..Len(log) : log'[i] = log[i]
  <2>1. CASE log' = log
    BY <2>1 DEF TypeOK
  <2>2. ASSUME Len(log) < MaxRev, NEW e \in [key : Keys, kind : Kinds], log' = Append(log, e)
        PROVE  <1>3
    <3> DEFINE E == [key : Keys, kind : Kinds]
    <3>1. log \in Seq(E) /\ e \in E /\ Len(log) <= MaxRev
      BY DEF TypeOK
    <3> HIDE DEF E
    <3>2. /\ log' \in Seq(E) /\ Len(log') = Len(log) + 1 /\ Len(log) \in Nat
          /\ \A i \in 1..Len(log) : log'[i] = log[i]
      BY <2>2, <3>1
    <3> QED BY <2>2, <3>1, <3>2 DEF E
  <2> QED BY <1>1, <2>1, <2>2
<1>4. TypeOK'
  BY <1>1, <1>3 DEF TypeOK
<1>5. Phase'
  BY <1>1 DEF Phase
<1>6. /\ pos <= Len(log) + 1 /\ first <= Len(log) /\ first < pos
      /\ pos \in Nat \ {0} /\ first \in Nat
  BY <1>3 DEF Phase, TypeOK
<1>7. \A i \in 1..pos - 1 : log'[i] = log[i]
  BY <1>3, <1>6
<1>8. \A k : LastRev(k, first)' = LastRev(k, first)
  <2>1. \A k : {i \in 1..first' : log'[i].key = k} = {i \in 1..first : log[i].key = k}
    BY <1>1, <1>6, <1>7
  <2> QED BY <2>1 DEF LastRev
<1>9. Past'
  <2>1. \A k \in todo : LastRev(k, first) \in 1..pos - 1
    BY <1>6, LastRevIs DEF Past
  <2>2. \A k \in todo : log'[LastRev(k, first)] = log[LastRev(k, first)]
    BY <2>1, <1>7
  <2> QED BY <1>1, <1>8, <2>2 DEF Past
<1>10. Mirrors'
  <2>1. ASSUME NEW k
        PROVE  {i \in 1..pos' - 1 : Seen(k, i)' /\ TakesEffect(i)'}
                 = {i \in 1..pos - 1 : Seen(k, i) /\ TakesEffect(i)}
    <3>1. pos' = pos
      BY <1>1
    <3>2. \A i \in 1..pos - 1 : Seen(k, i)' /\ TakesEffect(i)' <=> Seen(k, i) /\ TakesEffect(i)
      BY <1>1, <1>7, <1>8 DEF Seen, TakesEffect
    <3> QED BY <3>1, <3>2
  <2>2. \A k : LastChange(k, pos - 1)' = LastChange(k, pos - 1)
    BY <2>1 DEF LastChange
  <2>3. \A k : LastChange(k, pos - 1) # 0 =>
                 log'[LastChange(k, pos - 1)] = log[LastChange(k, pos - 1)]
    BY <1>6, <1>7, LastChangeIs
  <2>4. \A k : Shown(k, pos - 1)' = Shown(k, pos - 1)
    BY <2>2, <2>3 DEF Shown
  <2> QED BY <1>1, <2>4 DEF Mirrors
<1>11. FreshAfterDelete'
  <2> SUFFICES ASSUME NEW f \in FileKeys, NEW m \in merged[f]
               PROVE  /\ m < pos /\ log'[m] = [key |-> f, kind |-> "put"]
                      /\ \A d \in m..pos - 1 : log'[d] # [key |-> f, kind |-> "delete"]
    BY <1>1 DEF FreshAfterDelete
  <2>1. m \in 1..MaxRev /\ m < pos /\ log[m] = [key |-> f, kind |-> "put"]
        /\ \A d \in m..pos - 1 : log[d] # [key |-> f, kind |-> "delete"]
    BY DEF FreshAfterDelete, TypeOK, Revs
  <2>2. \A d \in m..pos - 1 : d \in 1..Len(log)
    BY <2>1, <1>6, <1>3
  <2> QED BY <2>1, <2>2, <1>3, <1>6
<1>12. Notified'
  <2>1. ASSUME NEW q \in Revs PROVE Notifiable(q)' <=> Notifiable(q)
    <3>1. CASE q < pos
      <4>1. log'[q] = log[q]
        BY <3>1, <1>6, <1>7 DEF Revs
      <4> QED BY <4>1, <1>1, <1>8 DEF Notifiable
    <3>2. CASE ~(q < pos)
      BY <3>2, <1>1 DEF Notifiable
    <3> QED BY <3>1, <3>2
  <2> QED BY <2>1, <1>1 DEF Notified
<1> QED BY <1>4, <1>5, <1>9, <1>10, <1>11, <1>12

\* A move that leaves the copy and the applied events alone.
LEMMA QuietInductive ==
    ASSUME IInv, TypeOK', Phase', pc' # "init",
           UNCHANGED <<log, pos, first, todo, value, merged, started, cacheNil>>
    PROVE  IInv'
<1> USE DynamicPropertyAssumption DEF IInv
<1>1. \A k : LastRev(k, first)' = LastRev(k, first)
  BY DEF LastRev
<1>2. Past'
  BY <1>1 DEF Past
<1>3. Mirrors'
  <2>1. \A k : Shown(k, pos - 1)' = Shown(k, pos - 1)
    BY DEF Shown, LastChange, Seen, TakesEffect, LastRev
  <2> QED BY <2>1 DEF Mirrors
<1>4. FreshAfterDelete'
  BY DEF FreshAfterDelete
<1>5. Notified'
  <2>1. \A q \in Revs : Notifiable(q)' <=> Notifiable(q)
    BY <1>1 DEF Notifiable
  <2> QED BY <2>1 DEF Notified
<1> QED BY <1>2, <1>3, <1>4, <1>5

\* The moves of the loader between events, and the first step of Close.
LEMMA MovesInductive ==
    ASSUME IInv,
           InitReadFails \/ OpenWatch \/ Receive \/ WatchEnds \/ WatchBreaks \/ Sleep
             \/ (\E k \in Keys : InitPutPanics(k)) \/ ApplyPutPanics
    PROVE  IInv'
<1> USE DynamicPropertyAssumption DEF IInv, Loader, Fault, etcdVars, cacheVars
<1>1. CASE InitReadFails
  <2>1. TypeOK'
    BY <1>1 DEF InitReadFails, TypeOK
  <2>2. Phase' /\ pc' # "init"
    BY <1>1 DEF InitReadFails, Phase
  <2> QED BY <1>1, <2>1, <2>2, QuietInductive DEF InitReadFails
<1>2. CASE OpenWatch
  <2>1. pos' = pos
    BY <1>2 DEF OpenWatch, Phase
  <2>2. TypeOK'
    BY <1>2, <2>1 DEF OpenWatch, TypeOK
  <2>3. Phase' /\ pc' # "init"
    BY <1>2, <2>1 DEF OpenWatch, Phase
  <2> QED BY <1>2, <2>1, <2>2, <2>3, QuietInductive DEF OpenWatch
<1>3. CASE Receive
  <2>1. PICK r \in pos..Len(log) : rev' = r
    BY <1>3 DEF Receive
  <2>2. Len(log) \in Nat /\ pos \in Nat \ {0}
    BY DEF TypeOK
  <2>3. TypeOK'
    BY <1>3, <2>1, <2>2 DEF Receive, TypeOK
  <2>4. Phase' /\ pc' # "init"
    BY <1>3, <2>1, <2>2 DEF Receive, Phase
  <2> QED BY <1>3, <2>3, <2>4, QuietInductive DEF Receive
<1>4. CASE WatchEnds \/ WatchBreaks \/ Sleep
  <2>1. TypeOK'
    BY <1>4 DEF WatchEnds, WatchBreaks, Sleep, TypeOK
  <2>2. Phase' /\ pc' # "init"
    BY <1>4 DEF WatchEnds, WatchBreaks, Sleep, Phase
  <2> QED BY <1>4, <2>1, <2>2, QuietInductive DEF WatchEnds, WatchBreaks, Sleep
<1>5. CASE (\E k \in Keys : InitPutPanics(k)) \/ ApplyPutPanics
  <2>1. /\ pc' = "panicked"
        /\ UNCHANGED <<log, compacted, rev, pos, first, todo, value, merged, started>>
        /\ UNCHANGED <<canceled, cacheNil, faults>>
    BY <1>5 DEF InitPutPanics, ApplyPutPanics, PutPanics
  <2>2. TypeOK'
    BY <2>1 DEF TypeOK
  <2>3. Phase' /\ pc' # "init"
    BY <2>1 DEF Phase
  <2> QED BY <2>1, <2>2, <2>3, QuietInductive
<1> QED BY <1>1, <1>2, <1>3, <1>4, <1>5

\* Close: files show nothing any more once it has dropped the containers.
LEMMA CloseInductive ==
    ASSUME IInv, CloseCancel \/ CloseCache
    PROVE  IInv'
<1> USE DynamicPropertyAssumption DEF IInv
<1>1. /\ UNCHANGED <<log, compacted, pc, rev, pos, first, todo, started, faults>>
      /\ canceled' \in BOOLEAN /\ cacheNil' \in BOOLEAN
      /\ cacheNil => cacheNil'
      /\ \/ value' = value /\ merged' = merged
         \/ /\ cacheNil'
            /\ value' = [k \in Keys |-> IF k \in FileKeys THEN 0 ELSE value[k]]
            /\ merged' = [k \in FileKeys |-> {}]
  BY DEF CloseCancel, CloseCache, etcdVars, cacheVars, TypeOK
<1>2. TypeOK'
  BY <1>1 DEF TypeOK, Keys
<1>3. \A k : LastRev(k, first)' = LastRev(k, first)
  BY <1>1 DEF LastRev
<1>4. \A k \in Keys : value'[k] = value[k] \/ (cacheNil' /\ k \in FileKeys /\ value'[k] = 0)
  <2>1. CASE value' = value
    BY <2>1
  <2>2. CASE /\ cacheNil'
             /\ value' = [k \in Keys |-> IF k \in FileKeys THEN 0 ELSE value[k]]
    BY <2>2
  <2> QED BY <1>1, <2>1, <2>2
<1>5. Phase'
  BY <1>1 DEF Phase
<1>6. Past'
  BY <1>1, <1>3, <1>4 DEF Past, TypeOK
<1>7. Mirrors'
  <2>1. \A k : Shown(k, pos - 1)' = Shown(k, pos - 1)
    BY <1>1 DEF Shown, LastChange, Seen, TakesEffect, LastRev
  <2> QED BY <1>1, <1>4, <2>1 DEF Mirrors
<1>8. FreshAfterDelete'
  BY <1>1 DEF FreshAfterDelete
<1>9. Notified'
  <2>1. \A q \in Revs : Notifiable(q)' <=> Notifiable(q)
    BY <1>1, <1>3 DEF Notifiable
  <2> QED BY <1>1, <2>1 DEF Notified
<1> QED BY <1>2, <1>5, <1>6, <1>7, <1>8, <1>9

\* The Get returns every key at one revision.
LEMMA ReadInductive ==
    ASSUME IInv, InitRead
    PROVE  IInv'
<1> USE DynamicPropertyAssumption DEF IInv
<1> DEFINE n == Len(log)
<1>1. /\ pc = "init" /\ pc' \in {"open", "read"} /\ (todo' # {} => pc' = "read")
      /\ rev' = n /\ pos' = n + 1 /\ first' = n
      /\ todo' = {k \in Keys : LastRev(k, n) # 0 /\ log[LastRev(k, n)].kind # "delete"}
      /\ log' = log
      /\ UNCHANGED <<compacted, value, merged, started, canceled, cacheNil, faults>>
  BY DEF InitRead, Exists, etcdVars, cacheVars
<1>2. n \in 0..MaxRev
  BY DEF TypeOK
<1>3. pos = 1 /\ first = 0 /\ todo = {}
  BY <1>1 DEF Phase, Past
<1>4. \A k \in Keys : value[k] = 0
  BY <1>3 DEF Past, TypeOK
<1>5. \A q \in Revs : started[q] = 0
  BY <1>3 DEF Notified, Notifiable, Revs
<1>6. \A k : LastRev(k, first)' = LastRev(k, n)
  BY <1>1 DEF LastRev
<1>7. \A k : LastRev(k, n) \in 0..n /\ (LastRev(k, n) # 0 => log[LastRev(k, n)].key = k)
  BY <1>2, LastRevIs
<1>8. TypeOK'
  <2>1. rev' \in 0..Len(log') /\ pos' \in 1..MaxRev + 1 /\ first' \in 0..MaxRev
    BY <1>1, <1>2
  <2>2. todo' \subseteq Keys
    BY <1>1
  <2> HIDE DEF n
  <2> QED BY <1>1, <2>1, <2>2 DEF TypeOK
<1>9. Phase'
  <2> HIDE DEF n
  <2> QED BY <1>1, <1>2 DEF Phase
<1>10. Past'
  <2>1. \A k \in Keys : value'[k] < pos'
    BY <1>1, <1>2, <1>4
  <2>2. \A k \in todo' : value'[k] = 0
    BY <1>1, <1>4
  <2>3. \A k \in todo' : LastRev(k, first)' # 0 /\ log'[LastRev(k, first)'].kind # "delete"
    BY <1>1, <1>6
  <2> QED BY <1>1, <2>1, <2>2, <2>3 DEF Past
<1>11. Mirrors'
  <2> SUFFICES ASSUME NEW k \in Keys \ todo' PROVE Shown(k, pos - 1)' = 0
    BY <1>1, <1>4 DEF Mirrors
  <2> DEFINE S == {i \in 1..n : Seen(k, i)' /\ TakesEffect(i)'}
  <2>1. S \subseteq {LastRev(k, n)}
    BY <1>1, <1>6 DEF Seen
  <2>2. LastChange(k, pos - 1)' = Max({0} \cup S)
    <3>1. pos' - 1 = n
      BY <1>1, <1>2
    <3> QED BY <3>1 DEF LastChange
  <2>3. LastChange(k, pos - 1)' \in {0, LastRev(k, n)}
    <3> HIDE DEF S, n
    <3> QED BY <2>1, <2>2, <1>2, <1>7, MaxOfOne
  <2>4. LastRev(k, n) = 0 \/ log'[LastRev(k, n)].kind = "delete"
    BY <1>1
  <2> HIDE DEF S, n
  <2> QED BY <2>3, <2>4 DEF Shown
<1>12. FreshAfterDelete'
  <2>1. \A k \in FileKeys : merged[k] = {}
    <3> SUFFICES ASSUME NEW k \in FileKeys, NEW m \in merged[k] PROVE FALSE
      OBVIOUS
    <3>1. m < 1
      BY <1>3 DEF FreshAfterDelete
    <3>2. m \in 1..MaxRev
      BY DEF TypeOK, Revs
    <3> QED BY <3>1, <3>2
  <2> QED BY <1>1, <2>1 DEF FreshAfterDelete
<1>13. Notified'
  <2> SUFFICES ASSUME NEW q \in Revs PROVE ~ Notifiable(q)'
    BY <1>1, <1>5 DEF Notified
  <2>1. CASE q > n
    BY <2>1, <1>1, <1>2 DEF Notifiable, Revs
  <2>2. CASE q <= n
    <3>1. q \in 1..n
      BY <2>2, <1>2 DEF Revs
    <3>2. log[q].key \in Keys
      <4> DEFINE E == [key : Keys, kind : Kinds]
      <4>1. log \in Seq(E)
        BY DEF TypeOK
      <4>2. log[q] \in E
        <5> HIDE DEF E
        <5> QED BY <4>1, <3>1
      <4> QED BY <4>2
    <3> QED BY <3>1, <3>2, <2>2, <1>1, <1>6 DEF Notifiable
  <2> QED BY <2>1, <2>2, <1>2 DEF Revs
<1> QED BY <1>8, <1>9, <1>10, <1>11, <1>12, <1>13

\* convertAndHandlePut does one of three things with the event of a key.
LEMMA PutCases ==
    ASSUME TypeOK, NEW k \in Keys, NEW r \in Revs, log[r].key = k, log[r].kind \in Kinds \ {"delete"},
           Put(k, r)
    PROVE  /\ value' = [value EXCEPT ![k] = IF TakesEffect(r) THEN r ELSE @]
           /\ \/ merged' = merged
              \/ /\ k \in FileKeys /\ log[r].kind = "put"
                 /\ merged' = [merged EXCEPT ![k] = @ \cup {r}]
           /\ started' = [started EXCEPT ![r] = IF log[r].kind = "invalid" THEN @ ELSE @ + 1]
<1> USE DynamicPropertyAssumption DEF TypeOK
<1>1. CASE SkipInvalid(r)
  BY <1>1 DEF SkipInvalid, TakesEffect, cacheVars
<1>2. CASE PutFile(k, r)
  BY <1>2 DEF PutFile, TakesEffect, Notify
<1>3. CASE PutRules(k, r)
  BY <1>3 DEF PutRules, TakesEffect, Notify
<1> QED BY <1>1, <1>2, <1>3 DEF Put

\* init handles one of the files that were read.
LEMMA PutInductive ==
    ASSUME IInv, NEW k \in Keys, InitPut(k)
    PROVE  IInv'
<1> USE DynamicPropertyAssumption DEF IInv
<1> DEFINE r == LastRev(k, first)
<1>1. /\ pc = "read" /\ pc' \in {"open", "read"} /\ (todo' # {} => pc' = "read")
      /\ k \in todo /\ todo' = todo \ {k} /\ Put(k, r)
      /\ UNCHANGED <<log, compacted, rev, pos, first, canceled, cacheNil, faults>>
  BY DEF InitPut, etcdVars
<1>2. pos = first + 1 /\ first \in 0..MaxRev /\ first <= Len(log) /\ pos \in Nat
  BY <1>1 DEF Phase, TypeOK
<1>3. r \in 1..first /\ log[r].key = k /\ log[r].kind # "delete" /\ r \in Revs
  BY <1>1, <1>2, LastRevIs DEF Past, Revs
<1>4. log[r] \in [key : Keys, kind : Kinds]
  <2> DEFINE E == [key : Keys, kind : Kinds]
  <2>1. log \in Seq(E)
    BY DEF TypeOK
  <2>2. r \in 1..Len(log)
    BY <1>2, <1>3 DEF TypeOK
  <2> HIDE DEF E, r
  <2>3. log[r] \in E
    BY <2>1, <2>2
  <2> QED BY <2>3 DEF E
<1>5. \A q : LastRev(q, first)' = LastRev(q, first)
  BY <1>1 DEF LastRev
<1>6. Shown(k, pos - 1) = IF TakesEffect(r) THEN r ELSE 0
  <2>1. pos - 1 = first
    BY <1>2
  <2> QED BY <2>1, <1>2, <1>3, ShownAtGet
<1> HIDE DEF r
<1>7. /\ value' = [value EXCEPT ![k] = IF TakesEffect(r) THEN r ELSE @]
      /\ \/ merged' = merged
         \/ /\ k \in FileKeys /\ log[r].kind = "put"
            /\ merged' = [merged EXCEPT ![k] = @ \cup {r}]
      /\ started' = [started EXCEPT ![r] = IF log[r].kind = "invalid" THEN @ ELSE @ + 1]
  BY <1>1, <1>3, <1>4, PutCases
<1>8. /\ value \in [Keys -> 0..MaxRev] /\ merged \in [FileKeys -> SUBSET Revs]
      /\ started \in [Revs -> Nat] /\ todo \subseteq Keys /\ value[k] = 0
  BY <1>1 DEF TypeOK, Past
<1>9. TypeOK'
  <2>1. value' \in [Keys -> 0..MaxRev] /\ merged' \in [FileKeys -> SUBSET Revs]
        /\ started' \in [Revs -> Nat] /\ todo' \subseteq Keys
    BY <1>1, <1>3, <1>7, <1>8 DEF Revs
  <2> QED BY <1>1, <2>1 DEF TypeOK
<1>10. Phase'
  BY <1>1 DEF Phase
<1>11. Past'
  BY <1>1, <1>2, <1>3, <1>5, <1>7, <1>8 DEF Past
<1>12. Mirrors'
  <2>1. \A q : Shown(q, pos - 1)' = Shown(q, pos - 1)
    BY <1>1 DEF Shown, LastChange, Seen, TakesEffect, LastRev
  <2>2. value'[k] = Shown(k, pos - 1)
    BY <1>6, <1>7, <1>8
  <2>3. \A q \in Keys \ todo : q # k /\ value'[q] = value[q]
    BY <1>1, <1>7, <1>8
  <2> QED BY <1>1, <2>1, <2>2, <2>3 DEF Mirrors
<1>13. FreshAfterDelete'
  <2> SUFFICES ASSUME NEW f \in FileKeys, NEW m \in merged'[f], m \notin merged[f]
               PROVE  /\ m < pos /\ log[m] = [key |-> f, kind |-> "put"]
                      /\ \A d \in m..pos - 1 : log[d] # [key |-> f, kind |-> "delete"]
    BY <1>1 DEF FreshAfterDelete
  <2>1. m = r /\ f = k /\ log[r].kind = "put"
    BY <1>7, <1>8
  <2>2. \A d \in 1..first : log[d].key = k => d <= r
    BY <1>2, LastRevIs DEF r
  <2>3. \A d \in r..pos - 1 : log[d] # [key |-> k, kind |-> "delete"]
    <3> SUFFICES ASSUME NEW d \in r..pos - 1, log[d] = [key |-> k, kind |-> "delete"]
                 PROVE  FALSE
      OBVIOUS
    <3>1. d \in 1..first
      BY <1>2, <1>3
    <3>2. d = r
      BY <3>1, <2>2, <1>3
    <3> QED BY <3>2, <2>1
  <2> QED BY <1>2, <1>3, <1>4, <2>1, <2>3
<1>14. Notified'
  <2> SUFFICES ASSUME NEW q \in Revs
               PROVE  started'[q] = IF Notifiable(q)' THEN 1 ELSE 0
    BY DEF Notified
  <2>1. started[q] = IF Notifiable(q) THEN 1 ELSE 0
    BY DEF Notified
  <2>2. CASE q = r
    <3>1. ~ Notifiable(r)
      BY <1>1, <1>3 DEF Notifiable
    <3>2. Notifiable(q)' <=> log[q].kind # "invalid"
      BY <2>2, <1>1, <1>2, <1>3, <1>5 DEF Notifiable, r
    <3>3. started[r] = 0
      BY <2>1, <2>2, <3>1
    <3>4. started'[r] = IF log[r].kind = "invalid" THEN 0 ELSE 1
      BY <3>3, <1>3, <1>7, <1>8
    <3> QED BY <2>2, <3>2, <3>4
  <2>3. CASE q # r
    <3>1. Notifiable(q)' <=> Notifiable(q)
      <4>1. LastRev(log[q].key, first)' = LastRev(log[q].key, first)
        BY <1>1 DEF LastRev
      <4>2. log[q].key = k /\ q = LastRev(log[q].key, first) => q = r
        BY DEF r
      <4> QED BY <2>3, <1>1, <4>1, <4>2 DEF Notifiable
    <3>2. started'[q] = started[q]
      BY <2>3, <1>7, <1>8
    <3> QED BY <2>1, <3>1, <3>2
  <2> QED BY <2>2, <2>3
<1> QED BY <1>9, <1>10, <1>11, <1>12, <1>13, <1>14

\* An event of a batch is applied: one revision more.
LEMMA ApplyInductive ==
    ASSUME IInv, ApplyPut \/ ApplyDelete
    PROVE  IInv'
<1> USE DynamicPropertyAssumption DEF IInv
<1> DEFINE key == log[pos].key
           kind == log[pos].kind
<1>1. /\ pc = "apply" /\ pos' = pos + 1 /\ pc' = IF pos = rev THEN "watch" ELSE "apply"
      /\ log' = log /\ UNCHANGED <<compacted, rev, first, todo, canceled, cacheNil, faults>>
  BY DEF ApplyPut, ApplyDelete, Apply, Loader, etcdVars
<1>2. pos \in 1..rev /\ first < pos /\ todo = {}
  BY <1>1 DEF Phase, TypeOK
<1>3. /\ Len(log) \in 0..MaxRev /\ rev \in 0..Len(log) /\ pos \in 1..Len(log) /\ pos \in Revs
      /\ first \in Nat
      /\ log[pos] \in [key : Keys, kind : Kinds]
  <2> DEFINE E == [key : Keys, kind : Kinds]
  <2>1. log \in Seq(E) /\ Len(log) <= MaxRev /\ rev \in 0..Len(log) /\ first \in 0..MaxRev
    BY DEF TypeOK
  <2> HIDE DEF E
  <2>2. Len(log) \in Nat /\ \A i \in 1..Len(log) : log[i] \in E
    BY <2>1
  <2>3. pos \in 1..Len(log)
    BY <1>2, <2>1, <2>2
  <2> QED BY <2>1, <2>2, <2>3 DEF E, Revs
<1>4. key \in Keys /\ kind \in Kinds /\ log[pos] = [key |-> key, kind |-> kind]
  BY <1>3
<1>5. /\ value' = [value EXCEPT ![key] = IF ~TakesEffect(pos) THEN @
                                        ELSE IF kind = "delete" THEN 0 ELSE pos]
      /\ \/ merged' = merged /\ (kind = "delete" => key \notin FileKeys)
         \/ /\ key \in FileKeys /\ kind = "put"
            /\ merged' = [merged EXCEPT ![key] = @ \cup {pos}]
         \/ key \in FileKeys /\ kind = "delete" /\ merged' = [merged EXCEPT ![key] = {}]
      /\ started' = [started EXCEPT ![pos] = IF kind = "invalid" THEN @ ELSE @ + 1]
  <2>1. CASE ApplyPut
    <3>1. kind # "delete" /\ Put(key, pos)
      BY <2>1 DEF ApplyPut, Event
    <3> QED BY <3>1, <1>3, <1>4, PutCases
  <2>2. CASE ApplyDelete
    BY <2>2, <1>3, <1>4 DEF ApplyDelete, Event, Notify, TakesEffect
  <2> QED BY <2>1, <2>2
<1> HIDE DEF key, kind
<1>6. /\ value \in [Keys -> 0..MaxRev] /\ merged \in [FileKeys -> SUBSET Revs]
      /\ started \in [Revs -> Nat] /\ \A k \in Keys : value[k] < pos
  BY DEF TypeOK, Past
<1>7. TypeOK'
  <2>1. value' \in [Keys -> 0..MaxRev]
    BY <1>3, <1>4, <1>5, <1>6 DEF Revs
  <2>2. merged' \in [FileKeys -> SUBSET Revs]
    BY <1>3, <1>4, <1>5, <1>6
  <2>3. started' \in [Revs -> Nat]
    BY <1>3, <1>5, <1>6
  <2>4. pos' \in 1..MaxRev + 1
    BY <1>1, <1>3
  <2> QED BY <1>1, <2>1, <2>2, <2>3, <2>4 DEF TypeOK
<1>8. Phase'
  BY <1>1, <1>2, <1>3 DEF Phase
<1>9. Past'
  <2>1. pc' # "init" /\ todo' = {}
    BY <1>1, <1>2
  <2>2. \A k \in Keys : value'[k] < pos + 1
    <3> SUFFICES ASSUME NEW k \in Keys PROVE value'[k] < pos + 1
      OBVIOUS
    <3>1. value'[k] = value[k] \/ value'[k] = pos \/ value'[k] = 0
      BY <1>4, <1>5, <1>6
    <3>2. value[k] \in Nat /\ value[k] < pos /\ pos \in Nat
      BY <1>3, <1>6 DEF Revs
    <3> QED BY <3>1, <3>2
  <2> QED BY <1>1, <2>1, <2>2 DEF Past
<1>10. Mirrors'
  <2> SUFFICES ASSUME NEW k \in Keys, ~(cacheNil /\ k \in FileKeys)
               PROVE  value'[k] = Shown(k, pos - 1)'
    BY <1>1 DEF Mirrors
  <2>1. value[k] = Shown(k, pos - 1)
    BY <1>2 DEF Mirrors
  <2>2. Shown(k, pos - 1)' = Shown(k, pos)
    <3>1. pos' - 1 = pos
      BY <1>1, <1>3
    <3> QED BY <1>1, <3>1 DEF Shown, LastChange, Seen, TakesEffect, LastRev
  <2>3. Shown(k, pos) = IF ~(Seen(k, pos) /\ TakesEffect(pos)) THEN Shown(k, pos - 1)
                        ELSE IF kind = "delete" THEN 0 ELSE pos
    <3>1. pos \in Nat \ {0}
      BY <1>3
    <3> QED BY <3>1, ShownNext DEF kind
  <2>4. Seen(k, pos) <=> key = k
    BY <1>2, <1>3 DEF Seen, key
  <2>5. CASE key = k
    BY <1>4, <1>5, <1>6, <2>1, <2>2, <2>3, <2>4, <2>5
  <2>6. CASE key # k
    <3>1. value'[k] = value[k]
      BY <1>5, <1>6, <2>6
    <3> QED BY <2>1, <2>2, <2>3, <2>4, <2>6, <3>1
  <2> QED BY <2>5, <2>6
<1>11. FreshAfterDelete'
  <2> SUFFICES ASSUME NEW f \in FileKeys, NEW m \in merged'[f]
               PROVE  /\ m < pos + 1 /\ log[m] = [key |-> f, kind |-> "put"]
                      /\ \A d \in m..pos : log[d] # [key |-> f, kind |-> "delete"]
    <3>1. pos' - 1 = pos
      BY <1>1, <1>3
    <3> QED BY <1>1, <3>1 DEF FreshAfterDelete
  <2>1. CASE m \in merged[f]
    <3>1. /\ m \in Revs /\ m < pos /\ log[m] = [key |-> f, kind |-> "put"]
          /\ \A d \in m..pos - 1 : log[d] # [key |-> f, kind |-> "delete"]
      BY <2>1, <1>6 DEF FreshAfterDelete
    <3>2. ~(key = f /\ kind = "delete")
      BY <1>5, <1>6
    <3> QED BY <3>1, <3>2, <1>3, <1>4 DEF Revs
  <2>2. CASE m \notin merged[f]
    <3>1. m = pos /\ key = f /\ kind = "put"
      BY <1>5, <1>6, <2>2
    <3> QED BY <3>1, <1>3, <1>4
  <2> QED BY <2>1, <2>2
<1>12. Notified'
  <2> SUFFICES ASSUME NEW q \in Revs
               PROVE  started'[q] = IF Notifiable(q)' THEN 1 ELSE 0
    BY DEF Notified
  <2>1. started[q] = IF Notifiable(q) THEN 1 ELSE 0
    BY DEF Notified
  <2>2. CASE q = pos
    <3>1. ~ Notifiable(q)
      BY <2>2, <1>2, <1>3 DEF Notifiable
    <3>2. Notifiable(q)' <=> kind # "invalid"
      BY <2>2, <1>1, <1>2, <1>3 DEF Notifiable, kind
    <3> QED BY <2>1, <2>2, <3>1, <3>2, <1>3, <1>5, <1>6
  <2>3. CASE q # pos
    <3>1. Notifiable(q)' <=> Notifiable(q)
      BY <2>3, <1>1, <1>3 DEF Notifiable, LastRev, Revs
    <3>2. started'[q] = started[q]
      BY <2>3, <1>5, <1>6
    <3> QED BY <2>1, <3>1, <3>2
  <2> QED BY <2>2, <2>3
<1> QED BY <1>7, <1>8, <1>9, <1>10, <1>11, <1>12

LEMMA NextIInv == IInv /\ [Next]_vars => IInv'
<1> SUFFICES ASSUME IInv, [Next]_vars PROVE IInv'
  OBVIOUS
<1>1. CASE (\E k \in Keys, kind \in Kinds : Change(k, kind)) \/ (\E r \in Revs : Compact(r))
  BY <1>1, EtcdInductive
<1>2. CASE UNCHANGED vars
  <2>1. /\ UNCHANGED <<log, compacted, pc, rev, pos, first, todo, value, merged>>
        /\ UNCHANGED <<started, canceled, cacheNil, faults>>
    BY <1>2 DEF vars, etcdVars, cacheVars
  <2>2. TypeOK' /\ Phase' /\ Past'
    BY <2>1 DEF IInv, TypeOK, Phase, Past, LastRev
  <2>3. Mirrors' /\ FreshAfterDelete' /\ Notified'
    BY <2>1 DEF IInv, Mirrors, Shown, LastChange, Seen, TakesEffect, LastRev,
                FreshAfterDelete, Notified, Notifiable
  <2> QED BY <2>2, <2>3 DEF IInv
<1>3. CASE LoaderStep \/ InitReadFails \/ WatchBreaks
  BY <1>3, ReadInductive, PutInductive, MovesInductive, ApplyInductive DEF LoaderStep
<1>4. CASE CloseCancel \/ CloseCache
  BY <1>4, CloseInductive
<1> QED BY <1>1, <1>2, <1>3, <1>4 DEF Next

\* All parts of the invariant, of which the theorems below are what matters.
THEOREM Invariance == Spec => []IInv
<1> QED BY InitIInv, NextIInv, PTL DEF Spec

\* The variables keep their types: the loader's revision is one etcd has had.
THEOREM TypeCorrect == Spec => []TypeOK
<1>1. IInv => TypeOK
  BY DEF IInv
<1> QED BY <1>1, Invariance, PTL

\* putKey, deleteKey and the sentinel rules: whatever watches broke and were
\* opened again, each key that init has put shows the last event that the loader
\* has seen and could use, of those applied.
THEOREM LocalMirrorsEtcd == Spec => []Mirrors
<1>1. IInv => Mirrors
  BY DEF IInv
<1> QED BY <1>1, Invariance, PTL

\* loadOrNewContainer after deleteKey: the settings of a file are from contents
\* put since its last applied delete.
THEOREM NothingOfDeletedFiles == Spec => []FreshAfterDelete
<1>1. IInv => FreshAfterDelete
  BY DEF IInv
<1> QED BY <1>1, Invariance, PTL

\* notifyListener: one call of the listener per applied event, however often the
\* watch is opened again.
THEOREM ListenersCalledOnce == Spec => []NotifiedOnce
<1>1. IInv => NotifiedOnce
  <2> SUFFICES ASSUME IInv, NEW r \in 1..Len(log)
               PROVE  started[r] = IF Notifiable(r) THEN 1 ELSE 0
    BY DEF NotifiedOnce
  <2>1. r \in Revs
    BY DynamicPropertyAssumption DEF IInv, TypeOK, Revs
  <2> QED BY <2>1 DEF IInv, Notified
<1> QED BY <1>1, Invariance, PTL
===============================================================================
