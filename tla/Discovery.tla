------------------------------- MODULE Discovery -------------------------------
(***************************************************************************)
(* etcdDiscovery: clients of the process call ChooseServer, which makes    *)
(* one load balancer per service name under the write lock cmu, and the    *)
(* periodic watch asks etcd again and hands changed server lists to the    *)
(* balancers.  The directory in etcd is the environment: one ServiceEntry  *)
(* per registered instance.                                                *)
(*                                                                         *)
(* A list of servers is the set of the instances it was read from; two     *)
(* instances may be the same lb.Server, which is what ServerOf says.       *)
(* Sections under cmu.RLock are one step, a call of etcd is one step.      *)
(***************************************************************************)
EXTENDS Naturals, FiniteSets

CONSTANTS
    ServiceNames,   \* names that services register under
    Insts,       \* instances that ever register
    NameOf,      \* the service name of an instance
    ServerOf,    \* what lb.Server.IsSameAs compares of an instance
    Clients,     \* goroutines that choose servers
    Nobody,      \* "cmu is free", "no name"
    MaxChanges,  \* bound: changes of the directory
    MaxFaults    \* bound: failed reads of etcd

ASSUME DiscoveryAssumption ==
    /\ NameOf \in [Insts -> ServiceNames]
    /\ Nobody \notin Clients \cup ServiceNames
    /\ MaxChanges \in Nat /\ MaxFaults \in Nat

VARIABLES
    live, entry,    \* of each instance, as in ServiceEntry
    clock,          \* changes of the directory so far
    made,           \* keys of the map d.cache
    servers,        \* allServers of the balancer of each name
    asOf,           \* history: when the list in servers was read
    cmu,            \* who holds the write lock
    clientPc, want, \* per client: place, name
    got, gotAt,     \* the list a client has read, and when
    watchPc, todo,  \* place of watch, names it has still to ask for
    seen,           \* its copy of the cached lists
    news, newsOf, newsAt,   \* the list it has read, for which name, and when
    crashed,        \* the Go runtime has ended the process
    faults

dirVars == <<live, entry, clock>>
cacheVars == <<made, servers, asOf>>
clientVars == <<cmu, clientPc, want, got, gotAt>>
watchVars == <<watchPc, todo, seen, news, newsOf, newsAt>>
discoveryVars == <<dirVars, cacheVars, clientVars, watchVars, crashed, faults>>

\* Discover: the instances of a name that are not down.
Listed(n) == {i \in Insts : NameOf[i] = n /\ entry[i] = "up"}

\* Mutant: only the lengths are compared.
SameLength(old, new) == Cardinality(old) = Cardinality(new)

\* compareServers: same length, and every old server is among the new ones.
SameList(old, new) ==
    /\ Cardinality(old) = Cardinality(new)
    /\ \A i \in old : \E j \in new : ServerOf[i] = ServerOf[j]

\* Mutant: an empty list is accepted.
SetServersAny(n, list, at) ==
    /\ servers' = [servers EXCEPT ![n] = list]
    /\ asOf' = [asOf EXCEPT ![n] = at]

\* NearbyLoadBalancer.SetServers ignores an empty list.
SetServers(n, list, at) ==
    IF list = {} THEN UNCHANGED <<servers, asOf>>
    ELSE /\ servers' = [servers EXCEPT ![n] = list]
         /\ asOf' = [asOf EXCEPT ![n] = at]

Fault == faults < MaxFaults /\ faults' = faults + 1

DiscoveryInit ==
    /\ live = [i \in Insts |-> TRUE] /\ entry = [i \in Insts |-> "absent"] /\ clock = 0
    /\ made = {} /\ servers = [n \in ServiceNames |-> {}] /\ asOf = [n \in ServiceNames |-> 0]
    /\ cmu = Nobody /\ clientPc = [c \in Clients |-> "idle"] /\ want = [c \in Clients |-> Nobody]
    /\ got = [c \in Clients |-> {}] /\ gotAt = [c \in Clients |-> 0]
    /\ watchPc = "idle" /\ todo = {} /\ seen = [n \in ServiceNames |-> {}]
    /\ news = {} /\ newsOf = Nobody /\ newsAt = 0
    /\ crashed = FALSE /\ faults = 0

-------------------------------------------------------------------------------
(* The directory: what Registration promises of each instance. *)

DirectoryStep(i, status) ==
    /\ clock < MaxChanges
    /\ clock' = clock + 1
    /\ entry' = [entry EXCEPT ![i] = status]
    /\ UNCHANGED <<cacheVars, clientVars, watchVars, crashed, faults>>

Publish(i, status) ==
    /\ live[i]
    /\ entry[i] # status
    /\ UNCHANGED live
    /\ DirectoryStep(i, status)

Withdraw(i) ==
    /\ entry[i] # "absent"
    /\ UNCHANGED live
    /\ DirectoryStep(i, "absent")

Die(i) ==
    /\ live[i]
    /\ live' = [live EXCEPT ![i] = FALSE]
    /\ DirectoryStep(i, entry[i])

-------------------------------------------------------------------------------
(* ChooseServer. *)

At(c, from, to) ==
    /\ ~crashed
    /\ clientPc[c] = from
    /\ clientPc' = [clientPc EXCEPT ![c] = to]

Call(c, n) ==
    /\ At(c, "idle", "lookup")
    /\ want' = [want EXCEPT ![c] = n]
    /\ UNCHANGED <<dirVars, cacheVars, cmu, got, gotAt, watchVars, crashed, faults>>

\* Under RLock.
Lookup(c) ==
    /\ cmu = Nobody
    /\ At(c, "lookup", IF want[c] \in made THEN "choose" ELSE "lock")
    /\ UNCHANGED <<dirVars, cacheVars, cmu, want, got, gotAt, watchVars, crashed, faults>>

\* Mutant: no second look.
NoLookupAgain(c) == FALSE

\* Under Lock: look again, and keep the lock if the balancer is still missing.
LookupAgain(c) == want[c] \in made

Lock(c) ==
    /\ cmu = Nobody
    /\ IF LookupAgain(c)
       THEN At(c, "lock", "choose") /\ UNCHANGED cmu
       ELSE At(c, "lock", "fetch") /\ cmu' = c
    /\ UNCHANGED <<dirVars, cacheVars, want, got, gotAt, watchVars, crashed, faults>>

\* newLoadBalancer
Fetch(c) ==
    /\ At(c, "fetch", "install")
    /\ got' = [got EXCEPT ![c] = Listed(want[c])]
    /\ gotAt' = [gotAt EXCEPT ![c] = clock]
    /\ UNCHANGED <<dirVars, cacheVars, cmu, want, watchVars, crashed, faults>>

\* Mutant: the error returns without releasing cmu.
FetchFailsLocked(c) ==
    /\ At(c, "fetch", "idle")
    /\ Fault
    /\ want' = [want EXCEPT ![c] = Nobody]
    /\ UNCHANGED <<dirVars, cacheVars, cmu, got, gotAt, watchVars, crashed>>

FetchFails(c) ==
    /\ At(c, "fetch", "idle")
    /\ Fault
    /\ cmu' = Nobody
    /\ want' = [want EXCEPT ![c] = Nobody]
    /\ UNCHANGED <<dirVars, cacheVars, got, gotAt, watchVars, crashed>>

\* The new balancer is written into the map, then the lock is released.
Install(c) ==
    /\ At(c, "install", "choose")
    /\ made' = made \cup {want[c]}
    /\ servers' = [servers EXCEPT ![want[c]] = got[c]]
    /\ asOf' = [asOf EXCEPT ![want[c]] = gotAt[c]]
    /\ cmu' = Nobody
    /\ got' = [got EXCEPT ![c] = {}]
    /\ gotAt' = [gotAt EXCEPT ![c] = 0]
    /\ UNCHANGED <<dirVars, want, watchVars, crashed, faults>>

\* NearbyLoadBalancer.ChooseServer returns one of servers, or ServerNotFound.
Choose(c) ==
    /\ At(c, "choose", "idle")
    /\ want' = [want EXCEPT ![c] = Nobody]
    /\ UNCHANGED <<dirVars, cacheVars, cmu, got, gotAt, watchVars, crashed, faults>>

-------------------------------------------------------------------------------
(* watch, run by one periodic task. *)

Watching(from) ==
    /\ ~crashed
    /\ watchPc = from

WatchBegin ==
    /\ Watching("idle")
    /\ cmu = Nobody
    /\ made # {}
    /\ watchPc' = "ask"
    /\ todo' = made
    /\ seen' = [n \in ServiceNames |-> IF n \in made THEN servers[n] ELSE {}]
    /\ UNCHANGED <<dirVars, cacheVars, clientVars, news, newsOf, newsAt, crashed, faults>>

WatchAsk(n) ==
    /\ Watching("ask")
    /\ n \in todo
    /\ todo' = todo \ {n}
    /\ IF SameList(seen[n], Listed(n))
       THEN UNCHANGED <<watchPc, news, newsOf, newsAt>>
       ELSE watchPc' = "apply" /\ news' = Listed(n) /\ newsOf' = n /\ newsAt' = clock
    /\ UNCHANGED <<dirVars, cacheVars, clientVars, seen, crashed, faults>>

WatchEnds ==
    /\ watchPc' = "idle"
    /\ todo' = {}
    /\ seen' = [n \in ServiceNames |-> {}]

\* A failed read ends this run of watch, whatever is left to do.
WatchFails ==
    /\ Watching("ask")
    /\ todo # {}
    /\ Fault
    /\ WatchEnds
    /\ UNCHANGED <<dirVars, cacheVars, clientVars, news, newsOf, newsAt, crashed>>

\* d.cache[name] is read without the lock.
Apply ==
    /\ SetServers(newsOf, news, newsAt)
    /\ UNCHANGED <<made, crashed>>

\* If a client writes the map meanwhile, the runtime may notice and stop the process.
RuntimeStops ==
    /\ \E c \in Clients : clientPc[c] = "install"
    /\ crashed' = TRUE
    /\ UNCHANGED cacheVars

WatchApply ==
    /\ Watching("apply")
    /\ Apply \/ RuntimeStops
    /\ watchPc' = "ask"
    /\ news' = {} /\ newsOf' = Nobody /\ newsAt' = 0
    /\ UNCHANGED <<dirVars, clientVars, todo, seen, faults>>

WatchDone ==
    /\ Watching("ask")
    /\ todo = {}
    /\ WatchEnds
    /\ UNCHANGED <<dirVars, cacheVars, clientVars, news, newsOf, newsAt, crashed, faults>>

-------------------------------------------------------------------------------
ClientStep(c) == Lookup(c) \/ Lock(c) \/ Fetch(c) \/ Install(c) \/ Choose(c)
WatchStep == WatchBegin \/ (\E n \in ServiceNames : WatchAsk(n)) \/ WatchApply \/ WatchDone

DiscoveryNext ==
    \/ \E i \in Insts : (\E s \in {"up", "down"} : Publish(i, s)) \/ Withdraw(i) \/ Die(i)
    \/ \E c \in Clients : (\E n \in ServiceNames : Call(c, n)) \/ ClientStep(c) \/ FetchFails(c)
    \/ WatchStep \/ WatchFails

\* etcd answers (perhaps with an error), the periodic task comes round again, and
\* a goroutine that keeps waiting for cmu gets it: Go's RWMutex starves nobody.
Fairness ==
    /\ \A c \in Clients : WF_discoveryVars(ClientStep(c)) /\ SF_discoveryVars(Lookup(c)) /\ SF_discoveryVars(Lock(c))
    /\ WF_discoveryVars(WatchStep) /\ SF_discoveryVars(WatchBegin)

DiscoverySpec == DiscoveryInit /\ [][DiscoveryNext]_discoveryVars /\ Fairness

-------------------------------------------------------------------------------
DiscoveryTypeOK ==
    /\ live \in [Insts -> BOOLEAN]
    /\ entry \in [Insts -> {"absent", "up", "down"}]
    /\ clock \in 0..MaxChanges
    /\ made \subseteq ServiceNames
    /\ servers \in [ServiceNames -> SUBSET Insts]
    /\ asOf \in [ServiceNames -> 0..MaxChanges]
    /\ cmu \in Clients \cup {Nobody}
    /\ clientPc \in [Clients -> {"idle", "lookup", "lock", "fetch", "install", "choose"}]
    /\ want \in [Clients -> ServiceNames \cup {Nobody}]
    /\ \A c \in Clients : /\ clientPc[c] # "idle" => want[c] \in ServiceNames
                          /\ clientPc[c] = "choose" => want[c] \in made
    /\ got \in [Clients -> SUBSET Insts]
    /\ gotAt \in [Clients -> 0..MaxChanges]
    /\ watchPc \in {"idle", "ask", "apply"}
    /\ todo \subseteq ServiceNames
    /\ seen \in [ServiceNames -> SUBSET Insts]
    /\ news \subseteq Insts
    /\ newsOf \in ServiceNames \cup {Nobody}
    /\ newsAt \in 0..MaxChanges
    /\ crashed \in BOOLEAN
    /\ faults \in 0..MaxFaults

\* A balancer is made once per name: by the holder of cmu, for a name nobody
\* else has made meanwhile (the second look-up of ChooseServer).
MadeOnce ==
    \A c \in Clients :
        /\ cmu = c <=> clientPc[c] \in {"fetch", "install"}
        /\ cmu = c => want[c] \notin made

\* The list a balancer holds is never replaced by one that was read earlier,
\* although watch and ChooseServer read etcd independently of each other; and an
\* empty answer (or a failing etcd) never takes the last known servers away.
NeverBackwards ==
    [][\A n \in ServiceNames :
          asOf'[n] >= asOf[n] /\ (servers[n] # {} => servers'[n] # {})]_discoveryVars

\* Every call of ChooseServer returns, although one client holds cmu while it
\* waits for etcd.
ChooseReturns == \A c \in Clients : clientPc[c] # "idle" ~> clientPc[c] = "idle" \/ crashed

\* When the directory stops changing, the balancers come to hold its servers
\* (unless it lists none): the same server as often as it is listed.
Count(server, list) == Cardinality({i \in list : ServerOf[i] = server})
UpToDate(n) ==
    \A i \in servers[n] \cup Listed(n) :
        Count(ServerOf[i], servers[n]) = Count(ServerOf[i], Listed(n))
Converges ==
    <>[](crashed \/ \A n \in ServiceNames : n \notin made \/ Listed(n) = {} \/ UpToDate(n))
===============================================================================
