---------------------------- MODULE DynamicProperty ----------------------------
(***************************************************************************)
(* propertyLoader: a copy of the configuration files that etcd holds under *)
(* the application's prefix, made by one Get and kept by a watch that is   *)
(* opened again after the last revision seen whenever its channel ends.    *)
(*                                                                         *)
(* etcd is a log of events, one per revision, whose old part can be        *)
(* compacted away.  The content of a put is named by its revision; it is   *)
(* "put" if the program understands it, "unreadable" if the file has a     *)
(* version but its settings cannot be read or its rules are refused, and   *)
(* "invalid" if it is not json or has no version.  The applied events are  *)
(* those before pos, but for the files of todo; a batch of a watch is the  *)
(* events from pos to rev.                                                 *)
(***************************************************************************)
EXTENDS Naturals, Sequences, FiniteSetsExt

CONSTANTS
    FileKeys,      \* configuration files, kept in containers
    SentinelKeys,  \* sentinel-flow.json, sentinel-circuitbreaker.json
    MaxRev,        \* bound: revisions of etcd
    MaxFaults      \* bound: failed reads and broken watches

ASSUME DynamicPropertyAssumption ==
    /\ FileKeys \cap SentinelKeys = {}
    /\ MaxRev \in Nat \ {0} /\ MaxFaults \in Nat

VARIABLES
    log,        \* etcd: the event of each revision
    compacted,  \* etcd: events before this revision are gone
    pc,         \* where the loader's goroutine is
    rev,        \* propertyLoader.rev
    pos,        \* the revision of the next event to apply
    first,      \* history: the revision of the Get, 0 if it failed
    todo,       \* keys that the Get has returned and init has still to put
    value,      \* per key: Raw of its container, the rules given to sentinel, 0 for none
    merged,     \* per file key: contents merged into the viper of its container
    started,    \* per revision: listener goroutines started for it
    canceled,   \* Close has canceled ctx
    cacheNil,   \* Close has dropped the cache
    faults

Keys == FileKeys \cup SentinelKeys
Revs == 1..MaxRev
Kinds == {"put", "unreadable", "invalid", "delete"}

etcdVars == <<log, compacted>>
cacheVars == <<value, merged>>
vars == <<etcdVars, pc, rev, pos, first, todo, cacheVars, started, canceled, cacheNil, faults>>

Fault == faults < MaxFaults /\ faults' = faults + 1

\* The last event of a key up to revision r, 0 if it has none.
LastRev(k, r) == Max({0} \cup {i \in 1..r : log[i].key = k})

Init ==
    /\ log = <<>> /\ compacted = 0
    /\ pc = "init" /\ rev = 0 /\ pos = 1 /\ first = 0 /\ todo = {}
    /\ value = [k \in Keys |-> 0] /\ merged = [k \in FileKeys |-> {}]
    /\ started = [r \in Revs |-> 0]
    /\ canceled = FALSE /\ cacheNil = FALSE /\ faults = 0

-------------------------------------------------------------------------------
(* etcd and its other clients. *)

Exists(k) == LastRev(k, Len(log)) # 0 /\ log[LastRev(k, Len(log))].kind # "delete"

Change(k, kind) ==
    /\ Len(log) < MaxRev
    /\ kind = "delete" => Exists(k)
    /\ log' = Append(log, [key |-> k, kind |-> kind])
    /\ UNCHANGED <<compacted, pc, rev, pos, first, todo, cacheVars, started,
                   canceled, cacheNil, faults>>

Compact(r) ==
    /\ r \in compacted + 1 .. Len(log)
    /\ compacted' = r
    /\ UNCHANGED <<log, pc, rev, pos, first, todo, cacheVars, started,
                   canceled, cacheNil, faults>>

-------------------------------------------------------------------------------
(* convertAndHandlePut *)

\* notifyListener: a goroutine for the event.
Notify(r) == started' = [started EXCEPT ![r] = @ + 1]

\* Not json, or without a version: logged and skipped.
SkipInvalid(r) ==
    /\ log[r].kind = "invalid"
    /\ UNCHANGED <<cacheVars, started>>

\* loadOrNewContainer: the file shows the content, which is merged into the
\* settings its container has unless viper cannot read it.
PutFile(k, r) ==
    /\ k \in FileKeys
    /\ ~cacheNil
    /\ log[r].kind \in {"put", "unreadable"}
    /\ value' = [value EXCEPT ![k] = r]
    /\ merged' = [merged EXCEPT ![k] = IF log[r].kind = "put" THEN @ \cup {r} ELSE @]
    /\ Notify(r)

\* Handle: rules that sentinel refuses are logged, and those it has stay; the
\* listener is called in either case.
PutRules(k, r) ==
    /\ k \in SentinelKeys
    /\ log[r].kind \in {"put", "unreadable"}
    /\ value' = [value EXCEPT ![k] = IF log[r].kind = "put" THEN r ELSE @]
    /\ UNCHANGED merged
    /\ Notify(r)

Put(k, r) == SkipInvalid(r) \/ PutFile(k, r) \/ PutRules(k, r)

\* putKey writes to the nil map that Close has left.
PutPanics(k, r) ==
    /\ k \in FileKeys
    /\ cacheNil
    /\ log[r].kind \in {"put", "unreadable"}
    /\ pc' = "panicked"
    /\ UNCHANGED <<etcdVars, rev, pos, first, todo, cacheVars, started, canceled, cacheNil, faults>>

-------------------------------------------------------------------------------
(* init *)

\* readRemote: the files that exist.
InitRead ==
    /\ pc = "init"
    /\ ~canceled
    /\ rev' = Len(log)
    /\ pos' = Len(log) + 1
    /\ first' = Len(log)
    /\ todo' = {k \in Keys : Exists(k)}
    /\ pc' = IF todo' = {} THEN "open" ELSE "read"
    /\ UNCHANGED <<etcdVars, cacheVars, started, canceled, cacheNil, faults>>

\* No files and revision 0: the read failed, or Close has canceled ctx.
InitReadFails ==
    /\ pc = "init"
    /\ pc' = "open"
    /\ \/ canceled /\ UNCHANGED faults
       \/ Fault
    /\ UNCHANGED <<etcdVars, rev, pos, first, todo, cacheVars, started, canceled, cacheNil>>

\* One of the files that were read is handled.
InitPut(k) ==
    /\ pc = "read"
    /\ k \in todo
    /\ Put(k, LastRev(k, first))
    /\ todo' = todo \ {k}
    /\ pc' = IF todo' = {} THEN "open" ELSE "read"
    /\ UNCHANGED <<etcdVars, rev, pos, first, canceled, cacheNil, faults>>

InitPutPanics(k) ==
    /\ pc = "read"
    /\ k \in todo
    /\ PutPanics(k, LastRev(k, first))

-------------------------------------------------------------------------------
(* watchRemote and dealChan *)

Loader(from, to) ==
    /\ pc = from
    /\ pc' = to

\* Events before compacted cannot be watched any more: the channel yields Canceled.
TooOld(r) == r < compacted

\* Mutants: the watch starts at the last revision seen, so that its event comes
\* again; the watch starts at whatever comes next.
OpenWatchAtRev ==
    /\ Loader("open", IF canceled THEN "done" ELSE IF TooOld(rev) THEN "sleep" ELSE "watch")
    /\ pos' = IF canceled \/ rev = 0 THEN pos ELSE rev
    /\ UNCHANGED <<etcdVars, rev, first, todo, cacheVars, started, canceled, cacheNil, faults>>

OpenWatchAtNext ==
    /\ Loader("open", IF canceled THEN "done" ELSE "watch")
    /\ pos' = IF canceled THEN pos ELSE Len(log) + 1
    /\ UNCHANGED <<etcdVars, rev, first, todo, cacheVars, started, canceled, cacheNil, faults>>

OpenWatch ==
    /\ Loader("open", IF canceled THEN "done" ELSE IF TooOld(rev + 1) THEN "sleep" ELSE "watch")
    /\ pos' = IF canceled THEN pos ELSE rev + 1
    /\ UNCHANGED <<etcdVars, rev, first, todo, cacheVars, started, canceled, cacheNil, faults>>

\* Mutant: rev is set to the revision after the batch.
ReceivePast ==
    /\ Loader("watch", "apply")
    /\ \E r \in pos..Len(log) : rev' = r + 1
    /\ UNCHANGED <<etcdVars, pos, first, todo, cacheVars, started, canceled, cacheNil, faults>>

\* rev is set to the revision of the batch before its events are handled.
Receive ==
    /\ Loader("watch", "apply")
    /\ \E r \in pos..Len(log) : rev' = r
    /\ UNCHANGED <<etcdVars, pos, first, todo, cacheVars, started, canceled, cacheNil, faults>>

\* The channel ends: etcd compacted what is still to come, ctx is canceled, or
\* the watch broke.
WatchEnds ==
    /\ Loader("watch", "sleep")
    /\ TooOld(pos) \/ canceled
    /\ UNCHANGED <<etcdVars, rev, pos, first, todo, cacheVars, started, canceled, cacheNil, faults>>

WatchBreaks ==
    /\ Loader("watch", "sleep")
    /\ Fault
    /\ UNCHANGED <<etcdVars, rev, pos, first, todo, cacheVars, started, canceled, cacheNil>>

\* Mutant: the goroutine returns when the channel ends.
SleepReturns ==
    /\ Loader("sleep", "done")
    /\ UNCHANGED <<etcdVars, rev, pos, first, todo, cacheVars, started, canceled, cacheNil, faults>>

Sleep ==
    /\ Loader("sleep", "open")
    /\ UNCHANGED <<etcdVars, rev, pos, first, todo, cacheVars, started, canceled, cacheNil, faults>>

Event == log[pos]

\* One event of the batch is handled.
Apply ==
    /\ Loader("apply", IF pos = rev THEN "watch" ELSE "apply")
    /\ pos' = pos + 1
    /\ UNCHANGED <<etcdVars, rev, first, todo, canceled, cacheNil, faults>>

ApplyPut == Apply /\ Event.kind # "delete" /\ Put(Event.key, pos)

ApplyPutPanics == pc = "apply" /\ PutPanics(Event.key, pos)

\* Mutant: the content is dropped, the settings merged so far stay.
ApplyDeleteKeepsSettings ==
    /\ Apply
    /\ Event.kind = "delete"
    /\ value' = [value EXCEPT ![Event.key] = 0]
    /\ UNCHANGED merged
    /\ Notify(pos)

\* deleteKey, or sentinel without rules.
ApplyDelete ==
    /\ Apply
    /\ Event.kind = "delete"
    /\ value' = [value EXCEPT ![Event.key] = 0]
    /\ merged' = IF Event.key \in FileKeys THEN [merged EXCEPT ![Event.key] = {}] ELSE merged
    /\ Notify(pos)

-------------------------------------------------------------------------------
(* Close, a shutdown hook, which is there before init runs. *)

CloseCancel ==
    /\ pc # "panicked"
    /\ ~canceled
    /\ canceled' = TRUE
    /\ UNCHANGED <<etcdVars, pc, rev, pos, first, todo, cacheVars, started, cacheNil, faults>>

CloseCache ==
    /\ pc # "panicked"
    /\ canceled /\ ~cacheNil
    /\ cacheNil' = TRUE
    /\ value' = [k \in Keys |-> IF k \in FileKeys THEN 0 ELSE value[k]]
    /\ merged' = [k \in FileKeys |-> {}]
    /\ UNCHANGED <<etcdVars, pc, rev, pos, first, todo, started, canceled, faults>>

-------------------------------------------------------------------------------
LoaderStep ==
    \/ InitRead \/ (\E k \in Keys : InitPut(k) \/ InitPutPanics(k))
    \/ OpenWatch \/ Receive \/ WatchEnds \/ Sleep
    \/ ApplyPut \/ ApplyPutPanics \/ ApplyDelete

Next ==
    \/ \E k \in Keys, kind \in Kinds : Change(k, kind)
    \/ \E r \in Revs : Compact(r)
    \/ LoaderStep \/ InitReadFails \/ WatchBreaks
    \/ CloseCancel \/ CloseCache

\* The loader's goroutine runs, and etcd sends what it has.
Fairness == WF_vars(LoaderStep)

Spec == Init /\ [][Next]_vars /\ Fairness

-------------------------------------------------------------------------------
TypeOK ==
    /\ log \in Seq([key : Keys, kind : Kinds]) /\ Len(log) <= MaxRev
    /\ compacted \in 0..MaxRev
    /\ pc \in {"init", "read", "open", "watch", "apply", "sleep", "done", "panicked"}
    /\ rev \in 0..Len(log)
    /\ pos \in 1..MaxRev + 1
    /\ first \in 0..MaxRev
    /\ todo \subseteq Keys
    /\ value \in [Keys -> 0..MaxRev]
    /\ merged \in [FileKeys -> SUBSET Revs]
    /\ started \in [Revs -> Nat]
    /\ canceled \in BOOLEAN
    /\ cacheNil \in BOOLEAN
    /\ faults \in 0..MaxFaults

\* The loader sees an event in the Get if it is the last of its key, or in a watch.
Seen(k, r) == log[r].key = k /\ (r > first \/ r = LastRev(k, first))

\* The events that change what a key shows.
TakesEffect(r) ==
    \/ log[r].kind \in {"put", "delete"}
    \/ log[r].kind = "unreadable" /\ log[r].key \in FileKeys

\* What a key has to show at revision r: the last of the events seen that changes it.
LastChange(k, r) == Max({0} \cup {i \in 1..r : Seen(k, i) /\ TakesEffect(i)})
Shown(k, r) ==
    IF LastChange(k, r) # 0 /\ log[LastChange(k, r)].kind = "delete" THEN 0 ELSE LastChange(k, r)

\* The local configuration is that of etcd at the last applied revision, rules
\* that sentinel has refused left out: no event is lost or applied out of order
\* across broken and reopened watches.
Mirrors ==
    \A k \in Keys \ todo : (cacheNil /\ k \in FileKeys) \/ value[k] = Shown(k, pos - 1)

\* The settings of a file come from puts after its last applied delete: a file
\* that was deleted and put again shows nothing of its former content.
FreshAfterDelete ==
    \A k \in FileKeys : \A m \in merged[k] :
        /\ m < pos /\ log[m] = [key |-> k, kind |-> "put"]
        /\ \A d \in m..pos - 1 : log[d] # [key |-> k, kind |-> "delete"]

\* A listener is called once for each event with a version, or a delete, that has
\* been handled, and for no other.
Notifiable(r) ==
    /\ r < pos
    /\ log[r].kind # "invalid"
    /\ r <= first => /\ log[r].kind # "delete"
                     /\ log[r].key \notin todo
                     /\ r = LastRev(log[r].key, first)
NotifiedOnce == \A r \in 1..Len(log) : started[r] = IF Notifiable(r) THEN 1 ELSE 0

\* The loader ends up with the configuration of etcd, unless it is closed or the
\* events it has still to see are compacted away.
UpToDate == todo = {} /\ \A k \in Keys : value[k] = Shown(k, Len(log))
CatchesUp == <>[](canceled \/ UpToDate \/ TooOld(rev + 1))
===============================================================================
