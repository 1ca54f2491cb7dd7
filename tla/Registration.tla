----------------------------- MODULE Registration -----------------------------
(***************************************************************************)
(* The registration of one http server instance in etcd: the goroutine     *)
(* started by Server.AfterInitialize (grant a lease, put the instance's    *)
(* key under it, keep it alive, start over), the goroutines the actuator   *)
(* starts to mark the server down or up, and OnApplicationShutdown.        *)
(*                                                                         *)
(* Every successful lease grant has a number; the number also names the    *)
(* statusChangerImpl built on that lease.  All of them write one key, the  *)
(* register path of the instance.  An etcd call is one step, taken when    *)
(* the call returns; its outcomes are: applied, not applied with an error, *)
(* and applied with the answer lost.                                       *)
(***************************************************************************)
EXTENDS Naturals

CONSTANTS
    Ops,        \* goroutines of the actuator endpoints
    Stopper,    \* the goroutine that runs OnApplicationShutdown
    Nobody,     \* "the mutex is free"
    MaxRegs,    \* bound: lease grants of the process
    MaxFaults   \* bound: failures of etcd, the network or the keep-alive

ASSUME RegistrationAssumption ==
    /\ MaxRegs \in Nat \ {0}
    /\ MaxFaults \in Nat
    /\ Nobody \notin Ops \cup {Stopper}
    /\ Stopper \notin Ops

VARIABLES
    proc,       \* "alive", or how the process ended
    up,         \* Server.up
    regi,       \* Server.regiChanger: number of the stored changer, 0 for nil
    loopPc,     \* where the registration goroutine is
    loopDown,   \* its local isDown
    granted,    \* number of the newest lease
    lease,      \* etcd: state of each lease
    key,        \* etcd: the value under the register path, and its lease
    isDown,     \* statusChangerImpl.isDown of each changer
    canceled,   \* changers whose ctx is canceled
    mutex,      \* holder of each changer's mutex
    opPc, opOn, opDown,   \* per actuator goroutine: place, changer, wanted isDown
    stopPc, stopOn,       \* place and changer of OnApplicationShutdown
    deleted,    \* history: the Delete of Deregister took effect
    unsure,     \* history: changers that lost the answer of a Put that was applied
    faults      \* failures so far

Changers == 1..MaxRegs

loopVars == <<loopPc, loopDown, granted, regi>>
etcdVars == <<lease, key>>
changerVars == <<isDown, canceled, mutex>>
opVars   == <<opPc, opOn, opDown>>
stopVars == <<stopPc, stopOn, deleted>>
vars == <<proc, up, loopVars, etcdVars, changerVars, opVars, stopVars, unsure, faults>>

Status(down) == IF down THEN "down" ELSE "up"
Absent == [status |-> "absent", lease |-> 0]

-------------------------------------------------------------------------------
(* etcd, as the calls of the client see it. *)

\* Mutant: the key is put without a lease.
PutKeyForEver(c, down) == key' = [status |-> Status(down), lease |-> 0]

PutKey(c, down) == key' = [status |-> Status(down), lease |-> c]

\* A lease that ends takes the key with it if the key is bound to it.
EndLease(c) ==
    /\ lease' = [lease EXCEPT ![c] = "dead"]
    /\ key' = IF key.lease = c THEN Absent ELSE key

Fault == faults < MaxFaults /\ faults' = faults + 1

\* The client refreshes the lease while statusChangerImpl.KeepAlive runs.
KeptAlive(c) ==
    /\ proc = "alive"
    /\ loopPc = "keepalive"
    /\ c = granted
    /\ c \notin canceled

\* A lease nobody refreshes runs out ...
Expire(c) ==
    /\ lease[c] = "live"
    /\ ~KeptAlive(c)
    /\ EndLease(c)
    /\ UNCHANGED <<proc, up, loopVars, changerVars, opVars, stopVars, unsure, faults>>

\* ... and one that is refreshed does when the refreshes do not arrive in time.
ExpireKept(c) ==
    /\ lease[c] = "live"
    /\ KeptAlive(c)
    /\ Fault
    /\ EndLease(c)
    /\ UNCHANGED <<proc, up, loopVars, changerVars, opVars, stopVars, unsure>>

-------------------------------------------------------------------------------
Init ==
    /\ proc = "alive" /\ up = TRUE
    /\ regi = 0 /\ loopPc = "check" /\ loopDown = FALSE /\ granted = 0
    /\ lease = [c \in Changers |-> "none"] /\ key = Absent
    /\ isDown = [c \in Changers |-> FALSE]
    /\ canceled = {}
    /\ mutex = [c \in Changers |-> Nobody]
    /\ opPc = [o \in Ops |-> "idle"]
    /\ opOn = [o \in Ops |-> 0]
    /\ opDown = [o \in Ops |-> FALSE]
    /\ stopPc = "running" /\ stopOn = 0 /\ deleted = FALSE
    /\ unsure = {} /\ faults = 0

-------------------------------------------------------------------------------
(* The registration goroutine of AfterInitialize. *)

Loop(from, to) ==
    /\ proc = "alive"
    /\ loopPc = from
    /\ loopPc' = to

LoopCheck ==
    /\ Loop("check", IF up THEN "read" ELSE "done")
    /\ UNCHANGED <<proc, up, regi, loopDown, granted, etcdVars, changerVars,
                   opVars, stopVars, unsure, faults>>

\* isDown of the stored changer; IsDown() waits for the changer's mutex.
LoopRead ==
    /\ Loop("read", "grant")
    /\ regi # 0 => mutex[regi] = Nobody
    /\ loopDown' = (regi # 0 /\ isDown[regi])
    /\ UNCHANGED <<proc, up, regi, granted, etcdVars, changerVars, opVars,
                   stopVars, unsure, faults>>

\* Register, first call: Grant.
LoopGrant ==
    /\ granted < MaxRegs
    /\ Loop("grant", "put")
    /\ granted' = granted + 1
    /\ lease' = [lease EXCEPT ![granted + 1] = "live"]
    /\ isDown' = [isDown EXCEPT ![granted + 1] = loopDown]
    /\ UNCHANGED <<proc, up, regi, loopDown, key, canceled, mutex, opVars,
                   stopVars, unsure, faults>>

LoopGrantFails ==
    /\ Loop("grant", "failed")
    /\ Fault
    /\ UNCHANGED <<proc, up, regi, loopDown, granted, etcdVars, changerVars,
                   opVars, stopVars, unsure>>

\* Register, second call: Put under the new lease; etcd refuses a lease that is gone.
LoopPut ==
    /\ Loop("put", IF lease[granted] = "live" THEN "store" ELSE "failed")
    /\ IF lease[granted] = "live" THEN PutKey(granted, loopDown) ELSE UNCHANGED key
    /\ UNCHANGED <<proc, up, regi, loopDown, granted, lease, changerVars,
                   opVars, stopVars, unsure, faults>>

LoopPutFails ==
    /\ Loop("put", "failed")
    /\ Fault
    /\ \/ UNCHANGED key
       \/ lease[granted] = "live" /\ PutKey(granted, loopDown)
    /\ UNCHANGED <<proc, up, regi, loopDown, granted, lease, changerVars,
                   opVars, stopVars, unsure>>

LoopStore ==
    /\ Loop("store", "keepalive")
    /\ regi' = granted
    /\ loopDown' = FALSE
    /\ UNCHANGED <<proc, up, granted, etcdVars, changerVars, opVars,
                   stopVars, unsure, faults>>

\* Register returned (nil, err); changer.KeepAlive() is then a call on a nil
\* interface: the panic of this goroutine, which nothing recovers, ends the process.
LoopNilChanger ==
    /\ Loop("failed", "done")
    /\ proc' = "panicked"
    /\ UNCHANGED <<up, regi, loopDown, granted, etcdVars, changerVars, opVars,
                   stopVars, unsure, faults>>

\* KeepAlive returns when ctx is canceled or the channel of the client is closed;
\* the deferred function then revokes the lease if ctx is canceled.
AfterKeepAlive == IF granted \in canceled THEN "revoke" ELSE "sleep"

LoopKeepAliveEnds ==
    /\ Loop("keepalive", AfterKeepAlive)
    /\ granted \in canceled \/ lease[granted] = "dead"
    /\ UNCHANGED <<proc, up, regi, loopDown, granted, etcdVars, changerVars,
                   opVars, stopVars, unsure, faults>>

\* The client gives up refreshing although the lease is still alive in etcd.
LoopKeepAliveDrops ==
    /\ Loop("keepalive", AfterKeepAlive)
    /\ Fault
    /\ UNCHANGED <<proc, up, regi, loopDown, granted, etcdVars, changerVars,
                   opVars, stopVars, unsure>>

LoopRevoke ==
    /\ Loop("revoke", "sleep")
    /\ \/ EndLease(granted) /\ UNCHANGED faults
       \/ Fault /\ UNCHANGED etcdVars
    /\ UNCHANGED <<proc, up, regi, loopDown, granted, changerVars, opVars,
                   stopVars, unsure>>

\* Mutant: the goroutine returns after KeepAlive.
LoopSleepReturns ==
    /\ Loop("sleep", "done")
    /\ UNCHANGED <<proc, up, regi, loopDown, granted, etcdVars, changerVars,
                   opVars, stopVars, unsure, faults>>

LoopSleep ==
    /\ Loop("sleep", "check")
    /\ UNCHANGED <<proc, up, regi, loopDown, granted, etcdVars, changerVars,
                   opVars, stopVars, unsure, faults>>

-------------------------------------------------------------------------------
(* The actuator: markAsDownServer (down) and markAsUpServer (~down). *)

\* Mutant: no test for a changer that is not there yet.
MarkRequestUnchecked(o, down) ==
    /\ proc = "alive"
    /\ opPc[o] = "idle"
    /\ opPc' = [opPc EXCEPT ![o] = "called"]
    /\ opOn' = [opOn EXCEPT ![o] = regi]
    /\ opDown' = [opDown EXCEPT ![o] = down]
    /\ UNCHANGED <<proc, up, loopVars, etcdVars, changerVars, stopVars, unsure, faults>>

\* The handler loads the stored changer and starts a goroutine on it.
MarkRequest(o, down) ==
    /\ proc = "alive"
    /\ opPc[o] = "idle"
    /\ regi # 0
    /\ opPc' = [opPc EXCEPT ![o] = "called"]
    /\ opOn' = [opOn EXCEPT ![o] = regi]
    /\ opDown' = [opDown EXCEPT ![o] = down]
    /\ UNCHANGED <<proc, up, loopVars, etcdVars, changerVars, stopVars, unsure, faults>>

MarkEnds(o) ==
    /\ opPc' = [opPc EXCEPT ![o] = "idle"]
    /\ opOn' = [opOn EXCEPT ![o] = 0]
    /\ opDown' = [opDown EXCEPT ![o] = FALSE]

\* "is already down", "is already up": nothing to do.
MarkSkip(o) ==
    /\ proc = "alive"
    /\ opPc[o] = "called"
    /\ mutex[opOn[o]] = Nobody
    /\ isDown[opOn[o]] = opDown[o]
    /\ MarkEnds(o)
    /\ UNCHANGED <<proc, up, loopVars, etcdVars, changerVars, stopVars, unsure, faults>>

MarkLock(o) ==
    /\ proc = "alive"
    /\ opPc[o] = "called"
    /\ mutex[opOn[o]] = Nobody
    /\ isDown[opOn[o]] # opDown[o]
    /\ mutex' = [mutex EXCEPT ![opOn[o]] = o]
    /\ opPc' = [opPc EXCEPT ![o] = "put"]
    /\ UNCHANGED <<proc, up, loopVars, etcdVars, isDown, canceled, opOn, opDown,
                   stopVars, unsure, faults>>

\* The Put of the new status under the changer's own lease, and its answer.
PutAnswers(o, answer) ==
    /\ proc = "alive"
    /\ opPc[o] = "put"
    /\ opPc' = [opPc EXCEPT ![o] = answer]
    /\ UNCHANGED <<proc, up, loopVars, lease, changerVars, opOn, opDown, stopVars>>

\* Mutant: the Put does not use the ctx of the changer.
CanPutCanceled(c) == lease[c] = "live"
CanPut(c) == c \notin canceled /\ lease[c] = "live"

MarkPut(o) ==
    /\ PutAnswers(o, IF CanPut(opOn[o]) THEN "ok" ELSE "error")
    /\ IF CanPut(opOn[o]) THEN PutKey(opOn[o], opDown[o]) ELSE UNCHANGED key
    /\ UNCHANGED <<unsure, faults>>

MarkPutFails(o) ==
    /\ PutAnswers(o, "error")
    /\ Fault
    /\ \/ UNCHANGED <<key, unsure>>
       \/ /\ CanPut(opOn[o])
          /\ PutKey(opOn[o], opDown[o])
          /\ unsure' = unsure \cup {opOn[o]}

\* Mutants: isDown is assigned whatever the Put answers; an error returns
\* without releasing the mutex.
MarkReturnRecords(o) ==
    /\ proc = "alive"
    /\ opPc[o] \in {"ok", "error"}
    /\ isDown' = [isDown EXCEPT ![opOn[o]] = opDown[o]]
    /\ mutex' = [mutex EXCEPT ![opOn[o]] = Nobody]
    /\ MarkEnds(o)
    /\ UNCHANGED <<proc, up, loopVars, etcdVars, canceled, stopVars, unsure, faults>>

MarkReturnLocked(o) ==
    /\ proc = "alive"
    /\ opPc[o] \in {"ok", "error"}
    /\ isDown' = IF opPc[o] = "ok" THEN [isDown EXCEPT ![opOn[o]] = opDown[o]] ELSE isDown
    /\ mutex' = IF opPc[o] = "ok" THEN [mutex EXCEPT ![opOn[o]] = Nobody] ELSE mutex
    /\ MarkEnds(o)
    /\ UNCHANGED <<proc, up, loopVars, etcdVars, canceled, stopVars, unsure, faults>>

\* isDown is assigned only if the Put had no error; then the mutex is released.
MarkReturn(o) ==
    /\ proc = "alive"
    /\ opPc[o] \in {"ok", "error"}
    /\ isDown' = IF opPc[o] = "ok" THEN [isDown EXCEPT ![opOn[o]] = opDown[o]] ELSE isDown
    /\ mutex' = [mutex EXCEPT ![opOn[o]] = Nobody]
    /\ MarkEnds(o)
    /\ UNCHANGED <<proc, up, loopVars, etcdVars, canceled, stopVars, unsure, faults>>

-------------------------------------------------------------------------------
(* OnApplicationShutdown, and the end of the process. *)

Stop(from, to) ==
    /\ proc = "alive"
    /\ stopPc = from
    /\ stopPc' = to

StopBegin ==
    /\ Stop("running", IF regi = 0 THEN "down" ELSE "deregister")
    /\ stopOn' = regi
    /\ UNCHANGED <<proc, up, loopVars, etcdVars, changerVars, opVars, deleted,
                   unsure, faults>>

\* Deregister: the changer's mutex first, then its ctx.
StopCancel ==
    /\ Stop("deregister", "delete")
    /\ mutex[stopOn] = Nobody
    /\ mutex' = [mutex EXCEPT ![stopOn] = Stopper]
    /\ canceled' = canceled \cup {stopOn}
    /\ UNCHANGED <<proc, up, loopVars, etcdVars, isDown, opVars, stopOn,
                   deleted, unsure, faults>>

\* The Delete of the key, whatever lease it is bound to; its error is dropped.
StopDelete ==
    /\ Stop("delete", "down")
    /\ \/ key' = Absent /\ deleted' = TRUE /\ UNCHANGED faults
       \/ Fault /\ UNCHANGED <<key, deleted>>
    /\ mutex' = [mutex EXCEPT ![stopOn] = Nobody]
    /\ UNCHANGED <<proc, up, loopVars, lease, isDown, canceled, opVars, stopOn, unsure>>

StopDown ==
    /\ Stop("down", "stopped")
    /\ up' = FALSE
    /\ UNCHANGED <<proc, loopVars, etcdVars, changerVars, opVars, stopOn,
                   deleted, unsure, faults>>

EndProcess(how) ==
    /\ proc = "alive"
    /\ proc' = how
    /\ UNCHANGED <<up, loopVars, etcdVars, changerVars, opVars, stopVars, unsure, faults>>

StopExit == stopPc = "stopped" /\ EndProcess("exited")

\* A crash of the machine, or a kill, at any moment.
Kill == EndProcess("killed")

-------------------------------------------------------------------------------
\* The goroutine goes on; failures of etcd are steps of their own.
LoopStep ==
    \/ LoopCheck \/ LoopRead \/ LoopGrant \/ LoopPut \/ LoopStore \/ LoopNilChanger
    \/ LoopKeepAliveEnds \/ LoopRevoke \/ LoopSleep

MarkStep(o) == MarkSkip(o) \/ MarkLock(o) \/ MarkPut(o) \/ MarkReturn(o)

StopStep == StopCancel \/ StopDelete \/ StopDown \/ StopExit

Next ==
    \/ LoopStep
    \/ LoopGrantFails \/ LoopPutFails \/ LoopKeepAliveDrops
    \/ \E o \in Ops : \/ \E down \in BOOLEAN : MarkRequest(o, down)
                      \/ MarkStep(o)
                      \/ MarkPutFails(o)
    \/ StopBegin \/ StopStep
    \/ Kill
    \/ \E c \in Changers : Expire(c) \/ ExpireKept(c)

\* Goroutines are scheduled and etcd answers (with an error or not); requests,
\* shutdowns, kills and failures need not happen.  A sync.Mutex serves a
\* goroutine that keeps waiting for it, hence the strong fairness of the two
\* steps that wait for markings.
Fairness ==
    /\ WF_vars(LoopStep)
    /\ \A o \in Ops : WF_vars(MarkStep(o))
    /\ WF_vars(StopStep)
    /\ SF_vars(LoopRead)
    /\ SF_vars(StopCancel)
    /\ \A c \in Changers : WF_vars(Expire(c))

Spec == Init /\ [][Next]_vars /\ Fairness

-------------------------------------------------------------------------------
TypeOK ==
    /\ proc \in {"alive", "panicked", "exited", "killed"}
    /\ up \in BOOLEAN
    /\ regi \in 0..MaxRegs
    /\ loopPc \in {"check", "read", "grant", "put", "store", "failed", "keepalive",
                   "revoke", "sleep", "done"}
    /\ loopDown \in BOOLEAN
    /\ granted \in 0..MaxRegs
    /\ lease \in [Changers -> {"none", "live", "dead"}]
    /\ key \in [status : {"absent", "up", "down"}, lease : 0..MaxRegs]
    /\ isDown \in [Changers -> BOOLEAN]
    /\ canceled \subseteq Changers
    /\ mutex \in [Changers -> Ops \cup {Nobody, Stopper}]
    /\ opPc \in [Ops -> {"idle", "called", "put", "ok", "error"}]
    /\ opOn \in [Ops -> 0..MaxRegs]
    /\ \A o \in Ops : opPc[o] # "idle" => opOn[o] \in Changers
    /\ opDown \in [Ops -> BOOLEAN]
    /\ stopPc \in {"running", "deregister", "delete", "down", "stopped"}
    /\ stopOn \in 0..MaxRegs
    /\ deleted \in BOOLEAN
    /\ unsure \subseteq Changers
    /\ faults \in 0..MaxFaults

\* A published entry is bound to a live lease, and unless a marking is writing
\* it, its status is the one the changer on that lease reports: markings of one
\* changer are serialised by its mutex, and recorded only if the Put succeeded.
StatusMatchesKey ==
    key.status # "absent" =>
        /\ key.lease \in Changers
        /\ lease[key.lease] = "live"
        /\ mutex[key.lease] \notin Ops /\ key.lease \notin unsure
              => key.status = Status(isDown[key.lease])

\* Once Deregister has deleted the key, the deregistered changer never
\* publishes again: its ctx was canceled under its mutex, so a marking that
\* waited for the mutex fails.  (A changer of another lease still can: one that
\* the loop replaced, or one it registers before up is cleared.)
DeregisteredStaysGone == deleted => key.lease # stopOn

\* A changer's mutex is held by exactly the goroutine that is writing through
\* it, so two markings, or a marking and Deregister, never overlap on one changer.
Writing(o) == opPc[o] \in {"put", "ok", "error"}
MutexHeld ==
    \A c \in Changers :
        /\ \A o \in Ops : mutex[c] = o <=> Writing(o) /\ opOn[o] = c
        /\ mutex[c] = Stopper <=> stopPc = "delete" /\ stopOn = c

\* A lease that is lost while the server is up leads to a new registration.
ReportsAgain ==
    loopPc = "keepalive" /\ lease[granted] = "dead"
        ~> loopPc = "grant" \/ ~up \/ proc # "alive"

\* Shutdown is not held up for ever by markings that hold the changer's mutex.
ShutdownCompletes == stopPc # "running" ~> proc # "alive"

\* The registration keeps the promise of the directory.
Entry == INSTANCE ServiceEntry WITH live <- (proc = "alive"), entry <- key.status
ImplementsEntry == Entry!EntrySpec
===============================================================================
