--------------------------- MODULE RegistrationProofs ---------------------------
(***************************************************************************)
(* Proofs about Registration, for any set of actuator goroutines, any      *)
(* number of registrations and any number of faults.                       *)
(***************************************************************************)
EXTENDS Registration, TLAPS

\* Changers are numbered in the order of their leases; a goroutine is never on
\* a changer that is not stored yet, and the changer about to be stored has the
\* status its Put publishes.
Numbering ==
    /\ regi <= granted
    /\ \A c \in Changers : c > granted => lease[c] = "none"
    /\ \A o \in Ops : opOn[o] <= regi
    /\ stopOn <= regi
    /\ loopPc \in {"put", "store"} =>
          regi < granted /\ granted \in Changers /\ isDown[granted] = loopDown
    /\ loopPc \in {"keepalive", "revoke"} => granted \in Changers

\* Where OnApplicationShutdown is says what it has done.
Shutdown ==
    /\ stopPc \in {"deregister", "delete"} => stopOn \in Changers
    /\ deleted => stopPc \in {"down", "stopped"} /\ stopOn \in Changers
    /\ stopOn \in canceled \/ stopPc \in {"running", "deregister"} \/ stopOn = 0

\* The published status is the one of the marking that has just written it, or
\* the one its changer reports.
Written(o) == opPc[o] = "ok" /\ opOn[o] = key.lease
KeyStatus ==
    key.status # "absent" =>
        /\ key.lease \in Changers
        /\ lease[key.lease] = "live"
        /\ key.lease \notin unsure =>
              /\ \A o \in Ops : Written(o) => key.status = Status(opDown[o])
              /\ (\A o \in Ops : ~Written(o)) => key.status = Status(isDown[key.lease])

IInv ==
    /\ TypeOK
    /\ Numbering
    /\ MutexHeld
    /\ Shutdown
    /\ DeregisteredStaysGone
    /\ KeyStatus

LEMMA AbsentIsEntry == Absent \in [status : {"absent", "up", "down"}, lease : 0..MaxRegs]
  BY RegistrationAssumption DEF Absent

\* Types are preserved; that a granted lease is one of Changers comes from Numbering.
LEMMA TypeOKInductive == ASSUME IInv, Next PROVE TypeOK'
<1> USE RegistrationAssumption DEF IInv, TypeOK, Numbering, Shutdown, Changers
<1> USE DEF loopVars, etcdVars, changerVars, opVars, stopVars
<1>1. CASE LoopCheck
  BY <1>1 DEF LoopCheck, Loop
<1>2. CASE LoopRead
  BY <1>2 DEF LoopRead, Loop
<1>3. CASE LoopGrant
  BY <1>3 DEF LoopGrant, Loop
<1>4. CASE LoopGrantFails
  BY <1>4 DEF LoopGrantFails, Loop, Fault
<1>5. CASE LoopPut
  BY <1>5 DEF LoopPut, Loop, PutKey, Status
<1>6. CASE LoopPutFails
  BY <1>6 DEF LoopPutFails, Loop, PutKey, Fault, Status
<1>7. CASE LoopStore
  BY <1>7 DEF LoopStore, Loop
<1>8. CASE LoopNilChanger
  BY <1>8 DEF LoopNilChanger, Loop
<1>9. CASE LoopKeepAliveEnds
  BY <1>9 DEF LoopKeepAliveEnds, Loop, AfterKeepAlive
<1>10. CASE LoopKeepAliveDrops
  BY <1>10 DEF LoopKeepAliveDrops, Loop, Fault, AfterKeepAlive
<1>11. CASE LoopRevoke
  BY <1>11 DEF LoopRevoke, Loop, EndLease, Fault, Absent
<1>12. CASE LoopSleep
  BY <1>12 DEF LoopSleep, Loop
<1>13. CASE StopBegin
  BY <1>13 DEF StopBegin, Stop
<1>14. CASE StopCancel
  BY <1>14 DEF StopCancel, Stop
<1>15. CASE StopDelete
  <2>1. key' \in [status : {"absent", "up", "down"}, lease : 0..MaxRegs]
    BY <1>15, AbsentIsEntry DEF StopDelete
  <2>2. mutex' \in [Changers -> Ops \cup {Nobody, Stopper}]
    BY <1>15 DEF StopDelete
  <2>3. faults' \in 0..MaxFaults /\ stopPc' \in {"down"}
    BY <1>15 DEF StopDelete, Stop, Fault
  <2> QED BY <1>15, <2>1, <2>2, <2>3 DEF StopDelete, Stop
<1>16. CASE StopDown
  BY <1>16 DEF StopDown, Stop
<1>17. CASE StopExit
  BY <1>17 DEF StopExit, EndProcess
<1>18. CASE Kill
  BY <1>18 DEF Kill, EndProcess
<1>19. ASSUME NEW o \in Ops, NEW down \in BOOLEAN, MarkRequest(o, down) PROVE TypeOK'
  BY <1>19 DEF MarkRequest
<1>20. ASSUME NEW o \in Ops, MarkSkip(o) PROVE TypeOK'
  BY <1>20 DEF MarkSkip, MarkEnds
<1>21. ASSUME NEW o \in Ops, MarkLock(o) PROVE TypeOK'
  BY <1>21 DEF MarkLock
<1>22. ASSUME NEW o \in Ops, MarkPut(o) PROVE TypeOK'
  BY <1>22 DEF MarkPut, PutKey, PutAnswers, CanPut, Status
<1>23. ASSUME NEW o \in Ops, MarkPutFails(o) PROVE TypeOK'
  <2>1. key' \in [status : {"absent", "up", "down"}, lease : 0..MaxRegs]
    BY <1>23 DEF MarkPutFails, PutKey, Status
  <2>2. unsure' \subseteq Changers
    <3>1. opOn[o] \in Changers /\ unsure \subseteq Changers
      BY <1>23 DEF MarkPutFails, PutAnswers
    <3>2. unsure' = unsure \/ unsure' = unsure \cup {opOn[o]}
      BY <1>23 DEF MarkPutFails
    <3> QED BY <3>1, <3>2
  <2>3. faults' \in 0..MaxFaults
    BY <1>23 DEF MarkPutFails, Fault
  <2> QED BY <1>23, <2>1, <2>2, <2>3 DEF MarkPutFails, PutAnswers
<1>24. ASSUME NEW o \in Ops, MarkReturn(o) PROVE TypeOK'
  BY <1>24 DEF MarkReturn, MarkEnds
<1>25. ASSUME NEW c \in Changers, Expire(c) PROVE TypeOK'
  BY <1>25 DEF Expire, EndLease, KeptAlive, Absent
<1>26. ASSUME NEW c \in Changers, ExpireKept(c) PROVE TypeOK'
  BY <1>26 DEF ExpireKept, EndLease, Fault, KeptAlive, Absent
<1> HIDE DEF IInv, TypeOK, Numbering, Shutdown
<1> QED BY <1>1, <1>2, <1>3, <1>4, <1>5, <1>6, <1>7, <1>8, <1>9, <1>10, <1>11, <1>12,
      <1>13, <1>14, <1>15, <1>16, <1>17, <1>18, <1>19, <1>20, <1>21, <1>22, <1>23, <1>24,
            <1>25, <1>26 DEF Next, LoopStep, MarkStep, StopStep

\* A new lease gets the next number, and is stored before anybody uses its changer.
LEMMA NumberingInductive == ASSUME IInv, Next PROVE Numbering'
<1> USE RegistrationAssumption DEF IInv, TypeOK, Numbering, Changers
<1> USE DEF loopVars, etcdVars, changerVars, opVars, stopVars
<1>1. CASE LoopCheck
  BY <1>1 DEF LoopCheck, Loop
<1>2. CASE LoopRead
  BY <1>2 DEF LoopRead, Loop
<1>3. CASE LoopGrant
  BY <1>3 DEF LoopGrant, Loop
<1>4. CASE LoopGrantFails
  BY <1>4 DEF LoopGrantFails, Loop, Fault
<1>5. CASE LoopPut
  BY <1>5 DEF LoopPut, Loop, PutKey, Status
<1>6. CASE LoopPutFails
  BY <1>6 DEF LoopPutFails, Loop, PutKey, Fault, Status
<1>7. CASE LoopStore
  BY <1>7 DEF LoopStore, Loop
<1>8. CASE LoopNilChanger
  BY <1>8 DEF LoopNilChanger, Loop
<1>9. CASE LoopKeepAliveEnds
  BY <1>9 DEF LoopKeepAliveEnds, Loop, AfterKeepAlive
<1>10. CASE LoopKeepAliveDrops
  BY <1>10 DEF LoopKeepAliveDrops, Loop, Fault, AfterKeepAlive
<1>11. CASE LoopRevoke
  BY <1>11 DEF LoopRevoke, Loop, EndLease, Fault, Absent
<1>12. CASE LoopSleep
  BY <1>12 DEF LoopSleep, Loop
<1>13. CASE StopBegin
  BY <1>13 DEF StopBegin, Stop
<1>14. ASSUME NEW o \in Ops, NEW down \in BOOLEAN, MarkRequest(o, down) PROVE Numbering'
  BY <1>14 DEF MarkRequest
<1>15. ASSUME NEW o \in Ops, MarkSkip(o) PROVE Numbering'
  BY <1>15 DEF MarkSkip, MarkEnds
<1>16. ASSUME NEW o \in Ops, MarkLock(o) PROVE Numbering'
  BY <1>16 DEF MarkLock
<1>17. ASSUME NEW o \in Ops, MarkPut(o) PROVE Numbering'
  BY <1>17 DEF MarkPut, PutKey, PutAnswers, CanPut, Status
<1>18. ASSUME NEW o \in Ops, MarkPutFails(o) PROVE Numbering'
  BY <1>18 DEF MarkPutFails, PutKey, Fault, PutAnswers, CanPut, Status
<1>19. ASSUME NEW o \in Ops, MarkReturn(o) PROVE Numbering'
  BY <1>19 DEF MarkReturn, MarkEnds
<1>20. ASSUME NEW c \in Changers, Expire(c) PROVE Numbering'
  BY <1>20 DEF Expire, EndLease, KeptAlive, Absent
<1>21. ASSUME NEW c \in Changers, ExpireKept(c) PROVE Numbering'
  BY <1>21 DEF ExpireKept, EndLease, Fault, KeptAlive, Absent
<1>22. CASE StopCancel \/ StopDelete \/ StopDown \/ StopExit \/ Kill
  BY <1>22 DEF StopCancel, Stop, StopDelete, Fault, Absent, StopDown, StopExit, EndProcess,
        Kill
<1> HIDE DEF IInv, TypeOK, Numbering
<1> QED BY <1>1, <1>2, <1>3, <1>4, <1>5, <1>6, <1>7, <1>8, <1>9, <1>10, <1>11, <1>12,
      <1>13, <1>14, <1>15, <1>16, <1>17, <1>18, <1>19, <1>20, <1>21, <1>22 DEF Next,
            LoopStep, MarkStep, StopStep

\* The mutex is taken only when free, and released only by its holder.
LEMMA MutexHeldInductive == ASSUME IInv, Next PROVE MutexHeld'
<1> USE RegistrationAssumption DEF IInv, TypeOK, Numbering, MutexHeld, Changers, Writing
<1> USE DEF loopVars, etcdVars, changerVars, opVars, stopVars
<1>1. CASE StopBegin
  BY <1>1 DEF StopBegin, Stop
<1>2. CASE StopCancel
  BY <1>2 DEF StopCancel, Stop
<1>3. CASE StopDelete
  BY <1>3 DEF StopDelete, Stop, Fault, Absent
<1>4. CASE StopDown
  BY <1>4 DEF StopDown, Stop
<1>5. ASSUME NEW o \in Ops, NEW down \in BOOLEAN, MarkRequest(o, down) PROVE MutexHeld'
  <2>1. ~Writing(o) /\ ~Writing(o)'
    BY <1>5 DEF MarkRequest
  <2>2. \A p \in Ops \ {o} : opOn'[p] = opOn[p] /\ opPc'[p] = opPc[p]
    BY <1>5 DEF MarkRequest
  <2>3. UNCHANGED <<mutex, stopPc, stopOn>>
    BY <1>5 DEF MarkRequest
  <2> QED BY <2>1, <2>2, <2>3
<1>6. ASSUME NEW o \in Ops, MarkSkip(o) PROVE MutexHeld'
  BY <1>6 DEF MarkSkip, MarkEnds
<1>7. ASSUME NEW o \in Ops, MarkLock(o) PROVE MutexHeld'
  BY <1>7 DEF MarkLock
<1>8. ASSUME NEW o \in Ops, MarkPut(o) PROVE MutexHeld'
  BY <1>8 DEF MarkPut, PutKey, PutAnswers, CanPut, Status
<1>9. ASSUME NEW o \in Ops, MarkPutFails(o) PROVE MutexHeld'
  BY <1>9 DEF MarkPutFails, PutKey, Fault, PutAnswers, CanPut, Status
<1>10. ASSUME NEW o \in Ops, MarkReturn(o) PROVE MutexHeld'
  BY <1>10 DEF MarkReturn, MarkEnds
<1>11. CASE LoopCheck \/ LoopRead \/ LoopGrant \/ LoopGrantFails \/ LoopPut \/ LoopPutFails
      \/ LoopStore \/ LoopNilChanger \/ LoopKeepAliveEnds \/ LoopKeepAliveDrops \/
      LoopRevoke \/ LoopSleep \/ StopExit \/ Kill
  BY <1>11 DEF LoopCheck, Loop, LoopRead, LoopGrant, LoopGrantFails, Fault, LoopPut,
        PutKey, Status, LoopPutFails, LoopStore, LoopNilChanger, LoopKeepAliveEnds,
        AfterKeepAlive, LoopKeepAliveDrops, LoopRevoke, EndLease, Absent, LoopSleep,
        StopExit, EndProcess, Kill
<1>12. ASSUME NEW c \in Changers, Expire(c) PROVE MutexHeld'
  BY <1>12 DEF Expire, EndLease, KeptAlive, Absent
<1>13. ASSUME NEW c \in Changers, ExpireKept(c) PROVE MutexHeld'
  BY <1>13 DEF ExpireKept, EndLease, Fault, KeptAlive, Absent
<1> HIDE DEF IInv, TypeOK, Numbering, MutexHeld
<1> QED BY <1>1, <1>2, <1>3, <1>4, <1>5, <1>6, <1>7, <1>8, <1>9, <1>10, <1>11, <1>12, <1>13
      DEF Next, LoopStep, MarkStep, StopStep

\* A deregistered changer stays canceled.
LEMMA ShutdownInductive == ASSUME IInv, Next PROVE Shutdown'
<1> USE RegistrationAssumption DEF IInv, TypeOK, Shutdown, Changers
<1> USE DEF loopVars, etcdVars, changerVars, opVars, stopVars
<1>1. CASE StopBegin
  BY <1>1 DEF StopBegin, Stop
<1>2. CASE StopCancel
  BY <1>2 DEF StopCancel, Stop
<1>3. CASE StopDelete
  BY <1>3 DEF StopDelete, Stop, Fault, Absent
<1>4. CASE StopDown
  BY <1>4 DEF StopDown, Stop
<1>5. CASE LoopCheck \/ LoopRead \/ LoopGrant \/ LoopGrantFails \/ LoopPut \/ LoopPutFails
      \/ LoopStore \/ LoopNilChanger \/ LoopKeepAliveEnds \/ LoopKeepAliveDrops \/
      LoopRevoke \/ LoopSleep \/ StopExit \/ Kill
  BY <1>5 DEF LoopCheck, Loop, LoopRead, LoopGrant, LoopGrantFails, Fault, LoopPut, PutKey,
        Status, LoopPutFails, LoopStore, LoopNilChanger, LoopKeepAliveEnds, AfterKeepAlive,
        LoopKeepAliveDrops, LoopRevoke, EndLease, Absent, LoopSleep, StopExit, EndProcess,
        Kill
<1>6. ASSUME NEW o \in Ops, NEW down \in BOOLEAN, MarkRequest(o, down) PROVE Shutdown'
  BY <1>6 DEF MarkRequest
<1>7. ASSUME NEW o \in Ops, MarkSkip(o) PROVE Shutdown'
  BY <1>7 DEF MarkSkip, MarkEnds
<1>8. ASSUME NEW o \in Ops, MarkLock(o) PROVE Shutdown'
  BY <1>8 DEF MarkLock
<1>9. ASSUME NEW o \in Ops, MarkPut(o) PROVE Shutdown'
  BY <1>9 DEF MarkPut, PutKey, PutAnswers, CanPut, Status
<1>10. ASSUME NEW o \in Ops, MarkPutFails(o) PROVE Shutdown'
  BY <1>10 DEF MarkPutFails, PutKey, Fault, PutAnswers, CanPut, Status
<1>11. ASSUME NEW o \in Ops, MarkReturn(o) PROVE Shutdown'
  BY <1>11 DEF MarkReturn, MarkEnds
<1>12. ASSUME NEW c \in Changers, Expire(c) PROVE Shutdown'
  BY <1>12 DEF Expire, EndLease, KeptAlive, Absent
<1>13. ASSUME NEW c \in Changers, ExpireKept(c) PROVE Shutdown'
  BY <1>13 DEF ExpireKept, EndLease, Fault, KeptAlive, Absent
<1> HIDE DEF IInv, TypeOK, Shutdown
<1> QED BY <1>1, <1>2, <1>3, <1>4, <1>5, <1>6, <1>7, <1>8, <1>9, <1>10, <1>11, <1>12, <1>13
      DEF Next, LoopStep, MarkStep, StopStep

\* Nobody puts under the lease of the deregistered changer: markings are stopped by
\* its ctx, and the loop puts under a lease whose changer is not stored yet.
LEMMA DeregisteredStaysGoneInductive == ASSUME IInv, Next PROVE DeregisteredStaysGone'
<1> USE RegistrationAssumption DEF IInv, TypeOK, Numbering, Shutdown,
      DeregisteredStaysGone, Changers
<1> USE DEF loopVars, etcdVars, changerVars, opVars, stopVars
<1>1. CASE LoopPut
  BY <1>1 DEF LoopPut, Loop, PutKey, Status
<1>2. CASE LoopPutFails
  BY <1>2 DEF LoopPutFails, Loop, PutKey, Fault, Status
<1>3. CASE LoopRevoke
  BY <1>3 DEF LoopRevoke, Loop, EndLease, Fault, Absent
<1>4. CASE StopBegin
  BY <1>4 DEF StopBegin, Stop
<1>5. CASE StopDelete
  <2>1. stopOn' = stopOn /\ stopOn \in Changers
    BY <1>5 DEF StopDelete, Stop
  <2>2. CASE key' = Absent
    BY <2>1, <2>2 DEF Absent
  <2>3. CASE UNCHANGED <<key, deleted>>
    BY <2>1, <2>3
  <2> QED BY <1>5, <2>2, <2>3 DEF StopDelete
<1>6. ASSUME NEW o \in Ops, MarkPut(o) PROVE DeregisteredStaysGone'
  BY <1>6 DEF MarkPut, PutKey, PutAnswers, CanPut, Status
<1>7. ASSUME NEW o \in Ops, MarkPutFails(o) PROVE DeregisteredStaysGone'
  BY <1>7 DEF MarkPutFails, PutKey, Fault, PutAnswers, CanPut, Status
<1>8. ASSUME NEW c \in Changers, Expire(c) PROVE DeregisteredStaysGone'
  BY <1>8 DEF Expire, EndLease, KeptAlive, Absent
<1>9. ASSUME NEW c \in Changers, ExpireKept(c) PROVE DeregisteredStaysGone'
  BY <1>9 DEF ExpireKept, EndLease, Fault, KeptAlive, Absent
<1>10. CASE LoopCheck \/ LoopRead \/ LoopGrant \/ LoopGrantFails \/ LoopStore \/
      LoopNilChanger \/ LoopKeepAliveEnds \/ LoopKeepAliveDrops \/ LoopSleep \/ StopCancel
      \/ StopDown \/ StopExit \/ Kill
  BY <1>10 DEF LoopCheck, Loop, LoopRead, LoopGrant, LoopGrantFails, Fault, LoopStore,
        LoopNilChanger, LoopKeepAliveEnds, AfterKeepAlive, LoopKeepAliveDrops, LoopSleep,
        StopCancel, Stop, StopDown, StopExit, EndProcess, Kill
<1>11. ASSUME NEW o \in Ops, NEW down \in BOOLEAN, MarkRequest(o, down) PROVE
      DeregisteredStaysGone'
  BY <1>11 DEF MarkRequest
<1>12. ASSUME NEW o \in Ops, MarkSkip(o) PROVE DeregisteredStaysGone'
  BY <1>12 DEF MarkSkip, MarkEnds
<1>13. ASSUME NEW o \in Ops, MarkLock(o) PROVE DeregisteredStaysGone'
  BY <1>13 DEF MarkLock
<1>14. ASSUME NEW o \in Ops, MarkReturn(o) PROVE DeregisteredStaysGone'
  BY <1>14 DEF MarkReturn, MarkEnds
<1> HIDE DEF IInv, TypeOK, Numbering, Shutdown, DeregisteredStaysGone
<1> QED BY <1>1, <1>2, <1>3, <1>4, <1>5, <1>6, <1>7, <1>8, <1>9, <1>10, <1>11, <1>12,
      <1>13, <1>14 DEF Next, LoopStep, MarkStep, StopStep

\* The status changes with isDown of the changer on the key's lease, or the
\* marking that holds that changer's mutex has just written it.
LEMMA KeyStatusInductive == ASSUME IInv, Next PROVE KeyStatus'
<1> USE RegistrationAssumption DEF IInv, TypeOK, Numbering, MutexHeld, KeyStatus, Changers,
      Written, Writing
<1> USE DEF loopVars, etcdVars, changerVars, opVars, stopVars
<1>1. CASE LoopGrant
  BY <1>1 DEF LoopGrant, Loop
<1>2. CASE LoopPut
  BY <1>2 DEF LoopPut, Loop, PutKey, Status
<1>3. CASE LoopPutFails
  BY <1>3 DEF LoopPutFails, Loop, PutKey, Fault, Status
<1>4. CASE LoopRevoke
  BY <1>4 DEF LoopRevoke, Loop, EndLease, Fault, Absent
<1>5. CASE StopDelete
  BY <1>5 DEF StopDelete, Stop, Fault, Absent
<1>6. ASSUME NEW o \in Ops, NEW down \in BOOLEAN, MarkRequest(o, down) PROVE KeyStatus'
  BY <1>6 DEF MarkRequest
<1>7. ASSUME NEW o \in Ops, MarkSkip(o) PROVE KeyStatus'
  <2>1. UNCHANGED <<key, lease, isDown, unsure>>
    BY <1>7 DEF MarkSkip
  <2>2. ~Written(o) /\ ~Written(o)'
    BY <1>7 DEF MarkSkip, MarkEnds
  <2>3. \A p \in Ops \ {o} : (Written(p)' <=> Written(p)) /\ opDown'[p] = opDown[p]
    BY <1>7 DEF MarkSkip, MarkEnds
  <2> HIDE DEF TypeOK, Numbering, MutexHeld, Writing
  <2> QED BY <2>1, <2>2, <2>3
<1>8. ASSUME NEW o \in Ops, MarkLock(o) PROVE KeyStatus'
  BY <1>8 DEF MarkLock
<1>9. ASSUME NEW o \in Ops, MarkPut(o) PROVE KeyStatus'
  BY <1>9 DEF MarkPut, PutKey, PutAnswers, CanPut, Status
<1>10. ASSUME NEW o \in Ops, MarkPutFails(o) PROVE KeyStatus'
  BY <1>10 DEF MarkPutFails, PutKey, Fault, PutAnswers, CanPut, Status
<1>11. ASSUME NEW o \in Ops, MarkReturn(o) PROVE KeyStatus'
  <2>1. UNCHANGED <<key, lease, unsure>>
    BY <1>11 DEF MarkReturn
  <2>2. ~Written(o)'
    BY <1>11 DEF MarkReturn, MarkEnds
  <2>3. \A p \in Ops \ {o} : (Written(p)' <=> Written(p)) /\ opDown'[p] = opDown[p]
    BY <1>11 DEF MarkReturn, MarkEnds
  <2>4. CASE Written(o)
    <3>1. \A p \in Ops \ {o} : ~Written(p)
      BY <2>4
    <3>2. isDown'[opOn[o]] = opDown[o]
      BY <1>11, <2>4 DEF MarkReturn
    <3> QED BY <2>1, <2>2, <2>3, <2>4, <3>1, <3>2
  <2>5. CASE ~Written(o)
    <3>1. key.status # "absent" => isDown'[key.lease] = isDown[key.lease]
      BY <1>11, <2>5 DEF MarkReturn
    <3> HIDE DEF TypeOK, Numbering, MutexHeld, Writing
    <3> QED BY <2>1, <2>2, <2>3, <2>5, <3>1
  <2> QED BY <2>4, <2>5
<1>12. ASSUME NEW c \in Changers, Expire(c) PROVE KeyStatus'
  BY <1>12 DEF Expire, EndLease, KeptAlive, Absent
<1>13. ASSUME NEW c \in Changers, ExpireKept(c) PROVE KeyStatus'
  BY <1>13 DEF ExpireKept, EndLease, Fault, KeptAlive, Absent
<1>14. CASE LoopCheck \/ LoopRead \/ LoopGrantFails \/ LoopStore \/ LoopNilChanger \/
      LoopKeepAliveEnds \/ LoopKeepAliveDrops \/ LoopSleep \/ StopBegin \/ StopCancel \/
      StopDown \/ StopExit \/ Kill
  BY <1>14 DEF LoopCheck, Loop, LoopRead, LoopGrantFails, Fault, LoopStore, LoopNilChanger,
        LoopKeepAliveEnds, AfterKeepAlive, LoopKeepAliveDrops, LoopSleep, StopBegin, Stop,
        StopCancel, StopDown, StopExit, EndProcess, Kill
<1> HIDE DEF IInv, TypeOK, Numbering, MutexHeld, KeyStatus
<1> QED BY <1>1, <1>2, <1>3, <1>4, <1>5, <1>6, <1>7, <1>8, <1>9, <1>10, <1>11, <1>12,
      <1>13, <1>14 DEF Next, LoopStep, MarkStep, StopStep

LEMMA StutterInductive == ASSUME IInv, UNCHANGED vars PROVE IInv'
  BY DEF IInv, TypeOK, Numbering, MutexHeld, Writing, Shutdown, DeregisteredStaysGone,
         KeyStatus, Written, vars, loopVars, etcdVars, changerVars, opVars, stopVars, Changers

LEMMA InitIInv == Init => IInv
<1> SUFFICES ASSUME Init PROVE IInv
  OBVIOUS
<1> USE RegistrationAssumption DEF Init, Changers
<1>1. TypeOK
  <2>1. MaxRegs \in Nat /\ MaxFaults \in Nat
    OBVIOUS
  <2>2. key \in [status : {"absent", "up", "down"}, lease : 0..MaxRegs]
    BY AbsentIsEntry
  <2>3. /\ lease \in [Changers -> {"none", "live", "dead"}]
        /\ isDown \in [Changers -> BOOLEAN]
        /\ mutex \in [Changers -> Ops \cup {Nobody, Stopper}]
    OBVIOUS
  <2>4. /\ opPc \in [Ops -> {"idle", "called", "put", "ok", "error"}]
        /\ opOn \in [Ops -> 0..MaxRegs]
        /\ opDown \in [Ops -> BOOLEAN]
        /\ \A o \in Ops : opPc[o] = "idle"
    BY <2>1
  <2>5. /\ {regi, granted, stopOn} \subseteq 0..MaxRegs
        /\ faults \in 0..MaxFaults
        /\ canceled \subseteq Changers /\ unsure \subseteq Changers
    BY <2>1
  <2>6. /\ proc = "alive" /\ loopPc = "check" /\ stopPc = "running"
        /\ up = TRUE /\ loopDown = FALSE /\ deleted = FALSE
    OBVIOUS
  <2> HIDE DEF Init
  <2> QED BY <2>2, <2>3, <2>4, <2>5, <2>6 DEF TypeOK
<1>2. Numbering /\ Shutdown
  BY DEF Numbering, Shutdown
<1>3. MutexHeld
  BY DEF MutexHeld, Writing
<1>4. DeregisteredStaysGone /\ KeyStatus
  BY DEF DeregisteredStaysGone, KeyStatus, Absent
<1> QED BY <1>1, <1>2, <1>3, <1>4 DEF IInv

\* The inductive invariant holds in every reachable state.
THEOREM Invariant == Spec => []IInv
<1>1. IInv /\ [Next]_vars => IInv'
  <2> SUFFICES ASSUME IInv, [Next]_vars PROVE IInv'
    OBVIOUS
  <2>1. CASE Next
    BY <2>1, TypeOKInductive, NumberingInductive, MutexHeldInductive, ShutdownInductive,
       DeregisteredStaysGoneInductive, KeyStatusInductive DEF IInv
  <2>2. CASE UNCHANGED vars
    BY <2>2, StutterInductive
  <2> QED BY <2>1, <2>2
<1> QED BY InitIInv, <1>1, PTL DEF Spec

\* Every variable keeps its type.
THEOREM TypeCorrect == Spec => []TypeOK
<1>1. IInv => TypeOK
  BY DEF IInv
<1> QED BY Invariant, <1>1, PTL

\* Markings and Deregister exclude each other on one changer (sync.Mutex of
\* statusChangerImpl).
THEOREM MutexCorrect == Spec => []MutexHeld
<1>1. IInv => MutexHeld
  BY DEF IInv
<1> QED BY Invariant, <1>1, PTL

\* The entry in etcd is bound to a live lease and shows what the changer of that
\* lease reports, whatever overlaps: markings, re-registrations, lease ends,
\* shutdown, failed calls.
THEOREM StatusCorrect == Spec => []StatusMatchesKey
<1>1. IInv => StatusMatchesKey
  <2> SUFFICES ASSUME IInv, key.status # "absent" PROVE
        /\ key.lease \in Changers
        /\ lease[key.lease] = "live"
        /\ mutex[key.lease] \notin Ops /\ key.lease \notin unsure
              => key.status = Status(isDown[key.lease])
    BY DEF StatusMatchesKey
  <2>1. key.lease \in Changers /\ lease[key.lease] = "live"
    BY DEF IInv, KeyStatus
  <2>2. ASSUME mutex[key.lease] \notin Ops PROVE \A o \in Ops : ~Written(o)
    BY <2>1, <2>2 DEF IInv, MutexHeld, Writing, Written
  <2> QED BY <2>1, <2>2 DEF IInv, KeyStatus
<1> QED BY Invariant, <1>1, PTL

\* A deregistered changer never publishes again.
THEOREM DeregisterCorrect == Spec => []DeregisteredStaysGone
<1>1. IInv => DeregisteredStaysGone
  BY DEF IInv
<1> QED BY Invariant, <1>1, PTL

\* What a step of the protocol does to the instance's entry: nothing, withdraw
\* it, publish a status from the living process, or end the process.
EntryStep ==
    \/ key'.status = key.status /\ ((proc' = "alive") = (proc = "alive"))
    \/ key' = Absent /\ proc' = proc
    \/ proc = "alive" /\ proc' = "alive" /\ key'.status \in {"up", "down"}
    \/ proc = "alive" /\ proc' # "alive" /\ key' = key

LEMMA EveryStepIsAnEntryStep == ASSUME Next PROVE EntryStep
<1> USE DEF EntryStep, loopVars, etcdVars, changerVars, opVars, stopVars, EndLease
<1>1. ASSUME LoopStep PROVE EntryStep
  BY <1>1 DEF LoopStep, LoopCheck, LoopRead, LoopGrant, LoopPut, LoopStore, LoopNilChanger,
              LoopKeepAliveEnds, LoopRevoke, LoopSleep, Loop, PutKey, Status
<1>2. CASE LoopGrantFails \/ LoopPutFails \/ LoopKeepAliveDrops
  BY <1>2 DEF LoopGrantFails, LoopPutFails, LoopKeepAliveDrops, Loop, PutKey, Status
<1>3. ASSUME NEW o \in Ops, NEW down \in BOOLEAN, MarkRequest(o, down) PROVE EntryStep
  BY <1>3 DEF MarkRequest
<1>4. ASSUME NEW o \in Ops, MarkStep(o) \/ MarkPutFails(o) PROVE EntryStep
  BY <1>4 DEF MarkStep, MarkSkip, MarkLock, MarkPut, MarkPutFails, MarkReturn, PutAnswers,
              PutKey, Status
<1>5. CASE StopBegin \/ StopStep
  BY <1>5 DEF StopBegin, StopStep, StopCancel, StopDelete, StopDown, StopExit, Stop, EndProcess
<1>6. CASE Kill
  BY <1>6 DEF Kill, EndProcess
<1>7. ASSUME NEW c \in Changers, Expire(c) \/ ExpireKept(c) PROVE EntryStep
  BY <1>7 DEF Expire, ExpireKept
<1> HIDE DEF EntryStep
<1> QED BY <1>1, <1>2, <1>3, <1>4, <1>5, <1>6, <1>7 DEF Next

\* The registration protocol implements the promise of ServiceEntry: a dead
\* process never publishes, and only the living one, etcd's lease end or a
\* Delete changes the entry.  (That a dead entry is withdrawn is liveness.)
THEOREM ImplementsEntrySafety == Spec => Entry!EntrySafety
<1>1. Init => Entry!EntryInit
  BY DEF Init, Absent, Entry!EntryInit
<1>2. [Next]_vars => [Entry!EntryNext]_(Entry!entryVars)
  <2>1. CASE Next
    <3>1. EntryStep
      BY <2>1, EveryStepIsAnEntryStep
    <3> QED BY <3>1 DEF EntryStep, Absent, Entry!EntryNext, Entry!Publish, Entry!Withdraw,
                        Entry!Die, Entry!entryVars
  <2>2. CASE UNCHANGED vars
    BY <2>2 DEF vars, etcdVars, Entry!entryVars
  <2> QED BY <2>1, <2>2
<1> QED BY <1>1, <1>2, PTL DEF Spec, Entry!EntrySafety
===============================================================================
