------------------------ MODULE PipeMgrSession_proofs ------------------------
(***************************************************************************)
(* Proofs about PipeMgrSession, for any number of threads, sessions and    *)
(* devices and for calls that leak their locks as well.                    *)
(***************************************************************************)
EXTENDS PipeMgrSession, TLAPS

\* The call a thread makes is well formed.
LEMMA IssueTyped ==
    ASSUME NEW t \in Threads, TypeOK, CallsTyped,
           CallApi(t) \/ CallDeviceOp(t) \/ CallClientOp(t)
    PROVE  /\ TypeOK' /\ CallsTyped'
           /\ pc[t] = "idle"
           /\ pc'[t] \in {"idle", "check", "enter", "xenter", "wlock"}
           /\ \A u \in Threads \ {t} : pc'[u] = pc[u] /\ call'[u] = call[u]
           /\ UNCHANGED <<objects, locks>>
<1>1. PICK c, l : Issue(t, c, l) /\ c \in Calls
                  /\ l \in {"idle", "check", "enter", "xenter", "wlock"}
  <2>1. CASE CallApi(t)
    <3>1. PICK op \in ApiOps, s \in Sess \ {IntSess}, d \in Devs, p \in Pipes :
             Issue(t, [op |-> op, sess |-> s, dev |-> d, pipe |-> p],
                   IF op \in {"table", "delete"} THEN "check" ELSE "enter")
      BY <2>1 DEF CallApi
    <3>2. [op |-> op, sess |-> s, dev |-> d, pipe |-> p] \in Calls
      BY ConstantsAssumption DEF Calls
    <3> QED  BY <3>1, <3>2
  <2>2. CASE CallDeviceOp(t)
    <3>1. PICK op \in ExclOps \cap DeviceOps, d \in Devs :
             Issue(t, [op |-> op, sess |-> IntSess, dev |-> d, pipe |-> 0],
                   IF ctx THEN "xenter" ELSE "idle")
      BY <2>2 DEF CallDeviceOp
    <3>2. [op |-> op, sess |-> IntSess, dev |-> d, pipe |-> 0] \in Calls
      BY ConstantsAssumption DEF Calls, Sess, IntSess
    <3> QED  BY <3>1, <3>2
  <2>3. CASE CallClientOp(t)
    <3>1. PICK op \in ExclOps \cap ClientOps, s \in Sess \ {IntSess} :
             Issue(t, [op |-> op, sess |-> s], "wlock")
      BY <2>3 DEF CallClientOp
    <3>2. [op |-> op, sess |-> s] \in Calls
      BY DEF Calls
    <3> QED  BY <3>1, <3>2
  <2> QED  BY <2>1, <2>2, <2>3
<1>2. TypeOK'
  BY <1>1, ConstantsAssumption DEF TypeOK, Issue, Labels, objects, locks
<1>3. CallsTyped' /\ pc'[t] = l
  BY <1>1 DEF TypeOK, CallsTyped, Issue
<1> QED  BY <1>1, <1>2, <1>3 DEF TypeOK, Issue

\* Every step inside a call preserves the types.
LEMMA StepTyped ==
    ASSUME NEW t \in Threads, TypeOK, CallsTyped, Step(t)
    PROVE  TypeOK' /\ CallsTyped'
<1> USE DEF TypeOK, CallsTyped, Goto, Labels, objects, locks
<1>1. CASE ApiStep(t)
  <2>0. CASE IsPipeValidContext(t)  BY <2>0 DEF IsPipeValidContext
  <2>1. CASE IsPipeValidLookup(t)  BY <2>1 DEF IsPipeValidLookup
  <2>2. CASE IsPipeValidCompare(t)  BY <2>2 DEF IsPipeValidCompare
  <2>3. CASE ApiEnter(t)  BY <2>3 DEF ApiEnter
  <2>4. CASE ApiEnterMutex(t)  BY <2>4 DEF ApiEnterMutex
  <2>5. CASE ApiPrologue(t)  BY <2>5 DEF ApiPrologue, ApiExitLocks
  <2>6. CASE ApiBody(t)  BY <2>6 DEF ApiBody
  <2>7. CASE ApiBodyNoEpilogue(t)
    <3>1. call[t].sess \in Sess  BY <2>7 DEF ApiBodyNoEpilogue, Calls
    <3> QED  BY <2>7, <3>1 DEF ApiBodyNoEpilogue
  <2>8. CASE ApiEpilogue(t)  BY <2>8 DEF ApiEpilogue, ApiExitLocks
  <2> QED  BY <1>1, <2>0, <2>1, <2>2, <2>3, <2>4, <2>5, <2>6, <2>7, <2>8
         DEF ApiStep
<1>2. CASE DeviceStep(t)
  <2>1. CASE ExclusiveEnter(t)  BY <2>1 DEF ExclusiveEnter
  <2>2. CASE ExclusiveEnterMutex(t)  BY <2>2 DEF ExclusiveEnterMutex
  <2>3. CASE AddDevice(t)
    <3>1. call[t].dev \in Devs  BY <2>3 DEF AddDevice, Calls, ClientOps
    <3> QED  BY <2>3, <3>1, ConstantsAssumption DEF AddDevice
  <2>4. CASE RemoveDevice(t)  BY <2>4 DEF RemoveDevice
  <2>5. CASE EnablePipeline(t)  BY <2>5 DEF EnablePipeline
  <2>6. CASE ExclusiveExit(t)  BY <2>6 DEF ExclusiveExit, ApiExitLocks
  <2> QED  BY <1>2, <2>1, <2>2, <2>3, <2>4, <2>5, <2>6 DEF DeviceStep
<1>3. CASE ClientStep(t)
  <2>1. CASE WriteLock(t)  BY <2>1 DEF WriteLock
  <2>2. CASE SessionCreate(t)  BY <2>2 DEF SessionCreate
  <2>3. CASE SessionDestroy(t)  BY <2>3 DEF SessionDestroy
  <2>4. CASE SharedCleanup(t)  BY <2>4 DEF SharedCleanup
  <2>5. CASE WriteUnlock(t)  BY <2>5 DEF WriteUnlock
  <2>6. CASE LockDestroy(t)  BY <2>6 DEF LockDestroy
  <2> QED  BY <1>3, <2>1, <2>2, <2>3, <2>4, <2>5, <2>6 DEF ClientStep
<1>4. CASE LockFails(t)
  BY <1>4 DEF LockFails
<1> QED  BY <1>1, <1>2, <1>3, <1>4 DEF Step

\* A step inside a call keeps the locks where the program counters say they
\* are.  pipe_mgr_api_epilogue and pipe_mgr_api_exit need InFlightValid here:
\* without it they might return with everything still locked.
LEMMA StepLocksMatch ==
    ASSUME NEW t \in Threads, LockInv, Step(t)
    PROVE  LocksMatchPc'
<1> USE DEF LockInv, TypeOK, CallsTyped, LocksMatchPc, InFlightValid, Goto,
        InApi, InExclusive, HoldsSession, SessionValid, objects, locks
<1>1. CASE ApiStep(t)
  <2>0. CASE IsPipeValidContext(t)
    BY <2>0 DEF IsPipeValidContext
  <2>1. CASE IsPipeValidLookup(t)
    BY <2>1 DEF IsPipeValidLookup
  <2>2. CASE IsPipeValidCompare(t)
    BY <2>2 DEF IsPipeValidCompare
  <2>3. CASE ApiEnter(t)
    BY <2>3 DEF ApiEnter, CanRead, SessionValid
  <2>4. CASE ApiEnterMutex(t)
    BY <2>4 DEF ApiEnterMutex, MutexFree
  <2>5. CASE ApiPrologue(t)
    BY <2>5 DEF ApiPrologue, ApiExitLocks, SessionValid
  <2>6. CASE ApiBody(t)
    BY <2>6 DEF ApiBody
  <2>7. CASE ApiBodyNoEpilogue(t)
    BY <2>7 DEF ApiBodyNoEpilogue
  <2>8. CASE ApiEpilogue(t)
    BY <2>8 DEF ApiEpilogue, ApiExitLocks, SessionValid
  <2> QED  BY <1>1, <2>0, <2>1, <2>2, <2>3, <2>4, <2>5, <2>6, <2>7, <2>8
         DEF ApiStep
<1>2. CASE DeviceStep(t)
  <2>1. CASE ExclusiveEnter(t)
    BY <2>1 DEF ExclusiveEnter, CanWrite, SessionValid
  <2>2. CASE ExclusiveEnterMutex(t)
    BY <2>2 DEF ExclusiveEnterMutex, MutexFree
  <2>3. CASE AddDevice(t)
    BY <2>3 DEF AddDevice
  <2>4. CASE RemoveDevice(t)
    BY <2>4 DEF RemoveDevice
  <2>5. CASE EnablePipeline(t)
    BY <2>5 DEF EnablePipeline
  <2>6. CASE ExclusiveExit(t)
    BY <2>6 DEF ExclusiveExit, ApiExitLocks, SessionValid
  <2> QED  BY <1>2, <2>1, <2>2, <2>3, <2>4, <2>5, <2>6 DEF DeviceStep
<1>3. CASE ClientStep(t)
  <2>1. CASE WriteLock(t)
    BY <2>1 DEF WriteLock, CanWrite
  <2>2. CASE SessionCreate(t)
    BY <2>2 DEF SessionCreate
  <2>3. CASE SessionDestroy(t)
    BY <2>3 DEF SessionDestroy
  <2>4. CASE SharedCleanup(t)
    BY <2>4 DEF SharedCleanup
  <2>5. CASE WriteUnlock(t)
    BY <2>5 DEF WriteUnlock
  <2>6. CASE LockDestroy(t)
    BY <2>6 DEF LockDestroy
  <2> QED  BY <1>3, <2>1, <2>2, <2>3, <2>4, <2>5, <2>6 DEF ClientStep
<1>4. CASE LockFails(t)
  BY <1>4 DEF LockFails
<1> QED  BY <1>1, <1>2, <1>3, <1>4 DEF Step

\* A step inside a call keeps the write lock and the sessions exclusive.
LEMMA StepLocksExclude ==
    ASSUME NEW t \in Threads, LockInv, Step(t)
    PROVE  LocksExclude'
<1> USE DEF LockInv, TypeOK, LocksExclude, objects, locks
<1>1. CASE ApiStep(t)
  <2>0. CASE IsPipeValidContext(t)
    BY <2>0 DEF IsPipeValidContext
  <2>1. CASE IsPipeValidLookup(t)
    BY <2>1 DEF IsPipeValidLookup
  <2>2. CASE IsPipeValidCompare(t)
    BY <2>2 DEF IsPipeValidCompare
  <2>3. CASE ApiEnter(t)
    BY <2>3 DEF ApiEnter, CanRead, SessionValid
  <2>4. CASE ApiEnterMutex(t)
    BY <2>4 DEF ApiEnterMutex, MutexFree
  <2>5. CASE ApiPrologue(t)
    BY <2>5 DEF ApiPrologue, ApiExitLocks, SessionValid
  <2>6. CASE ApiBody(t)
    BY <2>6 DEF ApiBody
  <2>7. CASE ApiBodyNoEpilogue(t)
    BY <2>7 DEF ApiBodyNoEpilogue
  <2>8. CASE ApiEpilogue(t)
    BY <2>8 DEF ApiEpilogue, ApiExitLocks, SessionValid
  <2> QED  BY <1>1, <2>0, <2>1, <2>2, <2>3, <2>4, <2>5, <2>6, <2>7, <2>8
         DEF ApiStep
<1>2. CASE DeviceStep(t)
  <2>1. CASE ExclusiveEnter(t)
    BY <2>1 DEF ExclusiveEnter, CanWrite, SessionValid
  <2>2. CASE ExclusiveEnterMutex(t)
    BY <2>2 DEF ExclusiveEnterMutex, MutexFree
  <2>3. CASE AddDevice(t)
    BY <2>3 DEF AddDevice
  <2>4. CASE RemoveDevice(t)
    BY <2>4 DEF RemoveDevice
  <2>5. CASE EnablePipeline(t)
    BY <2>5 DEF EnablePipeline
  <2>6. CASE ExclusiveExit(t)
    BY <2>6 DEF ExclusiveExit, ApiExitLocks, SessionValid
  <2> QED  BY <1>2, <2>1, <2>2, <2>3, <2>4, <2>5, <2>6 DEF DeviceStep
<1>3. CASE ClientStep(t)
  <2>1. CASE WriteLock(t)
    BY <2>1 DEF WriteLock, CanWrite
  <2>2. CASE SessionCreate(t)
    BY <2>2 DEF SessionCreate
  <2>3. CASE SessionDestroy(t)
    BY <2>3 DEF SessionDestroy
  <2>4. CASE SharedCleanup(t)
    BY <2>4 DEF SharedCleanup
  <2>5. CASE WriteUnlock(t)
    BY <2>5 DEF WriteUnlock
  <2>6. CASE LockDestroy(t)
    BY <2>6 DEF LockDestroy
  <2> QED  BY <1>3, <2>1, <2>2, <2>3, <2>4, <2>5, <2>6 DEF ClientStep
<1>4. CASE LockFails(t)
  BY <1>4 DEF LockFails
<1> QED  BY <1>1, <1>2, <1>3, <1>4 DEF Step

\* A step inside a call invalidates nothing another call relies on: sessions,
\* devices and the context only go while the write lock is held.
LEMMA StepInFlight ==
    ASSUME NEW t \in Threads, LockInv, Step(t)
    PROVE  InFlightValid'
<1> USE DEF LockInv, TypeOK, CallsTyped, LocksMatchPc, LocksExclude,
        InFlightValid, Goto, InApi, InExclusive, SessionValid, objects, locks
<1>1. CASE ApiStep(t)
  <2>0. CASE IsPipeValidContext(t)
    BY <2>0 DEF IsPipeValidContext
  <2>1. CASE IsPipeValidLookup(t)
    BY <2>1 DEF IsPipeValidLookup
  <2>2. CASE IsPipeValidCompare(t)
    BY <2>2 DEF IsPipeValidCompare
  <2>3. CASE ApiEnter(t)
    BY <2>3 DEF ApiEnter, CanRead, SessionValid
  <2>4. CASE ApiEnterMutex(t)
    BY <2>4 DEF ApiEnterMutex, MutexFree
  <2>5. CASE ApiPrologue(t)
    BY <2>5 DEF ApiPrologue, ApiExitLocks, SessionValid
  <2>6. CASE ApiBody(t)
    BY <2>6 DEF ApiBody
  <2>7. CASE ApiBodyNoEpilogue(t)
    BY <2>7 DEF ApiBodyNoEpilogue
  <2>8. CASE ApiEpilogue(t)
    BY <2>8 DEF ApiEpilogue, ApiExitLocks, SessionValid
  <2> QED  BY <1>1, <2>0, <2>1, <2>2, <2>3, <2>4, <2>5, <2>6, <2>7, <2>8
         DEF ApiStep
<1>2. CASE DeviceStep(t)
  <2>1. CASE ExclusiveEnter(t)
    BY <2>1 DEF ExclusiveEnter, CanWrite, SessionValid
  <2>2. CASE ExclusiveEnterMutex(t)
    BY <2>2 DEF ExclusiveEnterMutex, MutexFree
  <2>3. CASE AddDevice(t)
    BY <2>3 DEF AddDevice
  <2>4. CASE RemoveDevice(t)
    BY <2>4 DEF RemoveDevice
  <2>5. CASE EnablePipeline(t)
    BY <2>5 DEF EnablePipeline
  <2>6. CASE ExclusiveExit(t)
    BY <2>6 DEF ExclusiveExit, ApiExitLocks, SessionValid
  <2> QED  BY <1>2, <2>1, <2>2, <2>3, <2>4, <2>5, <2>6 DEF DeviceStep
<1>3. CASE ClientStep(t)
  <2>1. CASE WriteLock(t)
    BY <2>1 DEF WriteLock, CanWrite
  <2>2. CASE SessionCreate(t)
    BY <2>2 DEF SessionCreate
  <2>3. CASE SessionDestroy(t)
    BY <2>3 DEF SessionDestroy
  <2>4. CASE SharedCleanup(t)
    BY <2>4 DEF SharedCleanup
  <2>5. CASE WriteUnlock(t)
    BY <2>5 DEF WriteUnlock
  <2>6. CASE LockDestroy(t)
    BY <2>6 DEF LockDestroy
  <2> QED  BY <1>3, <2>1, <2>2, <2>3, <2>4, <2>5, <2>6 DEF ClientStep
<1>4. CASE LockFails(t)
  BY <1>4 DEF LockFails
<1> QED  BY <1>1, <1>2, <1>3, <1>4 DEF Step

\* The context never comes back, and pipe_mgr_lock goes after it.
LEMMA StepShutdownFinal ==
    ASSUME NEW t \in Threads, LockInv, Step(t)
    PROVE  ShutdownFinal'
<1> USE DEF LockInv, TypeOK, ShutdownFinal, Goto, objects
<1>1. CASE ApiStep(t)
  BY <1>1 DEF ApiStep, IsPipeValidContext, IsPipeValidLookup, IsPipeValidCompare,
     ApiEnter, ApiEnterMutex, ApiPrologue, ApiBody, ApiBodyNoEpilogue, ApiEpilogue
<1>2. CASE DeviceStep(t)
  BY <1>2 DEF DeviceStep, ExclusiveEnter, ExclusiveEnterMutex,
     AddDevice, RemoveDevice, EnablePipeline, ExclusiveExit
<1>3. CASE ClientStep(t)
  BY <1>3 DEF ClientStep, WriteLock, SessionCreate, SessionDestroy,
     SharedCleanup, WriteUnlock, LockDestroy
<1>4. CASE LockFails(t)
  BY <1>4 DEF LockFails
<1> QED  BY <1>1, <1>2, <1>3, <1>4 DEF Step

-----------------------------------------------------------------------------
\* LockInv holds initially.
LEMMA InitLockInv == Init => LockInv
<1> SUFFICES ASSUME Init PROVE LockInv  OBVIOUS
<1>1. TypeOK
  BY ConstantsAssumption DEF Init, TypeOK, Sess, IntSess, Labels
<1>2. CallsTyped /\ LocksExclude /\ InFlightValid /\ ShutdownFinal
  BY DEF Init, CallsTyped, LocksExclude, InFlightValid, InApi, ShutdownFinal
<1>3. LocksMatchPc
  BY DEF Init, LocksMatchPc, InApi, InExclusive, HoldsSession
<1> QED  BY <1>1, <1>2, <1>3 DEF LockInv

\* LockInv is inductive.
LEMMA NextLockInv == LockInv /\ [Next]_vars => LockInv'
<1> SUFFICES ASSUME LockInv, [Next]_vars PROVE LockInv'  OBVIOUS
<1>1. CASE UNCHANGED vars
  BY <1>1 DEF vars, LockInv, TypeOK, CallsTyped, LocksMatchPc, LocksExclude,
     InFlightValid, InApi, InExclusive, HoldsSession, SessionValid, ShutdownFinal
<1>2. ASSUME NEW t \in Threads, Step(t) PROVE LockInv'
  BY <1>2, StepTyped, StepLocksMatch, StepLocksExclude, StepInFlight,
     StepShutdownFinal DEF LockInv
<1>3. ASSUME NEW t \in Threads,
             CallApi(t) \/ CallDeviceOp(t) \/ CallClientOp(t)
      PROVE  LockInv'
  <2>1. /\ TypeOK' /\ CallsTyped'
        /\ pc[t] = "idle"
        /\ pc'[t] \in {"idle", "check", "enter", "xenter", "wlock"}
        /\ \A u \in Threads \ {t} : pc'[u] = pc[u] /\ call'[u] = call[u]
        /\ UNCHANGED <<objects, locks>>
    BY <1>3, IssueTyped DEF LockInv
  <2>2. LocksMatchPc'
    BY <2>1 DEF LockInv, LocksMatchPc, InApi, InExclusive, HoldsSession, locks
  <2>3. LocksExclude'
    BY <2>1 DEF LockInv, LocksExclude, locks
  <2>4. InFlightValid'
    BY <2>1 DEF LockInv, InFlightValid, InApi, SessionValid, objects
  <2>5. ShutdownFinal'
    BY <2>1 DEF LockInv, ShutdownFinal, objects
  <2> QED  BY <2>1, <2>2, <2>3, <2>4, <2>5 DEF LockInv
<1> QED  BY <1>1, <1>2, <1>3 DEF Next

\* LockInv is an invariant of every behaviour.
THEOREM LockInvariant == Spec => []LockInv
<1> QED  BY InitLockInv, NextLockInv, PTL DEF Spec

\* Type correctness of the locks, the guarded objects and the calls.
THEOREM TypeCorrect == Spec => []TypeOK
<1>1. LockInv => TypeOK  BY DEF LockInv
<1> QED  BY <1>1, LockInvariant, PTL

\* While the write lock of pipe_mgr is held no other API runs.
THEOREM ExclusiveAccessHolds == Spec => []ExclusiveAccess
<1>1. LockInv => ExclusiveAccess
  BY DEF LockInv, TypeOK, LocksMatchPc, LocksExclude, ExclusiveAccess
<1> QED  BY <1>1, LockInvariant, PTL

\* Two calls that have entered never share a session.
THEOREM SessionSerializedHolds == Spec => []SessionSerialized
<1>1. LockInv => SessionSerialized
  <2> SUFFICES ASSUME LockInv, NEW t \in Threads, NEW u \in Threads, t # u,
                      HoldsSession(t), HoldsSession(u),
                      call[t].sess = call[u].sess
               PROVE  FALSE
    BY DEF SessionSerialized
  <2>1. call[t].sess \in Sess
    BY DEF LockInv, CallsTyped, HoldsSession, Calls
  <2> QED  BY <2>1 DEF LockInv, LocksMatchPc, LocksExclude
<1> QED  BY <1>1, LockInvariant, PTL

\* The early returns of the epilogue that leave locks held are dead code.
THEOREM InFlightValidHolds == Spec => []InFlightValid
<1>1. LockInv => InFlightValid  BY DEF LockInv
<1> QED  BY <1>1, LockInvariant, PTL

\* Once the shutdown has released pipe_mgr_lock, nobody works behind it, which
\* is why its destruction under waiting calls endangers no object.
THEOREM NothingBehindDestroyedLockHolds == Spec => []NothingBehindDestroyedLock
<1>1. LockInv => NothingBehindDestroyedLock
  BY DEF LockInv, InFlightValid, SessionValid, ShutdownFinal,
     NothingBehindDestroyedLock
<1> QED  BY <1>1, LockInvariant, PTL

\* Sessions and devices only disappear when no P4 entity API is inside.
THEOREM ObjectsChangeWhenQuietHolds == Spec => ObjectsChangeWhenQuiet
<1> DEFINE Kept == inUse \subseteq inUse' /\ devMap \subseteq devMap'
           Quiet == \A u \in Threads : ~InApi(u)
<1>1. ASSUME LockInv, NEW t \in Threads, Step(t) PROVE ~Kept => Quiet
  <2>1. CASE ~InExclusive(t)
    <3>1. CASE ApiStep(t)
      BY <2>1, <3>1 DEF ApiStep, IsPipeValidContext, IsPipeValidLookup,
         IsPipeValidCompare, ApiEnter, ApiEnterMutex, ApiPrologue, ApiBody, ApiBodyNoEpilogue, ApiEpilogue, objects
    <3>2. CASE DeviceStep(t)
      BY <2>1, <3>2 DEF DeviceStep, InExclusive, ExclusiveEnter, ExclusiveEnterMutex,
         AddDevice, RemoveDevice, EnablePipeline, ExclusiveExit, objects
    <3>3. CASE ClientStep(t)
      BY <2>1, <3>3 DEF ClientStep, InExclusive, WriteLock, SessionCreate,
         SessionDestroy, SharedCleanup, WriteUnlock, LockDestroy, objects
    <3>4. CASE LockFails(t)
      BY <3>4 DEF LockFails, objects
    <3> QED  BY <1>1, <3>1, <3>2, <3>3, <3>4 DEF Step
  <2>2. CASE InExclusive(t)
    BY <1>1, <2>2 DEF LockInv, LocksMatchPc, LocksExclude
  <2> QED  BY <2>1, <2>2
<1>2. ASSUME NEW t \in Threads,
             CallApi(t) \/ CallDeviceOp(t) \/ CallClientOp(t)
      PROVE  Kept
  BY <1>2 DEF CallApi, CallDeviceOp, CallClientOp, Issue, objects
<1>3. LockInv /\ [Next]_vars => [~Kept => Quiet]_vars
  BY <1>1, <1>2 DEF Next
<1> QED  BY <1>3, LockInvariant, PTL DEF Spec, ObjectsChangeWhenQuiet
=============================================================================
