--------------------------- MODULE PipeMgrSession ---------------------------
(***************************************************************************)
(* The locking discipline of pipe_mgr: the global read/write lock          *)
(* pipe_mgr_lock, one mutex per session, one read/write lock per pipeline  *)
(* profile, and the two shared objects they guard, the session table and   *)
(* the device map.                                                         *)
(*                                                                         *)
(* Every thread makes calls.  A call is one of                             *)
(*   - a P4 entity API, bracketed by pipe_mgr_api_prologue / _epilogue:    *)
(*       "table"  MAT, ADT, selector and value lookup APIs, which check    *)
(*                the pipe id first (pipe_mgr_is_pipe_valid, no lock held);*)
(*       "delete" pipe_mgr_mat_ent_del_by_match_spec, which also returns   *)
(*                without the epilogue when an allocation fails;           *)
(*       "stat"   the counter APIs, without the pipe id check;             *)
(*       "stful"  the register APIs, without the pipe id check, which      *)
(*                return without the epilogue when the access fails;       *)
(*   - a device operation under the write lock and the internal session;   *)
(*   - creation or destruction of a session under the write lock;          *)
(*   - the shutdown pipe_mgr_shared_cleanup.                               *)
(* One action is one critical step between two points where another thread *)
(* can run.                                                                *)
(***************************************************************************)
EXTENDS Naturals, FiniteSets

CONSTANTS
    Threads,        \* callers of the PipeMgr API
    MaxSessions,    \* P4_SDE_MAX_SESSIONS
    Devs,           \* device ids
    ProfileCounts,  \* numbers of pipeline profiles a device may be added with
    Pipes,          \* dev_pipe_id values the callers use
    ApiOps,         \* the P4 entity APIs the threads call
    ExclOps,        \* the device and session operations the threads call
    MaxCalls        \* bound: calls made by one thread

AllApiOps == {"table", "delete", "stat", "stful"}
DeviceOps == {"add_device", "remove_device", "enable_pipeline"}
ClientOps == {"client_init", "client_cleanup", "shared_cleanup"}

ASSUME ConstantsAssumption ==
    /\ MaxSessions \in Nat \ {0}
    /\ ProfileCounts \subseteq Nat
    /\ Pipes \subseteq Nat /\ 0 \in Pipes
    /\ ApiOps \subseteq AllApiOps
    /\ ExclOps \subseteq DeviceOps \cup ClientOps
    /\ MaxCalls \in Nat

Sess == 0 .. MaxSessions - 1
IntSess == 0    \* pipe_mgr_int_sess_hndl: the first session ever created

VARIABLES
    ctx,      \* pipe_mgr_ctx_obj is not NULL
    lockInit, \* pipe_mgr_lock is initialised
    inUse,    \* the sessions with in_use set
    devMap,   \* the devices present in ctx->dev_map
    numProf,  \* num_pipeline_profiles of each device
    rd,       \* threads whose current call holds pipe_mgr_lock for reading
    wr,       \* threads whose current call holds pipe_mgr_lock for writing
    mutex,    \* mutex[s]: threads whose current call holds the lock of session s
    prof,     \* threads whose current call holds its profile's lock for reading
    leaked,   \* sessions whose lock, with pipe_mgr_lock and a profile lock,
              \* was left held by a call that has returned
    dangling, \* threads whose context or device pointer was freed under them
    pc, call, budget

vars == <<ctx, lockInit, inUse, devMap, numProf, rd, wr, mutex, prof, leaked, dangling,
          pc, call, budget>>
objects == <<ctx, lockInit, inUse, devMap, numProf>>
locks == <<rd, wr, mutex, prof, leaked>>

Labels == {"idle",
           "check", "lookup", "deref", "enter", "mutex", "prologue", "body", "epilogue",
           "xenter", "xmutex", "xbody", "xexit",
           "wlock", "wbody", "wunlock", "sunlock", "sdestroy"}

Calls == [op : AllApiOps \cup DeviceOps, sess : Sess, dev : Devs, pipe : Pipes]
         \cup [op : ClientOps, sess : Sess]
NoCall == [op |-> "none"]

-----------------------------------------------------------------------------
(* pipe_mgr_shared_init: the context exists and its internal session is    *)
(* the first free one.                                                     *)
Init ==
    /\ ctx = TRUE /\ lockInit = TRUE
    /\ inUse = {IntSess}
    /\ devMap = {}
    /\ numProf = [d \in Devs |-> 0]
    /\ rd = {} /\ wr = {} /\ prof = {} /\ leaked = {} /\ dangling = {}
    /\ mutex = [s \in Sess |-> {}]
    /\ pc = [t \in Threads |-> "idle"]
    /\ call = [t \in Threads |-> NoCall]
    /\ budget = [t \in Threads |-> MaxCalls]

\* Continue at l; a call that returns is forgotten.
Goto(t, l) ==
    /\ pc' = [pc EXCEPT ![t] = l]
    /\ call' = IF l = "idle" THEN [call EXCEPT ![t] = NoCall] ELSE call

\* pipe_mgr_session_valid
SessionValid(s) == ctx /\ s \in inUse

\* pthread read/write lock: external.
CanRead == wr = {}
CanWrite == wr = {} /\ rd = {} /\ leaked = {}
MutexFree(s) == mutex[s] = {} /\ s \notin leaked

-----------------------------------------------------------------------------
(* Issuing a call.  Device operations fetch the internal session handle    *)
(* first and give up when there is no context (pipe_mgr_get_int_sess_hdl). *)
Issue(t, c, l) ==
    /\ pc[t] = "idle" /\ budget[t] > 0
    /\ budget' = [budget EXCEPT ![t] = @ - 1]
    /\ pc' = [pc EXCEPT ![t] = l]
    /\ call' = [call EXCEPT ![t] = IF l = "idle" THEN NoCall ELSE c]
    /\ UNCHANGED <<objects, locks, dangling>>

CallApi(t) ==
    \E op \in ApiOps, s \in Sess \ {IntSess}, d \in Devs, p \in Pipes :
        Issue(t, [op |-> op, sess |-> s, dev |-> d, pipe |-> p],
              IF op \in {"table", "delete"} THEN "check" ELSE "enter")

CallDeviceOp(t) ==
    \E op \in ExclOps \cap DeviceOps, d \in Devs :
        Issue(t, [op |-> op, sess |-> IntSess, dev |-> d, pipe |-> 0],
              IF ctx THEN "xenter" ELSE "idle")

CallClientOp(t) ==
    \E op \in ExclOps \cap ClientOps, s \in Sess \ {IntSess} :
        Issue(t, [op |-> op, sess |-> s], "wlock")

-----------------------------------------------------------------------------
(* P4 entity APIs.                                                         *)

\* pipe_mgr_is_pipe_valid, called without any lock: read pipe_mgr_ctx_obj ...
IsPipeValidContext(t) ==
    /\ pc[t] = "check"
    /\ Goto(t, IF ctx THEN "lookup" ELSE "idle")
    /\ UNCHANGED <<objects, locks, dangling, budget>>

\* ... look the device up in the map of that context; when the context was
\* freed in between, whether a device is found is arbitrary and so is the
\* pointer to it ...
IsPipeValidLookup(t) ==
    /\ pc[t] = "lookup"
    /\ \E found \in BOOLEAN :
          /\ t \notin dangling => found = (call[t].dev \in devMap)
          /\ Goto(t, IF found THEN "deref" ELSE "idle")
          /\ dangling' = IF found THEN dangling ELSE dangling \ {t}
    /\ UNCHANGED <<objects, locks, budget>>

\* ... and read num_pipeline_profiles through the pointer.  When the device or
\* the context was freed in between, the value read is arbitrary.
IsPipeValidCompare(t) ==
    /\ pc[t] = "deref"
    /\ \E ok \in BOOLEAN :
          /\ t \notin dangling => ok = (call[t].pipe < numProf[call[t].dev])
          /\ Goto(t, IF ok THEN "enter" ELSE "idle")
    /\ dangling' = dangling \ {t}
    /\ UNCHANGED <<objects, locks, budget>>

\* Taking pipe_mgr_lock once it is destroyed.  It may work as before, and the
\* actions below then describe it, or report an error, and the call returns:
\* api_enter, pipe_mgr_client_init and pipe_mgr_client_cleanup with
\* BF_UNEXPECTED, pipe_mgr_shared_cleanup because it finds no context.
LockFails(t) ==
    /\ pc[t] \in {"enter", "xenter", "wlock"} /\ ~lockInit
    /\ Goto(t, "idle")
    /\ UNCHANGED <<objects, locks, dangling, budget>>

\* Mutant: an invalid session is reported without releasing pipe_mgr_lock.
ApiEnterKeepsLock(t) ==
    /\ pc[t] = "enter" /\ CanRead
    /\ rd' = rd \cup {t}
    /\ Goto(t, IF SessionValid(call[t].sess) THEN "mutex" ELSE "idle")
    /\ UNCHANGED <<objects, wr, mutex, prof, leaked, dangling, budget>>

\* api_enter with exclusive_lock = false: take pipe_mgr_lock for reading and
\* check the session; an invalid session releases the lock again.
ApiEnter(t) ==
    /\ pc[t] = "enter" /\ CanRead
    /\ IF SessionValid(call[t].sess)
         THEN rd' = rd \cup {t} /\ Goto(t, "mutex")
         ELSE rd' = rd /\ Goto(t, "idle")
    /\ UNCHANGED <<objects, wr, mutex, prof, leaked, dangling, budget>>

\* Mutant: the session is not locked.
ApiEnterNoMutex(t) ==
    /\ pc[t] = "mutex"
    /\ mutex' = [mutex EXCEPT ![call[t].sess] = @ \cup {t}]
    /\ Goto(t, "prologue")
    /\ UNCHANGED <<objects, rd, wr, prof, leaked, dangling, budget>>

\* api_enter: lock the session.
ApiEnterMutex(t) ==
    /\ pc[t] = "mutex" /\ MutexFree(call[t].sess)
    /\ mutex' = [mutex EXCEPT ![call[t].sess] = @ \cup {t}]
    /\ Goto(t, "prologue")
    /\ UNCHANGED <<objects, rd, wr, prof, leaked, dangling, budget>>

\* What pipe_mgr_api_exit releases: nothing when the context is gone, and the
\* session's lock only while the session is valid.
ApiExitLocks(t) ==
    IF ctx
      THEN /\ rd' = rd \ {t}
           /\ wr' = wr \ {t}
           /\ mutex' = IF SessionValid(call[t].sess)
                         THEN [mutex EXCEPT ![call[t].sess] = @ \ {t}]
                         ELSE mutex
      ELSE UNCHANGED <<rd, wr, mutex>>

\* Mutant: a device that is not found returns without pipe_mgr_api_exit.
ApiPrologueKeepsLocks(t) ==
    /\ pc[t] = "prologue"
    /\ IF ctx /\ call[t].dev \in devMap
         THEN prof' = prof \cup {t} /\ Goto(t, "body")
         ELSE prof' = prof /\ Goto(t, "idle")
    /\ UNCHANGED <<objects, rd, wr, mutex, leaked, dangling, budget>>

\* pipe_mgr_api_prologue after api_enter: find the device, lock its profile.
\* The pipe id is not checked: beyond the profiles array the lock operation
\* may succeed or fail.
ApiPrologue(t) ==
    /\ pc[t] = "prologue"
    /\ \/ /\ ctx /\ call[t].dev \in devMap
          /\ prof' = prof \cup {t}
          /\ Goto(t, "body")
          /\ UNCHANGED <<rd, wr, mutex>>
       \/ /\ ctx /\ call[t].dev \in devMap => call[t].pipe >= numProf[call[t].dev]
          /\ ApiExitLocks(t)
          /\ prof' = prof
          /\ Goto(t, "idle")
    /\ UNCHANGED <<objects, leaked, dangling, budget>>

\* The API's own work, ending well or badly, then the epilogue.
ApiBody(t) ==
    /\ pc[t] = "body"
    /\ Goto(t, "epilogue")
    /\ UNCHANGED <<objects, locks, dangling, budget>>

\* Error returns that skip the epilogue: pipe_stful_ent_query and
\* pipe_stful_ent_set when the register access fails, and
\* pipe_mgr_mat_ent_del_by_match_spec when match_spec_temp is not allocated.
ApiBodyNoEpilogue(t) ==
    /\ pc[t] = "body" /\ call[t].op \in {"delete", "stful"}
    /\ leaked' = leaked \cup {call[t].sess}
    /\ rd' = rd \ {t}
    /\ prof' = prof \ {t}
    /\ mutex' = [mutex EXCEPT ![call[t].sess] = @ \ {t}]
    /\ Goto(t, "idle")
    /\ UNCHANGED <<objects, wr, dangling, budget>>

\* pipe_mgr_api_epilogue: releases nothing when the context or the device is
\* gone, else unlocks the profile and leaves through pipe_mgr_api_exit.
ApiEpilogue(t) ==
    /\ pc[t] = "epilogue"
    /\ IF ctx /\ call[t].dev \in devMap
         THEN prof' = prof \ {t} /\ ApiExitLocks(t)
         ELSE UNCHANGED <<prof, rd, wr, mutex>>
    /\ Goto(t, "idle")
    /\ UNCHANGED <<objects, leaked, dangling, budget>>

-----------------------------------------------------------------------------
(* Device operations: pipe_mgr_api_exclusive_enter on the internal session. *)

\* Mutant: pipe_mgr_lock taken for reading.
ExclusiveEnterShared(t) ==
    /\ pc[t] = "xenter" /\ CanRead
    /\ IF SessionValid(call[t].sess)
         THEN rd' = rd \cup {t} /\ Goto(t, "xmutex")
         ELSE rd' = rd /\ Goto(t, "idle")
    /\ UNCHANGED <<objects, wr, mutex, prof, leaked, dangling, budget>>

\* api_enter with exclusive_lock = true.
ExclusiveEnter(t) ==
    /\ pc[t] = "xenter" /\ CanWrite
    /\ IF SessionValid(call[t].sess)
         THEN wr' = wr \cup {t} /\ Goto(t, "xmutex")
         ELSE wr' = wr /\ Goto(t, "idle")
    /\ UNCHANGED <<objects, rd, mutex, prof, leaked, dangling, budget>>

ExclusiveEnterMutex(t) ==
    /\ pc[t] = "xmutex" /\ MutexFree(call[t].sess)
    /\ mutex' = [mutex EXCEPT ![call[t].sess] = @ \cup {t}]
    /\ Goto(t, "xbody")
    /\ UNCHANGED <<objects, rd, wr, prof, leaked, dangling, budget>>

\* pipe_mgr_init_dev and the imports after it.  A device that exists already
\* is refused; a failed allocation inserts nothing; a failed import leaves the
\* device in the map.
AddDevice(t) ==
    /\ pc[t] = "xbody" /\ call[t].op = "add_device"
    /\ \/ UNCHANGED <<devMap, numProf>>
       \/ /\ call[t].dev \notin devMap
          /\ devMap' = devMap \cup {call[t].dev}
          /\ \E n \in ProfileCounts :
                numProf' = [numProf EXCEPT ![call[t].dev] = n]
    /\ Goto(t, "xexit")
    /\ UNCHANGED <<ctx, lockInit, inUse, locks, dangling, budget>>

\* pipe_mgr_shared_remove_device: free_dev, then the map entry.
RemoveDevice(t) ==
    /\ pc[t] = "xbody" /\ call[t].op = "remove_device"
    /\ devMap' = devMap \ {call[t].dev}
    /\ dangling' = IF call[t].dev \in devMap
                     THEN dangling \cup {u \in Threads :
                            pc[u] = "deref" /\ call[u].dev = call[t].dev}
                     ELSE dangling
    /\ Goto(t, "xexit")
    /\ UNCHANGED <<ctx, lockInit, inUse, numProf, locks, budget>>

\* pipe_mgr_enable_pipeline builds pipelines; it changes none of these objects.
EnablePipeline(t) ==
    /\ pc[t] = "xbody" /\ call[t].op = "enable_pipeline"
    /\ Goto(t, "xexit")
    /\ UNCHANGED <<objects, locks, dangling, budget>>

\* pipe_mgr_api_exclusive_exit
ExclusiveExit(t) ==
    /\ pc[t] = "xexit"
    /\ ApiExitLocks(t)
    /\ Goto(t, "idle")
    /\ UNCHANGED <<objects, prof, leaked, dangling, budget>>

-----------------------------------------------------------------------------
(* pipe_mgr_client_init, pipe_mgr_client_cleanup, pipe_mgr_shared_cleanup:  *)
(* the write lock without a session.                                        *)

\* Mutant: the lock is taken for reading.
WriteLockShared(t) ==
    /\ pc[t] = "wlock" /\ CanRead
    /\ rd' = rd \cup {t}
    /\ Goto(t, "wbody")
    /\ UNCHANGED <<objects, wr, mutex, prof, leaked, dangling, budget>>

WriteLock(t) ==
    /\ pc[t] = "wlock" /\ CanWrite
    /\ wr' = wr \cup {t}
    /\ Goto(t, "wbody")
    /\ UNCHANGED <<objects, rd, mutex, prof, leaked, dangling, budget>>

\* Mutant: the search for a free session runs one past the table.
SessionCreatePastEnd(t) ==
    /\ pc[t] = "wbody" /\ call[t].op = "client_init"
    /\ \/ /\ ctx
          /\ \E s \in (0 .. MaxSessions) \ inUse :
                0 .. s - 1 \subseteq inUse /\ inUse' = inUse \cup {s}
       \/ ~ctx /\ inUse' = inUse
    /\ Goto(t, "wunlock")
    /\ UNCHANGED <<ctx, lockInit, devMap, numProf, locks, dangling, budget>>

\* pipe_mgr_session_create: the first session that is not in use, if any.
SessionCreate(t) ==
    /\ pc[t] = "wbody" /\ call[t].op = "client_init"
    /\ \/ /\ ctx
          /\ \E s \in Sess \ inUse :
                0 .. s - 1 \subseteq inUse /\ inUse' = inUse \cup {s}
       \/ (ctx => inUse = Sess) /\ inUse' = inUse
    /\ Goto(t, "wunlock")
    /\ UNCHANGED <<ctx, lockInit, devMap, numProf, locks, dangling, budget>>

\* pipe_mgr_session_destroy: nothing for a session that is not valid.
SessionDestroy(t) ==
    /\ pc[t] = "wbody" /\ call[t].op = "client_cleanup"
    /\ inUse' = IF ctx THEN inUse \ {call[t].sess} ELSE inUse
    /\ Goto(t, "wunlock")
    /\ UNCHANGED <<ctx, lockInit, devMap, numProf, locks, dangling, budget>>

\* Mutant: the context is freed but the pointer to it is kept.
SharedCleanupKeepsCtx(t) ==
    /\ pc[t] = "wbody" /\ call[t].op = "shared_cleanup"
    /\ inUse' = inUse \ {IntSess}
    /\ devMap' = {}
    /\ Goto(t, "sunlock")
    /\ UNCHANGED <<ctx, lockInit, numProf, locks, dangling, budget>>

\* pipe_mgr_shared_cleanup, nothing when there is no context: the device map is
\* destroyed (the devices are not freed), the internal session with it, and the
\* context is freed, under threads that are looking a device up in it as well.
SharedCleanup(t) ==
    /\ pc[t] = "wbody" /\ call[t].op = "shared_cleanup"
    /\ IF ctx
         THEN /\ ctx' = FALSE /\ inUse' = {} /\ devMap' = {}
              /\ dangling' = dangling \cup {u \in Threads : pc[u] = "lookup"}
              /\ Goto(t, "sunlock")
         ELSE UNCHANGED <<ctx, inUse, devMap, dangling>> /\ Goto(t, "wunlock")
    /\ UNCHANGED <<lockInit, numProf, locks, budget>>

WriteUnlock(t) ==
    /\ pc[t] \in {"wunlock", "sunlock"}
    /\ wr' = wr \ {t}
    /\ Goto(t, IF pc[t] = "wunlock" THEN "idle" ELSE "sdestroy")
    /\ UNCHANGED <<objects, rd, mutex, prof, leaked, dangling, budget>>

\* The shutdown ends with the destruction of pipe_mgr_lock, which other calls
\* may be waiting for or hold by then.
LockDestroy(t) ==
    /\ pc[t] = "sdestroy"
    /\ lockInit' = FALSE
    /\ Goto(t, "idle")
    /\ UNCHANGED <<ctx, inUse, devMap, numProf, locks, dangling, budget>>

-----------------------------------------------------------------------------
ApiStep(t) ==
    \/ IsPipeValidContext(t) \/ IsPipeValidLookup(t) \/ IsPipeValidCompare(t)
    \/ ApiEnter(t) \/ ApiEnterMutex(t) \/ ApiPrologue(t)
    \/ ApiBody(t) \/ ApiBodyNoEpilogue(t) \/ ApiEpilogue(t)

DeviceStep(t) ==
    \/ ExclusiveEnter(t) \/ ExclusiveEnterMutex(t)
    \/ AddDevice(t) \/ RemoveDevice(t) \/ EnablePipeline(t)
    \/ ExclusiveExit(t)

ClientStep(t) ==
    \/ WriteLock(t) \/ SessionCreate(t) \/ SessionDestroy(t)
    \/ SharedCleanup(t) \/ WriteUnlock(t) \/ LockDestroy(t)

Step(t) == ApiStep(t) \/ DeviceStep(t) \/ ClientStep(t) \/ LockFails(t)

Next ==
    \E t \in Threads :
        CallApi(t) \/ CallDeviceOp(t) \/ CallClientOp(t) \/ Step(t)

Spec == Init /\ [][Next]_vars

\* A thread that is inside a call keeps running when it can.
FairSpec == Spec /\ \A t \in Threads : WF_vars(Step(t))

-----------------------------------------------------------------------------
(* Properties.                                                             *)

\* Between pipe_mgr_api_enter and the return of the API.
InApi(t) == pc[t] \in {"mutex", "prologue", "body", "epilogue"}
\* Between taking pipe_mgr_lock for writing and releasing it.
InExclusive(t) == pc[t] \in {"xmutex", "xbody", "xexit",
                          "wbody", "wunlock", "sunlock"}
\* After pipe_mgr_api_enter or pipe_mgr_api_exclusive_enter has succeeded.
HoldsSession(t) ==
    pc[t] \in {"prologue", "body", "epilogue", "xbody", "xexit"}

\* Type invariant of the lock state, the guarded objects and the calls.
TypeOK ==
    /\ ctx \in BOOLEAN /\ lockInit \in BOOLEAN
    /\ inUse \in SUBSET Sess
    /\ devMap \in SUBSET Devs
    /\ numProf \in [Devs -> Nat]
    /\ rd \in SUBSET Threads /\ wr \in SUBSET Threads
    /\ prof \in SUBSET Threads /\ dangling \in SUBSET Threads
    /\ mutex \in [Sess -> SUBSET Threads]
    /\ leaked \in SUBSET Sess
    /\ pc \in [Threads -> Labels]
    /\ call \in [Threads -> Calls \cup {NoCall}]
    /\ budget \in [Threads -> Nat]

\* "No other parallel PipeMgr API can be executed" while an exclusive section
\* is entered (pipe_mgr_api_exclusive_enter and the session and shutdown
\* functions that take the write lock themselves).
ExclusiveAccess ==
    \A t, u \in Threads :
        t # u /\ InExclusive(t) => ~InApi(u) /\ ~InExclusive(u)

\* pipe_mgr_api_enter "provides serialization of operations in a session": two
\* calls past it, one of which may be a device operation, never share one.
SessionSerialized ==
    \A t, u \in Threads :
        /\ t # u
        /\ HoldsSession(t) /\ HoldsSession(u)
        => call[t].sess # call[u].sess

\* The early returns of pipe_mgr_api_exit and pipe_mgr_api_epilogue that unlock
\* nothing are dead: while a call is inside, its context and session stay
\* valid, and from the prologue on its device stays in the map, whatever
\* devices and sessions other threads remove and however they shut down.
InFlightValid ==
    \A t \in Threads :
        /\ InApi(t) => SessionValid(call[t].sess)
        /\ pc[t] \in {"body", "epilogue"} => call[t].dev \in devMap
        /\ pc[t] \in {"xmutex", "xbody", "xexit"} => SessionValid(call[t].sess)

\* pipe_mgr_api_epilogue "should be used by all the public PipeMgr API": a call
\* that has returned holds no lock.
ReturnedHoldsNoLock ==
    /\ leaked = {}
    /\ \A t \in Threads : pc[t] = "idle" =>
          /\ t \notin rd \cup wr \cup prof
          /\ \A s \in Sess : t \notin mutex[s]

\* "RW Lock to protect pipe_mgr_ctx_obj global object": the context and a
\* device found in its map are only used while they exist.
DeviceReadProtected == dangling = {}

\* pipe_mgr_shared_cleanup destroys pipe_mgr_lock although calls may wait for
\* it or hold it.  From the moment it is no longer held for the shutdown, no
\* call gets past the lock to the context, the sessions or the devices,
\* whether a destroyed lock still works or reports errors.
NothingBehindDestroyedLock ==
    ~lockInit \/ (\E t \in Threads : pc[t] = "sdestroy")
        => /\ ~ctx
           /\ \A u \in Threads :
                 ~InApi(u) /\ pc[u] \notin {"xmutex", "xbody", "xexit"}

\* A session or a device disappears only when no P4 entity API is inside.
ObjectsChangeWhenQuiet ==
    [][~(inUse \subseteq inUse' /\ devMap \subseteq devMap')
          => \A u \in Threads : ~InApi(u)]_vars

\* The inductive strengthening of the safety properties: which locks a thread
\* holds follows from where its call is, at most one thread holds a session or
\* the write lock, and the context is gone for good before its lock is.
CallsTyped == \A t \in Threads : pc[t] # "idle" => call[t] \in Calls
LocksMatchPc ==
    /\ \A t \in Threads : (t \in rd <=> InApi(t)) /\ (t \in wr <=> InExclusive(t))
    /\ \A t \in Threads, s \in Sess :
          t \in mutex[s] <=> HoldsSession(t) /\ call[t].sess = s
LocksExclude ==
    /\ wr # {} => rd = {}
    /\ \A t, u \in wr : t = u
    /\ \A s \in Sess : \A t, u \in mutex[s] : t = u
ShutdownFinal ==
    /\ ~lockInit => ~ctx
    /\ \A t \in Threads : pc[t] \in {"sunlock", "sdestroy"} => ~ctx
LockInv ==
    /\ TypeOK /\ CallsTyped /\ LocksMatchPc /\ LocksExclude /\ InFlightValid
    /\ ShutdownFinal

\* Every call returns as long as nothing shuts the service down: the read/write
\* lock, the session mutexes and the profile locks are taken in one order and
\* are all released.
CallsReturn == \A t \in Threads : (pc[t] # "idle") ~> (pc[t] = "idle")
=============================================================================
