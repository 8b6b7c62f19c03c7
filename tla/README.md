# TLA+ verification of the P4 DPDK target

This directory holds TLA+ specifications of the P4 DPDK target, the TLC
configurations that check them on small instances, and proofs that the TLAPS
proof system checks for every instance. Source paths below are relative to the
top of the repository; `PROJECT.json`, which maps each definition to the lines
it models, writes `src/` in front of them.

## 1. The system and its parts

The target lets a controller program P4 pipelines that DPDK executes.

| Layer | Source | What it does |
|---|---|---|
| front ends | `src/tdi_rt`, `src/bf_rt`, gRPC server in `src/bf_rt/proto` | tables, keys, data, sessions; one table operation becomes several pipe_mgr calls |
| pipe_mgr core and infra | `src/pipe_mgr/core`, `src/pipe_mgr/shared/infra` | sessions, locks, device map, context JSON, table containers |
| pipe_mgr features | `src/pipe_mgr/shared/features` | match-action tables, action profiles, selectors, value lookup and mirror, counters, registers, fixed functions |
| DAL | `src/pipe_mgr/shared/dal/dpdk` | the same operations on `rte_swx` tables and their control object; pipeline construction |
| lld | `src/lld` | DPDK objects, ports, data plane threads and their message rings, command line |
| dvm | `src/dvm` | driver clients, device addition and removal, warm init |
| port_mgr, bf_pal | `src/port_mgr`, `src/bf_pal` | ports by number and name, hotplug into QEMU |
| fixed_function, ctx_json | `src/fixed_function`, `src/ctx_json` | JSON parsing, dispatch to managers |
| bf_switchd | `bf_switchd/` | the daemon: configuration and start-up order |

How they interact: bf_switchd starts the managers, each of which registers with
dvm; dvm tells its clients, by priority, of an added device; pipe_mgr imports
the device's context and builds the pipelines, which the lld threads poll.
From then on clients open sessions and call table operations. The sessions run
in parallel: table operations hold the global lock and the profile's lock for
reading and their session's mutex, so that between sessions only the mutex of
the table, held for one container operation at a time, excludes anything. This concurrency, and the many
error paths that have to undo a half of an operation, is what the project is
about, so it starts with pipe_mgr and the operations above and below it.

## 2. The modules

| Module | Models | Kind |
|---|---|---|
| `PipeMgrSession` | sessions, locks, device map, shutdown | state machine |
| `PipeMgrMat` | one match-action table, from API to DPDK control object | state machine |
| `MatTable` | what a match-action table promises | abstract specification |
| `ActionSelector` | action profile and selector, TDI operations over pipe_mgr calls | state machine |
| `*_proofs` | theorems about the three state machines | TLAPS proofs |
| `MCPipeMgrSession`, `MCPipeMgrMat`, `MCMatShared`, `MCActionSelector` | instances for TLC | model values, bounds |

Operators whose name says what goes wrong (for example `AddStartUnchecked`)
are faulty variants of the definition that follows them. No specification
uses them; a property is worth checking only if such a variant violates it.

### 2.1 PipeMgrSession

State: the service context (`ctx`), whether its lock is initialised
(`lockInit`), the session table (`inUse`), the devices and their numbers of
profiles (`devMap`, `numProf`), the lock holders (`rd`, `wr`, `mutex`, `prof`),
locks left behind by calls that have returned (`leaked`), and where each
thread's call is (`pc`, `call`). `dangling` names threads that hold a pointer to
a freed context or device.

An action is the code between two points where another thread can run:

* a P4 entity API is `IsPipeValidContext`, `IsPipeValidLookup` and
  `IsPipeValidCompare` (`pipe_mgr_is_pipe_valid`, which takes no lock: the
  pointer to the context, the device in its map, the read through the device
  pointer), `ApiEnter` and
  `ApiEnterMutex` (`api_enter`), `ApiPrologue`, `ApiBody`, `ApiEpilogue`. The
  APIs fall into four classes by which of these they have and whether an error
  return skips the epilogue (`ApiBodyNoEpilogue`);
* device operations are `ExclusiveEnter`, `ExclusiveEnterMutex`, a body
  (`AddDevice`, `RemoveDevice`, `EnablePipeline`) and `ExclusiveExit`;
* session creation, destruction and shutdown are `WriteLock`, a body and
  `WriteUnlock`. A shutdown (`SharedCleanup`) that finds a context ends with
  `LockDestroy`, after which taking the lock may work as before or fail
  (`LockFails`).

Abstracted: what the body of an API does to tables (the other modules), the
contents of profiles. External: the pthread locks. Reading through a pointer to
a freed context or device yields an arbitrary answer.

### 2.2 PipeMgrMat and MatTable

State: the two containers of a table (`keyHtbl`, `entryInfo`) and the allocator
of handles (`ids`), the heap of entries with freed ones marked, the table metadata (`meta`), work scheduled on
the DPDK control object (`pending`), the running table (`dpdk`), and each
session's call (`pc`, `cur`). `keyHtbl` is a set of nodes, so that two nodes for
a key can exist. `halfDone` is a history variable that no guard reads: the keys
whose last call changed the pipeline and then failed in the containers.

The table mutex is held for one container operation at a time. An addition is
`AddStart` (duplicate check), `AddPack`, `AddMeta`/`MetaGet`/`MetaSet`,
`AddRte`, `AddCommit`, `AddInsert`; `AddFail` is its error path. A deletion is
`DelStart`, `DelMeta`, `DelRte`, `DelCommit`, `DelKey`, `DelFree`. The insertion
takes a handle, files it in the handle map and then in the key table; failing at
the second or third undoes the earlier ones (`InsertUndone`). A deletion whose
lookup key cannot be allocated ends in `DelKey` with the entry gone from the
pipeline and still filed. A read is
`GetHandle`, `GetEntry`, `GetUnpack`. The default entry is the entry of the key
`DefKey`. External: `rte_swx_ctl_pipeline_commit`, which applies or drops the
scheduled work of all sessions. Abstracted: match specs and action data are
model values; that additions look the target's table up by another name than
default entries and deletions do is covered by the target refusing a call.

`MatTable` is an atomic map in which a key is added when absent and deleted
when present. `ImplementsTable` says that `PipeMgrMat`, seen through the
contents of its two containers, behaves like it.

### 2.3 ActionSelector

State: members and groups by handle and by id (`member`, `mbrIdHtbl`, `group`,
`grpIdHtbl`), the pipeline's tables (`target`) and what they will be after the
next commit (`staged`), and the TDI operation of each session (`cur`).
`crashed` records that a null or freed entry has been read.

The control object is shared by both tables, and the mutexes are not: a call on
members holds that of the member table (`AdtFree`), the creation of a group that
of the group table (`SelFree`), so these two schedule in one step and commit in
another, and the commit applies what the other has scheduled as well. Setting
the members of a group and deleting a group hold both mutexes throughout and are
one step. The operators `AdtEntAdd`, `AdtEntDel`, `SelGrpAdd` (from the commit
on), `SelGrpMbrsSet` and `SelGrpDel` describe the pipe_mgr calls. They cover
every early return, including the ones that undo nothing: an addition of a
member whose later allocations fail reports success with nothing filed, and
filing a group whose handle is not found may fail after the pipeline has changed
(`Filings`). The operations of the TDI tables are sequences of steps:
`AddMember`, `CommitMember`; `DelMember`, `DelMemberEntry`, `CommitMemberDel`;
`AddGroup`, `LookMember` (once per member), `AddGroupEntry`, `CommitGroup`,
`SetMembers`, and `DelGroupEntry` when that fails; `ModGroup`, `LookMember`,
`SetMembers`; `DelGroup`, `DelGroupEntry`. Reference counts are taken modulo
`RefWrap`. Abstracted: action data of a member is its id.

## 3. The runs

All runs are of the form `tlc -config <cfg> <module>`.

| Run | Module, cfg | Properties | Bounds |
|---|---|---|---|
| session_safety | MCPipeMgrSession, MCSession_safety | TypeOK, ExclusiveAccess, SessionSerialized, InFlightValid, ObjectsChangeWhenQuiet, NothingBehindDestroyedLock | 3 threads, 3 sessions, 1 device, 2 calls per thread, all operations |
| session_progress | MCPipeMgrSession, MCSession_progress | ReturnedHoldsNoLock, CallsReturn | 2 threads, 3 calls each, no shutdown, only APIs that reach the epilogue |
| session_register_error | MCPipeMgrSession, MCSession_register_error | ReturnedHoldsNoLock is violated | register APIs |
| session_unlocked_check | MCPipeMgrSession, MCSession_unlocked_check | DeviceReadProtected is violated | table APIs beside device removal |
| mat_own_keys | MCPipeMgrMat, MCMat_own | TypeOK, UniqueKeys, NoDangling, NoLostEntry, SwMatchesHw, GetReturnsRequestedKey, ImplementsTable | 2 sessions with disjoint keys, 3 keys, every failure but that of a commit |
| mat_shared_keys | MCMatShared, MCMat_shared | HandlesConsistent, ScheduledWorkOwned | 2 sessions on the same 2 keys, every failure; tables with and without stored entries |
| mat_parallel_add | MCPipeMgrMat, MCMat_parallel_add | UniqueKeys is violated | 2 sessions on the same keys, nothing fails |
| mat_commit_abort | MCPipeMgrMat, MCMat_commit_abort | SwMatchesHw is violated | disjoint keys, failing commits |
| sel_one_owner | MCActionSelector, MCSel_one_owner | TypeOK, CountsCoverGroups, TargetResolves, TargetHoldsListed | one session uses everything, another adds members; 2 members, 2 groups, lists of up to 2 |
| sel_failures | MCActionSelector, MCSel_failures | MembersFiled, GroupsFiled, MembersInTarget | one session, every failure, lists of up to 1 |
| sel_modify_leak | MCActionSelector, MCSel_modify_leak | ReferencedByGroup is violated | one session, nothing fails |
| sel_stale_member | MCActionSelector, MCSel_stale_member | NoDanglingMember is violated | one session builds groups, the other adds and deletes members |

**Why the bounds are enough.** The locks of PipeMgrSession relate two calls;
a third thread gives the cases in which a writer waits behind a reader while
another reader arrives, and three sessions let a slot be freed and reused beside
the internal session. In PipeMgrMat every race is between two calls, on one key
or through the shared control object; with disjoint keys one session has two
keys, the default entry's among them, so that a handle it frees can be given to
the other session or to its own other key. With shared keys duplicates can use
up handles and entries. In ActionSelector two members and two groups allow a
member in two groups, twice in one list, a handle reused for another member and
a full group table. `MaxCalls`, `MaxRefs`, `MaxMbrs` and the sizes of the sets
are the only bounds; `MaxRefs` stops new group operations, never one in
progress. `RefWrap`, 2^32 in the code, is 16: a count that went below zero would
be visible at once.

**Deadlock.** It is checked where the model can always continue (ActionSelector
without failures). The session runs end when the threads have used their
calls, a session in PipeMgrMat may be stuck for ever behind the locks that a
deletion has leaked, and a crashed process stops, so these runs do not check it;
`CallsReturn` says what is wanted instead.

**Fairness.** `CallsReturn` assumes weak fairness of each thread's steps inside
a call: a thread that can run does run, which is what the operating system's
scheduler provides. Nothing forces a thread to make a call, and weak fairness
suffices although locks are contended because each thread makes finitely many
calls in the model. The run leaves the shutdown out: it destroys the lock under
the calls that wait for it, and nothing can be promised to those. Starvation by an endless stream of readers is
therefore not excluded by this run; it depends on the lock's preference.

**Symmetry** is used in safety runs only, over sets the specification treats
alike (threads; handles, member ids and group handles, but not group ids, one of
which is the id 0).

### What the violated properties show

* *session_register_error*: `pipe_stful_ent_query` and `pipe_stful_ent_set`
  return with three locks held when the register access fails (the deletion of
  a table entry does when an allocation fails).
* *session_unlocked_check*: the pipe id check follows the context and a device
  pointer without any lock; a removal under the write lock can free the device
  meanwhile.
* *mat_parallel_add*: duplicate check and insertion are separate critical
  sections; two sessions can store a key twice. Likewise a reader's or a
  deleter's pointer can be freed by a session that shares its keys, which is
  why the pointer properties are stated for sessions with disjoint keys.
* *mat_commit_abort*: a failing commit drops the work of other sessions, whose
  calls then succeed without effect in the pipeline.
* *sel_modify_leak*: replacing the members of a group does not uncount the
  old ones, which can then never be deleted.
* *sel_stale_member*: a member deleted between lookup and use leaves a group
  that lists it and that cannot be deleted.

What the passing runs leave out, because the code does not provide it:

* A call that fails in the containers after its commit leaves pipeline and
  software apart; `SwMatchesHw` is about the other keys, and about this one again
  once a call on it has succeeded.
* When the target refuses members of a group the list is freed and its length
  kept, and the next deletion of the group reads through a null pointer
  (`crashed`).
* A deletion of a group that fails at its last step leaves the members uncounted
  and still listed: `CountsCoverGroups` is checked for a target that does not
  fail.
* A group deleted by a second session between two calls of an addition or a
  modification is filed again by handle only: `GroupsFiled` is checked for one
  session.
* `MembersInTarget` is checked for one session as well; with two, a failing
  commit of one drops the scheduled work of the other, as mat_commit_abort shows
  for match-action tables.

## 4. The proofs

`tlapm <module>` checks every proof; all are complete. The assumptions are the
named ones on the constants (`ConstantsAssumption`, `MatAssumption`,
`SelectorAssumption`), which every run evaluates; the sets of threads,
sessions, keys, handles, entries, members and groups are arbitrary.

**PipeMgrSession_proofs.** `LockInvariant` proves `LockInv` inductive:
types, `CallsTyped` (a call in progress has a record), `LocksMatchPc` (which
locks a thread holds follows from its `pc`), `LocksExclude` (one writer and no
reader beside it, one holder per session), `InFlightValid` and `ShutdownFinal`
(the context is gone before its lock is, and does not come back). The safety
properties say nothing about lock sets and the lock sets alone do not know the
program counter, hence `LocksMatchPc`; and it is preserved by `ApiEpilogue` and
`ApiExitLocks`, which release nothing for a missing context, device or session,
only because of `InFlightValid`, which in turn holds because removals need the
write lock. From it follow `ExclusiveAccess`, `SessionSerialized`,
`InFlightValid`, the action property `ObjectsChangeWhenQuiet` and
`NothingBehindDestroyedLock`: a call past the lock needs the context, which the
shutdown has freed under the write lock before it gives the lock back.

**PipeMgrMat_proofs.** Three inductive invariants. `MatInv`, for any sessions and
any failures, contains `HandlesConsistent` and `ScheduledWorkOwned`. `OwnInv`
holds under `OwnKeys` (entries are stored and no two sessions share a key): a
stored entry carries the key it is filed under, and so does the entry that a
call holds (`OwnCall`). With disjoint keys the key therefore tells whose an entry
is, and no other session can free it. `UniqueKeys`, `NoDangling`, `NoLostEntry`
and `GetReturnsRequestedKey` follow, and with them `ImplementsTable`: only
`AddInsert` and `DelKey` change the abstract table, by one addition or deletion;
freeing an entry does not, because a freed entry is not stored. `OwnKeys`
excludes the races that mat_parallel_add exhibits; it is what an application
must ensure. `HwInv`, under `OwnKeys` and `TargetCommits` (no commit fails),
says for every key what is scheduled and what the pipeline holds while a call is
between scheduling and container (`HwCall`), and that nothing is scheduled and
both sides agree otherwise (`Settled`). It has to cover that another session's
commit applies the scheduled entry first. `SwMatchesHw` follows; without
`TargetCommits` it fails, as mat_commit_abort shows.

**ActionSelector_proofs.** `SelectorInvariant` proves `SelectorInv`: types,
`CallsAdvance` (how far an operation has got), `AdtExclusive` (between
scheduling and commit a member call has the member table to itself, and the
handle it took is still free) and `MembersFiled` (the two maps of members
agree), for any sessions and any failures. `MembersFiled` alone is not inductive
since a commit files the handle that the scheduling step chose; beyond
`AdtExclusive` it needs that the counting of references changes neither which
members exist nor their ids.

Only model-checked: `CallsReturn` (liveness), `ReturnedHoldsNoLock`, and of
ActionSelector `GroupsFiled` and the four properties that relate members,
groups, counters and the pipeline (`CountsCoverGroups`, `TargetResolves`,
`TargetHoldsListed`, `MembersInTarget`). Liveness under fairness, ENABLED and induction over data
(sums over arbitrary sets among it) are beyond the provers used here, and
RECURSIVE operators would disable the SMT backend; the invariants for one owner
are planned.

## 5. Not modelled, and the plan

`PROJECT.json` lists every component with its status and, under "hazards", what
is known to be delicate in the parts that have no module yet.

Left out for good: parsing of JSON and command lines, printing, the C front
end, process start-up. Left out of modelled components: iteration over
match-action tables, default entries of action profiles, getters of groups,
`clear` of the TDI tables.

Next, in this order:

1. `DpdkThread`: the request and response rings of `dpdk_thread.c` with the
   array of pipelines of each polling thread, and `dal_enable_pipeline` above
   them. Properties: a response is that of the request; a pipeline
   runs on the thread its record names; every request is answered if the polling
   thread keeps polling. Refinement of an atomic enable/disable.
2. `DeviceManager`: dvm clients, device addition with undoing, warm init,
   composed with the device callbacks of pipe_mgr and port_mgr. Properties: the
   client table is ordered by priority without duplicates; after a failed
   addition no client knows the device.
3. `PortManager`: the maps by number and by name over the lld ports, and
   hotplug. Properties: the maps agree; a failed addition leaves nothing
   behind.
4. Value lookup tables and mirror sessions on the containers of `PipeMgrMat`;
   iteration over match-action tables under concurrent changes; counters and
   registers as arrays.
5. Pure functions against reference definitions: port numbering of bf_pal,
   port mask of `dal_init.c`, key and data layout.
6. TDI: match-action tables (`entryAdd`, `entryMod`, `clear`, default entries)
   and session state with batches.
7. Proofs: `CountsCoverGroups` and `TargetResolves` for one owner, the
   invariants of the new modules and the refinement of `DpdkThread`.
