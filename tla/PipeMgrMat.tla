----------------------------- MODULE PipeMgrMat -----------------------------
(***************************************************************************)
(* One match-action table of pipe_mgr, used by several sessions at once.   *)
(*                                                                         *)
(* Software keeps an entry in two containers guarded by the table's mutex: *)
(* key_htbl, from match spec to entry handle, and entry_info_htbl, from    *)
(* handle to a heap-allocated entry; handles come from an allocator, the   *)
(* third thing to keep in step.  The DPDK pipeline keeps the entry that    *)
(* packets see; it is changed by scheduling work on the pipeline's control *)
(* object and committing it.  The control object is shared by all sessions *)
(* and commit applies, or on failure drops, everybody's work.              *)
(*                                                                         *)
(* The mutex is held for one container operation at a time, so a call is a *)
(* sequence of steps: look the key up, allocate the entry, change DPDK,    *)
(* update the containers.  Each thread here is one session (PipeMgrSession *)
(* shows that a session runs one call at a time and that devices are not   *)
(* removed meanwhile).                                                     *)
(***************************************************************************)
EXTENDS Naturals, FiniteSets

CONSTANTS
    Threads,        \* sessions, one thread each
    Keys,           \* match specs, the default entry's among them
    DefKey,         \* the match spec under which the default entry is stored
    Data,           \* action and action data of an entry
    Handles,        \* entry handles the allocator can give out
    Entries,        \* bound: entries allocated at a time
    KeysOf,         \* KeysOf[t]: the keys session t works on
    StoreEntries,   \* mat_ctx.store_entries
    Failures,       \* which calls may fail: "alloc", "rte", "commit", "insert"
    NoData,         \* no such entry in the target, nothing scheduled
    Delete,         \* a deletion is scheduled
    NoEntry,        \* NULL
    NoHandle        \* no handle obtained yet

ASSUME MatAssumption ==
    /\ DefKey \in Keys
    /\ KeysOf \in [Threads -> SUBSET Keys]
    /\ StoreEntries \in BOOLEAN
    /\ Failures \subseteq {"alloc", "rte", "commit", "insert"}
    /\ NoData \notin Data /\ Delete \notin Data /\ Delete # NoData
    /\ NoEntry \notin Entries /\ NoHandle \notin Handles

VARIABLES
    keyHtbl,    \* nodes of key_htbl
    entryInfo,  \* entry_info_htbl: handle -> entry
    ids,        \* entry_handle_array: the handles given out
    heap,       \* entry -> its contents and whether it is allocated
    meta,       \* stage_table->table_meta is set
    pending,    \* work scheduled on the control object, by key
    dpdk,       \* the table of the running pipeline
    pc, cur,
    halfDone    \* history: the keys whose last call changed the pipeline and
                \* then failed to change the containers; no guard reads it

vars == <<keyHtbl, entryInfo, ids, heap, meta, pending, dpdk, pc, cur, halfDone>>
containers == <<keyHtbl, entryInfo, ids, halfDone>>
target == <<meta, pending, dpdk>>

Nodes == [key : Keys, hdl : Handles]
Unused == [st |-> "unused"]
Freed == [st |-> "freed"]
Contents == [st : {"live"}, key : Keys, data : Data]

Labels == {"idle", "stuck",
           "add_pack", "add_meta", "meta_get", "meta_set", "add_rte",
           "add_commit", "add_insert",
           "del_meta", "del_rte", "del_commit", "del_key", "del_free",
           "get_handle", "get_unpack"}

\* What a call remembers: its arguments, the entry it holds a pointer to, and
\* the handle it was given.
NoCur == [key |-> DefKey, data |-> NoData, ent |-> NoEntry, hdl |-> NoHandle]
Curs == [key : Keys, data : Data \cup {NoData}, ent : Entries \cup {NoEntry},
         hdl : Handles \cup {NoHandle}]

\* alloc_mat_state: empty containers; the pipeline is built and empty.
Init ==
    /\ keyHtbl = {}
    /\ entryInfo = [h \in Handles |-> NoEntry]
    /\ ids = {}
    /\ heap = [e \in Entries |-> Unused]
    /\ meta = FALSE
    /\ pending = [k \in Keys |-> NoData]
    /\ dpdk = [k \in Keys |-> NoData]
    /\ pc = [t \in Threads |-> "idle"]
    /\ cur = [t \in Threads |-> NoCur]
    /\ halfDone = {}

Goto(t, l) == pc' = [pc EXCEPT ![t] = l]
Return(t) == Goto(t, "idle") /\ cur' = [cur EXCEPT ![t] = NoCur]
MayFail(what) == what \in Failures

\* mat_tbl_key_exists: the nodes a search for k can return.  With two nodes
\* for a key either may be found.
Find(k) == {n \in keyHtbl : n.key = k}

\* pipe_mgr_mat_delete_entry_data.  The address can be allocated again; as long
\* as somebody still points to it the model keeps it marked as freed.
FreeEntry(t, e) ==
    heap' = [heap EXCEPT ![e] =
               IF \/ \E h \in Handles : entryInfo[h] = e
                  \/ \E u \in Threads \ {t} : cur[u].ent = e
                 THEN Freed ELSE Unused]

-----------------------------------------------------------------------------
(* pipe_mgr_mat_ent_add, and pipe_mgr_mat_default_ent_add for DefKey.      *)

\* Mutant: the duplicate check is dropped.
AddStartUnchecked(t) ==
    /\ pc[t] = "idle"
    /\ \E k \in KeysOf[t], d \in Data :
          /\ Goto(t, "add_pack")
          /\ cur' = [cur EXCEPT ![t].key = k, ![t].data = d]
    /\ UNCHANGED <<containers, heap, target>>

\* pipe_mgr_table_key_exists: a duplicate is refused.
AddStart(t) ==
    /\ pc[t] = "idle"
    /\ \E k \in KeysOf[t], d \in Data :
          /\ StoreEntries => Find(k) = {}
          /\ Goto(t, "add_pack")
          /\ cur' = [cur EXCEPT ![t].key = k, ![t].data = d]
    /\ UNCHANGED <<containers, heap, target>>

\* pipe_mgr_mat_pack_entry_data: copy the arguments into a new entry.
AddPack(t) ==
    /\ pc[t] = "add_pack"
    /\ \/ \E e \in Entries :
             /\ heap[e] = Unused
             /\ heap' = [heap EXCEPT ![e] = [st |-> "live", key |-> cur[t].key,
                                             data |-> cur[t].data]]
             /\ cur' = [cur EXCEPT ![t].ent = e]
             /\ Goto(t, "add_meta")
       \/ /\ MayFail("alloc") \/ \A e \in Entries : heap[e] # Unused
          /\ Return(t)
          /\ UNCHANGED heap
    /\ UNCHANGED <<containers, target>>

\* Mutant: a failed addition forgets the entry it allocated.
AddFailLeaks(t) == UNCHANGED heap /\ Return(t)

\* The error path cleanup_entry.
AddFail(t) == FreeEntry(t, cur[t].ent) /\ Return(t)

\* dal_table_ent_add: the table's metadata is built by the first addition ...
AddMeta(t) ==
    /\ pc[t] = "add_meta"
    /\ Goto(t, IF meta THEN "add_rte" ELSE "meta_get")
    /\ UNCHANGED <<containers, heap, target, cur>>

\* ... dal_dpdk_table_metadata_get: metadata that has appeared since is an
\* error ...
MetaGet(t) ==
    /\ pc[t] = "meta_get"
    /\ IF meta THEN AddFail(t) ELSE Goto(t, "meta_set") /\ UNCHANGED <<heap, cur>>
    /\ UNCHANGED <<containers, target>>

\* ... and metadata is installed once it is complete.
MetaSet(t) ==
    /\ pc[t] = "meta_set"
    /\ \/ meta' = TRUE /\ Goto(t, "add_rte") /\ UNCHANGED <<heap, cur>>
       \/ MayFail("rte") /\ AddFail(t) /\ UNCHANGED meta
    /\ UNCHANGED <<containers, pending, dpdk>>

\* dal_table_ent_add: encode, then rte_swx_ctl_pipeline_table_entry_add (or
\* _table_default_entry_add) schedules the entry.  The target looks the table
\* up by target_table_name here and by name for default entries and deletions;
\* where the two name different tables the target refuses one of the calls,
\* which is the failure below (and DelRte's).
AddRte(t) ==
    /\ pc[t] = "add_rte"
    /\ \/ /\ pending' = [pending EXCEPT ![cur[t].key] = cur[t].data]
          /\ Goto(t, "add_commit")
          /\ UNCHANGED <<heap, cur>>
       \/ MayFail("rte") /\ AddFail(t) /\ UNCHANGED pending
    /\ UNCHANGED <<containers, meta, dpdk>>

\* rte_swx_ctl_pipeline_commit(ctl, 1): external.  All scheduled work takes
\* effect, whoever scheduled it ...
CommitAll ==
    /\ dpdk' = [k \in Keys |->
                  CASE pending[k] = NoData -> dpdk[k]
                    [] pending[k] = Delete -> NoData
                    [] OTHER -> pending[k]]
    /\ pending' = [k \in Keys |-> NoData]
\* ... or, when applying it fails, all of it is dropped.
AbortAll ==
    /\ MayFail("commit") /\ \E k \in Keys : pending[k] # NoData
    /\ pending' = [k \in Keys |-> NoData]
    /\ UNCHANGED dpdk

\* Mutant: rte_swx_ctl_pipeline_commit(ctl, 0), failed work stays scheduled.
AddCommitNoAbort(t) ==
    /\ pc[t] = "add_commit"
    /\ \/ /\ CommitAll
          /\ IF StoreEntries THEN Goto(t, "add_insert") /\ UNCHANGED cur
                             ELSE Return(t)
          /\ UNCHANGED heap
       \/ MayFail("commit") /\ UNCHANGED <<pending, dpdk>> /\ AddFail(t)
    /\ UNCHANGED <<containers, meta>>

AddCommit(t) ==
    /\ pc[t] = "add_commit"
    /\ \/ /\ CommitAll
          /\ IF StoreEntries THEN Goto(t, "add_insert") /\ UNCHANGED cur
                             ELSE Return(t)
          /\ UNCHANGED heap
       \/ AbortAll /\ AddFail(t)
    /\ UNCHANGED <<containers, meta>>

\* Mutant: the handle is taken without looking at the allocator.
AddInsertAnyHandle(t) ==
    /\ pc[t] = "add_insert"
    /\ \E h \in Handles :
          /\ entryInfo' = [entryInfo EXCEPT ![h] = cur[t].ent]
          /\ ids' = ids \cup {h}
          /\ keyHtbl' = keyHtbl \cup {[key |-> cur[t].key, hdl |-> h]}
    /\ halfDone' = halfDone \ {cur[t].key}
    /\ Return(t)
    /\ UNCHANGED <<heap, target>>

\* Mutant: the allocator's failure value is used as a handle.
AddInsertNoCheck(t) ==
    /\ pc[t] = "add_insert"
    /\ \E h \in (Handles \ ids) \cup {NoHandle} :
          /\ entryInfo' = [g \in DOMAIN entryInfo \cup {h} |->
                             IF g = h THEN cur[t].ent ELSE entryInfo[g]]
          /\ ids' = ids \cup {h}
          /\ keyHtbl' = keyHtbl \cup {[key |-> cur[t].key, hdl |-> h]}
    /\ halfDone' = halfDone \ {cur[t].key}
    /\ Return(t)
    /\ UNCHANGED <<heap, target>>

\* Mutant: the handle stays in the handle map.
InsertUndoneKeepsMap(map, arr, h) ==
    /\ entryInfo' = map
    /\ ids' = arr \ {h}

\* cleanup_map_add and cleanup_id: handle h leaves the handle map, if it got
\* that far, and goes back to the allocator.
InsertUndone(map, arr, h) ==
    /\ entryInfo' = [map EXCEPT ![h] = NoEntry]
    /\ ids' = arr \ {h}

\* pipe_mgr_table_key_insert: a free handle, the handle map, the key table.
\* Failing at the second or the third undoes the earlier ones, and the entry is
\* freed; DPDK keeps it.
AddInsert(t) ==
    /\ pc[t] = "add_insert"
    /\ \/ \E h \in Handles \ ids :
             LET mapped == [entryInfo EXCEPT ![h] = cur[t].ent]
                 taken == ids \cup {h}
             IN  \/ /\ entryInfo' = mapped
                    /\ ids' = taken
                    /\ keyHtbl' = keyHtbl \cup {[key |-> cur[t].key, hdl |-> h]}
                    /\ halfDone' = halfDone \ {cur[t].key}
                    /\ Return(t)
                    /\ UNCHANGED heap
                 \/ /\ MayFail("insert")
                    /\ \E map \in {entryInfo, mapped} : InsertUndone(map, taken, h)
                    /\ halfDone' = halfDone \cup {cur[t].key}
                    /\ AddFail(t)
                    /\ UNCHANGED keyHtbl
       \/ /\ Handles \subseteq ids
          /\ halfDone' = halfDone \cup {cur[t].key}
          /\ AddFail(t)
          /\ UNCHANGED <<keyHtbl, entryInfo, ids>>
    /\ UNCHANGED target

-----------------------------------------------------------------------------
(* pipe_mgr_mat_ent_del_by_match_spec.  Callers never pass the default     *)
(* entry's match spec: resetting the default entry is a different API.     *)

\* The key's node and entry are looked up; a missing key is refused.  A failed
\* allocation of the match spec's copy keeps the session's locks.
DelStart(t) ==
    /\ pc[t] = "idle"
    /\ \E k \in KeysOf[t] \ {DefKey} :
          \/ /\ StoreEntries
             /\ \E n \in Find(k) :
                   cur' = [cur EXCEPT ![t].key = k, ![t].ent = entryInfo[n.hdl]]
             /\ Goto(t, "del_meta")
          \/ /\ ~StoreEntries
             /\ cur' = [cur EXCEPT ![t].key = k]
             /\ Goto(t, "del_meta")
          \/ /\ MayFail("alloc") /\ (StoreEntries => Find(k) # {})
             /\ cur' = cur
             /\ Goto(t, "stuck")
    /\ UNCHANGED <<containers, heap, target>>

\* dal_table_ent_del_by_match_spec: no metadata, no deletion.
DelMeta(t) ==
    /\ pc[t] = "del_meta"
    /\ \/ meta /\ Goto(t, "del_rte") /\ UNCHANGED cur
       \/ ~meta /\ Return(t)
    /\ UNCHANGED <<containers, heap, target>>

\* Mutant: a failure of the target is ignored.
DelRteIgnoresError(t) ==
    /\ pc[t] = "del_rte"
    /\ \/ pending' = [pending EXCEPT ![cur[t].key] =
                         IF dpdk[cur[t].key] = NoData THEN NoData ELSE Delete]
       \/ MayFail("rte") /\ UNCHANGED pending
    /\ Goto(t, "del_commit")
    /\ UNCHANGED <<containers, heap, meta, dpdk, cur>>

\* rte_swx_ctl_pipeline_table_entry_delete: an entry of the running table is
\* scheduled for deletion, one that is only scheduled is forgotten.
DelRte(t) ==
    /\ pc[t] = "del_rte"
    /\ \/ /\ pending' = [pending EXCEPT ![cur[t].key] =
                           IF dpdk[cur[t].key] = NoData THEN NoData ELSE Delete]
          /\ Goto(t, "del_commit") /\ UNCHANGED cur
       \/ MayFail("rte") /\ Return(t) /\ UNCHANGED pending
    /\ UNCHANGED <<containers, heap, meta, dpdk>>

DelCommit(t) ==
    /\ pc[t] = "del_commit"
    /\ \/ /\ CommitAll
          /\ IF StoreEntries THEN Goto(t, "del_key") /\ UNCHANGED cur
                             ELSE Return(t)
       \/ AbortAll /\ Return(t)
    /\ UNCHANGED <<containers, heap, meta>>

\* Mutant: the handle map keeps the handle of the deleted key.
DelKeyKeepsHandle(t) ==
    /\ pc[t] = "del_key"
    /\ \E n \in Find(cur[t].key) : keyHtbl' = keyHtbl \ {n} /\ ids' = ids \ {n.hdl}
    /\ halfDone' = halfDone \ {cur[t].key}
    /\ Goto(t, "del_free")
    /\ UNCHANGED <<entryInfo, heap, target, cur>>

\* pipe_mgr_table_key_delete_internal: search again; a key that is gone is not
\* an error.  When the lookup key cannot be built the call ends here, with the
\* entry deleted from the pipeline and still filed.
DelKey(t) ==
    /\ pc[t] = "del_key"
    /\ \/ /\ \/ \E n \in Find(cur[t].key) :
                   /\ entryInfo' = [entryInfo EXCEPT ![n.hdl] = NoEntry]
                   /\ ids' = ids \ {n.hdl}
                   /\ keyHtbl' = keyHtbl \ {n}
             \/ Find(cur[t].key) = {} /\ UNCHANGED <<keyHtbl, entryInfo, ids>>
          /\ halfDone' = halfDone \ {cur[t].key}
          /\ Goto(t, "del_free")
          /\ UNCHANGED cur
       \/ /\ MayFail("alloc")
          /\ halfDone' = halfDone \cup {cur[t].key}
          /\ Return(t)
          /\ UNCHANGED <<keyHtbl, entryInfo, ids>>
    /\ UNCHANGED <<heap, target>>

\* pipe_mgr_mat_delete_entry_data on the pointer found at the start.
DelFree(t) ==
    /\ pc[t] = "del_free"
    /\ FreeEntry(t, cur[t].ent)
    /\ Return(t)
    /\ UNCHANGED <<containers, target>>

-----------------------------------------------------------------------------
(* Reading an entry by key: pipe_mgr_match_spec_to_ent_hdl, then, as a call *)
(* of its own, pipe_mgr_get_entry with the handle.                          *)

GetHandle(t) ==
    /\ pc[t] = "idle" /\ StoreEntries
    /\ \E k \in KeysOf[t] : \E n \in Find(k) :
          cur' = [cur EXCEPT ![t].key = k, ![t].hdl = n.hdl]
    /\ Goto(t, "get_handle")
    /\ UNCHANGED <<containers, heap, target>>

\* pipe_mgr_table_get: fetch the pointer, release the mutex.
GetEntry(t) ==
    /\ pc[t] = "get_handle"
    /\ IF entryInfo[cur[t].hdl] = NoEntry
         THEN Return(t)
         ELSE /\ cur' = [cur EXCEPT ![t].ent = entryInfo[cur[t].hdl]]
              /\ Goto(t, "get_unpack")
    /\ UNCHANGED <<containers, heap, target>>

\* pipe_mgr_mat_unpack_entry_data: copy out through the pointer.
GetUnpack(t) ==
    /\ pc[t] = "get_unpack"
    /\ Return(t)
    /\ UNCHANGED <<containers, heap, target>>

-----------------------------------------------------------------------------
AddStep(t) ==
    \/ AddStart(t) \/ AddPack(t) \/ AddMeta(t) \/ MetaGet(t) \/ MetaSet(t)
    \/ AddRte(t) \/ AddCommit(t) \/ AddInsert(t)

DelStep(t) ==
    \/ DelStart(t) \/ DelMeta(t) \/ DelRte(t) \/ DelCommit(t)
    \/ DelKey(t) \/ DelFree(t)

GetStep(t) == GetHandle(t) \/ GetEntry(t) \/ GetUnpack(t)

Next == \E t \in Threads : AddStep(t) \/ DelStep(t) \/ GetStep(t)

Spec == Init /\ [][Next]_vars

-----------------------------------------------------------------------------
(* Properties.                                                             *)

AddLabels == {"add_meta", "meta_get", "meta_set", "add_rte", "add_commit",
              "add_insert"}
DelLabels == {"del_meta", "del_rte", "del_commit", "del_key"}
Busy(t) == pc[t] \notin {"idle", "stuck"}
Live(e) == e \in Entries /\ heap[e].st = "live"

\* Type invariant of the containers, the target and the calls.
TypeOK ==
    /\ keyHtbl \in SUBSET Nodes
    /\ entryInfo \in [Handles -> Entries \cup {NoEntry}]
    /\ ids \in SUBSET Handles
    /\ heap \in [Entries -> Contents \cup {Unused, Freed}]
    /\ meta \in BOOLEAN
    /\ pending \in [Keys -> Data \cup {NoData, Delete}]
    /\ dpdk \in [Keys -> Data \cup {NoData}]
    /\ pc \in [Threads -> Labels]
    /\ cur \in [Threads -> Curs]
    /\ halfDone \in SUBSET Keys

\* The allocator and the two containers agree, however many sessions race: a
\* handle is given out exactly when it is in the handle map, and exactly when one
\* node of the key table carries it.  pipe_mgr_table_key_insert, where it fails
\* half way, and _key_delete_internal leave no half entry and lose no handle.
HandlesConsistent ==
    /\ \A h \in Handles : h \in ids <=> entryInfo[h] # NoEntry
    /\ \A h \in Handles : entryInfo[h] # NoEntry <=> \E n \in keyHtbl : n.hdl = h
    /\ \A n, m \in keyHtbl : n.hdl = m.hdl => n = m

\* Work scheduled on the shared control object is of a call that will commit
\* it: no path returns and leaves work for somebody else's commit.
ScheduledWorkOwned ==
    \A k \in Keys : pending[k] # NoData =>
        \E t \in Threads : /\ pc[t] \in {"add_commit", "del_commit"}
                           /\ cur[t].key = k

\* key_htbl serves "duplicate entry detection and access by match spec"
\* (struct pipe_mgr_mat_state): no two entries for a key.
UniqueKeys == \A n, m \in keyHtbl : n.key = m.key => n = m

\* No call and no handle refers to an entry that has been freed.
NoDangling ==
    /\ \A t \in Threads :
          pc[t] \in AddLabels \cup {"del_free", "get_unpack"}
             /\ cur[t].ent # NoEntry => Live(cur[t].ent)
    /\ \A h \in Handles : entryInfo[h] # NoEntry => Live(entryInfo[h])

\* Every allocated entry is reachable: from its handle, or from the call that
\* is adding or deleting it.
NoLostEntry ==
    \A e \in Entries : Live(e) =>
        \/ \E h \in Handles : entryInfo[h] = e
        \/ \E t \in Threads : pc[t] \in AddLabels \cup {"del_free"} /\ cur[t].ent = e

\* Whenever no call is working on a key, what pipe_mgr reports for it is what
\* the pipeline matches: present in both with the same data, or in neither.  The
\* one exception is a key whose last call gave up in the containers
\* (pipe_mgr_table_key_insert or _key_delete_internal failed) after its commit;
\* the next call on it that succeeds makes the two agree again.
SwMatchesHw ==
    \A k \in Keys \ halfDone : (\A t \in Threads : Busy(t) => cur[t].key # k) =>
        /\ Find(k) = {} <=> dpdk[k] = NoData
        /\ \A n \in Find(k) : /\ Live(entryInfo[n.hdl])
                              /\ heap[entryInfo[n.hdl]].data = dpdk[k]

\* A get by key that goes through a handle returns the entry of that key: the
\* handle has not been reused for another key meanwhile.
GetReturnsRequestedKey ==
    \A t \in Threads : pc[t] = "get_unpack" =>
        Live(cur[t].ent) /\ heap[cur[t].ent].key = cur[t].key

-----------------------------------------------------------------------------
(* Inductive invariants.                                                   *)

\* What a call holds follows from where it is.
CallsTyped ==
    \A t \in Threads :
        /\ pc[t] \in AddLabels \cup {"add_pack"} => cur[t].data \in Data
        /\ pc[t] \in AddLabels => cur[t].ent \in Entries
        /\ pc[t] = "get_handle" => cur[t].hdl \in Handles

\* For any sessions and any failures.
MatInv == TypeOK /\ CallsTyped /\ HandlesConsistent /\ ScheduledWorkOwned

\* Sessions of a table with stored entries that share no key.
OwnKeys ==
    /\ StoreEntries
    /\ \A t, u \in Threads : t # u => KeysOf[t] \cap KeysOf[u] = {}

\* An entry carries the key it is filed under, and so does the entry a call
\* holds: under OwnKeys the key tells whose the entry is.
Carries(e, k) == Live(e) /\ heap[e].key = k

Holding(t) == pc[t] \in AddLabels \cup {"del_free"}

OwnCall(t) ==
    /\ Busy(t) => cur[t].key \in KeysOf[t]
    /\ Holding(t) \/ pc[t] = "add_pack" => Find(cur[t].key) = {}
    /\ Holding(t) => Carries(cur[t].ent, cur[t].key)
    /\ pc[t] \in AddLabels => heap[cur[t].ent].data = cur[t].data
    /\ pc[t] \in DelLabels \cup {"get_unpack"} =>
          \E n \in Find(cur[t].key) : entryInfo[n.hdl] = cur[t].ent
    /\ pc[t] = "get_handle" => \E n \in Find(cur[t].key) : n.hdl = cur[t].hdl

OwnInv ==
    /\ UniqueKeys
    /\ \A n \in keyHtbl : Carries(entryInfo[n.hdl], n.key)
    /\ \A t \in Threads : OwnCall(t)
    /\ NoLostEntry

-----------------------------------------------------------------------------
(* What the table promises: one atomic map from keys to data.              *)
StoredData(k) ==
    IF Find(k) = {} THEN NoData
    ELSE heap[entryInfo[(CHOOSE n \in Find(k) : TRUE).hdl]].data

Abstract == INSTANCE MatTable WITH table <- [k \in Keys |-> StoredData(k)]

\* The calls, each several steps long and interleaved, implement the atomic
\* table: an addition takes effect on an absent key, a deletion removes it.
ImplementsTable == Abstract!Spec

-----------------------------------------------------------------------------
(* The inductive invariant of SwMatchesHw.                                 *)

\* A target that commits what it accepts.
TargetCommits == "commit" \notin Failures

Committing(t) == pc[t] \in {"add_commit", "add_insert", "del_commit", "del_key"}

\* Between the scheduling of an entry and the update of the containers it is
\* known what the pipeline holds for the key, whoever commits it first ...
HwCall(t) ==
    LET p == pending[cur[t].key]
        d == dpdk[cur[t].key]
    IN  /\ pc[t] = "add_commit" => p = cur[t].data \/ (p = NoData /\ d = cur[t].data)
        /\ pc[t] = "add_insert" => p = NoData /\ d = cur[t].data
        /\ pc[t] = "del_commit" => p = Delete \/ (p = NoData /\ d = NoData)
        /\ pc[t] = "del_key" => p = NoData /\ d = NoData

\* ... and otherwise nothing is scheduled and the two sides agree.
Settled(k) == pending[k] = NoData /\ (k \notin halfDone => dpdk[k] = StoredData(k))

HwInv ==
    /\ \A t \in Threads : HwCall(t)
    /\ \A k \in Keys :
          (\A t \in Threads : Committing(t) => cur[t].key # k) => Settled(k)
=============================================================================
