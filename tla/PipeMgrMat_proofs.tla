-------------------------- MODULE PipeMgrMat_proofs --------------------------
(***************************************************************************)
(* Proofs about PipeMgrMat, for any sets of sessions, keys, handles and    *)
(* entries.  MatInv holds whatever fails; OwnInv, for sessions with keys   *)
(* of their own, carries NoLostEntry, GetReturnsRequestedKey and the       *)
(* refinement of the abstract table; HwInv, when no commit fails either,   *)
(* carries SwMatchesHw.                                                    *)
(***************************************************************************)
EXTENDS PipeMgrMat, TLAPS

Step(t) == AddStep(t) \/ DelStep(t) \/ GetStep(t)

\* The record of a returned call is well typed.
LEMMA NoCurTyped == NoCur \in Curs
  BY MatAssumption DEF NoCur, Curs

\* The fields of a call's record, and its updates.
LEMMA CurTyped ==
    ASSUME NEW c \in Curs
    PROVE  /\ c.key \in Keys /\ c.data \in Data \cup {NoData}
           /\ c.ent \in Entries \cup {NoEntry} /\ c.hdl \in Handles \cup {NoHandle}
           /\ \A k \in Keys : [c EXCEPT !.key = k] \in Curs
           /\ \A d \in Data : [c EXCEPT !.data = d] \in Curs
           /\ \A e \in Entries \cup {NoEntry} : [c EXCEPT !.ent = e] \in Curs
           /\ \A h \in Handles : [c EXCEPT !.hdl = h] \in Curs
  BY DEF Curs

\* Returning from a call leaves the calls well typed.
LEMMA ReturnTyped ==
    ASSUME NEW t \in Threads, TypeOK, CallsTyped, Return(t)
    PROVE  pc' \in [Threads -> Labels] /\ cur' \in [Threads -> Curs] /\ CallsTyped'
  BY NoCurTyped DEF TypeOK, CallsTyped, Return, Goto, Labels, AddLabels

\* pipe_mgr_mat_delete_entry_data leaves the heap well typed.
LEMMA FreeTyped ==
    ASSUME NEW t \in Threads, NEW e, TypeOK, FreeEntry(t, e)
    PROVE  heap' \in [Entries -> Contents \cup {Unused, Freed}]
  BY Zenon DEF TypeOK, FreeEntry

\* An insertion files the entry under a free handle, or leaves the handles as
\* they were: what it had done is undone.
LEMMA InsertCases ==
    ASSUME NEW t \in Threads, TypeOK, HandlesConsistent, AddInsert(t)
    PROVE  /\ UNCHANGED target
           /\ \/ /\ AddFail(t) /\ UNCHANGED <<keyHtbl, entryInfo, ids>>
                 /\ halfDone' = halfDone \cup {cur[t].key}
              \/ \E h \in Handles :
                    /\ h \notin ids /\ entryInfo[h] = NoEntry
                    /\ entryInfo' = [entryInfo EXCEPT ![h] = cur[t].ent]
                    /\ ids' = ids \cup {h}
                    /\ keyHtbl' = keyHtbl \cup {[key |-> cur[t].key, hdl |-> h]}
                    /\ halfDone' = halfDone \ {cur[t].key}
                    /\ Return(t) /\ UNCHANGED heap
<1>1. CASE Handles \subseteq ids
  BY <1>1, Zenon DEF AddInsert
<1>2. CASE ~(Handles \subseteq ids)
  <2>1. PICK h \in Handles \ ids :
           \/ /\ entryInfo' = [entryInfo EXCEPT ![h] = cur[t].ent]
              /\ ids' = ids \cup {h}
              /\ keyHtbl' = keyHtbl \cup {[key |-> cur[t].key, hdl |-> h]}
              /\ halfDone' = halfDone \ {cur[t].key}
              /\ Return(t) /\ UNCHANGED heap
           \/ /\ \E map \in {entryInfo, [entryInfo EXCEPT ![h] = cur[t].ent]} :
                    InsertUndone(map, ids \cup {h}, h)
              /\ halfDone' = halfDone \cup {cur[t].key}
              /\ AddFail(t) /\ UNCHANGED keyHtbl
    BY <1>2, Zenon DEF AddInsert
  <2>2. entryInfo[h] = NoEntry
    BY <2>1 DEF HandlesConsistent
  <2>3. ASSUME NEW map \in {entryInfo, [entryInfo EXCEPT ![h] = cur[t].ent]},
               InsertUndone(map, ids \cup {h}, h)
        PROVE  entryInfo' = entryInfo /\ ids' = ids
    <3>1. entryInfo' = [map EXCEPT ![h] = NoEntry] /\ ids' = (ids \cup {h}) \ {h}
      BY <2>3 DEF InsertUndone
    <3>2. entryInfo' = entryInfo
      BY <2>2, <3>1 DEF TypeOK
    <3> QED  BY <2>1, <3>1, <3>2
  <2>4. UNCHANGED target
    BY DEF AddInsert
  <2> QED  BY <2>1, <2>2, <2>3, <2>4, Zenon
<1> QED  BY <1>1, <1>2

\* Every step preserves the types and what its call is known to hold.
LEMMA StepTyped ==
    ASSUME NEW t \in Threads, TypeOK, CallsTyped, HandlesConsistent, Step(t)
    PROVE  TypeOK' /\ CallsTyped'
<1> USE MatAssumption DEF TypeOK, CallsTyped, Goto, Labels, AddLabels, containers, target
<1>1. CASE AddStep(t)
  <2>1. CASE AddStart(t)
    <3>1. PICK k \in Keys, d \in Data : cur' = [cur EXCEPT ![t].key = k, ![t].data = d]
      BY <2>1, Zenon DEF AddStart
    <3>2. cur' = [cur EXCEPT ![t] = [[cur[t] EXCEPT !.key = k] EXCEPT !.data = d]]
      BY <3>1, ZenonT(30) DEF Curs
    <3>3. cur' \in [Threads -> Curs]  BY <3>2, CurTyped, Zenon
    <3>4. cur'[t].data \in Data  BY <3>2, CurTyped DEF Curs
    <3> QED  BY <2>1, <3>2, <3>3, <3>4, SMTT(30) DEF AddStart
  <2>2. CASE AddPack(t)
    <3>1. CASE Return(t) /\ UNCHANGED heap
      BY <2>2, <3>1, ReturnTyped DEF AddPack
    <3>2. CASE ~(Return(t) /\ UNCHANGED heap)
      <4>1. PICK e \in Entries :
               /\ heap' = [heap EXCEPT ![e] = [st |-> "live", key |-> cur[t].key,
                                               data |-> cur[t].data]]
               /\ cur' = [cur EXCEPT ![t] = [cur[t] EXCEPT !.ent = e]]
               /\ Goto(t, "add_meta")
        BY <2>2, <3>2, ZenonT(30) DEF AddPack
      <4>2. heap' \in [Entries -> Contents \cup {Unused, Freed}]
        BY <2>2, <4>1, CurTyped, ZenonT(30) DEF AddPack, Contents
      <4>3. cur' \in [Threads -> Curs] /\ cur'[t].ent = e /\ cur'[t].data = cur[t].data
        BY <4>1, CurTyped DEF Curs
      <4> QED  BY <2>2, <4>1, <4>2, <4>3, ZenonT(30) DEF AddPack
    <3> QED  BY <3>1, <3>2, ZenonT(30)
  <2>3. CASE AddMeta(t)  BY <2>3, ZenonT(30) DEF AddMeta
  <2>4. CASE MetaGet(t)
    <3>1. CASE AddFail(t)
      BY <2>4, <3>1, ReturnTyped, FreeTyped, ZenonT(30) DEF MetaGet, AddFail
    <3>2. CASE UNCHANGED <<heap, cur>> /\ Goto(t, "meta_set")
      BY <2>4, <3>2, ZenonT(30) DEF MetaGet
    <3> QED  BY <2>4, <3>1, <3>2, ZenonT(30) DEF MetaGet
  <2>5. CASE MetaSet(t)
    <3>1. CASE AddFail(t) /\ UNCHANGED meta
      BY <2>5, <3>1, ReturnTyped, FreeTyped, ZenonT(30) DEF MetaSet, AddFail
    <3>2. CASE UNCHANGED <<heap, cur>> /\ Goto(t, "add_rte") /\ meta'
      BY <2>5, <3>2, ZenonT(30) DEF MetaSet
    <3> QED  BY <2>5, <3>1, <3>2, ZenonT(30) DEF MetaSet
  <2>6. CASE AddRte(t)
    <3>1. pending' \in [Keys -> Data \cup {NoData, Delete}]
      BY <2>6, CurTyped, ZenonT(30) DEF AddRte
    <3>2. CASE AddFail(t)
      BY <2>6, <3>1, <3>2, ReturnTyped, FreeTyped, ZenonT(30) DEF AddRte, AddFail
    <3>3. CASE UNCHANGED <<heap, cur>> /\ Goto(t, "add_commit")
      BY <2>6, <3>1, <3>3, ZenonT(30) DEF AddRte
    <3> QED  BY <2>6, <3>2, <3>3, ZenonT(30) DEF AddRte
  <2>7. CASE AddCommit(t)
    <3>1. pending' \in [Keys -> Data \cup {NoData, Delete}]
          /\ dpdk' \in [Keys -> Data \cup {NoData}]
      BY <2>7, ZenonT(30) DEF AddCommit, CommitAll, AbortAll
    <3>2. CASE AddFail(t)
      BY <2>7, <3>1, <3>2, ReturnTyped, FreeTyped, ZenonT(30) DEF AddCommit, AddFail
    <3>3. CASE UNCHANGED heap /\ Return(t)
      BY <2>7, <3>1, <3>3, ReturnTyped, ZenonT(30) DEF AddCommit
    <3>4. CASE UNCHANGED <<heap, cur>> /\ Goto(t, "add_insert")
      BY <2>7, <3>1, <3>4, ZenonT(30) DEF AddCommit
    <3> QED  BY <2>7, <3>2, <3>3, <3>4, ZenonT(30) DEF AddCommit
  <2>8. CASE AddInsert(t)
    <3>0. UNCHANGED <<meta, pending, dpdk>> /\ halfDone' \in SUBSET Keys
      <4>1. UNCHANGED <<meta, pending, dpdk>> /\ cur[t].key \in Keys
        BY <2>8, CurTyped, InsertCases, ZenonT(30)
      <4>2. halfDone' \in {halfDone \cup {cur[t].key}, halfDone \ {cur[t].key}}
        BY <2>8, InsertCases, Zenon
      <4> QED  BY <4>1, <4>2, Zenon
    <3>1. CASE AddFail(t) /\ UNCHANGED <<keyHtbl, entryInfo, ids>>
      BY <3>0, <3>1, ReturnTyped, FreeTyped, ZenonT(30) DEF AddFail
    <3>2. CASE ~(AddFail(t) /\ UNCHANGED <<keyHtbl, entryInfo, ids>>)
      <4>1. PICK h \in Handles :
               /\ entryInfo' = [entryInfo EXCEPT ![h] = cur[t].ent]
               /\ ids' = ids \cup {h}
               /\ keyHtbl' = keyHtbl \cup {[key |-> cur[t].key, hdl |-> h]}
               /\ Return(t) /\ UNCHANGED heap
        BY <2>8, <3>2, InsertCases, Zenon
      <4>2. entryInfo' \in [Handles -> Entries \cup {NoEntry}]
        BY <4>1, CurTyped, ZenonT(30)
      <4>3. keyHtbl' \in SUBSET Nodes
        BY <4>1, CurTyped, SMTT(20) DEF Nodes
      <4> QED  BY <3>0, <4>1, <4>2, <4>3, ReturnTyped, ZenonT(30)
    <3> QED  BY <3>1, <3>2, ZenonT(30)
  <2> QED  BY <1>1, <2>1, <2>2, <2>3, <2>4, <2>5, <2>6, <2>7, <2>8, ZenonT(30) DEF AddStep
<1>2. CASE DelStep(t)
  <2>1. CASE DelStart(t)
    <3>1. cur' \in [Threads -> Curs]
      <4>1. CASE cur' = cur  BY <4>1, ZenonT(30)
      <4>2. CASE cur' # cur
        <5>1. PICK k \in Keys, e \in Entries \cup {NoEntry} :
                 \/ cur' = [cur EXCEPT ![t].key = k, ![t].ent = e]
                 \/ cur' = [cur EXCEPT ![t].key = k]
          BY <2>1, <4>2, Zenon DEF DelStart, Find, Nodes
        <5>2. cur' \in {[cur EXCEPT ![t] = [[cur[t] EXCEPT !.key = k] EXCEPT !.ent = e]],
                        [cur EXCEPT ![t] = [cur[t] EXCEPT !.key = k]]}
          BY <5>1, ZenonT(30) DEF Curs
        <5>3. [cur[t] EXCEPT !.key = k] \in Curs  BY CurTyped, ZenonT(30)
        <5>4. [[cur[t] EXCEPT !.key = k] EXCEPT !.ent = e] \in Curs  BY <5>3, CurTyped, Zenon
        <5> QED  BY <5>2, <5>3, <5>4, ZenonT(30)
      <4> QED  BY <4>1, <4>2, ZenonT(30)
    <3>2. \A u \in Threads \ {t} : cur'[u] = cur[u]
      BY <2>1, ZenonT(30) DEF DelStart
    <3>3. pc' \in [Threads -> Labels] /\ pc'[t] \in {"del_meta", "stuck"}
          /\ \A u \in Threads \ {t} : pc'[u] = pc[u]
      BY <2>1, ZenonT(30) DEF DelStart
    <3> QED  BY <2>1, <3>1, <3>2, <3>3, ZenonT(30) DEF DelStart
  <2>2. CASE DelMeta(t)
    BY <2>2, ReturnTyped, ZenonT(60) DEF DelMeta
  <2>3. CASE DelRte(t)
    <3>1. pending' \in [Keys -> Data \cup {NoData, Delete}]
      BY <2>3, CurTyped, ZenonT(30) DEF DelRte
    <3> QED  BY <2>3, <3>1, ReturnTyped, ZenonT(60) DEF DelRte
  <2>4. CASE DelCommit(t)
    BY <2>4, ReturnTyped DEF DelCommit, CommitAll, AbortAll
  <2>5. CASE DelKey(t)
    <3>1. UNCHANGED <<heap, meta, pending, dpdk>> /\ cur[t].key \in Keys
      BY <2>5, CurTyped, ZenonT(30) DEF DelKey
    <3>2. halfDone' \in SUBSET Keys /\ ids' \in SUBSET Handles
      BY <2>5, <3>1, ZenonT(30) DEF DelKey
    <3>3. keyHtbl' \in SUBSET Nodes /\ entryInfo' \in [Handles -> Entries \cup {NoEntry}]
      BY <2>5, ZenonT(30) DEF DelKey, Find
    <3>4. CASE Return(t)
      BY <3>1, <3>2, <3>3, <3>4, ReturnTyped, ZenonT(30)
    <3>5. CASE Goto(t, "del_free") /\ UNCHANGED cur
      BY <3>1, <3>2, <3>3, <3>5, ZenonT(30)
    <3> QED  BY <2>5, <3>4, <3>5, ZenonT(30) DEF DelKey
  <2>6. CASE DelFree(t)
    BY <2>6, ReturnTyped, FreeTyped, ZenonT(30) DEF DelFree
  <2> QED  BY <1>2, <2>1, <2>2, <2>3, <2>4, <2>5, <2>6, ZenonT(30) DEF DelStep
<1>3. CASE GetStep(t)
  <2>1. CASE GetHandle(t)
    <3>1. PICK k \in Keys, h \in Handles : cur' = [cur EXCEPT ![t].key = k, ![t].hdl = h]
      BY <2>1, Zenon DEF GetHandle, Find, Nodes
    <3>2. cur' = [cur EXCEPT ![t] = [[cur[t] EXCEPT !.key = k] EXCEPT !.hdl = h]]
      BY <3>1, ZenonT(30) DEF Curs
    <3>3. cur' \in [Threads -> Curs]  BY <3>2, CurTyped, Zenon
    <3>4. cur'[t].hdl \in Handles  BY <3>2, CurTyped DEF Curs
    <3> QED  BY <2>1, <3>2, <3>3, <3>4, ZenonT(30) DEF GetHandle
  <2>2. CASE GetEntry(t)
    <3>1. CASE Return(t)  BY <2>2, <3>1, ReturnTyped, ZenonT(30) DEF GetEntry
    <3>2. CASE ~Return(t)
      <4>1. PICK e \in Entries : cur' = [cur EXCEPT ![t] = [cur[t] EXCEPT !.ent = e]]
        BY <2>2, <3>2, ZenonT(30) DEF GetEntry
      <4>2. cur' \in [Threads -> Curs]
        BY <4>1, CurTyped, ZenonT(30)
      <4> QED  BY <2>2, <3>2, <4>1, <4>2, ZenonT(60) DEF GetEntry
    <3> QED  BY <3>1, <3>2, ZenonT(30)
  <2>3. CASE GetUnpack(t)
    BY <2>3, ReturnTyped, ZenonT(30) DEF GetUnpack
  <2> QED  BY <1>3, <2>1, <2>2, <2>3, ZenonT(30) DEF GetStep
<1> QED  BY <1>1, <1>2, <1>3, ZenonT(30) DEF Step

\* Every step preserves the agreement of the allocator and the containers.
LEMMA StepHandles ==
    ASSUME NEW t \in Threads, TypeOK, CallsTyped, HandlesConsistent, Step(t)
    PROVE  HandlesConsistent'
<1> USE MatAssumption DEF TypeOK, HandlesConsistent, containers, target
<1>1. CASE AddStep(t)
  <2>1. CASE AddStart(t)  BY <2>1, ZenonT(30) DEF AddStart
  <2>2. CASE AddPack(t)  BY <2>2, ZenonT(30) DEF AddPack, Contents, Return
  <2>3. CASE AddMeta(t)  BY <2>3, ZenonT(30) DEF AddMeta
  <2>4. CASE MetaGet(t)  BY <2>4, ZenonT(30) DEF MetaGet, AddFail, FreeEntry, Return
  <2>5. CASE MetaSet(t)  BY <2>5, ZenonT(30) DEF MetaSet, AddFail, FreeEntry, Return
  <2>6. CASE AddRte(t)  BY <2>6, ZenonT(30) DEF AddRte, AddFail, FreeEntry, Return
  <2>7. CASE AddCommit(t)  BY <2>7, ZenonT(30) DEF AddCommit, AddFail, FreeEntry, Return, CommitAll, AbortAll
  <2>8. CASE AddInsert(t)
    <3>1. CASE UNCHANGED <<keyHtbl, entryInfo, ids>>  BY <3>1, ZenonT(30)
    <3>2. CASE ~UNCHANGED <<keyHtbl, entryInfo, ids>>
      <4>1. PICK h \in Handles :
               /\ entryInfo[h] = NoEntry
               /\ entryInfo' = [entryInfo EXCEPT ![h] = cur[t].ent]
               /\ ids' = ids \cup {h}
               /\ keyHtbl' = keyHtbl \cup {[key |-> cur[t].key, hdl |-> h]}
        BY <2>8, <3>2, InsertCases, Zenon
      <4>2. cur[t].ent # NoEntry  BY <2>8, ZenonT(30) DEF AddInsert, CallsTyped, AddLabels
      <4>3. \A n \in keyHtbl : n.hdl \in Handles /\ n.hdl # h
        BY <4>1, ZenonT(30) DEF Nodes
      <4>4. \A g \in Handles : entryInfo'[g] # NoEntry <=> \E n \in keyHtbl' : n.hdl = g
        <5> TAKE g \in Handles
        <5> DEFINE node == [key |-> cur[t].key, hdl |-> h]
        <5>1. node \in keyHtbl' /\ node.hdl = h  BY <4>1, ZenonT(30)
        <5>2. CASE g = h  BY <4>1, <4>2, <5>1, <5>2, Zenon
        <5>3. CASE g # h  BY <4>1, <5>3
        <5> QED  BY <5>2, <5>3, ZenonT(30)
      <4>5. \A n, m \in keyHtbl' : n.hdl = m.hdl => n = m
        BY <4>1, <4>3
      <4>6. \A g \in Handles : g \in ids' <=> entryInfo'[g] # NoEntry
        BY <4>1, <4>2
      <4> QED  BY <4>4, <4>5, <4>6, ZenonT(30)
    <3> QED  BY <3>1, <3>2, ZenonT(30)
  <2> QED  BY <1>1, <2>1, <2>2, <2>3, <2>4, <2>5, <2>6, <2>7, <2>8, ZenonT(30) DEF AddStep
<1>2. CASE DelStep(t)
  <2>1. CASE DelStart(t)  BY <2>1, ZenonT(30) DEF DelStart, Find, Nodes
  <2>2. CASE DelMeta(t)  BY <2>2, ZenonT(30) DEF DelMeta, Return
  <2>3. CASE DelRte(t)  BY <2>3, ZenonT(30) DEF DelRte, Return
  <2>4. CASE DelCommit(t)  BY <2>4, ZenonT(30) DEF DelCommit, Return, CommitAll, AbortAll
  <2>5. CASE DelKey(t)
    <3>1. CASE UNCHANGED <<keyHtbl, entryInfo, ids>>  BY <3>1, ZenonT(30)
    <3>2. CASE ~UNCHANGED <<keyHtbl, entryInfo, ids>>
      <4>1. PICK n \in keyHtbl : /\ entryInfo' = [entryInfo EXCEPT ![n.hdl] = NoEntry]
                                 /\ ids' = ids \ {n.hdl} /\ keyHtbl' = keyHtbl \ {n}
        BY <2>5, <3>2, Zenon DEF DelKey, Find
      <4>2. \A m \in keyHtbl : m.hdl \in Handles
        BY ZenonT(30) DEF Nodes
      <4>3. \A g \in Handles : g \in ids' <=> entryInfo'[g] # NoEntry
        BY <4>1, <4>2
      <4>4. \A g \in Handles : entryInfo'[g] # NoEntry <=> \E m \in keyHtbl' : m.hdl = g
        BY <4>1, <4>2
      <4>5. \A m, k \in keyHtbl' : m.hdl = k.hdl => m = k
        BY <4>1, ZenonT(30)
      <4> QED  BY <4>3, <4>4, <4>5, ZenonT(30)
    <3> QED  BY <3>1, <3>2, ZenonT(30)
  <2>6. CASE DelFree(t)  BY <2>6, ZenonT(30) DEF DelFree, FreeEntry, Return
  <2> QED  BY <1>2, <2>1, <2>2, <2>3, <2>4, <2>5, <2>6, ZenonT(30) DEF DelStep
<1>3. CASE GetStep(t)
  <2>1. CASE GetHandle(t)  BY <2>1, ZenonT(30) DEF GetHandle, Find, Nodes
  <2>2. CASE GetEntry(t)  BY <2>2, ZenonT(30) DEF GetEntry, Return
  <2>3. CASE GetUnpack(t)  BY <2>3, ZenonT(30) DEF GetUnpack, Return
  <2> QED  BY <1>3, <2>1, <2>2, <2>3, ZenonT(30) DEF GetStep
<1> QED  BY <1>1, <1>2, <1>3, ZenonT(30) DEF Step

\* Every step keeps scheduled work with a call that will commit it.
LEMMA StepScheduled ==
    ASSUME NEW t \in Threads, TypeOK, CallsTyped, HandlesConsistent, ScheduledWorkOwned,
           Step(t)
    PROVE  ScheduledWorkOwned'
<1> USE MatAssumption DEF TypeOK, ScheduledWorkOwned, Goto, containers, target, Curs
<1>1. CASE AddStep(t)
  <2>1. CASE AddStart(t)  BY <2>1 DEF AddStart
  <2>2. CASE AddPack(t)  BY <2>2 DEF AddPack, Contents, Return
  <2>3. CASE AddMeta(t)  BY <2>3, ZenonT(30) DEF AddMeta
  <2>4. CASE MetaGet(t)  BY <2>4 DEF MetaGet, AddFail, FreeEntry, Return
  <2>5. CASE MetaSet(t)  BY <2>5 DEF MetaSet, AddFail, FreeEntry, Return
  <2>6. CASE AddRte(t)  BY <2>6 DEF AddRte, AddFail, FreeEntry, Return
  <2>7. CASE AddCommit(t)  BY <2>7 DEF AddCommit, AddFail, FreeEntry, Return, CommitAll, AbortAll
  <2>8. CASE AddInsert(t)
    <3>1. UNCHANGED <<pending, dpdk>> /\ Return(t) /\ pc[t] = "add_insert"
      BY <2>8, InsertCases, Zenon DEF AddInsert, AddFail
    <3> QED  BY <3>1 DEF Return
  <2> QED  BY <1>1, <2>1, <2>2, <2>3, <2>4, <2>5, <2>6, <2>7, <2>8, ZenonT(30) DEF AddStep
<1>2. CASE DelStep(t)
  <2>1. CASE DelStart(t)  BY <2>1 DEF DelStart, Find, Nodes
  <2>2. CASE DelMeta(t)  BY <2>2 DEF DelMeta, Return
  <2>3. CASE DelRte(t)  BY <2>3, SMTT(30) DEF DelRte, Return
  <2>4. CASE DelCommit(t)  BY <2>4 DEF DelCommit, Return, CommitAll, AbortAll
  <2>5. CASE DelKey(t)
    <3>1. /\ UNCHANGED <<pending, dpdk>> /\ pc[t] = "del_key"
          /\ Return(t) \/ (Goto(t, "del_free") /\ UNCHANGED cur)
      BY <2>5, ZenonT(30) DEF DelKey
    <3> QED  BY <3>1 DEF Return
  <2>6. CASE DelFree(t)  BY <2>6, ZenonT(30) DEF DelFree, FreeEntry, Return
  <2> QED  BY <1>2, <2>1, <2>2, <2>3, <2>4, <2>5, <2>6, ZenonT(30) DEF DelStep
<1>3. CASE GetStep(t)
  <2>1. CASE GetHandle(t)  BY <2>1 DEF GetHandle, Find, Nodes
  <2>2. CASE GetEntry(t)
    <3>0. UNCHANGED pending /\ pc[t] = "get_handle"
      BY <2>2, ZenonT(30) DEF GetEntry
    <3>1. \A u \in Threads \ {t} : pc'[u] = pc[u] /\ cur'[u] = cur[u]
      <4>1. CASE Return(t)  BY <4>1, SMTT(30) DEF Return
      <4>2. CASE ~Return(t)
        <5>1. /\ cur' = [cur EXCEPT ![t].ent = entryInfo[cur[t].hdl]]
              /\ Goto(t, "get_unpack")
          BY <2>2, <4>2, ZenonT(30) DEF GetEntry
        <5> QED  BY <5>1, SMTT(30)
      <4> QED  BY <4>1, <4>2, ZenonT(30)
    <3>2. ASSUME NEW k \in Keys, pending[k] # NoData
          PROVE  \E u \in Threads : pc'[u] \in {"add_commit", "del_commit"} /\ cur'[u].key = k
      <4>1. PICK u \in Threads : pc[u] \in {"add_commit", "del_commit"} /\ cur[u].key = k
        BY <3>2, ZenonT(30)
      <4>2. u # t  BY <3>0, <4>1, ZenonT(30)
      <4> QED  BY <3>1, <4>1, <4>2, ZenonT(30)
    <3> QED  BY <3>0, <3>2, ZenonT(30)
  <2>3. CASE GetUnpack(t)  BY <2>3, ZenonT(30) DEF GetUnpack, Return
  <2> QED  BY <1>3, <2>1, <2>2, <2>3, ZenonT(30) DEF GetStep
<1> QED  BY <1>1, <1>2, <1>3, ZenonT(30) DEF Step

\* The invariant that holds whatever the sessions share and whatever fails.
LEMMA InitMatInv == Init => MatInv
<1> SUFFICES ASSUME Init PROVE MatInv  BY ZenonT(30)
<1>1. TypeOK
  BY MatAssumption, NoCurTyped, Zenon DEF Init, TypeOK, Labels
<1>2. CallsTyped /\ HandlesConsistent /\ ScheduledWorkOwned
  BY ZenonT(30) DEF Init, CallsTyped, HandlesConsistent, ScheduledWorkOwned, AddLabels
<1> QED  BY <1>1, <1>2, ZenonT(30) DEF MatInv

LEMMA NextMatInv == MatInv /\ [Next]_vars => MatInv'
<1> SUFFICES ASSUME MatInv, [Next]_vars PROVE MatInv'  BY ZenonT(30)
<1>1. CASE Next
  <2>1. PICK t \in Threads : Step(t)  BY <1>1, ZenonT(30) DEF Next, Step
  <2> QED  BY <2>1, StepTyped, StepHandles, StepScheduled, ZenonT(30) DEF MatInv
<1>2. CASE UNCHANGED vars
  BY <1>2, ZenonT(30) DEF vars, MatInv, TypeOK, CallsTyped, HandlesConsistent, ScheduledWorkOwned
<1> QED  BY <1>1, <1>2, ZenonT(30)

THEOREM MatInvariant == Spec => []MatInv
<1> QED  BY InitMatInv, NextMatInv, PTL DEF Spec

\* Type correctness of the containers, the target and the calls.
THEOREM TypeCorrect == Spec => []TypeOK
<1>1. MatInv => TypeOK  BY ZenonT(30) DEF MatInv
<1> QED  BY <1>1, MatInvariant, PTL

\* However many sessions race on a key and wherever an insertion fails, the
\* handle allocator, key_htbl and entry_info_htbl agree.
THEOREM HandlesConsistentHolds == Spec => []HandlesConsistent
<1>1. MatInv => HandlesConsistent  BY ZenonT(30) DEF MatInv
<1> QED  BY <1>1, MatInvariant, PTL

\* No call returns and leaves scheduled work for another session's commit.
THEOREM ScheduledWorkOwnedHolds == Spec => []ScheduledWorkOwned
<1>1. MatInv => ScheduledWorkOwned  BY ZenonT(30) DEF MatInv
<1> QED  BY <1>1, MatInvariant, PTL

-----------------------------------------------------------------------------
(* Sessions that share no key.                                             *)

\* A step that leaves the containers and the heap alone preserves OwnInv when
\* the call that takes it is still consistent with them and lets go of nothing.
LEMMA LocalStep ==
    ASSUME NEW t \in Threads, OwnInv, UNCHANGED <<keyHtbl, entryInfo, heap>>,
           \A u \in Threads \ {t} : pc'[u] = pc[u] /\ cur'[u] = cur[u],
           OwnCall(t)', Holding(t) => Holding(t)' /\ cur'[t].ent = cur[t].ent
    PROVE  OwnInv'
<1>1. UniqueKeys' /\ \A n \in keyHtbl' : Carries(entryInfo[n.hdl], n.key)'
  BY ZenonT(30) DEF OwnInv, UniqueKeys, Carries, Live
<1>2. \A u \in Threads : OwnCall(u)'
  <2> SUFFICES ASSUME NEW u \in Threads \ {t} PROVE OwnCall(u)'  BY ZenonT(30)
  <2>1. OwnCall(u)  BY ZenonT(30) DEF OwnInv
  <2> QED  BY <2>1 DEF OwnCall, Busy, Holding, Find, Carries, Live
<1>3. NoLostEntry'
  BY SMTT(30) DEF OwnInv, NoLostEntry, Live, Holding
<1> QED  BY <1>1, <1>2, <1>3, Zenon DEF OwnInv

\* Freeing the entry a call holds disturbs nobody: no node and no other call
\* has it, since it carries a key that is only this call's and not in the table.
LEMMA FreeStep ==
    ASSUME NEW t \in Threads, OwnKeys, TypeOK, HandlesConsistent, OwnInv, Holding(t),
           FreeEntry(t, cur[t].ent), Return(t), UNCHANGED <<keyHtbl, entryInfo>>
    PROVE  OwnInv'
<1> DEFINE e == cur[t].ent
           k == cur[t].key
<1>1. e \in Entries /\ heap[e].key = k /\ k \in KeysOf[t] /\ Find(k) = {}
  BY ZenonT(30) DEF OwnInv, OwnCall, Carries, Live, Holding, Busy, AddLabels
<1>2. /\ heap'[e].st # "live"
      /\ \A f \in Entries \ {e} : heap'[f] = heap[f]
  BY <1>1, ZenonT(30) DEF FreeEntry, TypeOK, Unused, Freed
<1>3. /\ \A u \in Threads \ {t} : pc'[u] = pc[u] /\ cur'[u] = cur[u]
      /\ pc'[t] = "idle"
  BY ZenonT(30) DEF Return, Goto, TypeOK
<1>4. \A n \in keyHtbl : entryInfo[n.hdl] # e
  BY <1>1, ZenonT(60) DEF OwnInv, Carries, Find
<1>5. UniqueKeys' /\ \A n \in keyHtbl' : Carries(entryInfo[n.hdl], n.key)'
  BY <1>2, <1>4, ZenonT(30) DEF OwnInv, UniqueKeys, Carries, Live
<1>6. ASSUME NEW u \in Threads PROVE OwnCall(u)'
  <2>1. CASE u = t
    BY <2>1, <1>3, ZenonT(30) DEF OwnCall, Busy, Holding, AddLabels, DelLabels
  <2>2. CASE u # t
    <3>1. OwnCall(u) /\ pc'[u] = pc[u] /\ cur'[u] = cur[u]
      BY <1>3, <2>2, ZenonT(30) DEF OwnInv
    <3>2. Holding(u) => cur[u].ent # e
      BY <1>1, <2>2, <3>1, Zenon DEF OwnCall, Carries, OwnKeys, Busy, Holding, AddLabels
    <3>3. Holding(u) => heap'[cur[u].ent] = heap[cur[u].ent]
      BY <1>2, <3>1, <3>2, Zenon DEF OwnCall, Carries, Live
    <3> QED  BY <3>1, <3>3, ZenonT(30) DEF OwnCall, Busy, Holding, Find, Carries, Live
  <2> QED  BY <2>1, <2>2, ZenonT(30)
<1>7. NoLostEntry'
  BY <1>2, <1>3, SMTT(30) DEF OwnInv, NoLostEntry, Live
<1> QED  BY <1>5, <1>6, <1>7, ZenonT(30) DEF OwnInv

\* An addition preserves OwnInv up to the insertion.
LEMMA AddOwn ==
    ASSUME NEW t \in Threads, OwnKeys, MatInv, OwnInv, AddStep(t), ~AddInsert(t)
    PROVE  OwnInv'
<1> USE DEF containers, target
<1>t. /\ keyHtbl \subseteq Nodes /\ entryInfo \in [Handles -> Entries \cup {NoEntry}]
      /\ heap \in [Entries -> Contents \cup {Unused, Freed}]
      /\ pc \in [Threads -> Labels] /\ cur \in [Threads -> Curs]
  BY ZenonT(30) DEF MatInv, TypeOK
<1>0. OwnCall(t)  BY ZenonT(30) DEF OwnInv
<1>1. CASE AddStart(t)
  <2>1. PICK k \in KeysOf[t], d \in Data :
           /\ Find(k) = {} /\ Goto(t, "add_pack")
           /\ cur' = [cur EXCEPT ![t].key = k, ![t].data = d]
    BY <1>1, Zenon DEF AddStart, OwnKeys
  <2>2. cur'[t].key = k  BY <1>t, <2>1, ZenonT(30) DEF Curs
  <2>3. OwnCall(t)'
    BY <1>t, <1>1, <2>1, <2>2 DEF AddStart, OwnCall, Goto, Busy, Holding, AddLabels, DelLabels, Find
  <2> QED  BY <1>t, <1>1, <2>1, <2>3, LocalStep, ZenonT(30) DEF AddStart, Goto, Holding, AddLabels
<1>2. CASE AddPack(t)
  <2>1. CASE UNCHANGED heap
    <3>1. Return(t)  BY <1>t, <1>2, <2>1, SMTT(30) DEF AddPack, MatInv, CallsTyped, Unused, Contents
    <3>2. OwnCall(t)'
      BY <1>t, <3>1, ZenonT(30) DEF Return, OwnCall, Goto, Busy, Holding, AddLabels, DelLabels
    <3> QED  BY <1>2, <2>1, <3>1, <3>2, LocalStep DEF AddPack, Return, Goto, Holding, AddLabels
  <2>2. CASE ~UNCHANGED heap
    <3>1. PICK e \in Entries :
             /\ heap[e] = Unused
             /\ heap' = [heap EXCEPT ![e] = [st |-> "live", key |-> cur[t].key,
                                             data |-> cur[t].data]]
             /\ cur' = [cur EXCEPT ![t].ent = e]
             /\ Goto(t, "add_meta")
      BY <1>2, <2>2, ZenonT(30) DEF AddPack
    <3>2. /\ ~Live(e)
          /\ \A f \in Entries : Live(f) => heap'[f] = heap[f]
      BY <3>1 DEF Live, Unused
    <3>3. UniqueKeys' /\ \A n \in keyHtbl' : Carries(entryInfo[n.hdl], n.key)'
      BY <1>2, <3>2, ZenonT(30) DEF AddPack, OwnInv, UniqueKeys, Carries, Live
    <3>4. cur'[t].ent = e /\ cur'[t].key = cur[t].key /\ cur'[t].data = cur[t].data
      BY <1>t, <3>1, ZenonT(30) DEF Curs
    <3>5. heap'[e].st = "live" /\ heap'[e].key = cur[t].key /\ heap'[e].data = cur[t].data
      BY <1>t, <3>1, ZenonT(30)
    <3>6. ASSUME NEW u \in Threads PROVE OwnCall(u)'
      <4>1. CASE u = t
        BY <1>0, <1>2, <3>1, <3>4, <3>5, <4>1, SMTT(30)
           DEF AddPack, OwnCall, Goto, Busy, Holding, AddLabels, DelLabels, Find, Carries, Live
      <4>2. CASE u # t
        BY <1>2, <3>1, <3>2, <4>2
           DEF AddPack, OwnInv, OwnCall, Goto, Busy, Holding, AddLabels, Find, Carries, Live
      <4> QED  BY <4>1, <4>2, ZenonT(30)
    <3>7. NoLostEntry'
      BY <1>t, <1>2, <3>1, <3>4, ZenonT(60) DEF AddPack, OwnInv, NoLostEntry, Goto, Live, AddLabels
    <3> QED  BY <3>3, <3>6, <3>7, ZenonT(30) DEF OwnInv
  <2> QED  BY <2>1, <2>2, ZenonT(30)
<1>3. CASE AddFail(t) /\ Holding(t) /\ UNCHANGED containers
  BY <1>3, FreeStep, ZenonT(30) DEF AddFail, MatInv
<1>4. CASE /\ pc[t] \in AddLabels
           /\ UNCHANGED <<keyHtbl, entryInfo, heap, cur>>
           /\ \E l \in AddLabels : Goto(t, l)
  <2>1. PICK l \in AddLabels : Goto(t, l)  BY <1>4, ZenonT(30)
  <2>2. /\ cur[t].key \in KeysOf[t] /\ Find(cur[t].key) = {}
        /\ Carries(cur[t].ent, cur[t].key) /\ heap[cur[t].ent].data = cur[t].data
    BY <1>0, <1>4, ZenonT(30) DEF OwnCall, Busy, Holding, AddLabels
  <2>3. l \notin DelLabels \cup {"get_handle", "get_unpack"}
    BY ZenonT(30) DEF AddLabels, DelLabels
  <2>4. pc'[t] = l  BY <1>t, <2>1, ZenonT(30) DEF Goto
  <2>5. OwnCall(t)'
    BY <1>4, <2>2, <2>3, <2>4, ZenonT(30) DEF OwnCall, Find, Carries, Live
  <2> QED  BY <1>4, <2>1, <2>4, <2>5, LocalStep DEF Goto, Holding
<1>5. CASE AddMeta(t)  BY <1>4, <1>5, ZenonT(30) DEF AddMeta, AddLabels
<1>6. CASE MetaGet(t)  BY <1>3, <1>4, <1>6, ZenonT(30) DEF MetaGet, AddLabels, Holding
<1>7. CASE MetaSet(t)  BY <1>3, <1>4, <1>7, ZenonT(30) DEF MetaSet, AddLabels, Holding
<1>8. CASE AddRte(t)  BY <1>3, <1>4, <1>8, ZenonT(30) DEF AddRte, AddLabels, Holding
<1>9. CASE AddCommit(t)  BY <1>3, <1>4, <1>9, ZenonT(30) DEF AddCommit, AddLabels, Holding, OwnKeys
<1> QED  BY <1>1, <1>2, <1>5, <1>6, <1>7, <1>8, <1>9, ZenonT(30) DEF AddStep

\* The insertion files the entry under a key that has no node.
LEMMA InsertOwn ==
    ASSUME NEW t \in Threads, OwnKeys, MatInv, OwnInv, AddInsert(t)
    PROVE  OwnInv'
<1> USE DEF containers, target
<1>t. /\ keyHtbl \subseteq Nodes /\ entryInfo \in [Handles -> Entries \cup {NoEntry}]
      /\ heap \in [Entries -> Contents \cup {Unused, Freed}]
      /\ pc \in [Threads -> Labels] /\ cur \in [Threads -> Curs]
  BY ZenonT(30) DEF MatInv, TypeOK
<1>0. /\ OwnCall(t) /\ Holding(t) /\ pc[t] = "add_insert"
      /\ cur[t].key \in KeysOf[t] /\ Find(cur[t].key) = {}
      /\ Carries(cur[t].ent, cur[t].key)
  BY Zenon DEF OwnInv, OwnCall, AddInsert, Holding, Busy, AddLabels
<1>1. CASE AddFail(t) /\ UNCHANGED <<keyHtbl, entryInfo, ids>>
  BY <1>0, <1>1, FreeStep, Zenon DEF AddFail, MatInv
<1>2. CASE ~(AddFail(t) /\ UNCHANGED <<keyHtbl, entryInfo, ids>>)
  <2>1. PICK h \in Handles :
           /\ entryInfo[h] = NoEntry
           /\ entryInfo' = [entryInfo EXCEPT ![h] = cur[t].ent]
           /\ keyHtbl' = keyHtbl \cup {[key |-> cur[t].key, hdl |-> h]}
           /\ Return(t) /\ UNCHANGED heap
    BY <1>2, InsertCases, Zenon DEF MatInv
  <2>2. /\ pc'[t] = "idle"
        /\ \A u \in Threads \ {t} : pc'[u] = pc[u] /\ cur'[u] = cur[u]
    BY <1>t, <2>1, ZenonT(30) DEF Return, Goto
  <2>3. \A n \in keyHtbl : /\ n.hdl \in Handles /\ n.hdl # h /\ n.key # cur[t].key
                           /\ entryInfo'[n.hdl] = entryInfo[n.hdl]
    BY <1>t, <1>0, <2>1, Zenon DEF Nodes, MatInv, HandlesConsistent, Find
  <2>4. entryInfo'[h] = cur[t].ent  BY <1>t, <2>1, ZenonT(30)
  <2>5. UniqueKeys'
    BY <2>1, <2>3 DEF OwnInv, UniqueKeys
  <2>6. \A n \in keyHtbl' : Carries(entryInfo[n.hdl], n.key)'
    <3>1. ASSUME NEW n \in keyHtbl PROVE Carries(entryInfo[n.hdl], n.key)'
      <4>1. Carries(entryInfo[n.hdl], n.key)  BY ZenonT(30) DEF OwnInv
      <4> QED  BY <2>1, <2>3, <4>1, ZenonT(30) DEF Carries, Live
    <3>2. ASSUME NEW n, n = [key |-> cur[t].key, hdl |-> h]
          PROVE  Carries(entryInfo[n.hdl], n.key)'
      BY <1>0, <2>1, <2>4, <3>2, ZenonT(30) DEF Carries, Live
    <3> QED  BY <2>1, <3>1, <3>2, ZenonT(30)
  <2>7. ASSUME NEW u \in Threads PROVE OwnCall(u)'
    <3>1. CASE u = t
      BY <2>2, <3>1, ZenonT(30) DEF OwnCall, Busy, Holding, AddLabels, DelLabels
    <3>2. CASE u # t
      <4>1. OwnCall(u) /\ pc'[u] = pc[u] /\ cur'[u] = cur[u]
        BY <2>2, <3>2, ZenonT(30) DEF OwnInv
      <4>2. Busy(u) => cur[u].key # cur[t].key
        BY <1>0, <3>2, <4>1, Zenon DEF OwnCall, OwnKeys
      <4>3. Busy(u) => Find(cur[u].key)' = Find(cur[u].key)
        BY <2>1, <4>1, <4>2 DEF Find
      <4>4. \A n \in Find(cur[u].key) : entryInfo'[n.hdl] = entryInfo[n.hdl]
        BY <2>3, ZenonT(30) DEF Find
      <4> QED
        BY <2>1, <4>1, <4>3, <4>4, Zenon
           DEF OwnCall, Busy, Holding, AddLabels, DelLabels, Carries, Live
    <3> QED  BY <3>1, <3>2, ZenonT(30)
  <2>8. NoLostEntry'
    <3> SUFFICES ASSUME NEW e \in Entries, Live(e)
                 PROVE  \/ \E g \in Handles : entryInfo'[g] = e
                        \/ \E u \in Threads : Holding(u)' /\ cur'[u].ent = e
      BY <2>1, ZenonT(30) DEF NoLostEntry, Holding, Live
    <3>1. CASE e = cur[t].ent  BY <2>4, <3>1, ZenonT(30)
    <3>2. CASE e # cur[t].ent
      <4>1. CASE \E g \in Handles : entryInfo[g] = e
        <5>1. PICK g \in Handles : entryInfo[g] = e  BY <4>1, ZenonT(30)
        <5>2. g # h  BY <2>1, <5>1, MatAssumption, ZenonT(30)
        <5> QED  BY <2>1, <5>1, <5>2
      <4>2. CASE \E u \in Threads : Holding(u) /\ cur[u].ent = e
        BY <2>2, <3>2, <4>2, Zenon DEF Holding
      <4> QED  BY <4>1, <4>2, ZenonT(30) DEF OwnInv, NoLostEntry, Holding
    <3> QED  BY <3>1, <3>2, ZenonT(30)
  <2> QED  BY <2>5, <2>6, <2>7, <2>8, ZenonT(30) DEF OwnInv
<1> QED  BY <1>1, <1>2, ZenonT(30)

\* A deletion: the key is still in the table, with the entry looked up at the
\* start, when it is removed, and nobody else has the entry when it is freed.
LEMMA DelOwn ==
    ASSUME NEW t \in Threads, OwnKeys, MatInv, OwnInv, DelStep(t)
    PROVE  OwnInv'
<1> USE DEF containers, target
<1>t. /\ keyHtbl \subseteq Nodes /\ entryInfo \in [Handles -> Entries \cup {NoEntry}]
      /\ heap \in [Entries -> Contents \cup {Unused, Freed}]
      /\ pc \in [Threads -> Labels] /\ cur \in [Threads -> Curs]
  BY ZenonT(30) DEF MatInv, TypeOK
<1>0. OwnCall(t)  BY ZenonT(30) DEF OwnInv
<1>1. CASE DelStart(t)
  <2>1. CASE pc'[t] = "stuck"
    <3>1. OwnCall(t)'
      BY <2>1, Zenon DEF OwnCall, Busy, Holding, AddLabels, DelLabels
    <3>2. Goto(t, "stuck") /\ cur' = cur  BY <1>t, <1>1, <2>1, ZenonT(30) DEF DelStart, Goto, OwnKeys
    <3> QED  BY <1>1, <3>1, <3>2, LocalStep DEF DelStart, Goto, Holding, AddLabels
  <2>2. CASE pc'[t] # "stuck"
    <3>1. PICK k \in KeysOf[t], n \in keyHtbl :
             /\ n \in Find(k)
             /\ cur' = [cur EXCEPT ![t].key = k, ![t].ent = entryInfo[n.hdl]]
             /\ Goto(t, "del_meta")
      BY <1>t, <1>1, <2>2, ZenonT(30) DEF DelStart, Goto, OwnKeys, Find
    <3>2. cur'[t].key = k /\ cur'[t].ent = entryInfo[n.hdl]  BY <1>t, <3>1, ZenonT(30) DEF Curs
    <3>3. OwnCall(t)'
      BY <1>t, <1>1, <3>1, <3>2, Zenon
         DEF DelStart, OwnCall, Goto, Busy, Holding, AddLabels, DelLabels, Find
    <3> QED  BY <1>t, <1>1, <3>1, <3>3, LocalStep, Zenon DEF DelStart, Goto, Holding, AddLabels
  <2> QED  BY <2>1, <2>2, ZenonT(30)
<1> DEFINE Same == pc[t] \in DelLabels /\ UNCHANGED <<keyHtbl, entryInfo, heap>>
<1>2. CASE Same /\ Return(t)
  <2>1. OwnCall(t)'
    BY <1>t, <1>2, ZenonT(30) DEF Return, Goto, OwnCall, Busy, Holding, AddLabels, DelLabels
  <2> QED  BY <1>2, <2>1, LocalStep, SMTT(60) DEF Return, Goto, Holding, AddLabels, DelLabels
<1>a. ASSUME Same, UNCHANGED cur, NEW l \in DelLabels, Goto(t, l) PROVE OwnInv'
  <2>1. OwnCall(t)'
    BY <1>0, <1>a DEF OwnCall, Goto, Busy, Holding, AddLabels, DelLabels, Find
  <2> QED  BY <1>a, <2>1, LocalStep DEF Goto, Holding, AddLabels, DelLabels
<1>3. CASE DelMeta(t)
  <2>1. Same  BY <1>3, ZenonT(30) DEF DelMeta, DelLabels
  <2>2. Return(t) \/ (UNCHANGED cur /\ Goto(t, "del_rte"))  BY <1>3, ZenonT(30) DEF DelMeta
  <2> QED  BY <2>1, <2>2, <1>2, <1>a, ZenonT(30) DEF DelLabels
<1>4. CASE DelRte(t)
  <2>1. Same  BY <1>4, ZenonT(30) DEF DelRte, DelLabels
  <2>2. Return(t) \/ (UNCHANGED cur /\ Goto(t, "del_commit"))  BY <1>4, ZenonT(30) DEF DelRte
  <2> QED  BY <2>1, <2>2, <1>2, <1>a, ZenonT(30) DEF DelLabels
<1>5. CASE DelCommit(t)
  <2>1. Same  BY <1>5, ZenonT(30) DEF DelCommit, DelLabels
  <2>2. Return(t) \/ (UNCHANGED cur /\ Goto(t, "del_key"))  BY <1>5, ZenonT(30) DEF DelCommit
  <2> QED  BY <2>1, <2>2, <1>2, <1>a, ZenonT(30) DEF DelLabels
<1>b. CASE DelKey(t) /\ Return(t)
  <2>1. CASE Same  BY <1>b, <1>2, <2>1, ZenonT(30)
  <2>2. CASE ~Same
    <3>1. Goto(t, "del_free")  BY <1>b, <2>2, Zenon DEF DelKey, DelLabels
    <3> QED  BY <1>t, <1>b, <3>1, ZenonT(30) DEF Return, Goto
  <2> QED  BY <2>1, <2>2, ZenonT(30)
<1>6. CASE DelKey(t) /\ ~Return(t)
  <2>1. cur[t].key \in KeysOf[t] /\ \E n \in Find(cur[t].key) : entryInfo[n.hdl] = cur[t].ent
    BY <1>0, <1>6, ZenonT(30) DEF DelKey, OwnCall, Busy, DelLabels
  <2>2. PICK n \in Find(cur[t].key) :
           /\ entryInfo' = [entryInfo EXCEPT ![n.hdl] = NoEntry]
           /\ keyHtbl' = keyHtbl \ {n}
    BY <1>6, <2>1, ZenonT(30) DEF DelKey
  <2>3. n \in keyHtbl /\ n.key = cur[t].key /\ n.hdl \in Handles
        /\ entryInfo[n.hdl] = cur[t].ent
    BY <1>t, <2>1, <2>2, ZenonT(30) DEF Find, Nodes, OwnInv, UniqueKeys
  <2>4. \A m \in keyHtbl' : /\ m \in keyHtbl /\ m.hdl \in Handles /\ m.hdl # n.hdl
                            /\ m.key # cur[t].key
                            /\ entryInfo'[m.hdl] = entryInfo[m.hdl]
    <3> TAKE m \in keyHtbl'
    <3>1. m \in keyHtbl /\ m # n /\ m.hdl \in Handles  BY <1>t, <2>2, ZenonT(30) DEF Nodes
    <3>2. m.hdl # n.hdl  BY <2>3, <3>1, ZenonT(30) DEF MatInv, HandlesConsistent
    <3>3. m.key # cur[t].key  BY <2>3, <3>1, ZenonT(30) DEF OwnInv, UniqueKeys
    <3> QED  BY <1>t, <2>2, <3>1, <3>2, <3>3, ZenonT(30)
  <2>5. Goto(t, "del_free") /\ UNCHANGED <<heap, cur>>  BY <1>6, ZenonT(30) DEF DelKey
  <2>6. UniqueKeys' /\ \A m \in keyHtbl' : Carries(entryInfo[m.hdl], m.key)'
    BY <2>4, <2>5, ZenonT(30) DEF OwnInv, UniqueKeys, Carries, Live
  <2>7. Carries(cur[t].ent, cur[t].key)
    BY <2>3, ZenonT(30) DEF OwnInv
  <2>8. ASSUME NEW u \in Threads PROVE OwnCall(u)'
    <3>1. CASE u = t
      <4>1. Find(cur[t].key)' = {}  BY <2>4, <2>5, ZenonT(30) DEF Find
      <4> QED
        BY <1>t, <2>1, <2>5, <2>7, <3>1, <4>1, Zenon
           DEF OwnCall, Goto, Busy, Holding, AddLabels, DelLabels, Carries, Live
    <3>2. CASE u # t
      <4>1. OwnCall(u) /\ pc'[u] = pc[u] /\ cur'[u] = cur[u]
        BY <2>5, <3>2 DEF OwnInv, Goto
      <4>2. Busy(u) => cur[u].key # cur[t].key
        BY <2>1, <3>2, <4>1, Zenon DEF OwnCall, OwnKeys
      <4>3. Busy(u) => Find(cur[u].key)' = Find(cur[u].key)
        BY <2>2, <2>3, <4>1, <4>2, Zenon DEF Find
      <4>4. Busy(u) => \A m \in Find(cur[u].key) : entryInfo'[m.hdl] = entryInfo[m.hdl]
        BY <2>4, <4>3, <4>1, ZenonT(30) DEF Find
      <4> QED
        BY <2>5, <4>1, <4>3, <4>4, Zenon
           DEF OwnCall, Busy, Holding, AddLabels, DelLabels, Carries, Live
    <3> QED  BY <3>1, <3>2, ZenonT(30)
  <2>9. NoLostEntry'
    <3> SUFFICES ASSUME NEW e \in Entries, Live(e)
                 PROVE  \/ \E g \in Handles : entryInfo'[g] = e
                        \/ \E u \in Threads : Holding(u)' /\ cur'[u].ent = e
      BY <2>5, ZenonT(30) DEF NoLostEntry, Holding, Live
    <3>1. CASE e = cur[t].ent  BY <1>t, <2>5, <3>1, ZenonT(30) DEF Goto, Holding
    <3>2. CASE e # cur[t].ent
      BY <1>t, <2>2, <2>3, <2>5, <3>2, Zenon DEF OwnInv, NoLostEntry, Holding, Goto
    <3> QED  BY <3>1, <3>2, ZenonT(30)
  <2> QED  BY <2>6, <2>8, <2>9, ZenonT(30) DEF OwnInv
<1>7. CASE DelFree(t)
  BY <1>7, FreeStep, ZenonT(30) DEF DelFree, Holding, MatInv
<1> QED  BY <1>1, <1>3, <1>4, <1>5, <1>b, <1>6, <1>7, ZenonT(30) DEF DelStep

\* A reader finds its key's node, and then its entry, untouched.
LEMMA GetOwn ==
    ASSUME NEW t \in Threads, OwnKeys, MatInv, OwnInv, GetStep(t)
    PROVE  OwnInv'
<1> USE DEF containers, target
<1>t. /\ keyHtbl \subseteq Nodes /\ entryInfo \in [Handles -> Entries \cup {NoEntry}]
      /\ heap \in [Entries -> Contents \cup {Unused, Freed}]
      /\ pc \in [Threads -> Labels] /\ cur \in [Threads -> Curs]
  BY ZenonT(30) DEF MatInv, TypeOK
<1>0. OwnCall(t)  BY ZenonT(30) DEF OwnInv
<1>1. CASE GetHandle(t)
  <2>1. PICK k \in KeysOf[t], n \in keyHtbl :
           n \in Find(k) /\ cur' = [cur EXCEPT ![t].key = k, ![t].hdl = n.hdl]
    BY <1>1, Zenon DEF GetHandle, Find
  <2>2. cur'[t].key = k /\ cur'[t].hdl = n.hdl  BY <1>t, <2>1, ZenonT(30) DEF Curs
  <2>3. OwnCall(t)'
    BY <1>t, <1>1, <2>1, <2>2, ZenonT(30)
       DEF GetHandle, OwnCall, Goto, Busy, Holding, AddLabels, DelLabels, Find
  <2> QED  BY <1>t, <1>1, <2>1, <2>3, LocalStep, ZenonT(30) DEF GetHandle, Goto, Holding, AddLabels
<1>2. CASE Return(t) /\ ~Holding(t) /\ UNCHANGED <<keyHtbl, entryInfo, heap>>
  <2>1. OwnCall(t)'
    BY <1>t, <1>2, Zenon DEF Return, Goto, OwnCall, Busy, Holding, AddLabels, DelLabels
  <2> QED  BY <1>2, <2>1, LocalStep DEF Return, Goto
<1>3. CASE GetEntry(t)
  <2>1. CASE Return(t)  BY <1>2, <1>3, <2>1, ZenonT(30) DEF GetEntry, Holding, AddLabels
  <2>2. CASE ~Return(t)
    <3>1. /\ pc[t] = "get_handle" /\ Goto(t, "get_unpack")
          /\ cur' = [cur EXCEPT ![t].ent = entryInfo[cur[t].hdl]]
      BY <1>3, <2>2, ZenonT(30) DEF GetEntry
    <3>2. cur'[t].key = cur[t].key /\ cur'[t].ent = entryInfo[cur[t].hdl]
      BY <1>t, <3>1, ZenonT(30) DEF Curs
    <3>3. OwnCall(t)'
      BY <1>0, <1>3, <3>1, <3>2
         DEF GetEntry, OwnCall, Goto, Busy, Holding, AddLabels, DelLabels, Find
    <3> QED  BY <1>3, <3>1, <3>3, LocalStep DEF GetEntry, Goto, Holding, AddLabels
  <2> QED  BY <2>1, <2>2, ZenonT(30)
<1>4. CASE GetUnpack(t)  BY <1>2, <1>4, ZenonT(30) DEF GetUnpack, Holding, AddLabels
<1> QED  BY <1>1, <1>3, <1>4, ZenonT(30) DEF GetStep

LEMMA InitOwnInv == Init => OwnInv
<1> SUFFICES ASSUME Init PROVE OwnInv  BY ZenonT(30)
<1>1. UniqueKeys /\ \A n \in keyHtbl : Carries(entryInfo[n.hdl], n.key)
  BY ZenonT(30) DEF Init, UniqueKeys
<1>2. ASSUME NEW t \in Threads PROVE OwnCall(t)
  BY ZenonT(30) DEF Init, OwnCall, Busy, Holding, AddLabels, DelLabels
<1>3. NoLostEntry
  BY ZenonT(30) DEF Init, NoLostEntry, Live, Unused
<1> QED  BY <1>1, <1>2, <1>3, ZenonT(30) DEF OwnInv

LEMMA NextOwnInv == OwnKeys /\ MatInv /\ OwnInv /\ [Next]_vars => OwnInv'
<1> SUFFICES ASSUME OwnKeys, MatInv, OwnInv, [Next]_vars PROVE OwnInv'  BY ZenonT(30)
<1>1. CASE Next
  <2>1. PICK t \in Threads : Step(t)  BY <1>1, ZenonT(30) DEF Next, Step
  <2> QED  BY <2>1, AddOwn, InsertOwn, DelOwn, GetOwn, ZenonT(30) DEF Step
<1>2. CASE UNCHANGED vars
  <2>1. UniqueKeys' /\ \A n \in keyHtbl' : Carries(entryInfo[n.hdl], n.key)'
    BY <1>2, ZenonT(30) DEF vars, OwnInv, UniqueKeys, Carries, Live
  <2>2. ASSUME NEW t \in Threads PROVE OwnCall(t)'
    <3>1. OwnCall(t)
      BY ZenonT(30) DEF OwnInv
    <3> QED
      BY <1>2, <3>1, Zenon DEF vars, OwnCall, Busy, Holding, Carries, Live, Find
  <2>3. NoLostEntry'
    BY <1>2, ZenonT(30) DEF vars, OwnInv, NoLostEntry, Live
  <2> QED  BY <2>1, <2>2, <2>3, ZenonT(30) DEF OwnInv
<1> QED  BY <1>1, <1>2, ZenonT(30)

THEOREM OwnInvariant == OwnKeys /\ Spec => []OwnInv
<1> SUFFICES ASSUME OwnKeys PROVE Spec => []OwnInv  BY ZenonT(30)
<1>1. MatInv /\ OwnInv /\ [Next]_vars => OwnInv'  BY NextOwnInv, ZenonT(30)
<1> QED  BY <1>1, InitOwnInv, MatInvariant, PTL DEF Spec

\* Sessions that share no key never store two entries for a key.
THEOREM UniqueKeysHolds == OwnKeys /\ Spec => []UniqueKeys
<1>1. OwnInv => UniqueKeys  BY ZenonT(30) DEF OwnInv
<1> QED  BY <1>1, OwnInvariant, PTL

\* ... none of their calls, and no handle, refers to a freed entry ...
THEOREM NoDanglingHolds == OwnKeys /\ Spec => []NoDangling
<1>1. MatInv /\ OwnInv => NoDangling
  <2> SUFFICES ASSUME MatInv, OwnInv PROVE NoDangling  BY ZenonT(30)
  <2>1. ASSUME NEW t \in Threads, pc[t] \in AddLabels \cup {"del_free", "get_unpack"}
        PROVE  Live(cur[t].ent)
    BY <2>1, ZenonT(30) DEF OwnInv, OwnCall, Holding, Carries, Find
  <2>2. ASSUME NEW h \in Handles, entryInfo[h] # NoEntry PROVE Live(entryInfo[h])
    BY <2>2, ZenonT(30) DEF MatInv, HandlesConsistent, OwnInv, Carries
  <2> QED  BY <2>1, <2>2, ZenonT(30) DEF NoDangling
<1> QED  BY <1>1, MatInvariant, OwnInvariant, PTL

\* ... no entry they allocate is lost, on any error path ...
THEOREM NoLostEntryHolds == OwnKeys /\ Spec => []NoLostEntry
<1>1. OwnInv => NoLostEntry  BY ZenonT(30) DEF OwnInv
<1> QED  BY <1>1, OwnInvariant, PTL

\* ... and a get through a handle returns the entry of the key asked for.
THEOREM GetReturnsRequestedKeyHolds == OwnKeys /\ Spec => []GetReturnsRequestedKey
<1>1. OwnInv => GetReturnsRequestedKey
  <2> SUFFICES ASSUME OwnInv, NEW t \in Threads, pc[t] = "get_unpack"
               PROVE  Carries(cur[t].ent, cur[t].key)
    BY ZenonT(30) DEF GetReturnsRequestedKey, Carries
  <2>1. PICK n \in Find(cur[t].key) : entryInfo[n.hdl] = cur[t].ent
    BY ZenonT(30) DEF OwnInv, OwnCall
  <2> QED  BY <2>1, ZenonT(30) DEF OwnInv, Find
<1> QED  BY <1>1, OwnInvariant, PTL

-----------------------------------------------------------------------------
(* The calls of sessions that share no key implement the atomic table.     *)

\* What the table stores for a key, before and after a step.
LEMMA StoredDataIs ==
    ASSUME UniqueKeys, NEW k \in Keys
    PROVE  /\ Find(k) = {} => StoredData(k) = NoData
           /\ \A n \in Find(k) : StoredData(k) = heap[entryInfo[n.hdl]].data
<1>1. ASSUME NEW n \in Find(k) PROVE (CHOOSE m \in Find(k) : TRUE) = n
  <2>1. \A m \in Find(k) : m = n  BY ZenonT(30) DEF Find, UniqueKeys
  <2> QED  BY <2>1, ZenonT(30)
<1> QED  BY <1>1, Zenon DEF StoredData

LEMMA StoredDataIsNext ==
    ASSUME UniqueKeys', NEW k \in Keys
    PROVE  /\ Find(k)' = {} => StoredData(k)' = NoData
           /\ \A n \in Find(k)' : StoredData(k)' = heap'[entryInfo'[n.hdl]].data
<1>1. ASSUME NEW n \in Find(k)' PROVE (CHOOSE m \in Find(k)' : TRUE) = n
  <2>1. \A m \in Find(k)' : m = n  BY ZenonT(30) DEF Find, UniqueKeys
  <2> QED  BY <2>1, ZenonT(30)
<1> QED  BY <1>1, Zenon DEF StoredData

\* A key whose node and entry a step leaves alone keeps its data.
LEMMA StoredDataSame ==
    ASSUME UniqueKeys, UniqueKeys', NEW k \in Keys, Find(k)' = Find(k),
           \A n \in Find(k) : heap'[entryInfo'[n.hdl]] = heap[entryInfo[n.hdl]]
    PROVE  StoredData(k)' = StoredData(k)
<1>1. CASE Find(k) = {}  BY <1>1, StoredDataIs, StoredDataIsNext, ZenonT(30)
<1>2. CASE Find(k) # {}
  <2>1. PICK n : n \in Find(k)  BY <1>2, ZenonT(30)
  <2> QED  BY <2>1, StoredDataIs, StoredDataIsNext
<1> QED  BY <1>1, <1>2, ZenonT(30)

Table == [k \in Keys |-> StoredData(k)]

\* Freeing an entry that a call holds leaves the table alone.
LEMMA FreeTable ==
    ASSUME NEW t \in Threads, TypeOK, OwnInv, OwnInv', Holding(t),
           FreeEntry(t, cur[t].ent), UNCHANGED <<keyHtbl, entryInfo>>
    PROVE  Table' = Table
<1>0. Find(cur[t].key) = {} /\ Carries(cur[t].ent, cur[t].key)
  BY Zenon DEF OwnInv, OwnCall
<1>1. ASSUME NEW n \in keyHtbl
      PROVE  heap'[entryInfo[n.hdl]] = heap[entryInfo[n.hdl]]
  <2>1. n.key # cur[t].key /\ Carries(entryInfo[n.hdl], n.key)
    BY <1>0, ZenonT(30) DEF OwnInv, Find
  <2>2. entryInfo[n.hdl] \in Entries \ {cur[t].ent}
    BY <1>0, <2>1, ZenonT(30) DEF Carries, Live
  <2> QED  BY <2>2, ZenonT(30) DEF FreeEntry, TypeOK
<1>2. UniqueKeys /\ UniqueKeys'  BY ZenonT(30) DEF OwnInv
<1>3. \A k \in Keys : StoredData(k)' = StoredData(k)
  BY <1>1, <1>2, StoredDataSame, ZenonT(30) DEF Find
<1> QED  BY <1>3, ZenonT(30) DEF Table

\* The insertion adds, the removal of the key deletes, all else is invisible.
LEMMA InsertTable ==
    ASSUME NEW t \in Threads, MatInv, OwnInv, OwnInv', AddInsert(t)
    PROVE  \/ AddFail(t) /\ Table' = Table /\ halfDone' = halfDone \cup {cur[t].key}
           \/ /\ cur[t].key \in Keys /\ cur[t].data \in Data
              /\ Table[cur[t].key] = NoData
              /\ Table' = [Table EXCEPT ![cur[t].key] = cur[t].data]
              /\ Return(t) /\ halfDone' = halfDone \ {cur[t].key}
<1> USE DEF containers, target
<1>t. /\ keyHtbl \subseteq Nodes /\ entryInfo \in [Handles -> Entries \cup {NoEntry}]
      /\ heap \in [Entries -> Contents \cup {Unused, Freed}]
      /\ pc \in [Threads -> Labels] /\ cur \in [Threads -> Curs]
  BY ZenonT(30) DEF MatInv, TypeOK
<1>0. PICK key \in Keys : key = cur[t].key  BY <1>t, CurTyped, ZenonT(30)
<1> DEFINE Undone == /\ AddFail(t) /\ UNCHANGED <<keyHtbl, entryInfo, ids>>
                     /\ halfDone' = halfDone \cup {cur[t].key}
<1>1. CASE Undone
  BY <1>1, FreeTable, ZenonT(30) DEF AddFail, AddInsert, Holding, AddLabels, MatInv
<1>2. CASE ~Undone
  <2>1. PICK h \in Handles :
           /\ entryInfo[h] = NoEntry
           /\ entryInfo' = [entryInfo EXCEPT ![h] = cur[t].ent]
           /\ keyHtbl' = keyHtbl \cup {[key |-> key, hdl |-> h]}
           /\ UNCHANGED heap /\ Return(t) /\ halfDone' = halfDone \ {key}
    BY <1>0, <1>2, InsertCases, Zenon DEF MatInv
  <2>2. /\ Find(key) = {} /\ cur[t].data \in Data
        /\ heap[cur[t].ent].data = cur[t].data
    BY <1>0, Zenon DEF AddInsert, MatInv, CallsTyped, OwnInv, OwnCall, Holding, AddLabels
  <2>3. \A n \in keyHtbl : entryInfo'[n.hdl] = entryInfo[n.hdl]
    BY <2>1 DEF Nodes, MatInv, HandlesConsistent
  <2>4. \A k \in Keys \ {key} : StoredData(k)' = StoredData(k)
    <3> TAKE k \in Keys \ {key}
    <3>1. Find(k)' = Find(k)  BY <2>1, SMTT(20) DEF Find
    <3>2. \A n \in Find(k) : heap'[entryInfo'[n.hdl]] = heap[entryInfo[n.hdl]]
      BY <2>1, <2>3, ZenonT(30) DEF Find
    <3> QED  BY <3>1, <3>2, StoredDataSame, Zenon DEF OwnInv
  <2>5. StoredData(key) = NoData
    BY <2>2, StoredDataIs, Zenon DEF OwnInv
  <2>6. StoredData(key)' = cur[t].data
    <3> DEFINE node == [key |-> key, hdl |-> h]
    <3>1. node \in Find(key)' /\ entryInfo'[node.hdl] = cur[t].ent  BY <1>t, <2>1, ZenonT(30) DEF Find
    <3>2. StoredData(key)' = heap'[entryInfo'[node.hdl]].data
      BY <3>1, StoredDataIsNext, ZenonT(30) DEF OwnInv
    <3> QED  BY <2>1, <2>2, <3>1, <3>2, Zenon
  <2>7. Table[key] = NoData /\ Table' = [Table EXCEPT ![key] = cur[t].data]
    BY <2>2, <2>4, <2>5, <2>6, Zenon DEF Table
  <2> QED  BY <1>0, <2>1, <2>2, <2>7, Zenon
<1> QED  BY <1>1, <1>2, ZenonT(30)

LEMMA DeleteTable ==
    ASSUME NEW t \in Threads, MatInv, OwnInv, OwnInv', DelKey(t), pc'[t] = "del_free"
    PROVE  /\ cur[t].key \in Keys /\ Table[cur[t].key] # NoData
           /\ Table' = [Table EXCEPT ![cur[t].key] = NoData]
           /\ halfDone' = halfDone \ {cur[t].key} /\ UNCHANGED cur
<1>t. /\ keyHtbl \subseteq Nodes /\ entryInfo \in [Handles -> Entries \cup {NoEntry}]
      /\ heap \in [Entries -> Contents \cup {Unused, Freed}]
      /\ pc \in [Threads -> Labels] /\ cur \in [Threads -> Curs]
  BY ZenonT(30) DEF MatInv, TypeOK
<1>0. PICK key \in Keys : key = cur[t].key  BY <1>t, CurTyped, ZenonT(30)
<1>1. Find(key) # {}
  BY <1>0, Zenon DEF DelKey, OwnInv, OwnCall, DelLabels
<1>f. ~Return(t)
  BY <1>t, ZenonT(30) DEF Return, Goto
<1>h. halfDone' = halfDone \ {key} /\ UNCHANGED cur
  BY <1>0, <1>f, Zenon DEF DelKey
<1>2. PICK n \in Find(key) :
         /\ entryInfo' = [entryInfo EXCEPT ![n.hdl] = NoEntry]
         /\ keyHtbl' = keyHtbl \ {n} /\ UNCHANGED heap
  BY <1>0, <1>1, <1>f, Zenon DEF DelKey
<1>3. /\ n \in keyHtbl /\ n.key = key /\ n.hdl \in Handles
      /\ Carries(entryInfo[n.hdl], key)
  BY <1>t, <1>2, ZenonT(30) DEF Find, Nodes, OwnInv
<1>4. \A m \in keyHtbl : m.key # key => /\ m \in keyHtbl'
                                        /\ entryInfo'[m.hdl] = entryInfo[m.hdl]
  BY <1>2, <1>3 DEF Nodes, MatInv, HandlesConsistent
<1>5. \A k \in Keys \ {key} : StoredData(k)' = StoredData(k)
  <2> TAKE k \in Keys \ {key}
  <2>1. Find(k)' = Find(k)  BY <1>2, <1>3, ZenonT(30) DEF Find
  <2>2. \A m \in Find(k) : heap'[entryInfo'[m.hdl]] = heap[entryInfo[m.hdl]]
    BY <1>2, <1>4, ZenonT(30) DEF Find
  <2> QED  BY <2>1, <2>2, StoredDataSame, ZenonT(30) DEF OwnInv
<1>6. StoredData(key) # NoData
  <2>1. StoredData(key) = heap[entryInfo[n.hdl]].data
    BY <1>2, StoredDataIs, Zenon DEF OwnInv
  <2>2. heap[entryInfo[n.hdl]].data \in Data
    BY <1>t, <1>3 DEF Carries, Live, Contents, Unused, Freed
  <2> QED  BY <2>1, <2>2, MatAssumption, ZenonT(30)
<1>7. StoredData(key)' = NoData
  <2>1. Find(key)' = {}  BY <1>2, <1>3, ZenonT(30) DEF Find, OwnInv, UniqueKeys
  <2> QED  BY <2>1, StoredDataIsNext, Zenon DEF OwnInv
<1>8. Table[key] # NoData  BY <1>6, ZenonT(30) DEF Table
<1>9. Table' = [Table EXCEPT ![key] = NoData]  BY <1>5, <1>7, Zenon DEF Table
<1> QED  BY <1>0, <1>h, <1>8, <1>9, Zenon

LEMMA GiveUpTable ==
    ASSUME NEW t \in Threads, MatInv, OwnInv, OwnInv', DelKey(t), pc'[t] # "del_free"
    PROVE  /\ Table' = Table /\ Return(t)
           /\ halfDone' = halfDone \cup {cur[t].key}
<1>1. pc \in [Threads -> Labels]
  BY ZenonT(30) DEF MatInv, TypeOK
<1>2. /\ UNCHANGED <<keyHtbl, entryInfo, heap>> /\ Return(t)
      /\ halfDone' = halfDone \cup {cur[t].key}
  BY <1>1, ZenonT(30) DEF DelKey, Goto
<1>3. \A k \in Keys : StoredData(k)' = StoredData(k)
  BY <1>2, StoredDataSame, ZenonT(30) DEF Find, OwnInv
<1> QED  BY <1>2, <1>3, ZenonT(30) DEF Table

LEMMA QuietStepTable ==
    ASSUME NEW t \in Threads, MatInv, OwnInv, OwnInv', Step(t),
           ~AddInsert(t), ~DelKey(t)
    PROVE  Table' = Table
<1> USE DEF containers, target
<1>3. CASE UNCHANGED <<keyHtbl, entryInfo>>
           /\ \A n \in keyHtbl : heap'[entryInfo[n.hdl]] = heap[entryInfo[n.hdl]]
  <2>1. \A k \in Keys : StoredData(k)' = StoredData(k)
    BY <1>3, StoredDataSame, ZenonT(30) DEF Find, OwnInv
  <2> QED  BY <2>1, ZenonT(30) DEF Table
<1>4. CASE AddPack(t)
  <2>1. \A f \in Entries : Live(f) => heap'[f] = heap[f]
    BY <1>4 DEF AddPack, Live, Unused, MatInv, TypeOK
  <2> QED  BY <1>3, <1>4, <2>1, ZenonT(30) DEF AddPack, OwnInv, Carries, Live
<1>5. CASE AddFail(t) /\ Holding(t) /\ UNCHANGED containers
  BY <1>5, FreeTable, ZenonT(30) DEF AddFail, MatInv
<1>6. CASE AddStep(t) /\ ~AddInsert(t) /\ ~AddPack(t)
  <2>1. CASE UNCHANGED heap
    BY <1>3, <1>6, <2>1, ZenonT(30) DEF AddStep, AddStart, AddMeta, MetaGet, MetaSet, AddRte, AddCommit
  <2>2. CASE ~UNCHANGED heap
    BY <1>5, <1>6, <2>2, ZenonT(30) DEF AddStep, AddStart, AddMeta, MetaGet, MetaSet, AddRte, AddCommit,
       Holding, AddLabels
  <2> QED  BY <2>1, <2>2, ZenonT(30)
<1>7. CASE DelFree(t)
  BY <1>7, FreeTable, ZenonT(30) DEF DelFree, Holding, MatInv
<1>8. CASE DelStep(t) /\ ~DelKey(t) /\ ~DelFree(t)
  BY <1>3, <1>8, ZenonT(30) DEF DelStep, DelStart, DelMeta, DelRte, DelCommit
<1>9. CASE GetStep(t)
  BY <1>3, <1>9, ZenonT(30) DEF GetStep, GetHandle, GetEntry, GetUnpack
<1> QED  BY <1>4, <1>6, <1>7, <1>8, <1>9, ZenonT(30) DEF Step

LEMMA StepTable ==
    ASSUME NEW t \in Threads, MatInv, OwnInv, OwnInv', Step(t)
    PROVE  \/ Table' = Table
           \/ \E k \in Keys : Table[k] # NoData /\ Table' = [Table EXCEPT ![k] = NoData]
           \/ \E k \in Keys, d \in Data :
                 Table[k] = NoData /\ Table' = [Table EXCEPT ![k] = d]
<1>1. CASE AddInsert(t)  BY <1>1, InsertTable, ZenonT(30)
<1>2. CASE DelKey(t)  BY <1>2, DeleteTable, GiveUpTable, ZenonT(30)
<1>3. CASE ~AddInsert(t) /\ ~DelKey(t)  BY <1>3, QuietStepTable, ZenonT(30)
<1> QED  BY <1>1, <1>2, <1>3, ZenonT(30)

\* The calls of sessions that share no key, each several steps long and
\* failing anywhere, implement the atomic table.
THEOREM ImplementsTableHolds == OwnKeys /\ Spec => ImplementsTable
<1> SUFFICES ASSUME OwnKeys PROVE Spec => ImplementsTable  BY ZenonT(30)
<1>1. Init => Abstract!Init
  <2> SUFFICES ASSUME Init PROVE Table = [k \in Keys |-> NoData]
    BY ZenonT(30) DEF Abstract!Init, Table
  <2> QED  BY ZenonT(30) DEF Init, Table, StoredData, Find
<1>2. MatInv /\ OwnInv /\ OwnInv' /\ [Next]_vars => [Abstract!Next]_Table
  <2> SUFFICES ASSUME MatInv, OwnInv, OwnInv', [Next]_vars, Table' # Table
               PROVE  Abstract!Next
    BY ZenonT(30)
  <2>1. CASE Next
    <3>1. PICK t \in Threads : Step(t)  BY <2>1, ZenonT(30) DEF Next, Step
    <3>2. \/ \E k \in Keys : Table[k] # NoData /\ Table' = [Table EXCEPT ![k] = NoData]
          \/ \E k \in Keys, d \in Data :
                Table[k] = NoData /\ Table' = [Table EXCEPT ![k] = d]
      BY <3>1, StepTable, ZenonT(30)
    <3> QED  BY <3>2, Zenon DEF Abstract!Next, Abstract!Add, Abstract!Del, Table
  <2>2. CASE UNCHANGED vars
    BY <2>2 DEF vars, Table, StoredData, Find
  <2> QED  BY <2>1, <2>2, ZenonT(30)
<1>3. Spec => []OwnInv  BY OwnInvariant, ZenonT(30)
<1> QED  BY <1>1, <1>2, <1>3, MatInvariant, PTL
         DEF Spec, ImplementsTable, Abstract!Spec, Table

-----------------------------------------------------------------------------
(* Software and target: sessions that share no key, on a target that       *)
(* commits what it accepts.                                                *)

\* Two calls under way never work on the same key.
LEMMA KeysApart ==
    ASSUME OwnKeys, OwnInv, NEW t \in Threads, NEW u \in Threads, t # u,
           Busy(t), Busy(u)
    PROVE  cur[t].key # cur[u].key
<1>1. cur[t].key \in KeysOf[t] /\ cur[u].key \in KeysOf[u]
  BY DEF OwnInv, OwnCall
<1> QED  BY <1>1 DEF OwnKeys

\* A step outside the commit that leaves the target and the table alone.
LEMMA QuietHw ==
    ASSUME HwInv, NEW t \in Threads, UNCHANGED <<pending, dpdk, halfDone>>,
           Table' = Table,
           \A u \in Threads \ {t} : pc'[u] = pc[u] /\ cur'[u] = cur[u],
           ~Committing(t), ~Committing(t)'
    PROVE  HwInv'
<1>1. ASSUME NEW u \in Threads PROVE HwCall(u)'
  <2>1. CASE u = t
    BY <2>1, SMTT(30) DEF HwCall, Committing
  <2>2. CASE u # t
    <3>1. HwCall(u) /\ pc'[u] = pc[u] /\ cur'[u] = cur[u]
      BY <2>2 DEF HwInv
    <3> QED  BY <3>1 DEF HwCall
  <2> QED  BY <2>1, <2>2
<1>2. ASSUME NEW k \in Keys, \A u \in Threads : Committing(u)' => cur'[u].key # k
      PROVE  Settled(k)'
  <2>1. \A u \in Threads : Committing(u) => cur[u].key # k
    BY <1>2 DEF Committing
  <2>2. Settled(k)
    BY <2>1 DEF HwInv
  <2>3. StoredData(k)' = StoredData(k)
    <3>1. Table'[k] = Table[k]
      BY SMTT(30)
    <3> QED  BY <3>1 DEF Table
  <2> QED  BY <2>2, <2>3 DEF Settled
<1> QED  BY <1>1, <1>2, ZenonT(30) DEF HwInv

\* A call schedules work on its key.
LEMMA ScheduleHw ==
    ASSUME OwnKeys, MatInv, OwnInv, HwInv, NEW t \in Threads, Busy(t), ~Committing(t),
           NEW k \in Keys, k = cur[t].key, NEW w,
           pending' = [pending EXCEPT ![k] = w], dpdk' = dpdk, cur' = cur,
           Table' = Table, halfDone' = halfDone,
           \A u \in Threads \ {t} : pc'[u] = pc[u],
           \/ pc'[t] = "add_commit" /\ w = cur[t].data
           \/ pc'[t] = "del_commit" /\ (w = Delete \/ (w = NoData /\ dpdk[k] = NoData))
    PROVE  HwInv'
<1>1. pending'[k] = w /\ \A q \in Keys \ {k} : pending'[q] = pending[q]
  BY ZenonT(30) DEF MatInv, TypeOK
<1>2. ASSUME NEW u \in Threads PROVE HwCall(u)'
  <2>1. CASE u = t
    BY <1>1, <2>1, ZenonT(30) DEF HwCall
  <2>2. CASE u # t
    <3>1. HwCall(u) /\ pc'[u] = pc[u]
      BY <2>2, ZenonT(30) DEF HwInv
    <3>2. Committing(u) => cur[u].key \in Keys \ {k}
      BY <2>2, KeysApart, CurTyped, ZenonT(30) DEF Busy, Committing, MatInv, TypeOK
    <3> QED  BY <1>1, <3>1, <3>2, ZenonT(30) DEF HwCall, Committing
  <2> QED  BY <2>1, <2>2, ZenonT(30)
<1>3. ASSUME NEW q \in Keys, \A u \in Threads : Committing(u)' => cur'[u].key # q
      PROVE  Settled(q)'
  <2>1. q # k
    BY <1>3, ZenonT(30) DEF Committing
  <2>2. \A u \in Threads : Committing(u) => cur[u].key # q
    BY <1>3, ZenonT(30) DEF Committing
  <2>3. Settled(q)
    BY <2>2, ZenonT(30) DEF HwInv
  <2>4. StoredData(q)' = StoredData(q)
    <3>1. Table'[q] = Table[q]
      BY ZenonT(30)
    <3> QED  BY <3>1, ZenonT(30) DEF Table
  <2> QED  BY <1>1, <2>1, <2>3, <2>4, ZenonT(30) DEF Settled
<1> QED  BY <1>2, <1>3, ZenonT(30) DEF HwInv

\* A commit completes what every call has scheduled.
LEMMA CommitHw ==
    ASSUME MatInv, HwInv, NEW t \in Threads, CommitAll, cur' = cur, Table' = Table,
           halfDone' = halfDone,
           \A u \in Threads \ {t} : pc'[u] = pc[u],
           \/ pc[t] = "add_commit" /\ pc'[t] = "add_insert"
           \/ pc[t] = "del_commit" /\ pc'[t] = "del_key"
    PROVE  HwInv'
<1>1. \A k \in Keys : /\ pending'[k] = NoData
                      /\ pending[k] = NoData => dpdk'[k] = dpdk[k]
                      /\ pending[k] = Delete => dpdk'[k] = NoData
                      /\ pending[k] \in Data => dpdk'[k] = pending[k]
  BY MatAssumption, ZenonT(30) DEF CommitAll
<1>2. ASSUME NEW u \in Threads PROVE HwCall(u)'
  <2>1. HwCall(u) /\ cur[u].key \in Keys
    BY CurTyped, ZenonT(30) DEF HwInv, MatInv, TypeOK
  <2>2. pc[u] = "add_commit" => cur[u].data \in Data
    BY ZenonT(30) DEF MatInv, CallsTyped, AddLabels
  <2>3. CASE u = t
    BY <1>1, <2>1, <2>2, <2>3, ZenonT(30) DEF HwCall
  <2>4. CASE u # t
    <3>1. pc'[u] = pc[u]
      BY <2>4, ZenonT(30)
    <3> QED  BY <1>1, <2>1, <2>2, <3>1, ZenonT(30) DEF HwCall
  <2> QED  BY <2>3, <2>4, ZenonT(30)
<1>3. ASSUME NEW q \in Keys, \A u \in Threads : Committing(u)' => cur'[u].key # q
      PROVE  Settled(q)'
  <2>1. \A u \in Threads : Committing(u) => cur[u].key # q
    BY <1>3, ZenonT(30) DEF Committing
  <2>2. Settled(q)
    BY <2>1, ZenonT(30) DEF HwInv
  <2>3. StoredData(q)' = StoredData(q)
    <3>1. Table'[q] = Table[q]
      BY ZenonT(30)
    <3> QED  BY <3>1, ZenonT(30) DEF Table
  <2> QED  BY <1>1, <2>2, <2>3, ZenonT(30) DEF Settled
<1> QED  BY <1>2, <1>3, ZenonT(30) DEF HwInv

\* The containers follow the target, or the call gives up and its key becomes
\* half done.
LEMMA FollowHw ==
    ASSUME OwnKeys, MatInv, OwnInv, HwInv, NEW t \in Threads, Committing(t), ~Committing(t)',
           NEW k \in Keys, k = cur[t].key, pending[k] = NoData,
           UNCHANGED <<pending, dpdk>>,
           \/ Table' = [Table EXCEPT ![k] = dpdk[k]] /\ halfDone' = halfDone \ {k}
           \/ Table' = Table /\ halfDone' = halfDone \cup {k},
           \A u \in Threads \ {t} : pc'[u] = pc[u] /\ cur'[u] = cur[u]
    PROVE  HwInv'
<1>1. ASSUME NEW u \in Threads PROVE HwCall(u)'
  <2>1. CASE u = t
    BY <2>1, ZenonT(30) DEF HwCall, Committing
  <2>2. CASE u # t
    <3>1. HwCall(u) /\ pc'[u] = pc[u] /\ cur'[u] = cur[u]
      BY <2>2, ZenonT(30) DEF HwInv
    <3> QED  BY <3>1, Zenon DEF HwCall
  <2> QED  BY <2>1, <2>2, ZenonT(30)
<1>2. /\ k \notin halfDone' => StoredData(k)' = dpdk[k]
      /\ \A q \in Keys \ {k} : /\ StoredData(q)' = StoredData(q)
                               /\ q \in halfDone' <=> q \in halfDone
  <2>1. CASE Table' = [Table EXCEPT ![k] = dpdk[k]] /\ halfDone' = halfDone \ {k}
    <3>1. Table'[k] = dpdk[k] /\ \A q \in Keys \ {k} : Table'[q] = Table[q]
      BY <2>1, ZenonT(30) DEF Table
    <3> QED  BY <2>1, <3>1, ZenonT(30) DEF Table
  <2>2. CASE Table' = Table /\ halfDone' = halfDone \cup {k}
    <3>1. \A q \in Keys : Table'[q] = Table[q]
      BY <2>2, ZenonT(30)
    <3> QED  BY <2>2, <3>1, ZenonT(30) DEF Table
  <2> QED  BY <2>1, <2>2, ZenonT(30)
<1>3. ASSUME NEW q \in Keys, \A u \in Threads : Committing(u)' => cur'[u].key # q
      PROVE  Settled(q)'
  <2>1. CASE q = k
    BY <1>2, <2>1, ZenonT(30) DEF Settled
  <2>2. CASE q # k
    <3>1. \A u \in Threads : Committing(u) => cur[u].key # q
      BY <1>3, <2>2, ZenonT(30) DEF Committing
    <3>2. Settled(q)
      BY <3>1, ZenonT(30) DEF HwInv
    <3> QED  BY <1>2, <2>2, <3>2, ZenonT(30) DEF Settled
  <2> QED  BY <2>1, <2>2, ZenonT(30)
<1> QED  BY <1>1, <1>3, ZenonT(30) DEF HwInv

\* Every step keeps HwInv.
LEMMA StepHw ==
    ASSUME TargetCommits, OwnKeys, MatInv, OwnInv, OwnInv', HwInv,
           NEW t \in Threads, Step(t)
    PROVE  HwInv'
<1> USE DEF containers, target
<1>1. /\ cur[t].key \in Keys /\ cur \in [Threads -> Curs] /\ pc \in [Threads -> Labels]
      /\ StoreEntries /\ ~MayFail("commit")
  BY CurTyped, ZenonT(30) DEF MatInv, TypeOK, OwnKeys, TargetCommits, MayFail
<1>2. \A u \in Threads \ {t} : pc'[u] = pc[u] /\ cur'[u] = cur[u]
  <2>1. CASE AddStep(t)
    BY <1>1, <2>1, Zenon DEF AddStep, AddStart, AddPack, AddMeta, MetaGet, MetaSet, AddRte,
       AddCommit, AddInsert, AddFail, Return, Goto
  <2>2. CASE DelStep(t)
    BY <1>1, <2>2, Zenon DEF DelStep, DelStart, DelMeta, DelRte, DelCommit, DelKey, DelFree,
       Return, Goto
  <2>3. CASE GetStep(t)
    BY <1>1, <2>3, Zenon DEF GetStep, GetHandle, GetEntry, GetUnpack, Return, Goto
  <2> QED  BY <2>1, <2>2, <2>3, ZenonT(30) DEF Step
<1>3. CASE AddRte(t) /\ pc'[t] = "add_commit"
  <2>1. /\ pending' = [pending EXCEPT ![cur[t].key] = cur[t].data]
        /\ dpdk' = dpdk /\ cur' = cur /\ pc[t] = "add_rte" /\ halfDone' = halfDone
    BY <1>1, <1>3, ZenonT(30) DEF AddRte, AddFail, Return, Goto
  <2>2. cur[t].data \in Data /\ Busy(t) /\ ~Committing(t)
    BY <2>1, ZenonT(30) DEF MatInv, CallsTyped, AddLabels, Busy, Committing
  <2>3. Table' = Table
    BY <1>3, <2>1, QuietStepTable, Zenon DEF AddInsert, DelKey
  <2> QED  BY <1>1, <1>2, <1>3, <2>1, <2>2, <2>3, ScheduleHw, Zenon
<1>4. CASE DelRte(t) /\ pc'[t] = "del_commit"
  <2> DEFINE w == IF dpdk[cur[t].key] = NoData THEN NoData ELSE Delete
  <2>1. /\ pending' = [pending EXCEPT ![cur[t].key] = w] /\ halfDone' = halfDone
        /\ dpdk' = dpdk /\ cur' = cur /\ pc[t] = "del_rte" /\ Busy(t) /\ ~Committing(t)
    BY <1>1, <1>4, Zenon DEF DelRte, Return, Goto, Busy, Committing
  <2>2. w = Delete \/ (w = NoData /\ dpdk[cur[t].key] = NoData)
    BY Zenon
  <2>3. Table' = Table
    BY <1>4, <2>1, QuietStepTable, ZenonT(30) DEF AddInsert, DelKey
  <2> HIDE DEF w
  <2> QED  BY <1>1, <1>2, <1>4, <2>1, <2>2, <2>3, ScheduleHw, ZenonT(30)
<1>5. CASE AddCommit(t)
  <2>1. /\ CommitAll /\ cur' = cur /\ pc[t] = "add_commit" /\ pc'[t] = "add_insert"
        /\ halfDone' = halfDone
    BY <1>1, <1>5, ZenonT(30) DEF AddCommit, AbortAll, Goto
  <2>2. Table' = Table
    BY <2>1, QuietStepTable, ZenonT(30) DEF AddInsert, DelKey
  <2> QED  BY <1>2, <2>1, <2>2, CommitHw, ZenonT(30)
<1>6. CASE DelCommit(t)
  <2>1. /\ CommitAll /\ cur' = cur /\ pc[t] = "del_commit" /\ pc'[t] = "del_key"
        /\ halfDone' = halfDone
    BY <1>1, <1>6, ZenonT(30) DEF DelCommit, AbortAll, Goto
  <2>2. Table' = Table
    BY <2>1, QuietStepTable, ZenonT(30) DEF AddInsert, DelKey
  <2> QED  BY <1>2, <2>1, <2>2, CommitHw, ZenonT(30)
<1>7. CASE AddInsert(t)
  <2>1. pc[t] = "add_insert" /\ Committing(t) /\ UNCHANGED <<pending, dpdk>>
    BY <1>7, ZenonT(30) DEF AddInsert, Committing
  <2>2. pending[cur[t].key] = NoData /\ dpdk[cur[t].key] = cur[t].data
    BY <2>1, ZenonT(30) DEF HwInv, HwCall
  <2>3. /\ \/ /\ Table' = [Table EXCEPT ![cur[t].key] = dpdk[cur[t].key]]
              /\ halfDone' = halfDone \ {cur[t].key}
           \/ Table' = Table /\ halfDone' = halfDone \cup {cur[t].key}
        /\ Return(t)
    BY <1>7, <2>2, InsertTable, Zenon DEF AddFail
  <2>4. ~Committing(t)'
    BY <1>1, <2>3, ZenonT(30) DEF Return, Goto, Committing
  <2> QED  BY <1>1, <1>2, <2>1, <2>2, <2>3, <2>4, FollowHw, ZenonT(30)
<1>8. CASE DelKey(t)
  <2>1. pc[t] = "del_key" /\ Committing(t) /\ UNCHANGED <<pending, dpdk>>
    BY <1>8, ZenonT(30) DEF DelKey, Committing
  <2>2. pending[cur[t].key] = NoData /\ dpdk[cur[t].key] = NoData
    BY <2>1, ZenonT(30) DEF HwInv, HwCall
  <2>3. CASE pc'[t] = "del_free"
    <3>1. /\ Table' = [Table EXCEPT ![cur[t].key] = dpdk[cur[t].key]]
          /\ halfDone' = halfDone \ {cur[t].key}
      BY <1>8, <2>2, <2>3, DeleteTable, Zenon
    <3>2. ~Committing(t)'
      BY <2>3, ZenonT(30) DEF Committing
    <3> QED  BY <1>1, <1>2, <2>1, <2>2, <3>1, <3>2, FollowHw, ZenonT(30)
  <2>4. CASE pc'[t] # "del_free"
    <3>1. Table' = Table /\ halfDone' = halfDone \cup {cur[t].key} /\ Return(t)
      BY <1>8, <2>4, GiveUpTable, Zenon
    <3>2. ~Committing(t)'
      BY <1>1, <3>1, ZenonT(30) DEF Return, Goto, Committing
    <3> QED  BY <1>1, <1>2, <2>1, <2>2, <3>1, <3>2, FollowHw, ZenonT(30)
  <2> QED  BY <2>3, <2>4, ZenonT(30)
<1>9. CASE /\ ~(AddRte(t) /\ pc'[t] = "add_commit") /\ ~(DelRte(t) /\ pc'[t] = "del_commit")
           /\ ~AddCommit(t) /\ ~DelCommit(t) /\ ~AddInsert(t) /\ ~DelKey(t)
  <2>1. Table' = Table
    BY <1>9, QuietStepTable, ZenonT(30)
  <2>2. UNCHANGED <<pending, dpdk, halfDone>> /\ ~Committing(t) /\ ~Committing(t)'
    <3>1. CASE AddStep(t)
      BY <1>1, <1>9, <3>1, Zenon DEF AddStep, AddStart, AddPack, AddMeta, MetaGet, MetaSet, AddRte,
         AddFail, Return, Goto, Committing
    <3>2. CASE DelStep(t)
      BY <1>1, <1>9, <3>2, Zenon DEF DelStep, DelStart, DelMeta, DelRte, DelFree,
         Return, Goto, Committing
    <3>3. CASE GetStep(t)
      BY <1>1, <3>3, ZenonT(30) DEF GetStep, GetHandle, GetEntry, GetUnpack, Return, Goto, Committing
    <3> QED  BY <3>1, <3>2, <3>3, ZenonT(30) DEF Step
  <2> QED  BY <1>2, <2>1, <2>2, QuietHw, ZenonT(30)
<1> QED  BY <1>3, <1>4, <1>5, <1>6, <1>7, <1>8, <1>9, ZenonT(30)

\* Sessions that share no key, on a target that commits what it accepts: when
\* no call works on a key, pipe_mgr and the pipeline agree on it, unless the last
\* call on it gave up in the containers; whatever the other sessions are in the
\* middle of and although every commit applies the work of all of them.
THEOREM SwMatchesHwHolds == TargetCommits /\ OwnKeys /\ Spec => []SwMatchesHw
<1> SUFFICES ASSUME TargetCommits, OwnKeys PROVE Spec => []SwMatchesHw  BY ZenonT(30)
<1>1. Init => HwInv
  <2> SUFFICES ASSUME Init PROVE HwInv  BY ZenonT(30)
  <2>1. \A k \in Keys : StoredData(k) = NoData
    BY ZenonT(30) DEF Init, StoredData, Find
  <2> QED  BY <2>1, ZenonT(30) DEF Init, HwInv, HwCall, Settled
<1>2. MatInv /\ OwnInv /\ OwnInv' /\ HwInv /\ [Next]_vars => HwInv'
  <2> SUFFICES ASSUME MatInv, OwnInv, OwnInv', HwInv, [Next]_vars PROVE HwInv'  BY ZenonT(30)
  <2>1. CASE Next
    <3>1. PICK t \in Threads : Step(t)  BY <2>1, ZenonT(30) DEF Next, Step
    <3> QED  BY <3>1, StepHw, ZenonT(30)
  <2>2. CASE UNCHANGED vars
    <3>1. ASSUME NEW t \in Threads PROVE HwCall(t)'
      <4>1. HwCall(t)  BY ZenonT(30) DEF HwInv
      <4> QED  BY <2>2, <4>1, ZenonT(30) DEF vars, HwCall
    <3>2. ASSUME NEW k \in Keys, \A t \in Threads : Committing(t)' => cur'[t].key # k
          PROVE  Settled(k)'
      <4>1. Settled(k)
        BY <2>2, <3>2, Zenon DEF vars, HwInv, Committing
      <4>2. StoredData(k)' = StoredData(k)
        BY <2>2, StoredDataSame, ZenonT(30) DEF vars, Find, OwnInv
      <4> QED  BY <2>2, <4>1, <4>2, ZenonT(30) DEF vars, Settled
    <3> QED  BY <3>1, <3>2, ZenonT(30) DEF HwInv
  <2> QED  BY <2>1, <2>2, ZenonT(30)
<1>3. MatInv /\ OwnInv /\ HwInv => SwMatchesHw
  <2> SUFFICES ASSUME MatInv, OwnInv, HwInv, NEW k \in Keys, k \notin halfDone,
                      \A t \in Threads : Busy(t) => cur[t].key # k
               PROVE  /\ Find(k) = {} <=> dpdk[k] = NoData
                      /\ \A n \in Find(k) : /\ Live(entryInfo[n.hdl])
                                            /\ heap[entryInfo[n.hdl]].data = dpdk[k]
    BY ZenonT(30) DEF SwMatchesHw
  <2>1. dpdk[k] = StoredData(k)
    BY ZenonT(30) DEF HwInv, Committing, Busy, Settled
  <2>2. ASSUME NEW n \in Find(k)
        PROVE  /\ Live(entryInfo[n.hdl]) /\ heap[entryInfo[n.hdl]].data = dpdk[k]
               /\ dpdk[k] # NoData
    <3>1. Carries(entryInfo[n.hdl], n.key)
      BY ZenonT(30) DEF OwnInv, Find
    <3>2. heap[entryInfo[n.hdl]].data \in Data
      BY <3>1 DEF Carries, Live, Contents, Unused, Freed, MatInv, TypeOK
    <3>3. dpdk[k] = heap[entryInfo[n.hdl]].data
      BY <2>1, StoredDataIs, ZenonT(30) DEF OwnInv
    <3> QED  BY <3>1, <3>2, <3>3, MatAssumption, ZenonT(30) DEF Carries
  <2>3. Find(k) = {} => dpdk[k] = NoData
    BY <2>1, StoredDataIs, ZenonT(30) DEF OwnInv
  <2> QED  BY <2>2, <2>3, ZenonT(30)
<1>4. Spec => []OwnInv
  BY OwnInvariant, ZenonT(30)
<1> QED  BY <1>1, <1>2, <1>3, <1>4, MatInvariant, PTL DEF Spec

=============================================================================
