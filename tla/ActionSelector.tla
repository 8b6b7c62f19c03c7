--------------------------- MODULE ActionSelector ---------------------------
(***************************************************************************)
(* An action profile and the action selector built on it: members, groups  *)
(* of members, and the reference counts that keep a member alive while a   *)
(* group lists it.                                                         *)
(*                                                                         *)
(* pipe_mgr keeps members and groups each in two maps, by handle and by    *)
(* the id the application chose, and programs the DPDK pipeline through a  *)
(* control object that both tables share.  The calls on members hold the   *)
(* mutex of the member table and the call that creates a group that of the *)
(* group table; these schedule work in one step and commit it, and all     *)
(* that is scheduled, in the next, so a member call and a group creation   *)
(* interleave on the control object.  Setting the members of a group and   *)
(* deleting a group hold both mutexes throughout and are one step.  The    *)
(* TDI layer above makes several pipe_mgr calls per operation, with other  *)
(* sessions in between: it looks up a handle for every member id, creates  *)
(* the group, sets its members, and deletes the group again if that fails. *)
(*                                                                         *)
(* The lookups read the entry after releasing the mutex; reading an entry  *)
(* that is freed at that very moment is taken to return the handle it had. *)
(***************************************************************************)
EXTENDS Naturals, Sequences, FiniteSets, FiniteSetsExt

CONSTANTS
    Sessions,
    MemberIds, Handles,         \* of action data entries
    GroupIds, GroupHandles,     \* of selector groups
    ZeroId,                     \* the group id 0 of a zeroed entry
    MaxMbrs,                    \* bound: members listed in one call
    MaxRefs,                    \* bound: above it no group change is started
    RefWrap,                    \* reference_count counts modulo this (2^32)
    MayCall,                    \* MayCall[t]: the operations session t uses
    Failures,                   \* what may fail: "alloc", "rte", "commit"
    NoMember, NoGroup, NoHandle, NoId,
    NullMbrs,                   \* num_mbrs > 0 and mbrs = NULL
    FreedEntry                  \* the entry was freed but is still filed

Operations == {"addMember", "delMember", "addGroup", "modGroup", "delGroup"}

VARIABLES
    member,     \* entry_info_htbl of the ADT table: handle -> entry
    mbrIdHtbl,  \* mbr_id_htbl of the ADT table: member id -> handle
    group,      \* entry_info_htbl of the selector table
    grpIdHtbl,  \* mbr_id_htbl of the selector table: group id -> handle
    target,     \* the tables of the running pipeline
    staged,     \* those tables after the work scheduled on ctl
    crashed,    \* a null or freed entry has been read
    cur         \* the TDI operation each session is in

vars == <<member, mbrIdHtbl, group, grpIdHtbl, target, staged, crashed, cur>>
members == <<member, mbrIdHtbl>>
groups == <<group, grpIdHtbl>>
dpdk == <<target, staged>>

MemberLists == UNION {[1..n -> Handles] : n \in 0..MaxMbrs}
IdLists == UNION {[1..n -> MemberIds] : n \in 0..MaxMbrs}
MemberEntries == [id : MemberIds, refs : 0..RefWrap-1]
GroupEntries == [id : GroupIds, mbrs : MemberLists \cup {NullMbrs, FreedEntry}]
ASSUME SelectorAssumption ==
    /\ ZeroId \in GroupIds
    /\ MaxMbrs \in Nat /\ RefWrap \in Nat \ {0} /\ MaxRefs \in Nat
    /\ MayCall \in [Sessions -> SUBSET Operations]
    /\ Failures \subseteq {"alloc", "rte", "commit"}
    /\ NoHandle \notin Handles \cup GroupHandles /\ NoId \notin MemberIds
    /\ NoMember \notin MemberEntries /\ NoGroup \notin GroupEntries
    /\ {NullMbrs, FreedEntry} \cap MemberLists = {}

Targets == [mbr : [Handles -> MemberIds \cup {NoId}],
            grp : [GroupHandles -> (SUBSET Handles) \cup {NoGroup}]]
Idle == [pc |-> "idle"]
MemberAdds == [pc : {"adtAdd"}, id : MemberIds, h : Handles]
MemberDels == [pc : {"delMember", "adtDel"}, h : Handles]
GroupDels == [pc : {"delGroup"}, g : GroupHandles]
GroupSets == [pc : {"look", "add", "selAdd", "set"}, op : {"addGroup", "modGroup"},
              id : GroupIds, g : GroupHandles \cup {NoHandle},
              ids : IdLists, hdls : MemberLists]
Calls == {Idle} \cup MemberAdds \cup MemberDels \cup GroupDels \cup GroupSets

Init ==
    /\ member = [h \in Handles |-> NoMember]
    /\ mbrIdHtbl = [i \in MemberIds |-> NoHandle]
    /\ group = [g \in GroupHandles |-> NoGroup]
    /\ grpIdHtbl = [i \in GroupIds |-> NoHandle]
    /\ target = [mbr |-> [h \in Handles |-> NoId],
                 grp |-> [g \in GroupHandles |-> NoGroup]]
    /\ staged = target
    /\ crashed = FALSE
    /\ cur = [t \in Sessions |-> Idle]

(***************************************************************************)
(* Scheduling work on the control object and committing it.  A scheduling  *)
(* call that fails midway leaves what was scheduled before it; a commit    *)
(* applies, and a failing commit(ctl, 1) drops, everything scheduled.      *)
(***************************************************************************)
Scheduled(s) == staged' = s /\ UNCHANGED target
Committed(s) == target' = s /\ staged' = s
CommitFails == "commit" \in Failures /\ UNCHANGED target /\ staged' = target

NotCommitted(partly) ==
    \/ "rte" \in Failures /\ staged' \in partly /\ UNCHANGED target
    \/ CommitFails

\* The mutexes of the member and the group table, held between the scheduling
\* and the end of pipe_mgr_adt_ent_add, pipe_mgr_adt_ent_del and
\* pipe_mgr_sel_grp_add.
AdtHeld(t) == cur[t].pc \in {"adtAdd", "adtDel"}
AdtFree == \A t \in Sessions : ~AdtHeld(t)
SelFree == \A t \in Sessions : cur[t].pc # "selAdd"

(***************************************************************************)
(* Members (pipe_mgr_adt.c).                                               *)
(***************************************************************************)
\* The pipeline's member table keyed by entry handle (dal_adt.c).
DalEntAdd(id, h) == [staged EXCEPT !.mbr[h] = id]
DalEntDel(h) == [staged EXCEPT !.mbr[h] = NoId]

\* The handle of a member id (pipe_mgr_adt_ent_hdl_get), NoHandle when none.
HdlFromMbrId(id) == mbrIdHtbl[id]

\* A handle that entry_handle_array can give out.
FreeHandle(h) == member[h] = NoMember

\* Mutant: the entry stays filed by handle when the member id is taken.
AdtEntAddKeepsEntry(id, h) ==
    /\ Committed(staged)
    /\ member' = [member EXCEPT ![h] = [id |-> id, refs |-> 0]]
    /\ mbrIdHtbl' = [mbrIdHtbl EXCEPT ![id] = IF @ = NoHandle THEN h ELSE @]
    /\ UNCHANGED <<groups, crashed>>

\* Mutant: the status of the commit is not looked at.
AdtEntAddIgnoresError(id, h) ==
    /\ Committed(staged) \/ CommitFails
    /\ mbrIdHtbl[id] = NoHandle
    /\ member' = [member EXCEPT ![h] = [id |-> id, refs |-> 0]]
    /\ mbrIdHtbl' = [mbrIdHtbl EXCEPT ![id] = h]
    /\ UNCHANGED <<groups, crashed>>

\* From the commit on.  When the member id is taken, or an allocation fails,
\* the handle is freed and nothing is filed; the pipeline keeps the entry.
\* (The allocations of the resources and of the entry data leave the status
\* at success then; nothing above reads the handle, so it makes no
\* difference here.)
AdtEntAdd(id, h) ==
    /\ \/ /\ Committed(staged)
          /\ mbrIdHtbl[id] = NoHandle
          /\ member' = [member EXCEPT ![h] = [id |-> id, refs |-> 0]]
          /\ mbrIdHtbl' = [mbrIdHtbl EXCEPT ![id] = h]
       \/ /\ Committed(staged)
          /\ mbrIdHtbl[id] # NoHandle \/ "alloc" \in Failures
          /\ UNCHANGED members
       \/ CommitFails /\ UNCHANGED members
    /\ UNCHANGED <<groups, crashed>>

Refs(h) == IF member[h] = NoMember THEN 0 ELSE member[h].refs

\* Mutant: the reference count is not looked at.
DeletableReferenced(h) == member[h] # NoMember

\* Only a member no group refers to is deleted.
Deletable(h) == member[h] # NoMember /\ Refs(h) = 0

\* From the commit on.
AdtEntDel(h) ==
    /\ \/ /\ Committed(staged)
          /\ member' = [member EXCEPT ![h] = NoMember]
          /\ mbrIdHtbl' = [mbrIdHtbl EXCEPT ![member[h].id] = NoHandle]
       \/ CommitFails /\ UNCHANGED members
    /\ UNCHANGED <<groups, crashed>>

\* The positions of hs that the loops over
\* pipe_mgr_adt_member_reference_add_delete get to: they stop at the first
\* handle that names no member.
Reached(hs) ==
    {i \in DOMAIN hs : \A j \in 1..i : member[hs[j]] # NoMember}
AllReached(hs) == Reached(hs) = DOMAIN hs

\* The member table after the loop over hs has added `by' to the counts.
Counted(hs, by) ==
    [h \in Handles |->
        IF member[h] = NoMember THEN NoMember
        ELSE LET times == Cardinality({i \in Reached(hs) : hs[i] = h}) IN
             [id |-> member[h].id,
              refs |-> (member[h].refs + by * times) % RefWrap]]

Increment == 1
Decrement == RefWrap - 1

(***************************************************************************)
(* Groups (pipe_mgr_sel.c).  `ok' is what the call reports.                *)
(***************************************************************************)
Crash == crashed' = TRUE /\ UNCHANGED <<members, groups, dpdk>>

\* The pipeline's groups (dal_table_sel_ent_add_del).
DalGrpAdd(g) == [staged EXCEPT !.grp[g] = {}]
DalGrpDel(g, emptied) == [emptied EXCEPT !.grp[g] = NoGroup]

\* The handle of a group id (pipe_mgr_sel_grp_hdl_get), NoHandle when none.
HdlFromGrpId(id) == grpIdHtbl[id]

\* From the commit on.  When the group id or the handle is taken, or inserting
\* it fails, nothing is filed; the pipeline keeps the new group.
SelGrpAdd(id, g, ok) ==
    /\ \/ /\ ok
          /\ Committed(staged)
          /\ group[g] = NoGroup /\ grpIdHtbl[id] = NoHandle
          /\ group' = [group EXCEPT ![g] = [id |-> id, mbrs |-> <<>>]]
          /\ grpIdHtbl' = [grpIdHtbl EXCEPT ![id] = g]
       \/ /\ ~ok
          /\ Committed(staged)
          /\ \/ group[g] # NoGroup \/ grpIdHtbl[id] # NoHandle
             \/ "alloc" \in Failures
          /\ UNCHANGED groups
       \/ ~ok /\ CommitFails /\ UNCHANGED groups
    /\ UNCHANGED <<members, crashed>>

\* Mutant: the loop over the members stops one short.
WithMembersOneShort(g, hs, k) ==
    [staged EXCEPT !.grp[g] = IF k = 0 THEN @ ELSE @ \cup {hs[i] : i \in 1..k-1}]

\* The target after the first k members of hs have been added to, or deleted
\* from, group g.
WithMembers(g, hs, k) ==
    [staged EXCEPT !.grp[g] = IF k = 0 THEN @ ELSE @ \cup {hs[i] : i \in 1..k}]
WithoutMembers(g, hs, k) ==
    [staged EXCEPT !.grp[g] = IF k = 0 THEN @ ELSE @ \ {hs[i] : i \in 1..k}]

\* DPDK refuses members for a group it does not have.
TargetHas(g, hs) == hs = <<>> \/ staged.grp[g] # NoGroup

MembersFail(g, hs, partly) ==
    \/ ~TargetHas(g, hs) /\ UNCHANGED dpdk
    \/ TargetHas(g, hs) /\ NotCommitted(partly)

\* File the list, or what pipe_mgr_sel_pack_entry_data makes of it.
Listing(g, mbrs) ==
    [group EXCEPT ![g] = IF @ = NoGroup THEN [id |-> ZeroId, mbrs |-> mbrs]
                         ELSE [id |-> @.id, mbrs |-> mbrs]]

\* Whether the entry is filed in the end: inserting one for a handle that is
\* not found may fail.
Filings(g) ==
    {TRUE} \cup IF group[g] = NoGroup /\ "alloc" \in Failures THEN {FALSE} ELSE {}

\* Mutant: the members are not counted.
SelGrpMbrsSetUncounted(g, hs, ok) ==
    /\ ok /\ TargetHas(g, hs)
    /\ Committed(WithMembers(g, hs, Len(hs)))
    /\ group' = Listing(g, hs)
    /\ UNCHANGED <<members, grpIdHtbl, crashed>>

\* The list is replaced without looking at the old one: the counts of the
\* old members stay, and so do the old members in the pipeline's group.
SelGrpMbrsSet(g, hs, ok) ==
    \/ /\ TargetHas(g, hs)
       /\ Committed(WithMembers(g, hs, Len(hs)))
       /\ \E filed \in Filings(g) :
             /\ group' = IF filed THEN Listing(g, hs) ELSE group
             /\ member' = IF filed THEN Counted(hs, Increment) ELSE member
             /\ ok = (filed /\ AllReached(hs))
       /\ UNCHANGED <<mbrIdHtbl, grpIdHtbl, crashed>>
    \/ /\ ~ok
       /\ MembersFail(g, hs, {WithMembers(g, hs, k) : k \in 0..Len(hs)-1})
       /\ group' = IF group[g] = NoGroup THEN group
                   ELSE Listing(g, IF hs = <<>> THEN hs ELSE NullMbrs)
       /\ UNCHANGED <<members, grpIdHtbl, crashed>>
    \/ /\ ~ok
       /\ "alloc" \in Failures /\ hs # <<>>
       /\ group' = IF group[g] = NoGroup THEN group ELSE Listing(g, FreedEntry)
       /\ UNCHANGED <<members, grpIdHtbl, dpdk, crashed>>

\* Mutant: the group stays filed by id.
SelGrpDelKeepsId(g) ==
    /\ IF group[g] = NoGroup THEN UNCHANGED <<group, dpdk>>
       ELSE /\ Committed(DalGrpDel(g, staged))
            /\ group' = [group EXCEPT ![g] = NoGroup]
    /\ UNCHANGED <<members, grpIdHtbl, crashed>>

\* Three steps on the target and the counts: take the members out of the
\* pipeline's group, decrement their counts, delete the group.  The call gives
\* up at the first that fails and undoes nothing.
SelGrpDel(g) ==
    LET hs == group[g].mbrs
        emptied == WithoutMembers(g, hs, Len(hs)) IN
    \/ group[g] = NoGroup /\ UNCHANGED <<members, groups, dpdk, crashed>>
    \/ /\ group[g] # NoGroup
       /\ hs \in {NullMbrs, FreedEntry}
       /\ Crash
    \/ /\ group[g] # NoGroup
       /\ hs \notin {NullMbrs, FreedEntry} /\ hs # <<>>
       /\ MembersFail(g, hs, {WithoutMembers(g, hs, k) : k \in 0..Len(hs)-1})
       /\ UNCHANGED <<members, groups, crashed>>
    \/ /\ group[g] # NoGroup
       /\ hs \notin {NullMbrs, FreedEntry} /\ TargetHas(g, hs)
       /\ member' = Counted(hs, Decrement)
       /\ \/ /\ ~AllReached(hs) \/ staged.grp[g] = NoGroup \/ "rte" \in Failures
             /\ IF hs = <<>> THEN UNCHANGED dpdk ELSE Committed(emptied)
             /\ UNCHANGED groups
          \/ /\ AllReached(hs)
             /\ "commit" \in Failures
             /\ IF hs = <<>> THEN UNCHANGED target /\ staged' = target
                ELSE Committed(emptied)
             /\ UNCHANGED groups
          \/ /\ AllReached(hs)
             /\ staged.grp[g] # NoGroup
             /\ Committed(DalGrpDel(g, emptied))
             /\ group' = [group EXCEPT ![g] = NoGroup]
             /\ grpIdHtbl' = [grpIdHtbl EXCEPT ![group[g].id] = NoHandle]
       /\ UNCHANGED <<mbrIdHtbl, crashed>>

\* A call on an entry that was freed while still filed.
OnFreedEntry(g) ==
    IF group[g] = NoGroup THEN FALSE ELSE group[g].mbrs = FreedEntry

(***************************************************************************)
(* The operations of the TDI tables ActionProfile and Selector.            *)
(***************************************************************************)
Start(t, op) == ~crashed /\ cur[t] = Idle /\ op \in MayCall[t]
At(t, pc) == ~crashed /\ cur[t].pc = pc
Return(t) == cur' = [cur EXCEPT ![t] = Idle]
Continue(t, c) == cur' = [cur EXCEPT ![t] = c]

\* A call refused before it schedules anything changes nothing.
AddMember(t) ==
    /\ Start(t, "addMember") /\ AdtFree
    /\ \E id \in MemberIds, h \in Handles :
          /\ FreeHandle(h)
          /\ Scheduled(DalEntAdd(id, h))
          /\ Continue(t, [pc |-> "adtAdd", id |-> id, h |-> h])
    /\ UNCHANGED <<members, groups, crashed>>

CommitMember(t) ==
    /\ At(t, "adtAdd")
    /\ AdtEntAdd(cur[t].id, cur[t].h)
    /\ Return(t)

\* Mutant: the status of the lookup is not looked at.
DelMemberUnchecked(t) ==
    /\ Start(t, "delMember") /\ AdtFree
    /\ \E id \in MemberIds :
          Continue(t, [pc |-> "delMember", h |-> HdlFromMbrId(id)])
    /\ UNCHANGED <<members, groups, dpdk, crashed>>

DelMember(t) ==
    /\ Start(t, "delMember") /\ AdtFree
    /\ \E id \in MemberIds :
          /\ HdlFromMbrId(id) # NoHandle
          /\ Continue(t, [pc |-> "delMember", h |-> HdlFromMbrId(id)])
    /\ UNCHANGED <<members, groups, dpdk, crashed>>

DelMemberEntry(t) ==
    LET h == cur[t].h IN
    /\ At(t, "delMember") /\ AdtFree
    /\ \/ /\ Deletable(h)
          /\ Scheduled(DalEntDel(h))
          /\ Continue(t, [pc |-> "adtDel", h |-> h])
       \/ /\ ~Deletable(h) \/ "rte" \in Failures
          /\ UNCHANGED dpdk
          /\ Return(t)
    /\ UNCHANGED <<members, groups, crashed>>

CommitMemberDel(t) ==
    /\ At(t, "adtDel")
    /\ AdtEntDel(cur[t].h)
    /\ Return(t)

\* Where the operation goes on: with the next member's handle, or with the
\* group once all handles are known.
Looked(c) ==
    [c EXCEPT !.pc = IF Len(c.hdls) < Len(c.ids) THEN "look"
                     ELSE IF c.op = "addGroup" THEN "add" ELSE "set"]

CountsBounded == \A h \in Handles : Refs(h) <= MaxRefs

AddGroup(t) ==
    /\ Start(t, "addGroup") /\ CountsBounded
    /\ \E id \in GroupIds, ids \in IdLists :
          Continue(t, Looked([pc |-> "look", op |-> "addGroup", id |-> id,
                              g |-> NoHandle, ids |-> ids, hdls |-> <<>>]))
    /\ UNCHANGED <<members, groups, dpdk, crashed>>

ModGroup(t) ==
    /\ Start(t, "modGroup") /\ CountsBounded /\ SelFree
    /\ \E id \in GroupIds, ids \in IdLists :
          /\ HdlFromGrpId(id) # NoHandle
          /\ IF OnFreedEntry(HdlFromGrpId(id))
             THEN crashed' = TRUE /\ UNCHANGED cur
             ELSE /\ Continue(t, Looked([pc |-> "look", op |-> "modGroup",
                                         id |-> id, g |-> HdlFromGrpId(id),
                                         ids |-> ids, hdls |-> <<>>]))
                  /\ UNCHANGED crashed
    /\ UNCHANGED <<members, groups, dpdk>>

LookMember(t) ==
    LET c == cur[t]
        h == HdlFromMbrId(c.ids[Len(c.hdls) + 1]) IN
    /\ At(t, "look") /\ AdtFree
    /\ IF h = NoHandle THEN Return(t)
       ELSE Continue(t, Looked([c EXCEPT !.hdls = Append(@, h)]))
    /\ UNCHANGED <<members, groups, dpdk, crashed>>

AddGroupEntry(t) ==
    /\ At(t, "add") /\ SelFree
    /\ \/ \E g \in GroupHandles :
             /\ staged.grp[g] = NoGroup
             /\ Scheduled(DalGrpAdd(g))
             /\ Continue(t, [cur[t] EXCEPT !.pc = "selAdd", !.g = g])
       \/ /\ (\A g \in GroupHandles : staged.grp[g] # NoGroup) \/ "rte" \in Failures
          /\ UNCHANGED dpdk
          /\ Return(t)
    /\ UNCHANGED <<members, groups, crashed>>

\* A failing allocation of the group's entry is not looked at.
CommitGroup(t) ==
    LET c == cur[t] IN
    /\ At(t, "selAdd")
    /\ \/ \E ok \in BOOLEAN :
             /\ SelGrpAdd(c.id, c.g, ok)
             /\ IF ok THEN Continue(t, [c EXCEPT !.pc = "set"]) ELSE Return(t)
       \/ "alloc" \in Failures /\ Crash /\ UNCHANGED cur

SetMembers(t) ==
    LET c == cur[t] IN
    /\ At(t, "set") /\ AdtFree /\ SelFree
    /\ \/ /\ ~OnFreedEntry(c.g)
          /\ \E ok \in BOOLEAN :
                /\ SelGrpMbrsSet(c.g, c.hdls, ok)
                /\ IF ok \/ c.op = "modGroup" THEN Return(t)
                   ELSE Continue(t, [pc |-> "delGroup", g |-> c.g])
       \/ OnFreedEntry(c.g) /\ Crash /\ UNCHANGED cur

DelGroup(t) ==
    /\ Start(t, "delGroup") /\ SelFree
    /\ \E id \in GroupIds :
          /\ HdlFromGrpId(id) # NoHandle
          /\ IF OnFreedEntry(HdlFromGrpId(id))
             THEN crashed' = TRUE /\ UNCHANGED cur
             ELSE /\ Continue(t, [pc |-> "delGroup", g |-> HdlFromGrpId(id)])
                  /\ UNCHANGED crashed
    /\ UNCHANGED <<members, groups, dpdk>>

\* The second half of a deletion, and the undoing of a failed addition.
DelGroupEntry(t) ==
    /\ At(t, "delGroup") /\ AdtFree /\ SelFree
    /\ SelGrpDel(cur[t].g)
    /\ Return(t)

Next == \E t \in Sessions :
    \/ AddMember(t) \/ CommitMember(t)
    \/ DelMember(t) \/ DelMemberEntry(t) \/ CommitMemberDel(t)
    \/ AddGroup(t) \/ ModGroup(t) \/ LookMember(t)
    \/ AddGroupEntry(t) \/ CommitGroup(t) \/ SetMembers(t)
    \/ DelGroup(t) \/ DelGroupEntry(t)

Spec == Init /\ [][Next]_vars
-----------------------------------------------------------------------------
\* Type correctness of the maps, the target and the operations in progress.
TypeOK ==
    /\ member \in [Handles -> MemberEntries \cup {NoMember}]
    /\ mbrIdHtbl \in [MemberIds -> Handles \cup {NoHandle}]
    /\ group \in [GroupHandles -> GroupEntries \cup {NoGroup}]
    /\ grpIdHtbl \in [GroupIds -> GroupHandles \cup {NoHandle}]
    /\ target \in Targets /\ staged \in Targets
    /\ crashed \in BOOLEAN
    /\ cur \in [Sessions -> Calls]

\* What the step an operation is at says about it: a lookup has a member left
\* to look up, and only an addition that has not created its group has none.
Advanced(c) ==
    /\ c.pc = "look" => Len(c.hdls) < Len(c.ids)
    /\ c.pc = "add" => c.op = "addGroup"
    /\ c.pc \in {"selAdd", "set"} \/ (c.pc = "look" /\ c.op = "modGroup") => c.g # NoHandle
CallsAdvance == \A t \in Sessions : Advanced(cur[t])

\* The mutex of the member table has one holder, and a handle that is being
\* given out is filed for no member until the holder files it.
AdtExclusive ==
    /\ \A t, u \in Sessions : AdtHeld(t) /\ AdtHeld(u) => t = u
    /\ \A t \in Sessions :
          /\ cur[t].pc = "adtAdd" => member[cur[t].h] = NoMember
          /\ cur[t].pc = "adtDel" => member[cur[t].h] # NoMember

\* The map by handle and the map by id of the members file the same entries:
\* what pipe_mgr_adt_ent_add and _del file and remove one after the other,
\* with every error path between them.
MembersFiled ==
    /\ \A h \in Handles :
          member[h] # NoMember => mbrIdHtbl[member[h].id] = h
    /\ \A i \in MemberIds : mbrIdHtbl[i] # NoHandle =>
          LET e == member[mbrIdHtbl[i]] IN e # NoMember /\ e.id = i

\* The same for the groups of one session, filed by pipe_mgr_sel_grp_add and
\* removed by pipe_mgr_sel_grp_del, with every error path and the undoing of
\* a failed addition.  (With a second session that deletes the group between
\* the two calls of an addition, pipe_mgr_sel_grp_mbrs_set files a zeroed
\* entry by handle only, and the property does not hold.)
GroupsFiled ==
    /\ \A g \in GroupHandles :
          group[g] # NoGroup => grpIdHtbl[group[g].id] = g
    /\ \A i \in GroupIds : grpIdHtbl[i] # NoHandle =>
          LET e == group[grpIdHtbl[i]] IN e # NoGroup /\ e.id = i

\* The members a group entry lists, none when the list was freed.
MbrsOf(g) ==
    IF group[g] = NoGroup THEN <<>>
    ELSE IF group[g].mbrs \in {NullMbrs, FreedEntry} THEN <<>> ELSE group[g].mbrs
Lists(g, h) == Cardinality({i \in DOMAIN MbrsOf(g) : MbrsOf(g)[i] = h})
InTarget(g, h) == target.grp[g] # NoGroup /\ h \in target.grp[g]

\* reference_count is never below what the groups need: each mention in a
\* list will be decremented by pipe_mgr_sel_grp_del, and each pipeline group
\* that still holds the member must keep it from being deleted.  The count
\* therefore never wraps around.
CountsCoverGroups ==
    \A h \in Handles : member[h] # NoMember =>
        member[h].refs >= MapThenSumSet(
            LAMBDA g : IF InTarget(g, h) /\ Lists(g, h) = 0 THEN 1
                       ELSE Lists(g, h), GroupHandles)

\* A member whose deletion pipe_mgr_adt_ent_del refuses is listed by a group
\* that could be deleted first.
ReferencedByGroup ==
    \A h \in Handles :
        Refs(h) # 0 => \E g \in GroupHandles : Lists(g, h) # 0

\* When no operation is in progress, a group lists members that exist: the
\* lookups of Selector::entryAdd, and the undoing when the members cannot be
\* set, are there to ensure it.
NoDanglingMember ==
    (\A t \in Sessions : cur[t] = Idle) =>
        \A g \in GroupHandles, h \in Handles :
            Lists(g, h) # 0 => member[h] # NoMember

\* The data plane never selects a member that is missing or is another one:
\* a handle in a pipeline group is in the pipeline's member table, with the
\* data of the member software files under it.
TargetResolves ==
    \A g \in GroupHandles, h \in Handles : InTarget(g, h) =>
        /\ member[h] # NoMember
        /\ target.mbr[h] = member[h].id

\* Every member software files is in the pipeline's member table with its
\* data, whichever step of an addition or a deletion fails and whatever a
\* failing commit of another call of the session drops: pipe_mgr_adt_ent_add
\* and _del change the maps only once the pipeline has changed.
MembersInTarget ==
    \A h \in Handles :
        member[h] # NoMember => target.mbr[h] = member[h].id

\* The pipeline's group holds every member software lists (members that a
\* modification dropped from the list stay in it).
TargetHoldsListed ==
    \A g \in GroupHandles, h \in Handles :
        Lists(g, h) # 0 => InTarget(g, h)

\* Inductive, whatever the sessions do and whatever fails.
SelectorInv == TypeOK /\ CallsAdvance /\ AdtExclusive /\ MembersFiled
=============================================================================
