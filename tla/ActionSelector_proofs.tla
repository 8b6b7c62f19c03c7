------------------------ MODULE ActionSelector_proofs ------------------------
(***************************************************************************)
(* For any sessions, ids, handles and failures: type correctness of the    *)
(* action selector and the agreement of the two maps that file members.    *)
(***************************************************************************)
EXTENDS ActionSelector, FiniteSetTheorems,
        SequenceTheorems, TLAPS

MemberTyped == member \in [Handles -> MemberEntries \cup {NoMember}]

\* A sequence of at most MaxMbrs handles, and its length.
LEMMA ListShape ==
    ASSUME NEW S, NEW hs \in UNION {[1..n -> S] : n \in 0..MaxMbrs}
    PROVE  /\ hs \in Seq(S) /\ Len(hs) \in 0..MaxMbrs
           /\ DOMAIN hs = 1..Len(hs)
           /\ \A i \in 1..Len(hs) : hs[i] \in S
<1>1. PICK n \in 0..MaxMbrs : hs \in [1..n -> S]
  OBVIOUS
<1>2. n \in Nat /\ MaxMbrs \in Nat
  BY SelectorAssumption
<1>. QED
  BY <1>1, <1>2

LEMMA IdListShape ==
    ASSUME NEW ids \in IdLists
    PROVE  /\ Len(ids) \in Nat /\ Len(ids) <= MaxMbrs /\ MaxMbrs \in Nat
           /\ \A i \in 1..Len(ids) : ids[i] \in MemberIds
<1>1. Len(ids) \in 0..MaxMbrs /\ \A i \in 1..Len(ids) : ids[i] \in MemberIds
  BY ListShape, Zenon DEF IdLists
<1>2. MaxMbrs \in Nat
  BY SelectorAssumption, Zenon
<1>. QED
  BY <1>1, <1>2

LEMMA MemberListShape ==
    ASSUME NEW hs \in MemberLists
    PROVE  /\ hs \in Seq(Handles) /\ Len(hs) \in Nat /\ DOMAIN hs = 1..Len(hs)
           /\ \A i \in 1..Len(hs) : hs[i] \in Handles
<1>1. /\ hs \in Seq(Handles) /\ Len(hs) \in 0..MaxMbrs /\ DOMAIN hs = 1..Len(hs)
      /\ \A i \in 1..Len(hs) : hs[i] \in Handles
  BY ListShape, Zenon DEF MemberLists
<1>2. MaxMbrs \in Nat
  BY SelectorAssumption, Zenon
<1>. QED
  BY <1>1, <1>2

\* Appending to a list that is not full gives a list.
LEMMA ListAppend ==
    ASSUME NEW S, NEW hs \in UNION {[1..n -> S] : n \in 0..MaxMbrs},
           NEW h \in S, Len(hs) < MaxMbrs
    PROVE  Append(hs, h) \in UNION {[1..n -> S] : n \in 0..MaxMbrs}
<1>1. hs \in Seq(S) /\ Len(hs) \in Nat /\ MaxMbrs \in Nat
  BY ListShape, SelectorAssumption
<1>2. Append(hs, h) \in [1..(Len(hs) + 1) -> S]
  BY <1>1, AppendProperties, LenProperties
<1>3. Len(hs) + 1 \in 0..MaxMbrs
  BY <1>1
<1>. QED
  BY <1>2, <1>3

\* How often a loop over hs counts a member is a natural number.
LEMMA TimesNat ==
    ASSUME NEW hs \in MemberLists, NEW h
    PROVE  Cardinality({i \in Reached(hs) : hs[i] = h}) \in Nat
<1>1. DOMAIN hs = 1..Len(hs) /\ Len(hs) \in Nat
  BY MemberListShape
<1>2. IsFiniteSet(1..Len(hs))
  BY <1>1, FS_Interval
<1>3. {i \in Reached(hs) : hs[i] = h} \subseteq 1..Len(hs)
  BY <1>1 DEF Reached
<1>. QED
  BY <1>2, <1>3, FS_Subset, FS_CardinalityType

\* Counting members changes neither which members exist nor their ids.
LEMMA CountedMembers ==
    ASSUME MemberTyped, NEW hs \in MemberLists, NEW by \in Nat
    PROVE  /\ Counted(hs, by) \in [Handles -> MemberEntries \cup {NoMember}]
           /\ \A h \in Handles :
                /\ Counted(hs, by)[h] = NoMember <=> member[h] = NoMember
                /\ member[h] # NoMember => Counted(hs, by)[h].id = member[h].id
<1>1. SUFFICES ASSUME NEW h \in Handles, member[h] # NoMember
               PROVE  /\ Counted(hs, by)[h] \in MemberEntries
                      /\ Counted(hs, by)[h].id = member[h].id
  BY SelectorAssumption DEF Counted, MemberTyped
<1> DEFINE times == Cardinality({i \in Reached(hs) : hs[i] = h})
<1>2. times \in Nat
  BY TimesNat
<1>3. member[h] \in MemberEntries
  BY <1>1 DEF MemberTyped
<1>4. member[h].refs \in Nat /\ RefWrap \in Nat \ {0}
  BY <1>3, SelectorAssumption DEF MemberEntries
<1>5. by * times \in Nat
  BY <1>2
<1> HIDE DEF times
<1>6. (member[h].refs + by * times) % RefWrap \in 0..RefWrap-1
  BY <1>4, <1>5
<1>7. Counted(hs, by)[h] =
        [id |-> member[h].id,
         refs |-> (member[h].refs + by * times) % RefWrap]
  BY <1>1 DEF Counted, times
<1>. QED
  BY <1>3, <1>6, <1>7 DEF MemberEntries

(***************************************************************************)
(* The pipe_mgr calls keep the tables typed and the member maps in step.   *)
(***************************************************************************)
TablesOK ==
    /\ MemberTyped
    /\ mbrIdHtbl \in [MemberIds -> Handles \cup {NoHandle}]
    /\ group \in [GroupHandles -> GroupEntries \cup {NoGroup}]
    /\ grpIdHtbl \in [GroupIds -> GroupHandles \cup {NoHandle}]
    /\ target \in Targets /\ staged \in Targets
    /\ crashed \in BOOLEAN
    /\ MembersFiled

\* The targets the calls schedule are tables of the pipeline.
LEMMA TargetsTyped ==
    ASSUME staged \in Targets
    PROVE  /\ \A id \in MemberIds, h \in Handles : DalEntAdd(id, h) \in Targets
           /\ \A h \in Handles : DalEntDel(h) \in Targets
           /\ \A g \in GroupHandles : DalGrpAdd(g) \in Targets
           /\ \A g \in GroupHandles, e \in Targets : DalGrpDel(g, e) \in Targets
<1>1. ASSUME NEW e \in Targets, NEW h \in Handles,
             NEW v \in MemberIds \cup {NoId}
      PROVE  [e EXCEPT !.mbr[h] = v] \in Targets
  BY <1>1 DEF Targets
<1>2. ASSUME NEW e \in Targets, NEW g \in GroupHandles,
             NEW v \in (SUBSET Handles) \cup {NoGroup}
      PROVE  [e EXCEPT !.grp[g] = v] \in Targets
  BY <1>2 DEF Targets
<1>3. \A id \in MemberIds, h \in Handles : DalEntAdd(id, h) \in Targets
  BY <1>1 DEF DalEntAdd
<1>4. \A h \in Handles : DalEntDel(h) \in Targets
  BY <1>1 DEF DalEntDel
<1>5. \A g \in GroupHandles : DalGrpAdd(g) \in Targets
  <2>1. {} \in (SUBSET Handles) \cup {NoGroup}
    OBVIOUS
  <2>. QED
    BY <1>2, <2>1 DEF DalGrpAdd
<1>6. \A g \in GroupHandles, e \in Targets : DalGrpDel(g, e) \in Targets
  <2>1. NoGroup \in (SUBSET Handles) \cup {NoGroup}
    OBVIOUS
  <2>. QED
    BY <1>2, <2>1 DEF DalGrpDel
<1>. QED
  BY <1>3, <1>4, <1>5, <1>6

\* So are those with members added to or taken from a group they have.
LEMMA MembersTyped ==
    ASSUME staged \in Targets, NEW g \in GroupHandles, NEW hs \in MemberLists,
           NEW k \in 0..Len(hs), TargetHas(g, hs)
    PROVE  WithMembers(g, hs, k) \in Targets /\ WithoutMembers(g, hs, k) \in Targets
<1>1. /\ Len(hs) \in Nat /\ hs \in Seq(Handles)
      /\ \A i \in 1..Len(hs) : hs[i] \in Handles
  BY MemberListShape
<1>2. CASE k = 0
  BY <1>2 DEF WithMembers, WithoutMembers, Targets
<1>3. CASE k # 0
  <2>1. hs # <<>>
    BY <1>1, <1>3, EmptySeq
  <2>2. staged.grp[g] \in SUBSET Handles
    BY <2>1 DEF TargetHas, Targets
  <2>3. {hs[i] : i \in 1..k} \subseteq Handles
    BY <1>1
  <2>. DEFINE A == staged.grp[g] \cup {hs[i] : i \in 1..k}
              B == staged.grp[g] \ {hs[i] : i \in 1..k}
  <2>4. A \in SUBSET Handles /\ B \in SUBSET Handles
    BY <2>2, <2>3
  <2>5. /\ WithMembers(g, hs, k) = [staged EXCEPT !.grp[g] = A]
        /\ WithoutMembers(g, hs, k) = [staged EXCEPT !.grp[g] = B]
    BY <1>3 DEF WithMembers, WithoutMembers
  <2>. HIDE DEF A, B
  <2>. QED
    BY <2>4, <2>5 DEF Targets
<1>. QED
  BY <1>2, <1>3

\* A call that does not commit leaves typed targets.
LEMMA NotCommittedTyped ==
    ASSUME target \in Targets, NEW partly \in SUBSET Targets, NotCommitted(partly)
    PROVE  target' \in Targets /\ staged' \in Targets
BY DEF NotCommitted, CommitFails

\* Counting members keeps the member maps in step.
LEMMA CountingFiled ==
    ASSUME TablesOK, NEW hs \in MemberLists, NEW by \in Nat,
           member' = Counted(hs, by), mbrIdHtbl' = mbrIdHtbl
    PROVE  MemberTyped' /\ MembersFiled'
<1>1. /\ member' \in [Handles -> MemberEntries \cup {NoMember}]
      /\ \A h \in Handles :
            /\ member'[h] = NoMember <=> member[h] = NoMember
            /\ member[h] # NoMember => member'[h].id = member[h].id
  BY CountedMembers DEF TablesOK
<1>. QED
  BY <1>1, SelectorAssumption DEF MembersFiled, MemberTyped, TablesOK

LEMMA AddEntryFiled ==
    ASSUME TablesOK, NEW id \in MemberIds, NEW h \in Handles,
           member[h] = NoMember, AdtEntAdd(id, h)
    PROVE  TablesOK'
<1>2. target' \in Targets /\ staged' \in Targets
  BY DEF AdtEntAdd, Committed, CommitFails, TablesOK
<1>3. MemberTyped' /\ (mbrIdHtbl \in [MemberIds -> Handles \cup {NoHandle}])' /\ MembersFiled'
  <2>1. CASE UNCHANGED members
    BY <2>1 DEF members, TablesOK, MemberTyped, MembersFiled
  <2>2. CASE /\ mbrIdHtbl[id] = NoHandle
             /\ member' = [member EXCEPT ![h] = [id |-> id, refs |-> 0]]
             /\ mbrIdHtbl' = [mbrIdHtbl EXCEPT ![id] = h]
    <3>1. [id |-> id, refs |-> 0] \in MemberEntries
      BY SelectorAssumption DEF MemberEntries
    <3>2. MemberTyped' /\ (mbrIdHtbl \in [MemberIds -> Handles \cup {NoHandle}])'
      BY <2>2, <3>1 DEF TablesOK, MemberTyped
    <3>. QED
      BY <2>2, <3>1, <3>2, SelectorAssumption
      DEF TablesOK, MemberTyped, MembersFiled, MemberEntries
  <2>. QED
    BY <2>1, <2>2 DEF AdtEntAdd
<1>. QED
  BY <1>2, <1>3 DEF AdtEntAdd, TablesOK, groups

LEMMA DelEntryFiled ==
    ASSUME TablesOK, NEW h \in Handles, member[h] # NoMember, AdtEntDel(h)
    PROVE  TablesOK'
<1>1. target' \in Targets /\ staged' \in Targets
  BY DEF AdtEntDel, Committed, CommitFails, TablesOK
<1>2. MemberTyped' /\ (mbrIdHtbl \in [MemberIds -> Handles \cup {NoHandle}])' /\ MembersFiled'
  <2>1. CASE UNCHANGED members
    BY <2>1 DEF members, TablesOK, MemberTyped, MembersFiled
  <2>2. CASE /\ member' = [member EXCEPT ![h] = NoMember]
             /\ mbrIdHtbl' = [mbrIdHtbl EXCEPT ![member[h].id] = NoHandle]
    <3>1. member[h].id \in MemberIds
      BY DEF TablesOK, MemberTyped, MemberEntries
    <3>2. MemberTyped' /\ (mbrIdHtbl \in [MemberIds -> Handles \cup {NoHandle}])'
      BY <2>2, <3>1 DEF TablesOK, MemberTyped
    <3>. QED
      BY <2>2, <3>1, <3>2, SelectorAssumption
      DEF TablesOK, MemberTyped, MembersFiled, MemberEntries
  <2>. QED
    BY <2>1, <2>2 DEF AdtEntDel
<1>. QED
  BY <1>1, <1>2 DEF AdtEntDel, TablesOK, groups

LEMMA AddGroupFiled ==
    ASSUME TablesOK, NEW id \in GroupIds, NEW g \in GroupHandles,
           NEW ok \in BOOLEAN, SelGrpAdd(id, g, ok)
    PROVE  TablesOK'
<1>1. target' \in Targets /\ staged' \in Targets
  BY DEF SelGrpAdd, Committed, CommitFails, TablesOK
<1>2. /\ (group \in [GroupHandles -> GroupEntries \cup {NoGroup}])'
      /\ (grpIdHtbl \in [GroupIds -> GroupHandles \cup {NoHandle}])'
  <2>1. CASE UNCHANGED groups
    BY <2>1 DEF groups, TablesOK
  <2>2. CASE /\ group' = [group EXCEPT ![g] = [id |-> id, mbrs |-> <<>>]]
             /\ grpIdHtbl' = [grpIdHtbl EXCEPT ![id] = g]
    <3>1. <<>> \in [1..0 -> Handles] /\ 0 \in 0..MaxMbrs
      BY SelectorAssumption
    <3>2. <<>> \in MemberLists
      BY <3>1 DEF MemberLists
    <3>3. [id |-> id, mbrs |-> <<>>] \in GroupEntries
      BY <3>2 DEF GroupEntries
    <3>. QED
      BY <2>2, <3>3 DEF TablesOK
  <2>. QED
    BY <2>1, <2>2 DEF SelGrpAdd
<1>. QED
  BY <1>1, <1>2 DEF SelGrpAdd, TablesOK, members, MemberTyped, MembersFiled

\* Filing a list, a null list or a freed entry keeps the group table typed.
LEMMA ListingTyped ==
    ASSUME TablesOK, NEW g \in GroupHandles,
           NEW l \in MemberLists \cup {NullMbrs, FreedEntry}
    PROVE  Listing(g, l) \in [GroupHandles -> GroupEntries \cup {NoGroup}]
<1>1. [id |-> ZeroId, mbrs |-> l] \in GroupEntries
  BY SelectorAssumption DEF GroupEntries
<1>2. group[g] # NoGroup => [id |-> group[g].id, mbrs |-> l] \in GroupEntries
  BY DEF TablesOK, GroupEntries
<1>. QED
  BY <1>1, <1>2 DEF Listing, TablesOK

LEMMA SetMembersFiled ==
    ASSUME TablesOK, NEW g \in GroupHandles, NEW hs \in MemberLists,
           NEW ok \in BOOLEAN, SelGrpMbrsSet(g, hs, ok)
    PROVE  TablesOK'
<1>1. Len(hs) \in Nat
  BY MemberListShape
<1>2. CASE /\ TargetHas(g, hs)
           /\ Committed(WithMembers(g, hs, Len(hs)))
           /\ group' \in {group, Listing(g, hs)}
           /\ member' \in {member, Counted(hs, Increment)}
           /\ UNCHANGED <<mbrIdHtbl, grpIdHtbl, crashed>>
  <2>1. target' \in Targets /\ staged' \in Targets
    BY <1>1, <1>2, MembersTyped DEF Committed, TablesOK
  <2>2. MemberTyped' /\ MembersFiled'
    <3>1. CASE member' = member
      BY <1>2, <3>1 DEF TablesOK, MemberTyped, MembersFiled
    <3>2. CASE member' = Counted(hs, Increment)
      BY <1>2, <3>2, CountingFiled DEF Increment
    <3>. QED
      BY <1>2, <3>1, <3>2
  <2>3. (group \in [GroupHandles -> GroupEntries \cup {NoGroup}])'
    BY <1>2, ListingTyped DEF TablesOK
  <2>. QED
    BY <1>2, <2>1, <2>2, <2>3 DEF TablesOK
<1>3. CASE /\ MembersFail(g, hs, {WithMembers(g, hs, k) : k \in 0..Len(hs)-1})
           /\ group' = IF group[g] = NoGroup THEN group
                       ELSE Listing(g, IF hs = <<>> THEN hs ELSE NullMbrs)
           /\ UNCHANGED <<members, grpIdHtbl, crashed>>
  <2>1. target' \in Targets /\ staged' \in Targets
    <3>1. CASE TargetHas(g, hs)
      <4>1. {WithMembers(g, hs, k) : k \in 0..Len(hs)-1} \in SUBSET Targets
        BY <1>1, <3>1, MembersTyped DEF TablesOK
      <4>. QED
        BY <1>3, <3>1, <4>1, NotCommittedTyped DEF MembersFail, TablesOK
    <3>2. CASE ~TargetHas(g, hs)
      BY <1>3, <3>2 DEF MembersFail, dpdk, TablesOK
    <3>. QED
      BY <3>1, <3>2
  <2>2. (group \in [GroupHandles -> GroupEntries \cup {NoGroup}])'
    BY <1>3, ListingTyped DEF TablesOK
  <2>. QED
    BY <1>3, <2>1, <2>2 DEF TablesOK, members, MemberTyped, MembersFiled
<1>4. CASE /\ group' = IF group[g] = NoGroup THEN group ELSE Listing(g, FreedEntry)
           /\ UNCHANGED <<members, grpIdHtbl, dpdk, crashed>>
  <2>1. (group \in [GroupHandles -> GroupEntries \cup {NoGroup}])'
    BY <1>4, ListingTyped DEF TablesOK
  <2>. QED
    BY <1>4, <2>1 DEF TablesOK, members, dpdk, MemberTyped, MembersFiled
<1>. QED
  BY <1>2, <1>3, <1>4 DEF SelGrpMbrsSet

\* Nothing but a crash.
LEMMA CrashFiled ==
    ASSUME TablesOK, members' = members, groups' = groups, dpdk' = dpdk,
           crashed' \in BOOLEAN
    PROVE  TablesOK'
BY DEF TablesOK, members, groups, dpdk, MemberTyped, MembersFiled

LEMMA DelGroupFiled ==
    ASSUME TablesOK, NEW g \in GroupHandles, SelGrpDel(g)
    PROVE  TablesOK'
<1> DEFINE hs == group[g].mbrs
           emptied == WithoutMembers(g, hs, Len(hs))
<1>1. CASE group[g] = NoGroup /\ UNCHANGED <<members, groups, dpdk, crashed>>
  BY <1>1, CrashFiled DEF TablesOK
<1>2. CASE Crash
  BY <1>2, CrashFiled DEF Crash
<1>3. ASSUME group[g] # NoGroup, hs \notin {NullMbrs, FreedEntry}
      PROVE  hs \in MemberLists /\ Len(hs) \in Nat
  <2>1. hs \in MemberLists
    BY <1>3 DEF TablesOK, GroupEntries
  <2>. QED
    BY <2>1, MemberListShape
<1>4. CASE /\ group[g] # NoGroup /\ hs \notin {NullMbrs, FreedEntry}
           /\ MembersFail(g, hs, {WithoutMembers(g, hs, k) : k \in 0..Len(hs)-1})
           /\ UNCHANGED <<members, groups, crashed>>
  <2>1. target' \in Targets /\ staged' \in Targets
    <3>1. CASE TargetHas(g, hs)
      <4>1. {WithoutMembers(g, hs, k) : k \in 0..Len(hs)-1} \in SUBSET Targets
        BY <1>3, <1>4, <3>1, MembersTyped DEF TablesOK
      <4>. QED
        BY <1>4, <3>1, <4>1, NotCommittedTyped DEF MembersFail, TablesOK
    <3>2. CASE ~TargetHas(g, hs)
      BY <1>4, <3>2 DEF MembersFail, dpdk, TablesOK
    <3>. QED
      BY <3>1, <3>2
  <2>. QED
    BY <1>4, <2>1 DEF TablesOK, members, groups, MemberTyped, MembersFiled
<1>5. CASE /\ group[g] # NoGroup /\ hs \notin {NullMbrs, FreedEntry}
           /\ TargetHas(g, hs)
           /\ member' = Counted(hs, Decrement)
           /\ UNCHANGED <<mbrIdHtbl, crashed>>
           /\ \/ /\ UNCHANGED groups
                 /\ \/ UNCHANGED dpdk \/ Committed(emptied)
                    \/ UNCHANGED target /\ staged' = target
              \/ /\ Committed(DalGrpDel(g, emptied))
                 /\ group' = [group EXCEPT ![g] = NoGroup]
                 /\ grpIdHtbl' = [grpIdHtbl EXCEPT ![group[g].id] = NoHandle]
  <2>1. Decrement \in Nat
    BY SelectorAssumption DEF Decrement
  <2>2. MemberTyped' /\ MembersFiled'
    BY <1>3, <1>5, <2>1, CountingFiled
  <2>3. emptied \in Targets
    BY <1>3, <1>5, MembersTyped DEF TablesOK
  <2>. HIDE DEF emptied
  <2>4. DalGrpDel(g, emptied) \in Targets
    BY <2>3, TargetsTyped DEF TablesOK
  <2>5. target' \in Targets /\ staged' \in Targets
    BY <1>5, <2>3, <2>4 DEF Committed, dpdk, TablesOK
  <2>6. /\ (group \in [GroupHandles -> GroupEntries \cup {NoGroup}])'
        /\ (grpIdHtbl \in [GroupIds -> GroupHandles \cup {NoHandle}])'
    BY <1>5 DEF groups, TablesOK
  <2>. QED
    BY <1>5, <2>2, <2>5, <2>6 DEF TablesOK
<1>. QED
  BY <1>1, <1>2, <1>4, <1>5 DEF SelGrpDel

(***************************************************************************)
(* The operations of the TDI layer.                                        *)
(***************************************************************************)
CallsOK == cur \in [Sessions -> Calls] /\ CallsAdvance

\* The step of a call tells its fields.
LEMMA CallFields ==
    ASSUME NEW c \in Calls
    PROVE  /\ c.pc \in {"delMember", "adtAdd", "adtDel"} => c.h \in Handles
           /\ c.pc = "adtAdd" => c.id \in MemberIds
           /\ c.pc = "delGroup" => c.g \in GroupHandles
           /\ c.pc \in {"look", "add", "selAdd", "set"} => c \in GroupSets
BY DEF Calls, Idle, MemberAdds, MemberDels, GroupDels, GroupSets

\* Moving one session to another step.
LEMMA CallMoves ==
    ASSUME CallsOK, NEW t \in Sessions, NEW c \in Calls, Advanced(c),
           cur' = [cur EXCEPT ![t] = c]
    PROVE  CallsOK'
BY DEF CallsOK, CallsAdvance

LEMMA CallReturns ==
    ASSUME CallsOK, NEW t \in Sessions, Return(t)
    PROVE  CallsOK'
<1>1. Idle \in Calls /\ Advanced(Idle)
  BY DEF Calls, Idle, Advanced
<1>. QED
  BY <1>1, CallMoves DEF Return

LEMMA CallStays == ASSUME CallsOK, UNCHANGED cur PROVE CallsOK'
BY DEF CallsOK, CallsAdvance

\* A call that has looked up what it has to goes on to a step it is ready for.
LEMMA LookedAdvances ==
    ASSUME NEW c \in GroupSets, c.pc = "look", Len(c.hdls) <= Len(c.ids),
           c.op = "modGroup" => c.g # NoHandle
    PROVE  Looked(c) \in Calls /\ Advanced(Looked(c))
<1>1. Len(c.hdls) \in Nat /\ Len(c.ids) \in Nat
  BY MemberListShape, IdListShape DEF GroupSets
<1> DEFINE p == IF Len(c.hdls) < Len(c.ids) THEN "look"
                ELSE IF c.op = "addGroup" THEN "add" ELSE "set"
<1>2. Looked(c) = [pc |-> p, op |-> c.op, id |-> c.id, g |-> c.g,
                   ids |-> c.ids, hdls |-> c.hdls]
  BY DEF Looked, GroupSets
<1>3. p \in {"look", "add", "set"} /\ (p = "look" => Len(c.hdls) < Len(c.ids))
      /\ (p = "add" => c.op = "addGroup") /\ (p = "set" => c.op # "addGroup")
  OBVIOUS
<1> HIDE DEF p
<1>4. c.op \in {"addGroup", "modGroup"}
  BY DEF GroupSets
<1>5. Looked(c) \in GroupSets
  BY <1>2, <1>3 DEF GroupSets
<1>6. Advanced(Looked(c))
  BY <1>2, <1>3, <1>4 DEF Advanced
<1>. QED
  BY <1>5, <1>6 DEF Calls

\* A step that schedules work and files nothing.
LEMMA ScheduleFiled ==
    ASSUME TablesOK, NEW s \in Targets, Scheduled(s),
           UNCHANGED <<members, groups, crashed>>
    PROVE  TablesOK'
BY DEF Scheduled, TablesOK, members, groups, MemberTyped, MembersFiled

\* What one session does.
Step(t) ==
    \/ AddMember(t) \/ CommitMember(t)
    \/ DelMember(t) \/ DelMemberEntry(t) \/ CommitMemberDel(t)
    \/ AddGroup(t) \/ ModGroup(t) \/ LookMember(t)
    \/ AddGroupEntry(t) \/ CommitGroup(t) \/ SetMembers(t)
    \/ DelGroup(t) \/ DelGroupEntry(t)

\* Every step of a session keeps the tables and the operations in order.
LEMMA StepKeepsInv ==
    ASSUME TablesOK, CallsOK, AdtExclusive, NEW t \in Sessions, Step(t)
    PROVE  TablesOK' /\ CallsOK'
<1> DEFINE c == cur[t]
<1>c. c \in Calls /\ Advanced(c)
  BY DEF CallsOK, CallsAdvance
<1>e. <<>> \in MemberLists /\ Len(<<>>) = 0
  <2>1. <<>> \in [1..0 -> Handles] /\ 0 \in 0..MaxMbrs
    BY SelectorAssumption
  <2>. QED
    BY <2>1 DEF MemberLists
<1>1. CASE AddMember(t)
  <2>1. PICK id \in MemberIds, h \in Handles :
          /\ Scheduled(DalEntAdd(id, h))
          /\ Continue(t, [pc |-> "adtAdd", id |-> id, h |-> h])
    BY <1>1 DEF AddMember
  <2>2. DalEntAdd(id, h) \in Targets
    BY TargetsTyped DEF TablesOK
  <2>3. TablesOK'
    BY <1>1, <2>1, <2>2, ScheduleFiled DEF AddMember
  <2> DEFINE d == [pc |-> "adtAdd", id |-> id, h |-> h]
  <2>4. d \in Calls /\ Advanced(d)
    BY DEF Calls, MemberAdds, Advanced
  <2>. QED
    BY <2>1, <2>3, <2>4, CallMoves DEF Continue
<1>11. CASE CommitMember(t)
  <2>1. c.h \in Handles /\ c.id \in MemberIds /\ member[c.h] = NoMember
    BY <1>11, <1>c, CallFields DEF CommitMember, At, AdtExclusive
  <2>. QED
    BY <1>11, <2>1, AddEntryFiled, CallReturns DEF CommitMember
<1>2. CASE DelMember(t)
  <2>1. PICK id \in MemberIds :
          /\ mbrIdHtbl[id] # NoHandle
          /\ cur' = [cur EXCEPT ![t] = [pc |-> "delMember", h |-> mbrIdHtbl[id]]]
    BY <1>2 DEF DelMember, Continue, HdlFromMbrId
  <2>2. mbrIdHtbl[id] \in Handles
    BY <2>1 DEF TablesOK
  <2> DEFINE d == [pc |-> "delMember", h |-> mbrIdHtbl[id]]
  <2>3. d \in Calls /\ Advanced(d)
    BY <2>2 DEF Calls, MemberDels, Advanced
  <2>4. CallsOK'
    BY <2>1, <2>3, CallMoves
  <2>. QED
    BY <1>2, <2>4, CrashFiled DEF DelMember, TablesOK
<1>3. CASE DelMemberEntry(t)
  <2>1. c.h \in Handles
    BY <1>3, <1>c, CallFields DEF DelMemberEntry, At
  <2>2. CASE Scheduled(DalEntDel(c.h)) /\ Continue(t, [pc |-> "adtDel", h |-> c.h])
    <3>1. DalEntDel(c.h) \in Targets
      BY <2>1, TargetsTyped DEF TablesOK
    <3>2. TablesOK'
      BY <1>3, <2>2, <3>1, ScheduleFiled DEF DelMemberEntry
    <3> DEFINE d == [pc |-> "adtDel", h |-> c.h]
    <3>3. d \in Calls /\ Advanced(d)
      BY <2>1 DEF Calls, MemberDels, Advanced
    <3>. QED
      BY <2>2, <3>2, <3>3, CallMoves DEF Continue
  <2>3. CASE UNCHANGED dpdk /\ Return(t)
    BY <1>3, <2>3, CallReturns, CrashFiled DEF DelMemberEntry, TablesOK
  <2>. QED
    BY <1>3, <2>2, <2>3 DEF DelMemberEntry
<1>12. CASE CommitMemberDel(t)
  <2>1. c.h \in Handles /\ member[c.h] # NoMember
    BY <1>12, <1>c, CallFields DEF CommitMemberDel, At, AdtExclusive
  <2>. QED
    BY <1>12, <2>1, DelEntryFiled, CallReturns DEF CommitMemberDel
<1>4. CASE AddGroup(t)
  <2>1. PICK id \in GroupIds, ids \in IdLists :
          Continue(t, Looked([pc |-> "look", op |-> "addGroup", id |-> id,
                              g |-> NoHandle, ids |-> ids, hdls |-> <<>>]))
    BY <1>4 DEF AddGroup
  <2> DEFINE d == [pc |-> "look", op |-> "addGroup", id |-> id,
                   g |-> NoHandle, ids |-> ids, hdls |-> <<>>]
  <2>2. Len(ids) \in Nat
    BY IdListShape
  <2>3. d \in GroupSets /\ d.pc = "look" /\ Len(d.hdls) <= Len(d.ids)
        /\ d.op # "modGroup"
    BY <1>e, <2>2 DEF GroupSets
  <2> HIDE DEF d
  <2>4. Looked(d) \in Calls /\ Advanced(Looked(d))
    BY <2>3, LookedAdvances
  <2>5. CallsOK'
    BY <2>1, <2>4, CallMoves DEF Continue, d
  <2>. QED
    BY <1>4, <2>5, CrashFiled DEF AddGroup, TablesOK
<1>5. CASE ModGroup(t)
  <2>1. PICK id \in GroupIds, ids \in IdLists :
          /\ grpIdHtbl[id] # NoHandle
          /\ \/ crashed' = TRUE /\ UNCHANGED cur
             \/ /\ Continue(t, Looked([pc |-> "look", op |-> "modGroup",
                                        id |-> id, g |-> grpIdHtbl[id],
                                        ids |-> ids, hdls |-> <<>>]))
                /\ UNCHANGED crashed
    BY <1>5 DEF ModGroup, HdlFromGrpId
  <2> DEFINE d == [pc |-> "look", op |-> "modGroup", id |-> id,
                   g |-> grpIdHtbl[id], ids |-> ids, hdls |-> <<>>]
  <2>2. Len(ids) \in Nat
    BY IdListShape
  <2>3. d \in GroupSets /\ d.pc = "look" /\ Len(d.hdls) <= Len(d.ids)
        /\ d.g # NoHandle
    BY <1>e, <2>1, <2>2 DEF GroupSets, TablesOK
  <2> HIDE DEF d
  <2>4. Looked(d) \in Calls /\ Advanced(Looked(d))
    BY <2>3, LookedAdvances
  <2>5. CallsOK'
    BY <2>1, <2>4, CallMoves, CallStays DEF Continue, d
  <2>6. crashed' \in BOOLEAN
    BY <2>1 DEF TablesOK
  <2>. QED
    BY <1>5, <2>5, <2>6, CrashFiled DEF ModGroup
<1>6. CASE LookMember(t)
  <2>1. TablesOK'
    BY <1>6, CrashFiled DEF LookMember, TablesOK
  <2>2. c \in GroupSets /\ c.pc = "look" /\ Len(c.hdls) < Len(c.ids)
        /\ (c.op = "modGroup" => c.g # NoHandle)
    BY <1>6, <1>c, CallFields DEF LookMember, At, Advanced
  <2>3. /\ Len(c.hdls) \in Nat /\ Len(c.ids) \in Nat /\ MaxMbrs \in Nat
        /\ Len(c.ids) <= MaxMbrs
        /\ \A i \in 1..Len(c.ids) : c.ids[i] \in MemberIds
        /\ c.hdls \in Seq(Handles)
    <3>1. c.hdls \in MemberLists /\ c.ids \in IdLists
      BY <2>2 DEF GroupSets
    <3>. QED
      BY <3>1, MemberListShape, IdListShape
  <2> DEFINE h == mbrIdHtbl[c.ids[Len(c.hdls) + 1]]
  <2>4. h \in Handles \cup {NoHandle}
    <3>1. Len(c.hdls) + 1 \in 1..Len(c.ids)
      BY <2>2, <2>3
    <3>2. c.ids[Len(c.hdls) + 1] \in MemberIds
      BY <2>3, <3>1
    <3>. QED
      BY <3>2 DEF TablesOK
  <2>5. CASE Return(t)
    BY <2>1, <2>5, CallReturns
  <2>6. CASE h # NoHandle /\ Continue(t, Looked([c EXCEPT !.hdls = Append(@, h)]))
    <3> DEFINE d == [c EXCEPT !.hdls = Append(@, h)]
    <3>1. Append(c.hdls, h) \in MemberLists
      <4>1. c.hdls \in MemberLists /\ h \in Handles
        BY <2>2, <2>4, <2>6 DEF GroupSets
      <4>2. Len(c.hdls) < MaxMbrs
        BY <2>2, <2>3
      <4> HIDE DEF h
      <4>. QED
        BY <4>1, <4>2, ListAppend DEF MemberLists
    <3>2. Len(Append(c.hdls, h)) = Len(c.hdls) + 1
      BY <2>3, <2>4, <2>6, AppendProperties
    <3> HIDE DEF h
    <3>3. d \in GroupSets /\ d.pc = "look" /\ d.hdls = Append(c.hdls, h)
          /\ d.ids = c.ids /\ d.op = c.op /\ d.g = c.g
      BY <2>2, <3>1 DEF GroupSets
    <3> HIDE DEF d
    <3>4. Len(d.hdls) <= Len(d.ids)
      <4>1. Len(d.hdls) = Len(c.hdls) + 1 /\ Len(d.ids) = Len(c.ids)
        BY <3>2, <3>3
      <4>2. Len(c.hdls) < Len(c.ids)
        BY <2>2
      <4>. QED
        BY <2>3, <4>1, <4>2
    <3>5. Looked(d) \in Calls /\ Advanced(Looked(d))
      BY <2>2, <3>3, <3>4, LookedAdvances
    <3>. QED
      BY <2>1, <2>6, <3>5, CallMoves DEF Continue, d
  <2>. QED
    BY <1>6, <2>5, <2>6 DEF LookMember, HdlFromMbrId
<1>7. CASE AddGroupEntry(t)
  <2>1. c \in GroupSets /\ c.pc = "add"
    BY <1>7, <1>c, CallFields, Zenon DEF AddGroupEntry, At
  <2>2. ASSUME NEW g \in GroupHandles, Scheduled(DalGrpAdd(g)),
               Continue(t, [c EXCEPT !.pc = "selAdd", !.g = g])
        PROVE  TablesOK' /\ CallsOK'
    <3>1. DalGrpAdd(g) \in Targets
      BY TargetsTyped DEF TablesOK
    <3>2. TablesOK'
      BY <1>7, <2>2, <3>1, ScheduleFiled, Zenon DEF AddGroupEntry
    <3> DEFINE d == [c EXCEPT !.pc = "selAdd", !.g = g]
    <3>3. d \in GroupSets /\ d.pc = "selAdd" /\ d.g = g
      BY <2>1 DEF GroupSets
    <3>4. g # NoHandle
      BY SelectorAssumption
    <3> HIDE DEF d
    <3>5. d \in Calls /\ Advanced(d)
      BY <3>3, <3>4 DEF Calls, Advanced
    <3>. QED
      BY <2>2, <3>2, <3>5, CallMoves DEF Continue, d
  <2>3. CASE UNCHANGED dpdk /\ Return(t)
    BY <1>7, <2>3, CallReturns, CrashFiled, Zenon DEF AddGroupEntry, TablesOK
  <2>. QED
    BY <1>7, <2>2, <2>3, Zenon DEF AddGroupEntry
<1>13. CASE CommitGroup(t)
  <2>1. c \in GroupSets /\ c.g \in GroupHandles
    BY <1>13, <1>c, CallFields DEF CommitGroup, At, GroupSets, Advanced
  <2>2. ASSUME NEW ok \in BOOLEAN, SelGrpAdd(c.id, c.g, ok),
               IF ok THEN Continue(t, [c EXCEPT !.pc = "set"]) ELSE Return(t)
        PROVE  TablesOK' /\ CallsOK'
    <3>1. TablesOK'
      BY <2>1, <2>2, AddGroupFiled DEF GroupSets
    <3> DEFINE d == [c EXCEPT !.pc = "set"]
    <3>2. d \in GroupSets /\ d.pc = "set" /\ d.g = c.g
      BY <2>1 DEF GroupSets
    <3>3. c.g # NoHandle
      BY <2>1, SelectorAssumption
    <3> HIDE DEF d
    <3>4. d \in Calls /\ Advanced(d)
      BY <3>2, <3>3 DEF Calls, Advanced
    <3>5. CASE ok
      BY <2>2, <3>1, <3>4, <3>5, CallMoves DEF Continue, d
    <3>6. CASE ~ok
      BY <2>2, <3>1, <3>6, CallReturns
    <3>. QED
      BY <3>5, <3>6
  <2>3. CASE Crash /\ UNCHANGED cur
    BY <2>3, CallStays, CrashFiled DEF Crash
  <2>. QED
    BY <1>13, <2>2, <2>3 DEF CommitGroup
<1>8. CASE SetMembers(t)
  <2>1. c \in GroupSets /\ c.g \in GroupHandles
    BY <1>8, <1>c, CallFields DEF SetMembers, At, GroupSets, Advanced
  <2>2. ASSUME NEW ok \in BOOLEAN, SelGrpMbrsSet(c.g, c.hdls, ok),
               IF ok \/ c.op = "modGroup" THEN Return(t)
               ELSE Continue(t, [pc |-> "delGroup", g |-> c.g])
        PROVE  TablesOK' /\ CallsOK'
    <3>1. TablesOK'
      BY <2>1, <2>2, SetMembersFiled DEF GroupSets
    <3> DEFINE d == [pc |-> "delGroup", g |-> c.g]
    <3>2. d \in Calls /\ Advanced(d)
      BY <2>1 DEF Calls, GroupDels, Advanced
    <3>3. CASE Return(t)
      BY <3>1, <3>3, CallReturns
    <3>4. CASE Continue(t, d)
      BY <3>1, <3>2, <3>4, CallMoves, Zenon DEF Continue
    <3>. QED
      BY <2>2, <3>3, <3>4
  <2>3. CASE Crash /\ UNCHANGED cur
    BY <2>3, CallStays, CrashFiled DEF Crash
  <2>. QED
    BY <1>8, <2>2, <2>3, Zenon DEF SetMembers
<1>9. CASE DelGroup(t)
  <2>1. PICK id \in GroupIds :
          /\ grpIdHtbl[id] # NoHandle
          /\ \/ crashed' = TRUE /\ UNCHANGED cur
             \/ /\ Continue(t, [pc |-> "delGroup", g |-> grpIdHtbl[id]])
                /\ UNCHANGED crashed
    BY <1>9 DEF DelGroup, HdlFromGrpId
  <2> DEFINE d == [pc |-> "delGroup", g |-> grpIdHtbl[id]]
  <2>2. d \in Calls /\ Advanced(d)
    BY <2>1 DEF Calls, GroupDels, Advanced, TablesOK
  <2>3. CallsOK'
    BY <2>1, <2>2, CallMoves, CallStays DEF Continue
  <2>4. crashed' \in BOOLEAN
    BY <2>1 DEF TablesOK
  <2>. QED
    BY <1>9, <2>3, <2>4, CrashFiled DEF DelGroup
<1>10. CASE DelGroupEntry(t)
  <2>1. c.g \in GroupHandles
    BY <1>10, <1>c, CallFields DEF DelGroupEntry, At
  <2>. QED
    BY <1>10, <2>1, DelGroupFiled, CallReturns DEF DelGroupEntry
<1>. QED
  BY <1>1, <1>2, <1>3, <1>4, <1>5, <1>6, <1>7, <1>8, <1>9, <1>10, <1>11,
     <1>12, <1>13 DEF Step

(***************************************************************************)
(* The mutex of the member table.                                          *)
(***************************************************************************)
\* The same handles file members after the step.
SameMembers == \A h \in Handles : member'[h] = NoMember <=> member[h] = NoMember

\* A step of a session that does not come to hold the mutex.
LEMMA OthersHold ==
    ASSUME CallsOK, AdtExclusive, SameMembers, NEW t \in Sessions, NEW c,
           c.pc \notin {"adtAdd", "adtDel"}, cur' = [cur EXCEPT ![t] = c]
    PROVE  AdtExclusive'
<1>1. \A u \in Sessions : AdtHeld(u)' => AdtHeld(u) /\ cur'[u] = cur[u]
  BY DEF CallsOK, AdtHeld
<1>2. \A u \in Sessions : AdtHeld(u) => cur[u].h \in Handles
  BY CallFields DEF CallsOK, AdtHeld
<1>. QED
  BY <1>1, <1>2 DEF AdtExclusive, SameMembers, AdtHeld

LEMMA AllStay ==
    ASSUME CallsOK, AdtExclusive, SameMembers, UNCHANGED cur
    PROVE  AdtExclusive'
<1>1. \A u \in Sessions : AdtHeld(u) => cur[u].h \in Handles
  BY CallFields DEF CallsOK, AdtHeld
<1>. QED
  BY <1>1 DEF AdtExclusive, SameMembers, AdtHeld

\* Taking the mutex, and giving it back.
LEMMA TakesMutex ==
    ASSUME CallsOK, AdtFree, member' = member, NEW t \in Sessions, NEW c,
           cur' = [cur EXCEPT ![t] = c],
           c.pc = "adtAdd" => member[c.h] = NoMember,
           c.pc = "adtDel" => member[c.h] # NoMember
    PROVE  AdtExclusive'
BY DEF CallsOK, AdtFree, AdtExclusive, AdtHeld

LEMMA GivesMutexBack ==
    ASSUME CallsOK, AdtExclusive, NEW t \in Sessions, AdtHeld(t), Return(t)
    PROVE  AdtExclusive'
<1>1. \A u \in Sessions : ~AdtHeld(u)'
  BY DEF CallsOK, AdtExclusive, AdtHeld, Return, Idle
<1>. QED
  BY <1>1 DEF AdtExclusive, AdtHeld

\* The calls on groups change the counts of members and nothing else of them.
LEMMA GroupCallsKeep ==
    ASSUME TablesOK, NEW g \in GroupHandles
    PROVE  /\ \A hs \in MemberLists, ok \in BOOLEAN :
                 SelGrpMbrsSet(g, hs, ok) => SameMembers
           /\ SelGrpDel(g) => SameMembers
<1>1. ASSUME member' = member PROVE SameMembers
  BY <1>1 DEF SameMembers
<1>2. ASSUME NEW hs \in MemberLists, NEW by \in Nat, member' = Counted(hs, by)
      PROVE  SameMembers
  BY <1>2, CountedMembers DEF TablesOK, SameMembers
<1>3. ASSUME NEW hs \in MemberLists, NEW ok \in BOOLEAN, SelGrpMbrsSet(g, hs, ok)
      PROVE  SameMembers
  <2>1. member' = member \/ member' = Counted(hs, Increment)
    BY <1>3 DEF SelGrpMbrsSet, members
  <2>. QED
    BY <1>1, <1>2, <2>1 DEF Increment
<1>4. ASSUME SelGrpDel(g) PROVE SameMembers
  <2>1. \/ member' = member
        \/ /\ group[g] # NoGroup /\ group[g].mbrs \notin {NullMbrs, FreedEntry}
           /\ member' = Counted(group[g].mbrs, Decrement)
    BY <1>4, Zenon DEF SelGrpDel, Crash, members
  <2>2. Decrement \in Nat
    BY SelectorAssumption DEF Decrement
  <2>3. CASE member' # member
    <3>1. group[g].mbrs \in MemberLists
      BY <2>1, <2>3 DEF TablesOK, GroupEntries
    <3>. QED
      BY <1>2, <2>1, <2>2, <2>3, <3>1
  <2>. QED
    BY <1>1, <2>3
<1>. QED
  BY <1>3, <1>4

\* Every step of a session keeps the mutex exclusive.
LEMMA StepExclusive ==
    ASSUME TablesOK, CallsOK, AdtExclusive, NEW t \in Sessions, Step(t)
    PROVE  AdtExclusive'
<1> DEFINE c == cur[t]
<1>c. c \in Calls /\ Advanced(c)
  BY DEF CallsOK, CallsAdvance
<1>s. ASSUME UNCHANGED members PROVE member' = member /\ SameMembers
  BY <1>s DEF members, SameMembers
<1>r. ASSUME SameMembers, Return(t) PROVE AdtExclusive'
  BY <1>r, OthersHold DEF Return, Idle
<1>1. CASE AddMember(t)
  <2>1. PICK id \in MemberIds, h \in Handles :
          /\ member[h] = NoMember
          /\ Continue(t, [pc |-> "adtAdd", id |-> id, h |-> h])
    BY <1>1 DEF AddMember, FreeHandle
  <2>. QED
    BY <1>1, <1>s, <2>1, TakesMutex DEF AddMember, Continue
<1>2. CASE CommitMember(t) \/ CommitMemberDel(t)
  BY <1>2, GivesMutexBack DEF CommitMember, CommitMemberDel, At, AdtHeld
<1>3. CASE DelMember(t)
  <2>1. PICK id \in MemberIds :
          cur' = [cur EXCEPT ![t] = [pc |-> "delMember", h |-> HdlFromMbrId(id)]]
    BY <1>3 DEF DelMember, Continue
  <2>. QED
    BY <1>3, <1>s, <2>1, OthersHold DEF DelMember
<1>4. CASE DelMemberEntry(t)
  <2>1. CASE Deletable(c.h) /\ Continue(t, [pc |-> "adtDel", h |-> c.h])
    BY <1>4, <1>s, <2>1, TakesMutex DEF DelMemberEntry, Continue, Deletable
  <2>2. CASE Return(t)
    BY <1>4, <1>s, <1>r, <2>2 DEF DelMemberEntry
  <2>. QED
    BY <1>4, <2>1, <2>2 DEF DelMemberEntry
<1>o. ASSUME NEW d, d.pc \notin {"adtAdd", "adtDel"}, SameMembers, Continue(t, d)
      PROVE  AdtExclusive'
  BY <1>o, OthersHold, Zenon DEF Continue
<1>l. ASSUME NEW d, "pc" \in DOMAIN d
      PROVE  Looked(d).pc \notin {"adtAdd", "adtDel"}
  BY <1>l DEF Looked
<1>5. CASE AddGroup(t)
  <2>1. PICK id \in GroupIds, ids \in IdLists :
          Continue(t, Looked([pc |-> "look", op |-> "addGroup", id |-> id,
                              g |-> NoHandle, ids |-> ids, hdls |-> <<>>]))
    BY <1>5 DEF AddGroup
  <2> DEFINE d == [pc |-> "look", op |-> "addGroup", id |-> id,
                   g |-> NoHandle, ids |-> ids, hdls |-> <<>>]
  <2>2. "pc" \in DOMAIN d
    OBVIOUS
  <2> HIDE DEF d
  <2>3. Continue(t, Looked(d))
    BY <2>1, Zenon DEF d
  <2>. QED
    BY <1>5, <1>s, <1>o, <1>l, <2>2, <2>3 DEF AddGroup
<1>6. CASE ModGroup(t)
  <2>1. PICK id \in GroupIds, ids \in IdLists :
          \/ UNCHANGED cur
          \/ Continue(t, Looked([pc |-> "look", op |-> "modGroup", id |-> id,
                                  g |-> HdlFromGrpId(id), ids |-> ids,
                                  hdls |-> <<>>]))
    BY <1>6, Zenon DEF ModGroup
  <2> DEFINE d == [pc |-> "look", op |-> "modGroup", id |-> id,
                   g |-> HdlFromGrpId(id), ids |-> ids, hdls |-> <<>>]
  <2>2. "pc" \in DOMAIN d
    OBVIOUS
  <2> HIDE DEF d
  <2>3. UNCHANGED cur \/ Continue(t, Looked(d))
    BY <2>1 DEF d
  <2>. QED
    BY <1>6, <1>s, <1>o, <1>l, <2>2, <2>3, AllStay DEF ModGroup
<1>7. CASE LookMember(t)
  <2>1. PICK h : Return(t) \/ Continue(t, Looked([c EXCEPT !.hdls = Append(@, h)]))
    BY <1>7 DEF LookMember
  <2> DEFINE d == [c EXCEPT !.hdls = Append(@, h)]
  <2>2. "pc" \in DOMAIN d
    <3>1. c \in GroupSets
      BY <1>7, <1>c, CallFields DEF LookMember, At
    <3>. QED
      BY <3>1 DEF GroupSets
  <2> HIDE DEF d
  <2>3. Return(t) \/ Continue(t, Looked(d))
    BY <2>1 DEF d
  <2>. QED
    BY <1>7, <1>s, <1>r, <1>o, <1>l, <2>2, <2>3 DEF LookMember
<1>8. CASE AddGroupEntry(t)
  <2>1. c \in GroupSets
    BY <1>8, <1>c, CallFields, Zenon DEF AddGroupEntry, At
  <2>2. SameMembers
    BY <1>8, <1>s, Zenon DEF AddGroupEntry
  <2>3. ASSUME NEW g, Continue(t, [c EXCEPT !.pc = "selAdd", !.g = g])
        PROVE  AdtExclusive'
    <3>1. [c EXCEPT !.pc = "selAdd", !.g = g].pc = "selAdd"
      BY <2>1 DEF GroupSets
    <3>. QED
      BY <1>o, <2>2, <2>3, <3>1
  <2>. QED
    BY <1>8, <1>r, <2>2, <2>3, Zenon DEF AddGroupEntry
<1>9. CASE CommitGroup(t)
  <2>1. c \in GroupSets
    BY <1>9, <1>c, CallFields DEF CommitGroup, At
  <2>2. SameMembers
    BY <1>9, <1>s DEF CommitGroup, SelGrpAdd, Crash
  <2>3. [c EXCEPT !.pc = "set"].pc = "set"
    BY <2>1 DEF GroupSets
  <2>4. Continue(t, [c EXCEPT !.pc = "set"]) \/ Return(t) \/ UNCHANGED cur
    BY <1>9 DEF CommitGroup
  <2>. QED
    BY <1>r, <1>o, <2>2, <2>3, <2>4, AllStay
<1>10. CASE SetMembers(t)
  <2>1. c \in GroupSets /\ c.g \in GroupHandles
    BY <1>10, <1>c, CallFields DEF SetMembers, At, GroupSets, Advanced
  <2>2. SameMembers
    <3>1. c.hdls \in MemberLists
      BY <2>1 DEF GroupSets
    <3>2. CASE Crash
      BY <1>s, <3>2 DEF Crash
    <3>. QED
      BY <1>10, <2>1, <3>1, <3>2, GroupCallsKeep, Zenon DEF SetMembers
  <2>3. Return(t) \/ Continue(t, [pc |-> "delGroup", g |-> c.g]) \/ UNCHANGED cur
    BY <1>10, Zenon DEF SetMembers
  <2>. QED
    BY <1>r, <1>o, <2>2, <2>3, AllStay
<1>11. CASE DelGroup(t)
  <2>1. SameMembers
    BY <1>11, <1>s DEF DelGroup
  <2>2. \/ UNCHANGED cur
        \/ \E id \in GroupIds :
              Continue(t, [pc |-> "delGroup", g |-> HdlFromGrpId(id)])
    BY <1>11 DEF DelGroup
  <2>. QED
    BY <1>o, <2>1, <2>2, AllStay
<1>12. CASE DelGroupEntry(t)
  <2>1. c.g \in GroupHandles
    BY <1>12, <1>c, CallFields DEF DelGroupEntry, At
  <2>. QED
    BY <1>12, <1>r, <2>1, GroupCallsKeep DEF DelGroupEntry
<1>. QED
  BY <1>1, <1>2, <1>3, <1>4, <1>5, <1>6, <1>7, <1>8, <1>9, <1>10, <1>11, <1>12
  DEF Step

\* The tables, the operations and the mutex together are the invariant.
LEMMA InvParts == SelectorInv <=> TablesOK /\ CallsOK /\ AdtExclusive
BY DEF SelectorInv, TypeOK, TablesOK, CallsOK, MemberTyped

\* SelectorInv is inductive: the maps, the pipeline's tables and the operations
\* in progress keep their types, and the two maps that file members agree,
\* whatever the sessions do and whichever calls fail.
THEOREM SelectorInvariant == Spec => []SelectorInv
<1>1. Init => SelectorInv
  <2> SUFFICES ASSUME Init PROVE SelectorInv
    OBVIOUS
  <2>1. CallsOK
    BY DEF Init, CallsOK, CallsAdvance, Advanced, Calls, Idle
  <2>2. target \in Targets /\ staged \in Targets
    BY DEF Init, Targets
  <2>3. TablesOK
    BY <2>2 DEF Init, TablesOK, MemberTyped, MembersFiled
  <2>4. AdtExclusive
    BY DEF Init, AdtExclusive, AdtHeld, Idle
  <2>. QED
    BY <2>1, <2>3, <2>4, InvParts
<1>2. SelectorInv /\ [Next]_vars => SelectorInv'
  <2> SUFFICES ASSUME SelectorInv, [Next]_vars PROVE SelectorInv'
    OBVIOUS
  <2>0. TablesOK /\ CallsOK /\ AdtExclusive
    BY InvParts
  <2>1. CASE Next
    <3>0. PICK t \in Sessions : Step(t)
      BY <2>1 DEF Next, Step
    <3>1. TablesOK' /\ CallsOK' /\ AdtExclusive'
      BY <2>0, <3>0, StepKeepsInv, StepExclusive
    <3>2. SelectorInv' <=> TablesOK' /\ CallsOK' /\ AdtExclusive'
      BY DEF SelectorInv, TypeOK, TablesOK, CallsOK, MemberTyped
    <3>. QED
      BY <3>1, <3>2
  <2>2. CASE UNCHANGED vars
    BY <2>2 DEF vars, SelectorInv, TypeOK, CallsAdvance, MembersFiled,
                AdtExclusive, AdtHeld
  <2>. QED
    BY <2>1, <2>2
<1>. QED
  BY <1>1, <1>2, PTL DEF Spec

\* Type correctness of the maps, the pipeline's tables and the operations.
THEOREM TypeCorrect == Spec => []TypeOK
<1>1. SelectorInv => TypeOK
  BY DEF SelectorInv
<1>. QED
  BY <1>1, SelectorInvariant, PTL

\* The map by handle and the map by id always file the same members, with any
\* number of sessions and whichever call of an addition or deletion fails.
THEOREM MembersFiledHolds == Spec => []MembersFiled
<1>1. SelectorInv => MembersFiled
  BY DEF SelectorInv
<1>. QED
  BY <1>1, SelectorInvariant, PTL
=============================================================================
