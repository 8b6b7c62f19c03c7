-------------------------- MODULE MCActionSelector --------------------------
(* ActionSelector for TLC: which session uses which operations, and what   *)
(* may fail.                                                               *)
EXTENDS ActionSelector, TLC

CONSTANTS t1, t2, m1, m2, h1, h2, g1, g2

\* Session t1 changes groups and deletes members; others only add members.
MCOneOwner == [t \in Sessions |-> IF t = t1 THEN Operations ELSE {"addMember"}]
\* One session builds groups while the other adds and deletes members.
MCSplit == [t \in Sessions |-> IF t = t1 THEN {"addGroup"}
                               ELSE {"addMember", "delMember"}]

MCNoFailures == {}
MCAllFailures == {"alloc", "rte", "commit"}

MCSymmetry == Permutations(Handles) \cup Permutations(MemberIds)
                \cup Permutations(GroupHandles)
=============================================================================
