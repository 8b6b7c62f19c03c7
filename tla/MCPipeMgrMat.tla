---------------------------- MODULE MCPipeMgrMat ----------------------------
(* PipeMgrMat for TLC: who works on which keys, and what may fail.         *)
EXTENDS PipeMgrMat

CONSTANTS t1, t2, k1, k2

\* Every session has keys of its own.
MCOwnKeys == [t \in Threads |-> IF t = t1 THEN {k1, DefKey} ELSE {k2}]
\* Every session works on every key.
MCSharedKeys == [t \in Threads |-> Keys]

MCNoFailures == {}
\* Everything but a commit.
MCCallFailures == {"alloc", "rte", "insert"}
MCCommitFailures == {"commit"}
=============================================================================
