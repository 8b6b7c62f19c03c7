----------------------------- MODULE MCMatShared -----------------------------
(* PipeMgrMat for TLC with sessions that share every key, on a table that  *)
(* stores its entries in software and on one that does not.                *)
EXTENDS PipeMgrMat

VARIABLE stored   \* which of the two tables this behaviour is about

MCSharedKeys == [t \in Threads |-> Keys]
MCAllFailures == {"alloc", "rte", "commit", "insert"}

NotStored == INSTANCE PipeMgrMat WITH StoreEntries <- FALSE

MCInit == Init /\ stored \in BOOLEAN
MCNext ==
    /\ \/ stored /\ Next
       \/ ~stored /\ NotStored!Next
    /\ UNCHANGED stored
MCSpec == MCInit /\ [][MCNext]_<<vars, stored>>
=============================================================================
