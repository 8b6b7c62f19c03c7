------------------------------ MODULE MatTable ------------------------------
(* A match-action table as its callers see it: a map from keys to data in  *)
(* which entries are added once, deleted, and never change in between.     *)
CONSTANTS Keys, Data, NoData

VARIABLE table

Init == table = [k \in Keys |-> NoData]

\* pipe_mgr_mat_ent_add succeeds on a key that is not in the table.
Add(k, d) == table[k] = NoData /\ table' = [table EXCEPT ![k] = d]

\* pipe_mgr_mat_ent_del_by_match_spec succeeds on a key that is.
Del(k) == table[k] # NoData /\ table' = [table EXCEPT ![k] = NoData]

Next == \E k \in Keys : Del(k) \/ \E d \in Data : Add(k, d)

Spec == Init /\ [][Next]_table
=============================================================================
