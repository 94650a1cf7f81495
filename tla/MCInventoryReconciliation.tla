---------------------- MODULE MCInventoryReconciliation ----------------------
(* An instance of InventoryReconciliation: packages of which p1 comes to    *)
(* match p2 or p3 or both, or is removed, while p4 never matches anything.   *)
(* Rows that match are put in one record, or kept apart, or p2 is.           *)
EXTENDS InventoryReconciliation

MCSourceOf == [i \in Items |-> "packages"]
MCMatch == [v \in Values |-> CASE v = "plain" -> {} [] v = "a" -> {1} [] v = "b" -> {2} [] v = "ab" -> {1, 2}]
MCStart == [i \in Items |-> CASE i = "p1" -> "b" [] i = "p2" -> "a" [] i = "p3" -> "b" [] i = "p4" -> "plain"]
MCChanges == {"p1"} \X {"ab", Absent}
MCLinkings == {[i \in Items |-> "p1"], [i \in Items |-> i],
               [i \in Items |-> IF i = "p2" THEN "p2" ELSE "p1"]}
MCRevisions == [s \in Sources |-> 2]
=============================================================================
