---------------------------- MODULE MCTaskEngine ----------------------------
(* Small instances of TaskEngine for TLC.                                   *)
EXTENDS TaskEngine, TLC

Symmetry == Permutations(Workers) \cup Permutations(Helpers) \cup Permutations(Insts)

(* A second delete is left out: it begins where a failed first one put the instance.  *)
OneDelete == Cardinality({t \in Tasks : status[t] # "absent" /\ row[t].op = "delete"}) <= 1
=============================================================================
