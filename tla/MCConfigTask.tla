---------------------------- MODULE MCConfigTask ----------------------------
(* Small instances of ConfigTask for TLC.                                   *)
EXTENDS ConfigTask, TLC

Symmetry == Permutations(Requests)
=============================================================================
