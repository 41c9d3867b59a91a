--------------------------- MODULE MCServiceData ---------------------------
(* One service with at most one kind of snapshot, two secret values at a
   time, the server and one command. *)
EXTENDS ServiceData, TLC

Symmetry == Permutations(Values)
=============================================================================
