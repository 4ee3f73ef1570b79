------------------------------- MODULE MCFanout -------------------------------
(* Interchangeable hosts. *)
EXTENDS Fanout, TLC

TaskSymmetry == Permutations(Task)

=============================================================================
