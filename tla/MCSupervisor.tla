---------------------------- MODULE MCSupervisor ----------------------------
(***************************************************************************)
(* Small instances of Supervisor; the constants are set in the .cfg.       *)
(***************************************************************************)
EXTENDS Supervisor, TLC

Symmetry == Permutations(Units) \cup Permutations(Pids)
=============================================================================
