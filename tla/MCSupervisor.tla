---------------------------- MODULE MCSupervisor ----------------------------
(***************************************************************************)
(* Two reconnect threads and three components in start order: 1 is the     *)
(* motor controller (critical), 2 the person detector (which needs no      *)
(* connection), 3 the follow planner.                                      *)
(***************************************************************************)
EXTENDS Supervisor, TLC

Symmetry == Permutations(Recons) \cup Permutations(Robots)
=============================================================================
