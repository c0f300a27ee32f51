------------------------------ MODULE MCPatrol ------------------------------
(***************************************************************************)
(* Two guardian threads (a restarted patrol overlapping the stopped one)   *)
(* and one navigation in the run that passes; one guardian thread, a round *)
(* of two stops and two navigations in the run about arrivals.             *)
(***************************************************************************)
EXTENDS Patrol, TLC
=============================================================================
