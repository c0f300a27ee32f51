------------------------------- MODULE MCNav -------------------------------
(***************************************************************************)
(* Two slots for navigation threads, so that overlapping navigations are   *)
(* seen, and one calling thread; two planning attempts, one path segment,  *)
(* and the charger as the target, since the way to it is the longest.      *)
(***************************************************************************)
EXTENDS NavController
=============================================================================
