------------------------------ MODULE MCFollow ------------------------------
(***************************************************************************)
(* Two control-loop threads (a restart that overlaps the old loop), two    *)
(* people, a target lost after two ticks, a search of three looks.         *)
(***************************************************************************)
EXTENDS FollowPlanner
=============================================================================
