------------------------------ MODULE MCSetup ------------------------------
(***************************************************************************)
(* Pairing scenes: two robots, connected to three times in any order, with *)
(* the terminal and reloads but no forms after the status.  Flow scenes:   *)
(* one robot of each version and every form, over one connection that may  *)
(* be cut and, for version 6, made again.                                  *)
(***************************************************************************)
EXTENDS WebSetup

TwoRobots == {"r1", "r2"}
SomePins == {"right", "wrong"}

Pairing(v1, v2, n, a) ==
    [versions |-> ("r1" :> v1 @@ "r2" :> v2), conns |-> n, acts |-> a,
     forms |-> FALSE, cuts |-> TRUE]
Flow(v, n, a) ==
    [versions |-> ("r1" :> v @@ "r2" :> 1), conns |-> n, acts |-> a,
     forms |-> TRUE, cuts |-> TRUE]

AllScenes ==
    {Pairing(5, 6, 3, 2), Pairing(6, 6, 3, 1), Pairing(2, 3, 2, 1),
     Pairing(7, 1, 2, 1)}
    \cup {Flow(2, 1, 3), Flow(3, 1, 4), Flow(4, 1, 4), Flow(5, 1, 5),
          Flow(6, 2, 3)}

OneOf7 == {Pairing(7, 7, 1, 0)}
=============================================================================
