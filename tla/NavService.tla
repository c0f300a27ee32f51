----------------------------- MODULE NavService -----------------------------
(***************************************************************************)
(* What the navigation controller shows its clients: whether it runs, the  *)
(* state they poll, and navigations that go, are over, and end.            *)
(* NavController implements it; HomeGuardian (Patrol) is composed with it. *)
(***************************************************************************)
CONSTANTS
    Navs,     \* slots for navigations (bound)
    Callers   \* threads calling navigate_to_waypoint / _position

VARIABLES
    running,  \* _running
    navState, \* _state
    phase,    \* phase[n]: "none", "going", or "over" (it has its result)
    callPc    \* callPc[c]: where caller c is in navigate_to_waypoint

serviceVars == <<running, navState, phase, callPc>>

Busy == {"PLANNING", "NAVIGATING"}

ServiceInit ==
    /\ running = FALSE
    /\ navState = "IDLE"
    /\ phase = [n \in Navs |-> "none"]
    /\ callPc = [c \in Callers |-> "idle"]

\* The busy test and the start of a navigation are two steps.
CheckFree(c) ==
    /\ callPc[c] = "idle" /\ running /\ navState \notin Busy
    /\ callPc' = [callPc EXCEPT ![c] = "checked"]
    /\ UNCHANGED <<running, navState, phase>>

Launch(c, n) ==
    /\ callPc[c] = "checked" /\ phase[n] = "none"
    /\ callPc' = [callPc EXCEPT ![c] = "idle"]
    /\ phase' = [phase EXCEPT ![n] = "going"]
    /\ UNCHANGED <<running, navState>>

Report(n) ==
    /\ phase[n] = "going"
    /\ navState' \in Busy
    /\ UNCHANGED <<running, phase, callPc>>

Arrive(n) ==
    /\ phase[n] = "going"
    /\ navState' = "ARRIVED"
    /\ phase' = [phase EXCEPT ![n] = "over"]
    /\ UNCHANGED <<running, callPc>>

Fail(n) ==
    /\ phase[n] = "going"
    /\ navState' = "BLOCKED"
    /\ \E p \in {"over", "none"} : phase' = [phase EXCEPT ![n] = p]
    /\ UNCHANGED <<running, callPc>>

\* A navigation gives up without a result only when it sees _running clear.
Quit(n) ==
    /\ phase[n] = "going" /\ ~running
    /\ phase' = [phase EXCEPT ![n] = "none"]
    /\ UNCHANGED <<running, navState, callPc>>

Finish(n) ==
    /\ phase[n] = "over"
    /\ phase' = [phase EXCEPT ![n] = "none"]
    /\ UNCHANGED <<running, navState, callPc>>

Ends(n) == Arrive(n) \/ Fail(n) \/ Quit(n) \/ Finish(n)

\* start, stop, cancel and mapping, seen from outside.
Switch ==
    /\ running' = ~running
    /\ UNCHANGED <<navState, phase, callPc>>

Settle ==
    /\ navState' \in {"IDLE", "MAPPING"}
    /\ UNCHANGED <<running, phase, callPc>>

ServiceNext ==
    \/ \E c \in Callers : CheckFree(c) \/ \E n \in Navs : Launch(c, n)
    \/ \E n \in Navs : Report(n) \/ Ends(n)
    \/ Switch \/ Settle

ServiceSpec == ServiceInit /\ [][ServiceNext]_serviceVars
=============================================================================
