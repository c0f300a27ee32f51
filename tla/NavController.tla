---------------------------- MODULE NavController ----------------------------
(***************************************************************************)
(* apps/vector/src/planner/nav_controller.py: waypoint navigation.  API    *)
(* calls arrive on the HTTP server's executor threads and on the patrol    *)
(* and auto-charger threads; each accepted call starts a thread running    *)
(* _navigate_task.  _running is read and written without a lock, so a step *)
(* of a thread is what lies between two of its reads and writes of it, of  *)
(* _state, or of the control manager.                                      *)
(***************************************************************************)
EXTENDS ControlManager, FiniteSets

CONSTANTS
    Navs,          \* slots for _navigate_task threads (bound)
    Callers,       \* threads calling navigate_to_waypoint / _position
    Targets,       \* waypoints
    Charger,       \* the waypoint named "charger"
    NoTarget,      \* _target_waypoint = None
    Nav,           \* the requester name "nav"
    MaxAttempts,   \* max_replan_attempts
    Segments       \* number of segments of a planned path

ASSUME NavAssumption ==
    /\ Charger \in Targets
    /\ NoTarget \notin Targets
    /\ Nav \in Services
    /\ MaxAttempts \in Nat \ {0}
    /\ Segments \in Nat

VARIABLES
    running,    \* _running
    navState,   \* _state
    pc,         \* pc[n]: where _navigate_task of thread n is
    attempt,    \* attempt[n]: its attempt, from 1
    seg,        \* seg[n]: the segment _execute_path is at, from 1
    goal,       \* _target_waypoint, which every call overwrites
    target,     \* target[n]: the thread's local copy of it
    callPc,     \* callPc[c]: where caller c is in navigate_to_waypoint
    cancelPc,   \* where cancel_navigation is
    adminPc     \* where start / stop / start_mapping is

threadVars == <<pc, attempt, seg, goal, target>>
apiVars == <<running, callPc, cancelPc, adminPc>>
navVars == <<navState, threadVars, apiVars>>

NavStates ==
    {"IDLE", "PLANNING", "NAVIGATING", "ARRIVED", "BLOCKED", "MAPPING"}
Busy == {"PLANNING", "NAVIGATING"}

Alive(n) == pc[n] # "done"

OverridePriority == 10  \* PRIORITY_OVERRIDE, the default every caller uses

ASSUME OverrideAssumption == OverridePriority \in Priorities

NavFieldsInit ==
    /\ running = FALSE
    /\ navState = "IDLE"
    /\ pc = [n \in Navs |-> "done"]
    /\ attempt = [n \in Navs |-> 1]
    /\ seg = [n \in Navs |-> 1]
    /\ goal = NoTarget
    /\ target = [n \in Navs |-> NoTarget]
    /\ callPc = [c \in Callers |-> "idle"]
    /\ cancelPc = "idle"
    /\ adminPc = "idle"

-----------------------------------------------------------------------------
(***************************************************************************)
(* navigate_to_waypoint / navigate_to_position.  The busy test and the     *)
(* start of the thread are not one step, and _state becomes PLANNING only  *)
(* later, inside the thread.  A refused call changes nothing.              *)
(***************************************************************************)
CallCheck(c) ==
    /\ callPc[c] = "idle"
    /\ running
    /\ navState \notin Busy
    /\ callPc' = [callPc EXCEPT ![c] = "checked"]
    /\ UNCHANGED <<running, navState, threadVars, cancelPc,
                   adminPc, controlVars>>

SpawnThread(n, t) ==
    /\ ~Alive(n)
    /\ pc' = [pc EXCEPT ![n] = "spawned"]
    /\ goal' = t
    /\ UNCHANGED <<attempt, seg, target>>

CallSpawn(c, n, t) ==
    /\ callPc[c] = "checked"
    /\ SpawnThread(n, t)
    /\ callPc' = [callPc EXCEPT ![c] = "idle"]
    /\ UNCHANGED <<running, navState, cancelPc, adminPc, controlVars>>

-----------------------------------------------------------------------------
(***************************************************************************)
(* _navigate_task.  acquire's result is ignored.                           *)
(***************************************************************************)
Goto(n, from, to) ==
    /\ pc[n] = from
    /\ pc' = [pc EXCEPT ![n] = to]

\* The thread returns: its locals are gone.
End(n, from) ==
    /\ Goto(n, from, "done")
    /\ attempt' = [attempt EXCEPT ![n] = 1]
    /\ seg' = [seg EXCEPT ![n] = 1]
    /\ target' = [target EXCEPT ![n] = NoTarget]
    /\ UNCHANGED goal

ReadTarget(n) ==
    /\ Goto(n, "spawned", "started")
    /\ target' = [target EXCEPT ![n] = goal]
    /\ UNCHANGED <<navState, attempt, seg, goal, apiVars,
                   controlVars>>

RequestControl(n) ==
    /\ Goto(n, "started", "acquired")
    /\ Acquire(Nav, OverridePriority)
    /\ UNCHANGED <<navState, attempt, seg, goal, target, apiVars>>

ToPlanning(n) ==
    /\ Goto(n, "acquired", "attempt")
    /\ navState' = "PLANNING"
    /\ UNCHANGED <<attempt, seg, goal, target, apiVars, controlVars>>

\* The early return of the attempt loop: no transition, no release.
QuitNotRunning(n) ==
    /\ End(n, "attempt")
    /\ ~running
    /\ UNCHANGED <<navState, apiVars, controlVars>>

BeginAttempt(n) ==
    /\ Goto(n, "attempt", "planning")
    /\ running
    /\ UNCHANGED <<navState, attempt, seg, goal, target, apiVars,
                   controlVars>>

PathFound(n) ==
    /\ Goto(n, "planning", "segment")
    /\ navState' = "NAVIGATING"
    /\ seg' = [seg EXCEPT ![n] = 1]
    /\ UNCHANGED <<attempt, goal, target, apiVars, controlVars>>

\* Mutant: planning failures do not count as attempts.
NoPathRetryUncounted(n) ==
    /\ Goto(n, "planning", "attempt")
    /\ UNCHANGED <<navState, attempt, seg, goal, target, apiVars,
                   controlVars>>

NoPathRetry(n) ==
    /\ Goto(n, "planning", "attempt")
    /\ attempt[n] < MaxAttempts
    /\ attempt' = [attempt EXCEPT ![n] = @ + 1]
    /\ UNCHANGED <<navState, seg, goal, target, apiVars, controlVars>>

\* Mutant: "No path found" without the transition to BLOCKED.
NoPathKeepsState(n) ==
    /\ End(n, "planning")
    /\ attempt[n] = MaxAttempts
    /\ UNCHANGED <<navState, apiVars, controlVars>>

\* "No path found" on the last attempt returns without _release_control.
NoPathBlocked(n) ==
    /\ End(n, "planning")
    /\ attempt[n] = MaxAttempts
    /\ navState' = "BLOCKED"
    /\ UNCHANGED <<apiVars, controlVars>>

(***************************************************************************)
(* _execute_path.  A segment is skipped when the pose is already close to  *)
(* its end, and refused by the obstacle map or detector; driving it calls  *)
(* motor.turn_then_drive, which may raise CliffSafetyError.                *)
(***************************************************************************)
SkipSegment(n) ==
    /\ pc[n] = "segment" /\ running /\ seg[n] <= Segments
    /\ seg' = [seg EXCEPT ![n] = @ + 1]
    /\ UNCHANGED <<navState, pc, attempt, goal, target, apiVars,
                   controlVars>>

DriveSegment(n) ==
    /\ Goto(n, "segment", "driving")
    /\ running /\ seg[n] <= Segments
    /\ UNCHANGED <<navState, attempt, seg, goal, target, apiVars,
                   controlVars>>

SegmentDriven(n) ==
    /\ Goto(n, "driving", "segment")
    /\ seg' = [seg EXCEPT ![n] = @ + 1]
    /\ UNCHANGED <<navState, attempt, goal, target, apiVars, controlVars>>

\* Mutant: one attempt too many.
PathFailsOffByOne(n) ==
    /\ pc[n] \in {"segment", "driving"}
    /\ navState' = "PLANNING"
    /\ IF attempt[n] <= MaxAttempts
         THEN /\ pc' = [pc EXCEPT ![n] = "attempt"]
              /\ attempt' = [attempt EXCEPT ![n] = @ + 1]
         ELSE /\ pc' = [pc EXCEPT ![n] = "exhausted"]
              /\ UNCHANGED attempt
    /\ seg' = [seg EXCEPT ![n] = 1]
    /\ UNCHANGED <<goal, target, apiVars, controlVars>>

\* Stopped, an obstacle, a cliff, a motor error, or too far away at the end:
\* _execute_path returns False and the task goes on with its next attempt.
PathFails(n) ==
    /\ pc[n] \in {"segment", "driving"}
    /\ navState' = "PLANNING"
    /\ IF attempt[n] < MaxAttempts
         THEN /\ pc' = [pc EXCEPT ![n] = "attempt"]
              /\ attempt' = [attempt EXCEPT ![n] = @ + 1]
         ELSE /\ pc' = [pc EXCEPT ![n] = "exhausted"]
              /\ UNCHANGED attempt
    /\ seg' = [seg EXCEPT ![n] = 1]
    /\ UNCHANGED <<goal, target, apiVars, controlVars>>

\* Every segment done and the final distance small enough; the heading
\* alignment before the transition swallows its errors.
Arrive(n) ==
    /\ seg[n] > Segments
    /\ Goto(n, "segment", IF target[n] = Charger THEN "docking" ELSE "release")
    /\ navState' = "ARRIVED"
    /\ seg' = [seg EXCEPT ![n] = 1]
    /\ UNCHANGED <<attempt, goal, target, apiVars, controlVars>>

\* Mutant: a docking that fails is reported as BLOCKED.
DockedReportsFailure(n) ==
    /\ Goto(n, "docking", "release")
    /\ navState' \in {navState, "BLOCKED"}
    /\ UNCHANGED <<attempt, seg, goal, target, apiVars, controlVars>>

\* _auto_dock_charger: drive_on_charger() has ended, well or not.
Docked(n) ==
    /\ Goto(n, "docking", "release")
    /\ UNCHANGED <<navState, attempt, seg, goal, target, apiVars,
                   controlVars>>

Exhausted(n) ==
    /\ Goto(n, "exhausted", "release")
    /\ navState' = "BLOCKED"
    /\ UNCHANGED <<attempt, seg, goal, target, apiVars, controlVars>>

ReleaseControl(n) ==
    /\ End(n, "release")
    /\ Release(Nav)
    /\ UNCHANGED <<navState, apiVars>>

NavigateTask(n) ==
    \/ ReadTarget(n) \/ RequestControl(n) \/ ToPlanning(n)
    \/ QuitNotRunning(n) \/ BeginAttempt(n)
    \/ PathFound(n) \/ NoPathRetry(n) \/ NoPathBlocked(n)
    \/ SkipSegment(n) \/ DriveSegment(n) \/ SegmentDriven(n) \/ PathFails(n)
    \/ Arrive(n) \/ Docked(n) \/ Exhausted(n) \/ ReleaseControl(n)

-----------------------------------------------------------------------------
(***************************************************************************)
(* cancel_navigation: _running is cleared, the wheels are zeroed (a call   *)
(* to the robot), and _running is set again at once.                       *)
(***************************************************************************)
CancelClear ==
    /\ cancelPc = "idle" /\ navState \in Busy
    /\ running' = FALSE
    /\ cancelPc' = "cleared"
    /\ UNCHANGED <<navState, threadVars, callPc, adminPc, controlVars>>

CancelRestore ==
    /\ cancelPc = "cleared"
    /\ running' = TRUE
    /\ cancelPc' = "restored"
    /\ UNCHANGED <<navState, threadVars, callPc, adminPc,
                   controlVars>>

CancelIdle ==
    /\ cancelPc = "restored"
    /\ navState' = "IDLE"
    /\ cancelPc' = "idle"
    /\ UNCHANGED <<running, threadVars, callPc, adminPc,
                   controlVars>>

(***************************************************************************)
(* start, stop, start_mapping and stop_mapping.                            *)
(***************************************************************************)
StartSetRunning(call) ==
    /\ adminPc = "idle" /\ ~running
    /\ running' = TRUE
    /\ adminPc' = call
    /\ UNCHANGED <<navState, threadVars, callPc, cancelPc,
                   controlVars>>

StartIdle ==
    /\ adminPc \in {"starting", "startMapping"}
    /\ navState' = "IDLE"
    /\ adminPc' = IF adminPc = "starting" THEN "idle" ELSE "mapping"
    /\ UNCHANGED <<running, threadVars, callPc, cancelPc,
                   controlVars>>

StartMapping ==
    /\ adminPc = "mapping" \/ (adminPc = "idle" /\ running)
    /\ navState' = "MAPPING"
    /\ adminPc' = "idle"
    /\ UNCHANGED <<running, threadVars, callPc, cancelPc,
                   controlVars>>

StopMapping ==
    /\ adminPc = "idle"
    /\ navState' = "IDLE"
    /\ UNCHANGED <<apiVars, threadVars, controlVars>>

StopClear ==
    /\ adminPc = "idle" /\ running
    /\ running' = FALSE
    /\ adminPc' = "joining"
    /\ UNCHANGED <<navState, threadVars, callPc, cancelPc,
                   controlVars>>

\* The join of the latest thread ends, or times out after 5 s: a segment may
\* be longer than that.
StopIdle ==
    /\ adminPc = "joining"
    /\ navState' = "IDLE"
    /\ adminPc' = "idle"
    /\ UNCHANGED <<running, threadVars, callPc, cancelPc, controlVars>>

\* The other services and the touch handler at the control manager.
OthersControl ==
    /\ \/ \E s \in Services \ {Nav} : Acquire(s, OverridePriority) \/ Release(s)
       \/ ForceRelease
    /\ UNCHANGED navVars

NavCalls ==
    \E c \in Callers :
       CallCheck(c) \/ \E n \in Navs, t \in Targets : CallSpawn(c, n, t)

NavAdmin ==
    \/ CancelClear \/ CancelRestore \/ CancelIdle
    \/ StartSetRunning("starting") \/ StartSetRunning("startMapping")
    \/ StartIdle \/ StartMapping \/ StopMapping
    \/ StopClear \/ StopIdle

NavNext ==
    \/ \E n \in Navs : NavigateTask(n)
    \/ NavCalls
    \/ NavAdmin
    \/ OthersControl

navSysVars == <<navVars, controlVars>>

NavInit == ControlInit /\ NavFieldsInit

NavSpec == NavInit /\ [][NavNext]_navSysVars

(***************************************************************************)
(* Every thread keeps running; the API calls are up to the users, but one  *)
(* that has begun goes on.                                                 *)
(***************************************************************************)
NavFairness ==
    /\ \A n \in Navs : WF_navSysVars(NavigateTask(n))
    /\ WF_navSysVars(CancelRestore \/ CancelIdle)
    /\ WF_navSysVars(StartIdle \/ (adminPc = "mapping" /\ StartMapping) \/ StopIdle)

NavFairSpec == NavSpec /\ NavFairness
-----------------------------------------------------------------------------
(***************************************************************************)
(* Type invariant of the controller.                                       *)
(***************************************************************************)
NavTypeOK ==
    /\ ControlTypeOK
    /\ running \in BOOLEAN
    /\ navState \in NavStates
    /\ pc \in [Navs -> {"done", "spawned", "started", "acquired", "attempt", "planning",
                        "segment", "driving", "docking", "exhausted",
                        "release"}]
    /\ attempt \in [Navs -> 1 .. MaxAttempts]
    /\ seg \in [Navs -> 1 .. Segments + 1]
    /\ goal \in Targets \cup {NoTarget}
    /\ target \in [Navs -> Targets \cup {NoTarget}]
    /\ callPc \in [Callers -> {"idle", "checked"}]
    /\ cancelPc \in {"idle", "cleared", "restored"}
    /\ adminPc \in {"idle", "starting", "startMapping", "mapping", "joining"}

(***************************************************************************)
(* The controller never locks itself out.  With no navigation thread left  *)
(* and no cancel, start or stop under way, a running controller is in a    *)
(* state that accepts a new navigation: every way out of _navigate_task,   *)
(* however threads, cancels, stops and restarts interleave, leaves _state  *)
(* settled or is followed by a transition that settles it.  A PLANNING or  *)
(* NAVIGATING left behind would refuse every later call.                   *)
(***************************************************************************)
QuietMeansAvailable ==
    (/\ running
     /\ \A n \in Navs : ~Alive(n)
     /\ cancelPc = "idle"
     /\ adminPc = "idle") => navState \notin Busy

(***************************************************************************)
(* Every navigation ends: attempts are bounded, and a thread that sees     *)
(* _running cleared returns, so no thread drives for ever, whatever        *)
(* cancels, stops and restarts do (_navigate_task's for loop).             *)
(***************************************************************************)
EveryNavigationEnds == \A n \in Navs : Alive(n) ~> ~Alive(n)

(***************************************************************************)
(* What clients of the controller see is a navigation service: a result is *)
(* reported by a navigation that goes, never by one that has ended or has  *)
(* its result already, and one gives up without a result only when it has  *)
(* seen _running clear.                                                    *)
(***************************************************************************)
Service ==
    INSTANCE NavService WITH
        phase <- [n \in Navs |-> CASE pc[n] = "done" -> "none"
                                    [] pc[n] \in {"docking", "release"} -> "over"
                                    [] OTHER -> "going"]

ImplementsNavService == Service!ServiceSpec
=============================================================================
