------------------------------- MODULE Patrol -------------------------------
(***************************************************************************)
(* apps/vector/src/planner/patrol.py: HomeGuardian as a client of the      *)
(* navigation service.  start() begins a "home-guardian" thread that walks *)
(* a round of waypoints (or watches one spot); start, stop, pause and      *)
(* resume come from HTTP executor threads, and other clients may start,    *)
(* stop and cancel navigations.  _running, _paused, _mode and _state are   *)
(* plain attributes shared by all of them.  Detection and alerting inside  *)
(* a scan are abstracted to the _state they set.                           *)
(***************************************************************************)
EXTENDS NavService, Naturals, FiniteSets

CONSTANTS
    Stops     \* number of waypoints of a round

ASSUME StopsAssumption == Stops \in Nat \ {0}
ASSUME LoopsAssumption == IsFiniteSet(Callers)

\* The home-guardian threads are the callers of navigate_to_waypoint.
Loops == Callers

VARIABLES
    gRunning,  \* _running
    paused,    \* _paused
    gState,    \* _state
    loopPc,    \* loopPc[l]: where thread l is
    idx,       \* idx[l]: its position in the round
    starting   \* number of start() calls busy in _init_detectors

loopVars == <<loopPc, idx>>
guardApiVars == <<paused, starting>>
guardVars == <<gRunning, gState, loopVars, guardApiVars>>
patrolVars == <<guardVars, serviceVars>>

LoopAlive(l) == loopPc[l] # "done"

PatrolInit ==
    /\ ServiceInit
    /\ gRunning = FALSE /\ paused = FALSE
    /\ gState = "IDLE"
    /\ loopPc = [l \in Loops |-> "done"]
    /\ idx = [l \in Loops |-> 1]
    /\ starting = 0

-----------------------------------------------------------------------------
(***************************************************************************)
(* start, stop, pause, resume.  Loading the detectors takes seconds and    *)
(* lies between the _running test and the start of the thread; at most     *)
(* one start per thread slot is busy with it (bound).                      *)
(***************************************************************************)
GuardStart ==
    /\ ~gRunning
    /\ starting < Cardinality(Loops)
    /\ gRunning' = TRUE /\ paused' = FALSE
    /\ starting' = starting + 1
    /\ UNCHANGED <<gState, loopVars, serviceVars>>

GuardSpawn(l) ==
    /\ starting > 0 /\ ~LoopAlive(l)
    /\ starting' = starting - 1
    /\ loopPc' = [loopPc EXCEPT ![l] = "begin"]
    /\ UNCHANGED <<gRunning, gState, paused, idx, serviceVars>>

\* The join that follows waits 10 s at most, and changes nothing.
GuardStop ==
    /\ gRunning
    /\ gRunning' = FALSE
    /\ gState' = "IDLE"
    /\ UNCHANGED <<guardApiVars, loopVars, serviceVars>>

GuardPause ==
    /\ paused' = TRUE
    /\ gState' = "PAUSED"
    /\ UNCHANGED <<gRunning, starting, loopVars, serviceVars>>

GuardResume ==
    /\ paused' = FALSE
    /\ UNCHANGED <<gRunning, gState, starting, loopVars, serviceVars>>

-----------------------------------------------------------------------------
(***************************************************************************)
(* _run_loop, _patrol_loop and _sentry_loop.                               *)
(***************************************************************************)
Move(l, from, to) ==
    /\ loopPc[l] = from
    /\ loopPc' = [loopPc EXCEPT ![l] = to]

\* _mode is that of the latest start, which may not be this thread's.
Begin(l) ==
    /\ Move(l, "begin", "round") \/ Move(l, "begin", "watch")
    /\ UNCHANGED <<gRunning, gState, idx, guardApiVars,
                   serviceVars>>

\* The while test of either loop fails: out to the finally clause.
LeaveLoop(l) ==
    /\ ~gRunning
    /\ loopPc[l] \in {"round", "visit", "watch"}
    /\ loopPc' = [loopPc EXCEPT ![l] = "finally"]
    /\ UNCHANGED <<gRunning, gState, idx, guardApiVars,
                   serviceVars>>

\* No waypoints to patrol, or an exception in the loop.
BreakLoop(l) ==
    /\ loopPc[l] \in {"round", "visit", "call", "scan", "watch", "guard"}
    /\ callPc[l] = "idle"
    /\ loopPc' = [loopPc EXCEPT ![l] = "finally"]
    /\ UNCHANGED <<gRunning, gState, idx, guardApiVars,
                   serviceVars>>

BeginRound(l) ==
    /\ gRunning
    /\ Move(l, "round", "visit")
    /\ idx' = [idx EXCEPT ![l] = 1]
    /\ UNCHANGED <<gRunning, gState, guardApiVars, serviceVars>>

BeginVisit(l) ==
    /\ gRunning /\ ~paused
    /\ Move(l, "visit", "call")
    /\ gState' = "NAVIGATING"
    /\ UNCHANGED <<gRunning, idx, guardApiVars, serviceVars>>

\* Mutant: one waypoint too many.
NextVisitOffByOne(l) ==
    IF idx[l] <= Stops
      THEN /\ loopPc' = [loopPc EXCEPT ![l] = "visit"]
           /\ idx' = [idx EXCEPT ![l] = @ + 1]
      ELSE /\ loopPc' = [loopPc EXCEPT ![l] = "round"]
           /\ UNCHANGED idx

NextVisit(l) ==
    IF idx[l] < Stops
      THEN /\ loopPc' = [loopPc EXCEPT ![l] = "visit"]
           /\ idx' = [idx EXCEPT ![l] = @ + 1]
      ELSE /\ loopPc' = [loopPc EXCEPT ![l] = "round"]
           /\ UNCHANGED idx

(***************************************************************************)
(* _navigate_to: the call, then polling of the controller's state.         *)
(***************************************************************************)
CallNavigate(l) ==
    /\ loopPc[l] = "call"
    /\ CheckFree(l)
    /\ UNCHANGED guardVars

CallRefused(l) ==
    /\ loopPc[l] = "call" /\ callPc[l] = "idle"
    /\ ~running \/ navState \in Busy
    /\ NextVisit(l)
    /\ UNCHANGED <<gRunning, gState, guardApiVars, serviceVars>>

CallStarts(l, n) ==
    /\ Move(l, "call", "wait")
    /\ Launch(l, n)
    /\ UNCHANGED <<gRunning, gState, idx, guardApiVars>>

\* ARRIVED is read: _navigate_to returns True and the scan begins.
SeesArrived(l) ==
    /\ gRunning /\ navState = "ARRIVED"
    /\ Move(l, "wait", "scan")
    /\ gState' = "SCANNING"
    /\ UNCHANGED <<gRunning, idx, guardApiVars, serviceVars>>

\* Mutant: the polling loop looks at neither _running nor the deadline.
GivesUpOnFailureOnly(l) ==
    /\ loopPc[l] = "wait"
    /\ navState \in {"IDLE", "BLOCKED"}
    /\ NextVisit(l)
    /\ UNCHANGED <<gRunning, gState, guardApiVars, serviceVars>>

\* Stopped, IDLE or BLOCKED is read, or the two minutes are over.
GivesUp(l) ==
    /\ loopPc[l] = "wait"
    /\ ~(gRunning /\ navState = "ARRIVED")
    /\ NextVisit(l)
    /\ UNCHANGED <<gRunning, gState, guardApiVars, serviceVars>>

\* _scan_location ends, after _handle_person_detections if it saw somebody.
ScanEnds(l) ==
    /\ loopPc[l] = "scan"
    /\ NextVisit(l)
    /\ gState' \in {gState, "ALERT"}
    /\ UNCHANGED <<gRunning, guardApiVars, serviceVars>>

SentryScan(l) ==
    /\ gRunning /\ ~paused
    /\ Move(l, "watch", "guard")
    /\ gState' = "SCANNING"
    /\ UNCHANGED <<gRunning, idx, guardApiVars, serviceVars>>

SentryScanEnds(l) ==
    /\ Move(l, "guard", "watch")
    /\ gState' \in {gState, "ALERT"}
    /\ UNCHANGED <<gRunning, idx, guardApiVars, serviceVars>>

\* Mutant: the finally clause leaves _running as it is.
FinallyKeepsRunning(l) ==
    /\ Move(l, "finally", "done")
    /\ gState' = "IDLE"
    /\ idx' = [idx EXCEPT ![l] = 1]
    /\ UNCHANGED <<gRunning, guardApiVars, serviceVars>>

Finally(l) ==
    /\ Move(l, "finally", "done")
    /\ gRunning' = FALSE
    /\ gState' = "IDLE"
    /\ idx' = [idx EXCEPT ![l] = 1]
    /\ UNCHANGED <<guardApiVars, serviceVars>>

GuardLoop(l) ==
    \/ Begin(l) \/ LeaveLoop(l) \/ BreakLoop(l)
    \/ BeginRound(l) \/ BeginVisit(l)
    \/ CallNavigate(l) \/ CallRefused(l) \/ (\E n \in Navs : CallStarts(l, n))
    \/ SeesArrived(l) \/ GivesUp(l)
    \/ ScanEnds(l) \/ SentryScan(l) \/ SentryScanEnds(l)
    \/ Finally(l)

-----------------------------------------------------------------------------
NavStep(n) ==
    /\ Report(n) \/ Ends(n)
    /\ UNCHANGED guardVars

GuardApi ==
    \/ GuardStart \/ GuardStop \/ GuardPause \/ GuardResume
    \/ \E l \in Loops : GuardSpawn(l)

\* Other clients of the controller.
OtherClients ==
    /\ Switch \/ Settle
    /\ UNCHANGED guardVars

PatrolNext ==
    \/ GuardApi
    \/ \E l \in Loops : GuardLoop(l)
    \/ \E n \in Navs : NavStep(n)
    \/ OtherClients

PatrolSpec == PatrolInit /\ [][PatrolNext]_patrolVars

(***************************************************************************)
(* Every guardian thread keeps running, and every navigation ends          *)
(* (NavController's EveryNavigationEnds).                                  *)
(***************************************************************************)
PatrolFairSpec ==
    /\ PatrolSpec
    /\ \A l \in Loops : WF_patrolVars(GuardLoop(l))
    /\ \A n \in Navs : WF_patrolVars(Ends(n) /\ NavStep(n))
-----------------------------------------------------------------------------
(***************************************************************************)
(* Type invariant of the guardian.                                         *)
(***************************************************************************)
PatrolTypeOK ==
    /\ running \in BOOLEAN
    /\ navState \in Busy \cup {"IDLE", "ARRIVED", "BLOCKED", "MAPPING"}
    /\ phase \in [Navs -> {"none", "going", "over"}]
    /\ callPc \in [Callers -> {"idle", "checked"}]
    /\ gRunning \in BOOLEAN /\ paused \in BOOLEAN
    /\ gState \in {"IDLE", "NAVIGATING", "SCANNING", "ALERT", "PAUSED"}
    /\ loopPc \in [Loops -> {"done", "begin", "round", "visit", "call", "wait",
                             "scan", "watch", "guard", "finally"}]
    /\ idx \in [Loops -> 1 .. Stops]
    /\ starting \in 0 .. Cardinality(Loops)

(***************************************************************************)
(* The guardian never locks itself out.  start() refuses while _running is *)
(* set, so once no guardian thread is left and no start is under way       *)
(* _running is clear, and _state shows no work going on; the finally       *)
(* clause of _run_loop repairs what a thread wrote after stop() gave up    *)
(* waiting for it, and what overlapping starts and stops left behind.      *)
(***************************************************************************)
QuietGuardianCanStart ==
    (starting = 0 /\ \A l \in Loops : ~LoopAlive(l))
      => ~gRunning /\ gState \in {"IDLE", "PAUSED"}

(***************************************************************************)
(* A stopped guardian's threads end, wherever stop() meets them: in a      *)
(* round, paused, waiting for a navigation or scanning.  Only a new start  *)
(* before the thread has noticed can keep it alive.                        *)
(***************************************************************************)
StoppedLoopsEnd ==
    \A l \in Loops : (LoopAlive(l) /\ ~gRunning) ~> (~LoopAlive(l) \/ gRunning)

(***************************************************************************)
(* _navigate_to's "Returns True if arrived": the scan of a waypoint begins *)
(* only when the navigation to it is over.                                 *)
(***************************************************************************)
ScansWhereItArrived ==
    [][\A l \in Loops :
         loopPc[l] = "wait" /\ loopPc'[l] = "scan"
           => \A n \in Navs : phase[n] # "going"]_patrolVars
=============================================================================
