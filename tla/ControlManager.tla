--------------------------- MODULE ControlManager ---------------------------
(***************************************************************************)
(* apps/vector/src/control_manager.py: the singleton through which every   *)
(* service (explorer, nav, follow, charger_dock, ...) takes and gives back *)
(* the SDK's behavior control.  Each method runs under one lock, the SDK   *)
(* call included, so each is one action.                                   *)
(***************************************************************************)
EXTENDS Integers

CONSTANTS
    Services,     \* the requester names
    NoService,    \* holder = None
    Priorities    \* the priorities acquire is called with

ASSUME ServicesAssumption == NoService \notin Services
ASSUME PrioritiesAssumption == Priorities \subseteq Nat

VARIABLES
    holder,         \* _holder
    holderPriority, \* _holder_priority, -1 when there is no holder
    hasSdkControl,  \* _has_sdk_control: what the manager believes
    robotControl    \* external: what the robot last granted or revoked

controlVars == <<holder, holderPriority, hasSdkControl, robotControl>>

NoPriority == -1

ControlInit ==
    /\ holder = NoService
    /\ holderPriority = NoPriority
    /\ hasSdkControl = FALSE
    /\ robotControl = FALSE

(***************************************************************************)
(* acquire(s, p).  Three ways to return, told apart by the condition.      *)
(***************************************************************************)
AlreadyHolds(s) == holder = s

\* Mutant: the comparison the wrong way round.
OutranksSwapped(p) == holder # NoService /\ holderPriority < p

Outranks(p) == holder # NoService /\ holderPriority > p

\* "Control already held" (True) and "Control denied" (False): no change.
AcquireNoChange(s, p) ==
    /\ AlreadyHolds(s) \/ Outranks(p)
    /\ UNCHANGED controlVars

\* Mutant: the flag is set before the SDK request, which then raises.
AcquireSdkFailsLate(s, p) ==
    /\ ~AlreadyHolds(s) /\ ~Outranks(p)
    /\ ~hasSdkControl
    /\ hasSdkControl' = TRUE
    /\ robotControl' \in {robotControl, TRUE}
    /\ UNCHANGED <<holder, holderPriority>>

\* The SDK request, made only when the manager holds none, raises: False.
\* The exception may come before or after the robot granted control.
AcquireSdkFails(s, p) ==
    /\ ~AlreadyHolds(s) /\ ~Outranks(p)
    /\ ~hasSdkControl
    /\ robotControl' \in {robotControl, TRUE}
    /\ UNCHANGED <<holder, holderPriority, hasSdkControl>>

\* Mutant: a priority one too high is recorded, to keep off equal ones.
AcquireGrantedBumped(s, p) ==
    /\ ~AlreadyHolds(s) /\ ~Outranks(p)
    /\ holder' = s
    /\ holderPriority' = p + 1
    /\ hasSdkControl' = TRUE
    /\ robotControl' = IF hasSdkControl THEN robotControl ELSE TRUE

\* s becomes the holder, preempting any holder of equal or lower priority,
\* which is not told.
AcquireGranted(s, p) ==
    /\ ~AlreadyHolds(s) /\ ~Outranks(p)
    /\ holder' = s
    /\ holderPriority' = p
    /\ hasSdkControl' = TRUE
    /\ robotControl' = IF hasSdkControl THEN robotControl ELSE TRUE

Acquire(s, p) ==
    \/ AcquireNoChange(s, p)
    \/ AcquireSdkFails(s, p)
    \/ AcquireGranted(s, p)

(***************************************************************************)
(* release(s) and force_release().  A release_control() that raises is     *)
(* logged and the manager clears its flag all the same.                    *)
(***************************************************************************)
\* Mutant: a field is left as it was.
DropControlKeepsFlag ==
    /\ holder' = NoService
    /\ holderPriority' = NoPriority
    /\ UNCHANGED hasSdkControl
    /\ robotControl' \in IF hasSdkControl THEN {FALSE, robotControl}
                                          ELSE {robotControl}

DropControl ==
    /\ holder' = NoService
    /\ holderPriority' = NoPriority
    /\ hasSdkControl' = FALSE
    /\ robotControl' \in IF hasSdkControl THEN {FALSE, robotControl}
                                          ELSE {robotControl}

\* Mutant: a release_control() that raises leaves the holder recorded.
ReleaseFails(s) ==
    IF holder = s THEN DropControl \/ UNCHANGED controlVars
                  ELSE UNCHANGED controlVars

Release(s) == IF holder = s THEN DropControl ELSE UNCHANGED controlVars

ForceRelease == DropControl

ControlNext ==
    \/ \E s \in Services, p \in Priorities : Acquire(s, p)
    \/ \E s \in Services : Release(s)
    \/ ForceRelease

ControlSpec == ControlInit /\ [][ControlNext]_controlVars

-----------------------------------------------------------------------------
(***************************************************************************)
(* Type invariant of the manager's fields.                                 *)
(***************************************************************************)
ControlTypeOK ==
    /\ holder \in Services \cup {NoService}
    /\ holderPriority \in Priorities \cup {NoPriority}
    /\ hasSdkControl \in BOOLEAN
    /\ robotControl \in BOOLEAN

(***************************************************************************)
(* The three fields agree whatever SDK calls fail: somebody is recorded as *)
(* the holder exactly while the manager believes it has SDK control, and   *)
(* only a holder has a priority (acquire, release, force_release).         *)
(***************************************************************************)
HolderHasControl ==
    /\ (holder # NoService) <=> hasSdkControl
    /\ (holder # NoService) <=> (holderPriority # NoPriority)

(***************************************************************************)
(* A holder is never robbed by a requester of lower priority: control      *)
(* passes directly from one service to another only at an equal or higher  *)
(* priority ("If higher priority holds it, acquisition fails").  Implied by *)
(* ExclusiveControl, which the run checks.                                 *)
(***************************************************************************)
NoPriorityInversion ==
    [][holder # NoService /\ holder' \notin {NoService, holder}
         => holderPriority' >= holderPriority]_controlVars

(***************************************************************************)
(* While the manager believes it has SDK control the robot really is under *)
(* its control, whichever SDK call failed before: a holder never drives a  *)
(* robot that ignores it, because acquire would skip the request for ever  *)
(* (the _has_sdk_control test of acquire).  The robot is taken to keep the *)
(* OVERRIDE level it has granted until it is asked to give it up.          *)
(***************************************************************************)
BeliefIsSound == hasSdkControl => robotControl
=============================================================================
