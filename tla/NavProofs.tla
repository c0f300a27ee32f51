------------------------------ MODULE NavProofs ------------------------------
(***************************************************************************)
(* Proofs about the control manager and its clients, for every set of      *)
(* services and priorities; and, after them, about the navigation          *)
(* controller, which is one of the services, for any number of navigation  *)
(* threads, callers, waypoints, attempts and segments.                     *)
(***************************************************************************)
EXTENDS ControlClients, NavController, TLAPS

-----------------------------------------------------------------------------
(* The control manager.                                                     *)

(***************************************************************************)
(* Every move of a client is a move of the manager; release falls back to  *)
(* leaving everything alone when the caller is not the holder.             *)
(***************************************************************************)
LEMMA ClientStepIsControlStep ==
    ASSUME [ClientNext]_clientVars
    PROVE  \/ UNCHANGED controlVars
           \/ \E s \in Services, p \in Priorities :
                 AcquireSdkFails(s, p) \/ AcquireGranted(s, p)
           \/ DropControl
<1>1. CASE UNCHANGED clientVars
  BY <1>1 DEF clientVars, controlVars
<1>2. CASE ClientNext
  <2>1. CASE \E s \in Services, p \in Priorities : ClientAcquire(s, p)
    BY <2>1 DEF ClientAcquire, Acquire, AcquireNoChange
  <2>2. CASE \E s \in Services : ClientRelease(s)
    BY <2>2 DEF ClientRelease, Release
  <2>3. CASE TouchForceRelease
    BY <2>3 DEF TouchForceRelease, ForceRelease
  <2>4. QED BY <1>2, <2>1, <2>2, <2>3 DEF ClientNext
<1>3. QED BY <1>1, <1>2

(***************************************************************************)
(* The inductive invariant: the holder, its priority and the belief in SDK *)
(* control agree, that belief is sound, and the holder was told.           *)
(***************************************************************************)
ControlInv ==
    /\ ClientTypeOK
    /\ HolderHasControl
    /\ BeliefIsSound
    /\ HolderWasTold

LEMMA ControlInvInductive ==
    ControlInv /\ [ClientNext]_clientVars => ControlInv'
<1> SUFFICES ASSUME ControlInv, [ClientNext]_clientVars
             PROVE  ControlInv'
  OBVIOUS
<1> USE DEF ControlInv, ClientTypeOK, ControlTypeOK, HolderHasControl,
            BeliefIsSound, HolderWasTold
<1>1. CASE UNCHANGED clientVars
  BY <1>1 DEF clientVars
<1>2. ASSUME NEW s \in Services, NEW p \in Priorities, ClientAcquire(s, p)
      PROVE  ControlInv'
  <2>1. told' = [told EXCEPT ![s] = (holder' = s)]
    BY <1>2 DEF ClientAcquire
  <2>2. CASE AcquireNoChange(s, p)
    BY <2>1, <2>2 DEF AcquireNoChange, controlVars
  <2>3. CASE AcquireSdkFails(s, p)
    BY <2>1, <2>3 DEF AcquireSdkFails
  <2>4. CASE AcquireGranted(s, p)
    <3>1. s # NoService /\ p # NoPriority
      BY ServicesAssumption, PrioritiesAssumption DEF NoPriority
    <3>2. QED BY <2>1, <2>4, <3>1 DEF AcquireGranted
  <2>5. QED BY <1>2, <2>2, <2>3, <2>4 DEF ClientAcquire, Acquire
<1>3. ASSUME NEW s \in Services, ClientRelease(s)
      PROVE  ControlInv'
  <2>1. told' = [told EXCEPT ![s] = FALSE]
    BY <1>3 DEF ClientRelease
  <2>2. CASE holder = s
    BY <1>3, <2>1, <2>2 DEF ClientRelease, Release, DropControl
  <2>3. CASE holder # s
    BY <1>3, <2>1, <2>3 DEF ClientRelease, Release, controlVars
  <2>4. QED BY <2>2, <2>3
<1>4. CASE TouchForceRelease
  BY <1>4 DEF TouchForceRelease, ForceRelease, DropControl
<1>5. QED BY <1>1, <1>2, <1>3, <1>4 DEF ClientNext

LEMMA ControlInvariance == ClientSpec => []ControlInv
<1>1. ClientInit => ControlInv
  BY DEF ClientInit, ControlInit, ControlInv, ClientTypeOK, ControlTypeOK,
         HolderHasControl, BeliefIsSound, HolderWasTold
<1>2. QED BY <1>1, ControlInvInductive, PTL DEF ClientSpec

(***************************************************************************)
(* The manager's fields and the clients' view of them keep their types,    *)
(* whatever SDK calls fail.                                                *)
(***************************************************************************)
THEOREM ControlTypeCorrect == ClientSpec => []ClientTypeOK
<1>1. ControlInv => ClientTypeOK
  BY DEF ControlInv
<1>2. QED BY <1>1, ControlInvariance, PTL

(***************************************************************************)
(* Holder, priority and SDK belief agree in every reachable state.         *)
(***************************************************************************)
THEOREM HolderHasControlAlways == ClientSpec => []HolderHasControl
<1>1. ControlInv => HolderHasControl
  BY DEF ControlInv
<1>2. QED BY <1>1, ControlInvariance, PTL

(***************************************************************************)
(* The manager never believes in control the robot has not granted.        *)
(***************************************************************************)
THEOREM BeliefIsSoundAlways == ClientSpec => []BeliefIsSound
<1>1. ControlInv => BeliefIsSound
  BY DEF ControlInv
<1>2. QED BY <1>1, ControlInvariance, PTL

(***************************************************************************)
(* A service recorded as the holder was told so and has not released.      *)
(***************************************************************************)
THEOREM HolderWasToldAlways == ClientSpec => []HolderWasTold
<1>1. ControlInv => HolderWasTold
  BY DEF ControlInv
<1>2. QED BY <1>1, ControlInvariance, PTL

(***************************************************************************)
(* The manager implements exclusive ranked ownership: acquire is a Take or *)
(* a stutter, and both releases are a Drop or a stutter.                   *)
(***************************************************************************)
THEOREM ManagerImplementsExclusiveControl ==
    ClientSpec => RefinesExclusiveControl
<1>1. ClientInit => Exclusive!Init
  BY DEF ClientInit, ControlInit, Exclusive!Init, NoPriority
<1>2. ControlInv /\ [ClientNext]_clientVars
        => [Exclusive!Next]_<<holder, holderPriority>>
  <2> SUFFICES ASSUME ControlInv, [ClientNext]_clientVars
               PROVE  [Exclusive!Next]_<<holder, holderPriority>>
    OBVIOUS
  <2>1. CASE UNCHANGED controlVars
    BY <2>1 DEF controlVars
  <2>2. ASSUME NEW s \in Services, NEW p \in Priorities,
               AcquireSdkFails(s, p) \/ AcquireGranted(s, p)
        PROVE  [Exclusive!Next]_<<holder, holderPriority>>
    <3>1. CASE AcquireSdkFails(s, p)
      BY <3>1 DEF AcquireSdkFails
    <3>2. CASE AcquireGranted(s, p)
      <4>1. p >= holderPriority
        BY <3>2, PrioritiesAssumption
        DEF AcquireGranted, Outranks, ControlInv, HolderHasControl,
            ClientTypeOK, ControlTypeOK, NoPriority
      <4>2. Exclusive!Take(s, p)
        BY <3>2, <4>1 DEF AcquireGranted, AlreadyHolds, Exclusive!Take
      <4>3. QED BY <4>2 DEF Exclusive!Next
    <3>3. QED BY <2>2, <3>1, <3>2
  <2>3. CASE DropControl
    BY <2>3 DEF DropControl, NoPriority, Exclusive!Drop, Exclusive!Next
  <2>4. QED BY <2>1, <2>2, <2>3, ClientStepIsControlStep
<1>3. QED
  BY <1>1, <1>2, ControlInvariance, PTL
  DEF ClientSpec, RefinesExclusiveControl, Exclusive!Spec

(***************************************************************************)
(* Control never passes directly to a requester of lower priority.         *)
(***************************************************************************)
THEOREM NoPriorityInversionAlways == ClientSpec => NoPriorityInversion
<1>1. ControlInv /\ [ClientNext]_clientVars
        => [holder # NoService /\ holder' \notin {NoService, holder}
              => holderPriority' >= holderPriority]_controlVars
  <2> SUFFICES ASSUME ControlInv, [ClientNext]_clientVars,
                      holder # NoService,
                      holder' \notin {NoService, holder}
               PROVE  holderPriority' >= holderPriority
    OBVIOUS
  <2>1. CASE UNCHANGED controlVars
    BY <2>1 DEF controlVars
  <2>2. ASSUME NEW s \in Services, NEW p \in Priorities,
               AcquireSdkFails(s, p) \/ AcquireGranted(s, p)
        PROVE  holderPriority' >= holderPriority
    <3>1. CASE AcquireSdkFails(s, p)
      BY <3>1 DEF AcquireSdkFails
    <3>2. CASE AcquireGranted(s, p)
      <4>1. holderPriority \in Int /\ p \in Int
        BY PrioritiesAssumption
        DEF ControlInv, ClientTypeOK, ControlTypeOK, NoPriority
      <4>2. holderPriority' = p /\ ~(holderPriority > p)
        BY <3>2 DEF AcquireGranted, Outranks
      <4>3. QED BY <4>1, <4>2
    <3>3. QED BY <2>2, <3>1, <3>2
  <2>3. CASE DropControl
    BY <2>3 DEF DropControl
  <2>4. QED BY <2>1, <2>2, <2>3, ClientStepIsControlStep
<1>2. QED
  BY <1>1, ControlInvariance, PTL DEF ClientSpec, NoPriorityInversion

-----------------------------------------------------------------------------
(* The navigation controller.                                               *)
\* A thread that is on its way to a result, or to seeing _running clear.
Going(n) == pc[n] \notin {"done", "docking", "release"}

(***************************************************************************)
(* The inductive invariant: behind a busy state of a running controller    *)
(* there is a navigation that goes, or a call that is about to set the     *)
(* state.  A thread that has its result can have its state overwritten by  *)
(* another, so threads that are merely alive are not enough.               *)
(***************************************************************************)
BusyIsDriven ==
    running /\ navState \in Busy
      => \/ \E n \in Navs : Going(n)
         \/ cancelPc # "idle" \/ adminPc # "idle"

\* A segment that is driven is one of the path.
DrivesASegment == \A n \in Navs : pc[n] = "driving" => seg[n] <= Segments

NavInv == NavTypeOK /\ DrivesASegment /\ BusyIsDriven

-----------------------------------------------------------------------------
\* The manager keeps the types of its fields.
LEMMA ControlKeepsTypes ==
    ASSUME ControlTypeOK, NEW s \in Services,
           \/ Acquire(s, OverridePriority) \/ Release(s) \/ ForceRelease
           \/ UNCHANGED controlVars
    PROVE  ControlTypeOK'
<1> USE DEF ControlTypeOK
<1>1. CASE AcquireNoChange(s, OverridePriority) \/ UNCHANGED controlVars
  BY <1>1 DEF AcquireNoChange, controlVars
<1>2. CASE AcquireSdkFails(s, OverridePriority)
  <2>1. robotControl' \in BOOLEAN
    <3>1. robotControl \in BOOLEAN /\ robotControl' \in {robotControl, TRUE}
      BY <1>2 DEF AcquireSdkFails
    <3>. QED BY ONLY <3>1, Zenon
  <2>. QED BY <1>2, <2>1 DEF AcquireSdkFails
<1>3. CASE AcquireGranted(s, OverridePriority)
  <2>1. hasSdkControl' \in BOOLEAN
    BY <1>3, Zenon DEF AcquireGranted
  <2>2. robotControl' \in BOOLEAN
    BY <1>3, Zenon DEF AcquireGranted
  <2>. QED BY <1>3, <2>1, <2>2, OverrideAssumption DEF AcquireGranted
<1>4. CASE DropControl
  <2>1. robotControl' \in BOOLEAN
    <3>1. robotControl \in BOOLEAN
          /\ (robotControl' \in {FALSE, robotControl} \/ robotControl' \in {robotControl})
      BY <1>4 DEF DropControl
    <3>. QED BY ONLY <3>1, Zenon
  <2>2. hasSdkControl' \in BOOLEAN
    BY <1>4, Zenon DEF DropControl
  <2>. QED BY <1>4, <2>1, <2>2 DEF DropControl
<1>. QED BY <1>1, <1>2, <1>3, <1>4 DEF Acquire, Release, ForceRelease

-----------------------------------------------------------------------------
\* The types, through the steps of a navigation thread.
LEMMA TaskKeepsTypes ==
    ASSUME NavTypeOK, DrivesASegment, NEW n \in Navs, NavigateTask(n)
    PROVE  NavTypeOK'
<1> USE NavAssumption
    DEF NavTypeOK, NavStates, Goto, End, apiVars
<1>1. CASE ReadTarget(n) \/ ToPlanning(n) \/ QuitNotRunning(n) \/ BeginAttempt(n)
  <2>1. ControlTypeOK'
    BY <1>1, ControlKeepsTypes
    DEF ReadTarget, ToPlanning, QuitNotRunning, BeginAttempt
  <2>. QED BY <1>1, <2>1
       DEF ReadTarget, ToPlanning, QuitNotRunning, BeginAttempt
<1>2. CASE RequestControl(n)
  <2>1. ControlTypeOK'
    BY <1>2, ControlKeepsTypes DEF RequestControl
  <2>. QED BY <1>2, <2>1 DEF RequestControl
<1>3. CASE PathFound(n) \/ NoPathRetry(n) \/ NoPathBlocked(n)
  <2>1. ControlTypeOK'
    BY <1>3, ControlKeepsTypes DEF PathFound, NoPathRetry, NoPathBlocked
  <2>. QED BY <1>3, <2>1 DEF PathFound, NoPathRetry, NoPathBlocked
<1>4. CASE SkipSegment(n) \/ DriveSegment(n)
  <2>1. ControlTypeOK'
    BY <1>4, ControlKeepsTypes DEF SkipSegment, DriveSegment
  <2>. QED BY <1>4, <2>1 DEF SkipSegment, DriveSegment
<1>5. CASE SegmentDriven(n)
  <2>1. ControlTypeOK'
    BY <1>5, ControlKeepsTypes DEF SegmentDriven
  <2>2. seg[n] <= Segments
    BY <1>5 DEF SegmentDriven, DrivesASegment
  <2>. QED BY <1>5, <2>1, <2>2 DEF SegmentDriven
<1>6. CASE PathFails(n)
  <2>1. ControlTypeOK'
    BY <1>6, ControlKeepsTypes DEF PathFails
  <2>. QED BY <1>6, <2>1 DEF PathFails
<1>7. CASE Arrive(n) \/ Docked(n) \/ Exhausted(n)
  <2>1. ControlTypeOK'
    BY <1>7, ControlKeepsTypes DEF Arrive, Docked, Exhausted
  <2>. QED BY <1>7, <2>1 DEF Arrive, Docked, Exhausted
<1>8. CASE ReleaseControl(n)
  <2>1. ControlTypeOK'
    BY <1>8, ControlKeepsTypes DEF ReleaseControl
  <2>. QED BY <1>8, <2>1 DEF ReleaseControl
<1>. QED
  BY <1>1, <1>2, <1>3, <1>4, <1>5, <1>6, <1>7, <1>8 DEF NavigateTask

\* Through the calls, and the other services.
LEMMA CallsKeepTypes ==
    ASSUME NavTypeOK, NavCalls \/ NavAdmin \/ OthersControl
    PROVE  NavTypeOK'
<1> USE NavAssumption
    DEF NavTypeOK, NavStates, threadVars, apiVars
<1>1. ASSUME NEW c \in Callers, CallCheck(c)
      PROVE  NavTypeOK'
  <2>1. ControlTypeOK'
    BY <1>1, ControlKeepsTypes DEF CallCheck
  <2>. QED BY <1>1, <2>1 DEF CallCheck
<1>2. ASSUME NEW c \in Callers, NEW n \in Navs, NEW t \in Targets,
             CallSpawn(c, n, t)
      PROVE  NavTypeOK'
  <2>1. ControlTypeOK'
    BY <1>2, ControlKeepsTypes DEF CallSpawn
  <2>. QED BY <1>2, <2>1 DEF CallSpawn, SpawnThread
<1>3. CASE NavAdmin
  <2>1. ControlTypeOK'
    BY <1>3, ControlKeepsTypes
    DEF NavAdmin, CancelClear, CancelRestore, CancelIdle, StartSetRunning,
        StartIdle, StartMapping, StopMapping, StopClear, StopIdle
  <2>2. running' \in BOOLEAN
    <3>1. running \in BOOLEAN /\ running' \in {running, TRUE, FALSE}
      BY <1>3
      DEF NavAdmin, CancelClear, CancelRestore, CancelIdle, StartSetRunning,
          StartIdle, StartMapping, StopMapping, StopClear, StopIdle
    <3>. QED BY ONLY <3>1, Zenon
  <2>3. /\ navState' \in NavStates /\ callPc' = callPc
        /\ UNCHANGED threadVars
    BY <1>3
    DEF NavAdmin, CancelClear, CancelRestore, CancelIdle, StartSetRunning,
        StartIdle, StartMapping, StopMapping, StopClear, StopIdle
  <2>4. /\ cancelPc' \in {"idle", "cleared", "restored"}
        /\ adminPc' \in {"idle", "starting", "startMapping", "mapping", "joining"}
    BY <1>3
    DEF NavAdmin, CancelClear, CancelRestore, CancelIdle, StartSetRunning,
        StartIdle, StartMapping, StopMapping, StopClear, StopIdle
  <2>. QED BY <2>1, <2>2, <2>3, <2>4
<1>4. CASE OthersControl
  <2>1. ControlTypeOK'
    BY <1>4, ControlKeepsTypes DEF OthersControl
  <2>2. UNCHANGED navVars
    BY <1>4 DEF OthersControl
  <2>. QED BY <2>1, <2>2 DEF navVars
<1>. QED BY <1>1, <1>2, <1>3, <1>4 DEF NavCalls

-----------------------------------------------------------------------------
(***************************************************************************)
(* What clients see of the steps: a thread's place maps to the phase of    *)
(* the navigation, as in the INSTANCE of NavService.                       *)
(***************************************************************************)
PhaseOf(place) ==
    CASE place = "done" -> "none"
      [] place \in {"docking", "release"} -> "over"
      [] OTHER -> "going"

Phase == [n \in Navs |-> PhaseOf(pc[n])]

\* A step of a thread, seen from outside.
TaskSeen(n) ==
    \/ Phase' = Phase /\ navState' = navState
    \/ Phase[n] = "going" /\ Phase' = Phase /\ navState' \in Busy
    \/ Phase[n] = "going" /\ Phase' = [Phase EXCEPT ![n] = "over"]
         /\ navState' \in {"ARRIVED", "BLOCKED"}
    \/ Phase[n] = "going" /\ Phase' = [Phase EXCEPT ![n] = "none"]
         /\ navState' = "BLOCKED"
    \/ Phase[n] = "going" /\ Phase' = [Phase EXCEPT ![n] = "none"]
         /\ navState' = navState /\ ~running
    \/ Phase[n] = "over" /\ Phase' = [Phase EXCEPT ![n] = "none"]
         /\ navState' = navState

LEMMA PhaseMoves ==
    ASSUME NavTypeOK, NEW n \in Navs, NEW from, NEW to, Goto(n, from, to)
    PROVE  /\ Phase[n] = PhaseOf(from)
           /\ Phase' = [Phase EXCEPT ![n] = PhaseOf(to)]
BY DEF NavTypeOK, Goto, Phase

LEMMA TaskIsSeen ==
    ASSUME NavTypeOK, NEW n \in Navs, NavigateTask(n)
    PROVE  TaskSeen(n) /\ UNCHANGED <<running, callPc, cancelPc, adminPc>>
<1> USE DEF apiVars
<1>. UNCHANGED <<running, callPc, cancelPc, adminPc>>
  BY DEF NavigateTask, ReadTarget, RequestControl, ToPlanning, QuitNotRunning,
         BeginAttempt, PathFound, NoPathRetry, NoPathBlocked, SkipSegment,
         DriveSegment, SegmentDriven, PathFails, Arrive, Docked, Exhausted,
         ReleaseControl
<1>1. ASSUME NEW from, NEW to, Goto(n, from, to), PhaseOf(from) = PhaseOf(to)
      PROVE  Phase' = Phase
  BY <1>1, PhaseMoves DEF Phase
<1>2. CASE ReadTarget(n) \/ RequestControl(n) \/ BeginAttempt(n)
           \/ NoPathRetry(n) \/ DriveSegment(n) \/ SegmentDriven(n) \/ Docked(n)
  <2>1. Phase' = Phase
    BY <1>1, <1>2
    DEF ReadTarget, RequestControl, BeginAttempt, NoPathRetry, DriveSegment,
        SegmentDriven, Docked, PhaseOf
  <2>2. navState' = navState
    BY <1>2
    DEF ReadTarget, RequestControl, BeginAttempt, NoPathRetry, DriveSegment,
        SegmentDriven, Docked
  <2>. QED BY <2>1, <2>2 DEF TaskSeen
<1>3. CASE SkipSegment(n)
  BY <1>3 DEF SkipSegment, Phase, TaskSeen
<1>4. CASE ToPlanning(n) \/ PathFound(n)
  <2>1. Phase' = Phase
    BY <1>1, <1>4 DEF ToPlanning, PathFound, PhaseOf
  <2>2. Phase[n] = "going" /\ navState' \in Busy
    BY <1>4 DEF ToPlanning, PathFound, Goto, Phase, PhaseOf, Busy
  <2>. QED BY <2>1, <2>2 DEF TaskSeen
<1>5. CASE PathFails(n)
  <2>1. \E from \in {"segment", "driving"}, to \in {"attempt", "exhausted"} :
            Goto(n, from, to)
    BY <1>5 DEF PathFails, Goto
  <2>2. Phase' = Phase /\ Phase[n] = "going"
    BY <1>1, <2>1, PhaseMoves DEF PhaseOf
  <2>. QED BY <1>5, <2>2 DEF PathFails, TaskSeen, Busy
<1>6. CASE QuitNotRunning(n) \/ NoPathBlocked(n)
  <2>1. \E from \in {"attempt", "planning"} : Goto(n, from, "done")
    BY <1>6 DEF QuitNotRunning, NoPathBlocked, End
  <2>2. Phase[n] = "going" /\ Phase' = [Phase EXCEPT ![n] = "none"]
    BY <2>1, PhaseMoves DEF PhaseOf
  <2>. QED BY <1>6, <2>2 DEF QuitNotRunning, NoPathBlocked, TaskSeen
<1>7. CASE Arrive(n) \/ Exhausted(n)
  <2>1. \E from \in {"segment", "exhausted"}, to \in {"docking", "release"} :
            Goto(n, from, to)
    BY <1>7 DEF Arrive, Exhausted
  <2>2. Phase[n] = "going" /\ Phase' = [Phase EXCEPT ![n] = "over"]
    BY <2>1, PhaseMoves DEF PhaseOf
  <2>. QED BY <1>7, <2>2 DEF Arrive, Exhausted, TaskSeen
<1>8. CASE ReleaseControl(n)
  <2>1. Goto(n, "release", "done") /\ navState' = navState
    BY <1>8 DEF ReleaseControl, End
  <2>2. Phase[n] = "over" /\ Phase' = [Phase EXCEPT ![n] = "none"]
    BY <2>1, PhaseMoves DEF PhaseOf
  <2>. QED BY <2>1, <2>2 DEF TaskSeen
<1>. QED BY <1>2, <1>3, <1>4, <1>5, <1>6, <1>7, <1>8 DEF NavigateTask

\* A call, seen from outside: the start of a navigation, a switch of _running
\* with the call under way from then on, or a settled state.
LEMMA CallsAreSeen ==
    ASSUME NavTypeOK, NavCalls \/ NavAdmin \/ OthersControl
    PROVE  \/ \E c \in Callers : CallCheck(c)
           \/ \E c \in Callers, n \in Navs, t \in Targets : CallSpawn(c, n, t)
           \/ /\ Phase' = Phase /\ callPc' = callPc /\ pc' = pc /\ seg' = seg
              /\ \/ /\ navState' = navState
                    /\ \/ UNCHANGED <<running, cancelPc, adminPc>>
                       \/ ~running'
                       \/ running' /\ (cancelPc' # "idle" \/ adminPc' # "idle")
                 \/ navState' \in {"IDLE", "MAPPING"} /\ running' = running
<1>1. CASE NavCalls
  BY <1>1 DEF NavCalls
<1>2. CASE NavAdmin
  <2>1. pc' = pc /\ callPc' = callPc /\ seg' = seg
    BY <1>2
    DEF NavAdmin, CancelClear, CancelRestore, CancelIdle, StartSetRunning,
        StartIdle, StartMapping, StopMapping, StopClear, StopIdle, threadVars,
        apiVars
  <2>2. Phase' = Phase
    BY <2>1 DEF Phase
  <2>3. CASE CancelClear \/ StopClear
    <3>1. navState' = navState /\ ~running'
      BY <2>3 DEF CancelClear, StopClear
    <3>. QED BY <2>1, <2>2, <3>1
  <2>4. CASE CancelRestore \/ StartSetRunning("starting")
             \/ StartSetRunning("startMapping")
    <3>1. navState' = navState /\ running'
          /\ (cancelPc' # "idle" \/ adminPc' # "idle")
      BY <2>4 DEF CancelRestore, StartSetRunning
    <3>. QED BY <2>1, <2>2, <3>1
  <2>5. CASE CancelIdle \/ StartIdle \/ StartMapping \/ StopMapping \/ StopIdle
    <3>1. navState' \in {"IDLE", "MAPPING"} /\ running' = running
      BY <2>5 DEF CancelIdle, StartIdle, StartMapping, StopMapping, StopIdle,
                  apiVars
    <3>. QED BY <2>1, <2>2, <3>1
  <2>. QED BY <1>2, <2>3, <2>4, <2>5 DEF NavAdmin
<1>3. CASE OthersControl
  <2>1. UNCHANGED <<navState, running, pc, seg, callPc, cancelPc, adminPc>>
    BY <1>3 DEF OthersControl, navVars, threadVars, apiVars
  <2>. QED BY <2>1 DEF Phase
<1>. QED BY <1>1, <1>2, <1>3

-----------------------------------------------------------------------------
\* Going, in terms of the phase, before and after a step.
LEMMA GoingIsPhase ==
    \A n \in Navs : /\ Going(n) <=> Phase[n] = "going"
                    /\ Going(n)' <=> Phase'[n] = "going"
BY DEF Going, Phase, PhaseOf

LEMMA BusyIsDrivenInductive ==
    ASSUME NavInv, NavNext
    PROVE  BusyIsDriven'
<1> USE DEF NavInv
<1>1. ASSUME NEW n \in Navs, NavigateTask(n)
      PROVE  BusyIsDriven'
  <2>1. TaskSeen(n) /\ UNCHANGED <<running, cancelPc, adminPc>>
    BY <1>1, TaskIsSeen
  <2>2. CASE Phase' = Phase /\ navState' = navState
    BY <2>1, <2>2, GoingIsPhase DEF BusyIsDriven
  <2>3. CASE Phase[n] = "going" /\ Phase' = Phase
    <3>1. Going(n)'
      BY <2>3, GoingIsPhase
    <3>. QED BY <3>1 DEF BusyIsDriven
  <2>4. CASE navState' \in {"ARRIVED", "BLOCKED"}
    BY <2>4 DEF BusyIsDriven, Busy
  <2>5. CASE navState' = navState /\ ~running
    BY <2>1, <2>5 DEF BusyIsDriven
  <2>6. CASE /\ Phase[n] = "over" /\ Phase' = [Phase EXCEPT ![n] = "none"]
             /\ navState' = navState
    <3>1. \A m \in Navs : Phase[m] = "going" => Phase'[m] = "going"
      BY <2>6 DEF Phase
    <3>2. \A m \in Navs : Going(m) => Going(m)'
      BY <3>1, GoingIsPhase
    <3>. QED BY <2>1, <2>6, <3>2 DEF BusyIsDriven
  <2>. QED BY <2>1, <2>2, <2>3, <2>4, <2>5, <2>6 DEF TaskSeen
<1>2. CASE NavCalls \/ NavAdmin \/ OthersControl
  <2>1. ASSUME NEW c \in Callers, CallCheck(c)
        PROVE  BusyIsDriven'
    BY <2>1 DEF CallCheck, threadVars, BusyIsDriven, Going
  <2>2. ASSUME NEW c \in Callers, NEW n \in Navs, NEW t \in Targets,
               CallSpawn(c, n, t)
        PROVE  BusyIsDriven'
    <3>1. pc'[n] = "spawned"
      BY <2>2 DEF CallSpawn, SpawnThread, NavTypeOK
    <3>2. Going(n)'
      BY <3>1 DEF Going
    <3>. QED BY <3>2 DEF BusyIsDriven
  <2>3. ASSUME pc' = pc,
               \/ /\ navState' = navState
                  /\ \/ UNCHANGED <<running, cancelPc, adminPc>>
                     \/ ~running'
                     \/ running' /\ (cancelPc' # "idle" \/ adminPc' # "idle")
               \/ navState' \in {"IDLE", "MAPPING"}
        PROVE  BusyIsDriven'
    BY <2>3 DEF BusyIsDriven, Going, Busy
  <2>. QED BY <1>2, <2>1, <2>2, <2>3, CallsAreSeen
<1>. QED BY <1>1, <1>2 DEF NavNext

LEMMA DrivesASegmentInductive ==
    ASSUME NavInv, NavNext
    PROVE  DrivesASegment'
<1> USE DEF NavInv, DrivesASegment
<1>1. ASSUME NEW n \in Navs, NavigateTask(n)
      PROVE  DrivesASegment'
  <2>1. /\ \A m \in Navs \ {n} : pc'[m] = pc[m] /\ seg'[m] = seg[m]
        /\ pc'[n] = "driving" => seg'[n] <= Segments
    BY <1>1
    DEF NavTypeOK, NavigateTask, ReadTarget, RequestControl, ToPlanning,
        QuitNotRunning, BeginAttempt, PathFound, NoPathRetry, NoPathBlocked,
        SkipSegment, DriveSegment, SegmentDriven, PathFails, Arrive, Docked,
        Exhausted, ReleaseControl, End, Goto
  <2>. QED BY <2>1
<1>2. CASE NavCalls \/ NavAdmin \/ OthersControl
  <2>1. ASSUME NEW c \in Callers, CallCheck(c)
        PROVE  DrivesASegment'
    BY <2>1 DEF CallCheck, threadVars
  <2>2. ASSUME NEW c \in Callers, NEW n \in Navs, NEW t \in Targets,
               CallSpawn(c, n, t)
        PROVE  DrivesASegment'
    BY <2>2 DEF CallSpawn, SpawnThread, NavTypeOK
  <2>. QED BY <1>2, <2>1, <2>2, CallsAreSeen
<1>. QED BY <1>1, <1>2 DEF NavNext

LEMMA NavInvInductive == NavInv /\ [NavNext]_navSysVars => NavInv'
<1> SUFFICES ASSUME NavInv, [NavNext]_navSysVars
             PROVE  NavInv'
  OBVIOUS
<1>1. CASE UNCHANGED navSysVars
  BY <1>1
  DEF navSysVars, navVars, threadVars, apiVars, controlVars, NavInv, NavTypeOK,
      ControlTypeOK, DrivesASegment, BusyIsDriven, Going
<1>2. CASE NavNext
  <2>1. NavTypeOK'
    BY <1>2, TaskKeepsTypes, CallsKeepTypes DEF NavInv, NavNext
  <2>. QED BY <1>2, <2>1, BusyIsDrivenInductive, DrivesASegmentInductive
       DEF NavInv
<1>. QED BY <1>1, <1>2

LEMMA NavInvariance == NavSpec => []NavInv
<1>1. NavInit => NavInv
  <2> SUFFICES ASSUME NavInit PROVE NavInv
    OBVIOUS
  <2>1. ControlTypeOK
    <3>1. hasSdkControl \in BOOLEAN /\ robotControl \in BOOLEAN
      BY Zenon DEF NavInit, ControlInit
    <3>. QED BY <3>1 DEF NavInit, ControlInit, ControlTypeOK
  <2>2. running \in BOOLEAN /\ ~running
    BY Zenon DEF NavInit, NavFieldsInit
  <2>3. /\ attempt \in [Navs -> 1 .. MaxAttempts]
        /\ seg \in [Navs -> 1 .. Segments + 1]
    BY NavAssumption DEF NavInit, NavFieldsInit
  <2>4. NavTypeOK
    BY <2>1, <2>2, <2>3 DEF NavInit, NavFieldsInit, NavTypeOK, NavStates
  <2>5. DrivesASegment
    BY DEF NavInit, NavFieldsInit, DrivesASegment
  <2>. QED BY <2>2, <2>4, <2>5 DEF NavInv, BusyIsDriven
<1>. QED BY <1>1, NavInvInductive, PTL DEF NavSpec

-----------------------------------------------------------------------------
(***************************************************************************)
(* The controller's fields and its threads keep their types: attempts and  *)
(* segments stay within their bounds (_navigate_task, _execute_path).      *)
(***************************************************************************)
THEOREM NavTypeCorrect == NavSpec => []NavTypeOK
<1>1. NavInv => NavTypeOK BY DEF NavInv
<1>. QED BY <1>1, NavInvariance, PTL

(***************************************************************************)
(* The controller never locks itself out: without a navigation or a call   *)
(* under way, a running controller accepts the next navigation.            *)
(***************************************************************************)
THEOREM QuietMeansAvailableAlways == NavSpec => []QuietMeansAvailable
<1>1. NavInv => QuietMeansAvailable
  <2>1. \A n \in Navs : Going(n) => Alive(n)
    BY DEF Going, Alive
  <2>. QED BY <2>1 DEF NavInv, BusyIsDriven, QuietMeansAvailable
<1>. QED BY <1>1, NavInvariance, PTL

(***************************************************************************)
(* The controller implements the navigation service its clients rely on:   *)
(* every step of a thread and of a call is one of the service, or a        *)
(* stutter (navigate_to_waypoint, _navigate_task, cancel_navigation).      *)
(***************************************************************************)
THEOREM ControllerImplementsNavService == NavSpec => ImplementsNavService
<1> DEFINE phase == [n \in Navs |-> CASE pc[n] = "done" -> "none"
                                      [] pc[n] \in {"docking", "release"} -> "over"
                                      [] OTHER -> "going"]
<1>1. Phase = phase
  BY DEF Phase, PhaseOf
<1>2. NavInit => Service!ServiceInit
  BY DEF NavInit, NavFieldsInit, Service!ServiceInit
<1>3. NavInv /\ [NavNext]_navSysVars
        => [Service!ServiceNext]_<<running, navState, phase, callPc>>
  <2> SUFFICES ASSUME NavInv, [NavNext]_navSysVars
               PROVE  Service!ServiceNext
                      \/ UNCHANGED <<running, navState, phase, callPc>>
    OBVIOUS
  <2>1. CASE UNCHANGED navSysVars
    BY <2>1 DEF navSysVars, navVars, threadVars, apiVars
  <2>2. ASSUME NEW n \in Navs, NavigateTask(n)
        PROVE  Service!ServiceNext
               \/ UNCHANGED <<running, navState, phase, callPc>>
    <3>1. TaskSeen(n) /\ running' = running /\ callPc' = callPc
      BY <2>2, TaskIsSeen DEF NavInv
    <3>2. Phase' = phase'
      BY DEF Phase, PhaseOf
    <3>3. \/ Service!Report(n) \/ Service!Arrive(n) \/ Service!Fail(n)
          \/ Service!Quit(n) \/ Service!Finish(n)
          \/ UNCHANGED <<running, navState, phase, callPc>>
      BY <3>1, <3>2, <1>1
      DEF TaskSeen, Service!Report, Service!Arrive, Service!Fail, Service!Quit,
          Service!Finish, Service!Busy, Busy
    <3>. QED BY <3>3 DEF Service!ServiceNext, Service!Ends
  <2>3. CASE NavCalls \/ NavAdmin \/ OthersControl
    <3>1. ASSUME NEW c \in Callers, CallCheck(c)
          PROVE  Service!ServiceNext
      <4>1. Service!CheckFree(c)
        BY <3>1 DEF CallCheck, threadVars, Service!CheckFree, Service!Busy, Busy
      <4>. QED BY <4>1 DEF Service!ServiceNext
    <3>2. ASSUME NEW c \in Callers, NEW n \in Navs, NEW t \in Targets,
                 CallSpawn(c, n, t)
          PROVE  Service!ServiceNext
      <4>1. pc[n] = "done" /\ pc' = [pc EXCEPT ![n] = "spawned"]
        BY <3>2 DEF CallSpawn, SpawnThread, Alive
      <4>2. phase[n] = "none" /\ phase' = [phase EXCEPT ![n] = "going"]
        BY <4>1 DEF NavInv, NavTypeOK
      <4>3. Service!Launch(c, n)
        BY <3>2, <4>2 DEF CallSpawn, Service!Launch
      <4>. QED BY <4>3 DEF Service!ServiceNext
    <3>3. ASSUME pc' = pc, callPc' = callPc,
                 \/ navState' = navState
                 \/ navState' \in {"IDLE", "MAPPING"} /\ running' = running
          PROVE  Service!ServiceNext
                 \/ UNCHANGED <<running, navState, phase, callPc>>
      <4>1. phase' = phase BY <3>3
      <4>2. running' \in BOOLEAN /\ running \in BOOLEAN
        BY <2>3, CallsKeepTypes DEF NavInv, NavTypeOK
      <4>3. CASE navState' = navState
        <5>1. running' = running \/ running' = ~running
          BY <4>2, Zenon
        <5>. QED BY <3>3, <4>1, <4>3, <5>1 DEF Service!Switch, Service!ServiceNext
      <4>4. CASE navState' \in {"IDLE", "MAPPING"} /\ running' = running
        BY <3>3, <4>1, <4>4 DEF Service!Settle, Service!ServiceNext
      <4>. QED BY <3>3, <4>3, <4>4
    <3>. QED BY <2>3, <3>1, <3>2, <3>3, CallsAreSeen DEF NavInv
  <2>. QED BY <2>1, <2>2, <2>3 DEF NavNext
<1>. QED BY <1>2, <1>3, NavInvariance, PTL
     DEF NavSpec, ImplementsNavService, Service!ServiceSpec, Service!serviceVars
=============================================================================
