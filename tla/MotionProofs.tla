---------------------------- MODULE MotionProofs ----------------------------
(***************************************************************************)
(* Proofs about the controllers that move the robot on its own: the motor  *)
(* gate with the cliff monitor, and the guardian over the navigation       *)
(* service.                                                                *)
(***************************************************************************)
EXTENDS MotorController, Patrol, FiniteSetTheorems, TLAPS

-----------------------------------------------------------------------------
(***************************************************************************)
(* The motor gate, for any number of driver threads and any ramp length:   *)
(* it lets a thread send at most one more command toward a side once that  *)
(* side has been reported. The invariant that carries it: the reported     *)
(* sides are the flagged ones, and a thread that has used up its late      *)
(* command toward a side is not past the test of the flags with another    *)
(* one, because the side is still flagged and every command is tested      *)
(* against the flags right before it.                                      *)
(***************************************************************************)
\* t has passed its last test and is about to send a command toward s.
InFlight(t, s) ==
    /\ drvPc[t] \in {"act", "rampSend"}
    /\ BlockedBy(drvDir[t], {s})

LateIsSpent ==
    \A t \in Drivers, s \in Sides :
       late[t][s] # 0 => late[t][s] = 1 /\ s \in flags /\ ~InFlight(t, s)

SeenIsFlagged == seen = flags

MotorInv == MotorTypeOK /\ SeenIsFlagged /\ LateIsSpent

(***************************************************************************)
(* A direction blocked by one side is blocked by every set holding it.     *)
(***************************************************************************)
LEMMA BlockedBySuperset ==
    ASSUME NEW d, NEW s, NEW F, s \in F, BlockedBy(d, {s})
    PROVE  BlockedBy(d, F)
  BY DEF BlockedBy

(***************************************************************************)
(* Initially nothing is flagged, reported or counted.                      *)
(***************************************************************************)
LEMMA MotorInvInit == MotorInit => MotorInv
<1> SUFFICES ASSUME MotorInit PROVE MotorInv
  OBVIOUS
<1>1. late \in [Drivers -> [Sides -> 0 .. 2]]
  BY DEF MotorInit
<1>2. rampStep \in [Drivers -> 1 .. RampSteps]
  BY MotorAssumption DEF MotorInit
<1>3. MotorTypeOK
  BY <1>1, <1>2 DEF MotorInit, MotorTypeOK, Sides, Directions, Kinds
<1>4. LateIsSpent
  BY DEF MotorInit, LateIsSpent
<1> QED BY <1>3, <1>4 DEF MotorInit, MotorInv, SeenIsFlagged

(***************************************************************************)
(* Type correctness is inductive by itself.                                *)
(***************************************************************************)
LEMMA MotorTypeInductive ==
    MotorTypeOK /\ [MotorNext]_motorVars => MotorTypeOK'
<1> SUFFICES ASSUME MotorTypeOK, [MotorNext]_motorVars
             PROVE  MotorTypeOK'
  OBVIOUS
<1> USE MotorAssumption DEF MotorTypeOK, Sides, Directions, Kinds, Goto,
        GotoForget, Return, Send
<1>1. CASE \E sides \in SUBSET Sides : CliffReport(sides)
  BY <1>1 DEF CliffReport, cliffVars, drvVars
<1>2. CASE Sensor
  BY <1>2 DEF Sensor, StopMotors, StopMotorsRaises, TriggerCliff, cliffVars, drvVars
<1>3. CASE StartController
  BY <1>3 DEF StartController, sensorVars, drvVars
<1>4. ASSUME NEW t \in Drivers, NEW d \in Directions, NEW k \in Kinds,
             Command(t, d, k)
      PROVE  MotorTypeOK'
  BY <1>4 DEF Command, cliffVars, sensorVars
<1>5. ASSUME NEW t \in Drivers, EmergencyStop(t)
      PROVE  MotorTypeOK'
  BY <1>5 DEF EmergencyStop, cliffVars, sensorVars
<1>6. ASSUME NEW t \in Drivers, Driver(t)
      PROVE  MotorTypeOK'
  <2> USE DEF cliffVars, sensorVars
  <2>1. ASSUME NEW d \in Directions, CountLate(t, d)
        PROVE  late' \in [Drivers -> [Sides -> 0 .. 2]]
    <3> DEFINE row == [s \in Sides |->
                         IF s \in seen /\ BlockedBy(d, {s}) /\ late[t][s] < 2
                         THEN late[t][s] + 1 ELSE late[t][s]]
    <3>1. row \in [Sides -> 0 .. 2]
      OBVIOUS
    <3>2. late' = [late EXCEPT ![t] = row]
      BY <2>1 DEF CountLate
    <3> QED BY <3>1, <3>2
  <2>2. CASE LatchRefuses(t)
    BY <2>2 DEF LatchRefuses
  <2>3. CASE LatchPasses(t)
    BY <2>3 DEF LatchPasses
  <2>4. CASE CliffRefuses(t)
    BY <2>4 DEF CliffRefuses
  <2>5. CASE CliffPasses(t)
    BY <2>5 DEF CliffPasses
  <2>6. CASE BehaviorEnds(t)
    BY <2>6 DEF BehaviorEnds
  <2>7. CASE RampPasses(t)
    BY <2>7 DEF RampPasses
  <2>8. CASE RampBlocked(t)
    BY <2>8 DEF RampBlocked
  <2>9. CASE RampZero(t)
    BY <2>9 DEF RampZero
  <2>10. CASE EmergencyZero(t)
    BY <2>10 DEF EmergencyZero
  <2>11. CASE ClearLatch(t)
    BY <2>11 DEF ClearLatch
  <2>12. CASE ClearFlags(t)
    BY <2>12 DEF ClearFlags
  <2>13. CASE StopController(t)
    BY <2>13 DEF StopController
  <2>14. CASE ActWheels(t)
    BY <2>1, <2>14 DEF ActWheels
  <2>15. CASE ActBehavior(t)
    BY <2>1, <2>15 DEF ActBehavior
  <2>16. CASE RampSend(t)
    <3>1. drvDir[t] \in Directions
      OBVIOUS
    <3>2. late' \in [Drivers -> [Sides -> 0 .. 2]]
      BY <2>1, <2>16, <3>1 DEF RampSend
    <3>3. rampStep' \in [Drivers -> 1 .. RampSteps]
      <4>1. CASE rampStep[t] < RampSteps
        <5>1. rampStep[t] + 1 \in 1 .. RampSteps
          BY <4>1
        <5>2. rampStep' = [rampStep EXCEPT ![t] = rampStep[t] + 1]
          BY <2>16, <4>1 DEF RampSend
        <5> QED BY <5>1, <5>2
      <4>2. CASE ~(rampStep[t] < RampSteps)
        BY <2>16, <4>2 DEF RampSend
      <4> QED BY <4>1, <4>2
    <3>4. drvDir' \in [Drivers -> Directions] /\ drvKind' \in [Drivers -> Kinds]
      BY <2>16 DEF RampSend
    <3>5. drvPc' \in [Drivers -> {"idle", "latch", "cliff", "act", "moving",
                                 "rampCheck", "rampSend", "rampZero", "react",
                                 "zero", "stopped", "clearing"}]
      BY <2>16 DEF RampSend
    <3>6. wheels' \in Directions
      BY <2>16, <3>1 DEF RampSend
    <3> QED BY <2>16, <3>2, <3>3, <3>4, <3>5, <3>6 DEF RampSend
  <2>17. CASE React(t)
    <3>1. CASE flags \in {{"front"}, {"rear"}}
      BY <2>17, <3>1 DEF React
    <3>2. CASE flags \notin {{"front"}, {"rear"}}
      BY <2>17, <3>2 DEF React
    <3> QED BY <3>1, <3>2
  <2> QED BY <1>6, <2>2, <2>3, <2>4, <2>5, <2>6, <2>7, <2>8, <2>9, <2>10,
             <2>11, <2>12, <2>13, <2>14, <2>15, <2>16, <2>17 DEF Driver
<1>7. CASE UNCHANGED motorVars
  BY <1>7 DEF motorVars, cliffVars, sensorVars, drvVars
<1> QED BY <1>1, <1>2, <1>3, <1>4, <1>5, <1>6, <1>7 DEF MotorNext

(***************************************************************************)
(* A thread that moves to a place other than just before a command keeps   *)
(* the invariant, whatever direction it takes or forgets.                  *)
(***************************************************************************)
LEMMA MovesAside ==
    ASSUME MotorInv, NEW t \in Drivers, NEW to, to \notin {"act", "rampSend"},
           drvPc' = [drvPc EXCEPT ![t] = to],
           NEW d, drvDir' = [drvDir EXCEPT ![t] = d],
           UNCHANGED <<late, flags>>
    PROVE  LateIsSpent'
<1> SUFFICES ASSUME NEW u \in Drivers, NEW s \in Sides, late'[u][s] # 0
             PROVE  late'[u][s] = 1 /\ s \in flags' /\ ~InFlight(u, s)'
  BY DEF LateIsSpent
<1>1. late[u][s] = 1 /\ s \in flags /\ ~InFlight(u, s)
  BY DEF MotorInv, LateIsSpent
<1>2. CASE u = t
  BY <1>1, <1>2 DEF InFlight, MotorInv, MotorTypeOK
<1>3. CASE u # t
  BY <1>1, <1>3 DEF InFlight, MotorInv, MotorTypeOK, BlockedBy
<1> QED BY <1>2, <1>3

(***************************************************************************)
(* A thread that passes the test of the flags is not about to go toward a  *)
(* flagged side, so its late commands are not at stake.                    *)
(***************************************************************************)
LEMMA PassesTest ==
    ASSUME MotorInv, NEW t \in Drivers, NEW to,
           drvPc' = [drvPc EXCEPT ![t] = to],
           ~DirectionBlocked(drvDir[t]),
           UNCHANGED <<late, flags, drvDir>>
    PROVE  LateIsSpent'
<1> SUFFICES ASSUME NEW u \in Drivers, NEW s \in Sides, late'[u][s] # 0
             PROVE  late'[u][s] = 1 /\ s \in flags' /\ ~InFlight(u, s)'
  BY DEF LateIsSpent
<1>1. late[u][s] = 1 /\ s \in flags /\ ~InFlight(u, s)
  BY DEF MotorInv, LateIsSpent
<1>2. CASE u = t
  <2>1. ~BlockedBy(drvDir[u], {s})
    BY <1>1, <1>2, BlockedBySuperset DEF DirectionBlocked
  <2> QED BY <1>1, <2>1 DEF InFlight, BlockedBy
<1>3. CASE u # t
  BY <1>1, <1>3 DEF InFlight, MotorInv, MotorTypeOK, BlockedBy
<1> QED BY <1>2, <1>3

(***************************************************************************)
(* A thread that sends the command it was about to send had none to its    *)
(* account toward the sides that command goes to.                          *)
(***************************************************************************)
LEMMA SendsOnce ==
    ASSUME MotorInv, NEW t \in Drivers, drvPc[t] \in {"act", "rampSend"},
           NEW to, to \notin {"act", "rampSend"},
           drvPc' = [drvPc EXCEPT ![t] = to],
           NEW d, drvDir' = [drvDir EXCEPT ![t] = d],
           CountLate(t, drvDir[t]), UNCHANGED flags
    PROVE  LateIsSpent'
<1> SUFFICES ASSUME NEW u \in Drivers, NEW s \in Sides, late'[u][s] # 0
             PROVE  late'[u][s] = 1 /\ s \in flags' /\ ~InFlight(u, s)'
  BY DEF LateIsSpent
<1>0. late[u][s] # 0 => late[u][s] = 1 /\ s \in flags /\ ~InFlight(u, s)
  BY DEF MotorInv, LateIsSpent
<1>1. CASE u # t
  <2>1. late'[u][s] = late[u][s]
    BY <1>1 DEF CountLate, MotorInv, MotorTypeOK
  <2> QED BY <1>0, <1>1, <2>1 DEF InFlight, MotorInv, MotorTypeOK, BlockedBy
<1>2. CASE u = t
  <2>1. ~InFlight(u, s)'
    BY <1>2 DEF InFlight, MotorInv, MotorTypeOK
  <2>2. late'[t][s] = IF s \in seen /\ BlockedBy(drvDir[t], {s}) /\ late[t][s] < 2
                        THEN late[t][s] + 1 ELSE late[t][s]
    BY DEF CountLate, MotorInv, MotorTypeOK
  <2>3. CASE s \in seen /\ BlockedBy(drvDir[t], {s}) /\ late[t][s] < 2
    <3>1. late[t][s] = 0
      BY <1>0, <1>2, <2>3 DEF InFlight
    <3>2. late'[t][s] = 1 /\ s \in flags
      BY <2>2, <2>3, <3>1 DEF MotorInv, SeenIsFlagged
    <3> QED BY <1>2, <2>1, <3>2
  <2>4. CASE ~(s \in seen /\ BlockedBy(drvDir[t], {s}) /\ late[t][s] < 2)
    BY <1>0, <1>2, <2>1, <2>2, <2>4
  <2> QED BY <2>3, <2>4
<1> QED BY <1>1, <1>2

(***************************************************************************)
(* Every step keeps the invariant.                                         *)
(***************************************************************************)
LEMMA MotorInvInductive ==
    MotorInv /\ [MotorNext]_motorVars => MotorInv'
<1> SUFFICES ASSUME MotorInv, [MotorNext]_motorVars
             PROVE  SeenIsFlagged' /\ LateIsSpent'
  BY MotorTypeInductive DEF MotorInv
<1>1. CASE \E sides \in SUBSET Sides : CliffReport(sides)
  BY <1>1 DEF CliffReport, cliffVars, drvVars, MotorInv, SeenIsFlagged, LateIsSpent,
              InFlight, BlockedBy
<1>2. CASE StopMotors \/ StopMotorsRaises
  BY <1>2 DEF StopMotors, StopMotorsRaises, cliffVars, drvVars, MotorInv, SeenIsFlagged,
              LateIsSpent, InFlight, BlockedBy
<1>3. CASE TriggerCliff
  BY <1>3 DEF TriggerCliff, drvVars, MotorInv, SeenIsFlagged, LateIsSpent,
              InFlight, BlockedBy
<1>4. CASE StartController
  BY <1>4 DEF StartController, drvVars, MotorInv, SeenIsFlagged, LateIsSpent,
              InFlight, BlockedBy
<1>5. ASSUME NEW t \in Drivers, NEW d \in Directions, NEW k \in Kinds,
             Command(t, d, k)
      PROVE  SeenIsFlagged' /\ LateIsSpent'
  BY <1>5, MovesAside
  DEF Command, Goto, cliffVars, MotorInv, SeenIsFlagged
<1>6. ASSUME NEW t \in Drivers, EmergencyStop(t)
      PROVE  SeenIsFlagged' /\ LateIsSpent'
  <2>1. drvDir' = [drvDir EXCEPT ![t] = drvDir[t]]
    BY <1>6 DEF EmergencyStop, MotorInv, MotorTypeOK
  <2> QED BY <1>6, <2>1, MovesAside
          DEF EmergencyStop, Goto, cliffVars, MotorInv, SeenIsFlagged
<1>7. ASSUME NEW t \in Drivers, Driver(t)
      PROVE  SeenIsFlagged' /\ LateIsSpent'
  <2> USE DEF cliffVars, Goto, GotoForget, Return
  <2>0. drvDir = [drvDir EXCEPT ![t] = drvDir[t]]
    BY DEF MotorInv, MotorTypeOK
  <2>1. SeenIsFlagged'
    BY <1>7 DEF Driver, LatchRefuses, LatchPasses, CliffRefuses, CliffPasses,
                ActWheels, ActBehavior, BehaviorEnds, RampPasses, RampSend,
                RampBlocked, RampZero, React, EmergencyZero, ClearLatch,
                ClearFlags, StopController, MotorInv, SeenIsFlagged
  <2> SUFFICES LateIsSpent'
    BY <2>1
  <2>2. CASE LatchRefuses(t)
    BY <2>0, <2>2, MovesAside DEF LatchRefuses
  <2>3. CASE LatchPasses(t)
    BY <2>0, <2>3, MovesAside DEF LatchPasses
  <2>4. CASE CliffRefuses(t)
    BY <2>0, <2>4, MovesAside DEF CliffRefuses
  <2>5. CASE BehaviorEnds(t)
    BY <2>0, <2>5, MovesAside DEF BehaviorEnds
  <2>6. CASE RampBlocked(t)
    BY <2>0, <2>6, MovesAside DEF RampBlocked
  <2>7. CASE RampZero(t)
    BY <2>0, <2>7, MovesAside DEF RampZero
  <2>8. CASE EmergencyZero(t)
    BY <2>0, <2>8, MovesAside DEF EmergencyZero
  <2>9. CASE ClearLatch(t)
    BY <2>0, <2>9, MovesAside DEF ClearLatch
  <2>10. CASE StopController(t)
    BY <2>0, <2>10, MovesAside DEF StopController
  <2>11. CASE React(t)
    BY <2>0, <2>11, MovesAside DEF React
  <2>12. CASE CliffPasses(t)
    BY <2>12, PassesTest DEF CliffPasses
  <2>13. CASE RampPasses(t)
    BY <2>13, PassesTest DEF RampPasses
  <2>14. CASE ActWheels(t)
    BY <2>14, SendsOnce DEF ActWheels
  <2>15. CASE ActBehavior(t)
    BY <2>15, SendsOnce DEF ActBehavior
  <2>16. CASE RampSend(t)
    <3>1. CASE rampStep[t] < RampSteps
      BY <2>0, <2>16, <3>1, SendsOnce DEF RampSend
    <3>2. CASE ~(rampStep[t] < RampSteps)
      BY <2>16, <3>2, SendsOnce DEF RampSend
    <3> QED BY <3>1, <3>2
  <2>17. CASE ClearFlags(t)
    BY <2>17 DEF ClearFlags, LateIsSpent
  <2> QED BY <1>7, <2>1, <2>2, <2>3, <2>4, <2>5, <2>6, <2>7, <2>8, <2>9, <2>10, <2>11, <2>12, <2>13, <2>14, <2>15, <2>16, <2>17 DEF Driver
<1>8. CASE UNCHANGED motorVars
  BY <1>8 DEF motorVars, cliffVars, drvVars, MotorInv, SeenIsFlagged,
              LateIsSpent, InFlight, BlockedBy
<1> QED BY <1>1, <1>2, <1>3, <1>4, <1>5, <1>6, <1>7, <1>8 DEF MotorNext, Sensor

-----------------------------------------------------------------------------
(***************************************************************************)
(* Type correctness of the motor controller, for any drivers and ramps.    *)
(***************************************************************************)
THEOREM MotorTypeCorrect == MotorSpec => []MotorTypeOK
<1>1. MotorInit => MotorTypeOK
  BY MotorInvInit DEF MotorInv
<1> QED BY <1>1, MotorTypeInductive, PTL DEF MotorSpec

(***************************************************************************)
(* Where the cliff events are set up, no thread ever sends two             *)
(* commands toward a side after that side was reported: the race between   *)
(* the test in _safe_drive or ramp_wheels and the motor call costs at most *)
(* one command per thread and side.                                        *)
(***************************************************************************)
THEOREM OneLateCommandAtMost == MotorSpec => []AtMostOneLateCommand
<1>1. MotorInv /\ [MotorNext]_motorVars => MotorInv'
  BY MotorInvInductive
<1>2. MotorInv => AtMostOneLateCommand
  <2> SUFFICES ASSUME MotorInv, NEW t \in Drivers, NEW s \in Sides
               PROVE  late[t][s] <= 1
    BY DEF AtMostOneLateCommand
  <2>1. late[t][s] = 0 \/ late[t][s] = 1
    BY DEF MotorInv, LateIsSpent
  <2> QED BY <2>1
<1> QED BY MotorInvInit, <1>1, <1>2, PTL DEF MotorSpec

-----------------------------------------------------------------------------
(***************************************************************************)
(* The guardian, for any number of guardian threads, navigations and       *)
(* waypoints.                                                              *)
(*                                                                         *)
(* The inductive invariant.  A thread ends in the finally clause alone,    *)
(* which clears _running and sets IDLE; every other write of _running or   *)
(* of a working _state is made by a start under way or a living thread.    *)
(***************************************************************************)
PatrolInv == PatrolTypeOK /\ QuietGuardianCanStart

LEMMA SlotsType == Cardinality(Loops) \in Nat
BY LoopsAssumption, FS_CardinalityType DEF Loops

\* The calls of the clients keep the types.
LEMMA ApiKeepsTypes ==
    ASSUME PatrolTypeOK, GuardApi
    PROVE  PatrolTypeOK'
<1> USE DEF PatrolTypeOK, loopVars, guardApiVars, serviceVars
<1>1. CASE GuardStart
  <2>1. starting' \in 0 .. Cardinality(Loops)
    BY <1>1, SlotsType DEF GuardStart
  <2>2. gRunning' \in BOOLEAN /\ paused' \in BOOLEAN
    BY <1>1, Zenon DEF GuardStart
  <2>. QED BY <1>1, <2>1, <2>2 DEF GuardStart
<1>2. CASE GuardStop
  <2>1. gRunning' \in BOOLEAN
    BY <1>2, Zenon DEF GuardStop
  <2>. QED BY <1>2, <2>1 DEF GuardStop
<1>3. CASE GuardPause
  <2>1. paused' \in BOOLEAN
    BY <1>3, Zenon DEF GuardPause
  <2>. QED BY <1>3, <2>1 DEF GuardPause
<1>4. CASE GuardResume
  <2>1. paused' \in BOOLEAN
    BY <1>4, Zenon DEF GuardResume
  <2>. QED BY <1>4, <2>1 DEF GuardResume
<1>5. ASSUME NEW l \in Loops, GuardSpawn(l)
      PROVE  PatrolTypeOK'
  <2>1. starting' \in 0 .. Cardinality(Loops)
    BY <1>5, SlotsType DEF GuardSpawn
  <2>. QED BY <1>5, <2>1 DEF GuardSpawn
<1>. QED BY <1>1, <1>2, <1>3, <1>4, <1>5 DEF GuardApi

\* The next waypoint, or the next round.
LEMMA NextVisitType ==
    ASSUME PatrolTypeOK, NEW l \in Loops, NextVisit(l)
    PROVE  /\ loopPc' = [loopPc EXCEPT ![l] = "visit"]
              \/ loopPc' = [loopPc EXCEPT ![l] = "round"]
           /\ idx' \in [Loops -> 1 .. Stops]
  BY StopsAssumption DEF PatrolTypeOK, NextVisit

LEMMA LoopKeepsTypes ==
    ASSUME PatrolTypeOK, NEW l \in Loops, GuardLoop(l)
    PROVE  PatrolTypeOK'
<1> USE DEF PatrolTypeOK, Move, guardVars, loopVars, guardApiVars, serviceVars
<1>1. CASE Begin(l) \/ LeaveLoop(l) \/ BreakLoop(l)
  BY <1>1 DEF Begin, LeaveLoop, BreakLoop
<1>2. CASE BeginRound(l)
  <2>1. idx' \in [Loops -> 1 .. Stops]
    BY <1>2, StopsAssumption DEF BeginRound
  <2>. QED BY <1>2, <2>1 DEF BeginRound
<1>3. CASE BeginVisit(l)
  BY <1>3 DEF BeginVisit
<1>4. CASE CallNavigate(l)
  BY <1>4 DEF CallNavigate, CheckFree, Loops
<1>5. CASE CallRefused(l) \/ GivesUp(l)
  <2>1. NextVisit(l)
    BY <1>5 DEF CallRefused, GivesUp
  <2>. QED BY <1>5, <2>1, NextVisitType DEF CallRefused, GivesUp
<1>6. ASSUME NEW n \in Navs, CallStarts(l, n)
      PROVE  PatrolTypeOK'
  BY <1>6 DEF CallStarts, Launch, Loops
<1>7. CASE SeesArrived(l)
  BY <1>7 DEF SeesArrived
<1>8. CASE ScanEnds(l)
  <2>1. NextVisit(l)
    BY <1>8 DEF ScanEnds
  <2>. QED BY <1>8, <2>1, NextVisitType DEF ScanEnds
<1>9. CASE SentryScan(l) \/ SentryScanEnds(l)
  BY <1>9 DEF SentryScan, SentryScanEnds
<1>10. CASE Finally(l)
  <2>1. gRunning' \in BOOLEAN
    BY <1>10, Zenon DEF Finally
  <2>2. idx' \in [Loops -> 1 .. Stops]
    BY <1>10, StopsAssumption DEF Finally
  <2>. QED BY <1>10, <2>1, <2>2 DEF Finally
<1>. QED
  BY <1>1, <1>2, <1>3, <1>4, <1>5, <1>6, <1>7, <1>8, <1>9, <1>10 DEF GuardLoop

\* The navigations and the other clients touch the service only.
LEMMA ServiceKeepsTypes ==
    ASSUME PatrolTypeOK, (\E n \in Navs : NavStep(n)) \/ OtherClients
    PROVE  PatrolTypeOK' /\ UNCHANGED guardVars
<1> USE DEF PatrolTypeOK, guardVars, loopVars, guardApiVars
<1>1. ASSUME NEW n \in Navs, NavStep(n)
      PROVE  PatrolTypeOK' /\ UNCHANGED guardVars
  BY <1>1 DEF NavStep, Report, Ends, Arrive, Fail, Quit, Finish, Busy
<1>2. CASE OtherClients
  <2>1. CASE Switch
    <3>1. running' \in BOOLEAN
      BY <2>1, Zenon DEF Switch
    <3>. QED BY <1>2, <2>1, <3>1 DEF OtherClients, Switch
  <2>2. CASE Settle
    BY <1>2, <2>2 DEF OtherClients, Settle
  <2>. QED BY <1>2, <2>1, <2>2 DEF OtherClients
<1>. QED BY <1>1, <1>2

\* A step of a thread leaves it alive, unless it is that of the finally clause.
LEMMA AliveUnlessFinally ==
    ASSUME PatrolTypeOK, NEW l \in Loops, GuardLoop(l), ~Finally(l)
    PROVE  LoopAlive(l)'
<1> USE DEF PatrolTypeOK, Move, LoopAlive
<1>1. CASE \/ Begin(l) \/ LeaveLoop(l) \/ BreakLoop(l) \/ BeginRound(l)
           \/ BeginVisit(l) \/ SeesArrived(l) \/ SentryScan(l)
           \/ SentryScanEnds(l)
  BY <1>1 DEF Begin, LeaveLoop, BreakLoop, BeginRound, BeginVisit,
              SeesArrived, SentryScan, SentryScanEnds
<1>2. CASE CallNavigate(l)
  BY <1>2 DEF CallNavigate, guardVars, loopVars
<1>3. CASE CallRefused(l) \/ GivesUp(l) \/ ScanEnds(l)
  <2>1. NextVisit(l)
    BY <1>3 DEF CallRefused, GivesUp, ScanEnds
  <2>. QED BY <2>1, NextVisitType
<1>4. ASSUME NEW n \in Navs, CallStarts(l, n)
      PROVE  LoopAlive(l)'
  BY <1>4 DEF CallStarts
<1>. QED BY <1>1, <1>2, <1>3, <1>4 DEF GuardLoop

\* What a call does to the right of a quiet guardian to start.
LEMMA ApiKeepsQuiet ==
    ASSUME PatrolInv, GuardApi
    PROVE  QuietGuardianCanStart'
<1> USE DEF PatrolInv, PatrolTypeOK, QuietGuardianCanStart, LoopAlive,
            loopVars, guardApiVars
<1>1. CASE GuardStart
  <2>1. starting' # 0
    BY <1>1, SlotsType DEF GuardStart
  <2>. QED BY <2>1
<1>2. CASE GuardStop
  <2>1. ~gRunning' /\ gState' = "IDLE"
    BY <1>2 DEF GuardStop
  <2>. QED BY <2>1
<1>3. CASE GuardPause \/ GuardResume
  BY <1>3 DEF GuardPause, GuardResume
<1>4. ASSUME NEW l \in Loops, GuardSpawn(l)
      PROVE  QuietGuardianCanStart'
  BY <1>4 DEF GuardSpawn
<1>. QED BY <1>1, <1>2, <1>3, <1>4 DEF GuardApi

LEMMA PatrolInvInductive ==
    PatrolInv /\ [PatrolNext]_patrolVars => PatrolInv'
<1> SUFFICES ASSUME PatrolInv, [PatrolNext]_patrolVars
             PROVE  PatrolInv'
  OBVIOUS
<1>1. CASE UNCHANGED patrolVars
  BY <1>1
  DEF patrolVars, guardVars, loopVars, guardApiVars, serviceVars, PatrolInv,
      PatrolTypeOK, QuietGuardianCanStart, LoopAlive
<1>2. CASE GuardApi
  BY <1>2, ApiKeepsTypes, ApiKeepsQuiet DEF PatrolInv
<1>3. ASSUME NEW l \in Loops, GuardLoop(l)
      PROVE  PatrolInv'
  <2>1. PatrolTypeOK'
    BY <1>3, LoopKeepsTypes DEF PatrolInv
  <2>2. CASE Finally(l)
    <3>1. ~gRunning' /\ gState' = "IDLE"
      BY <2>2 DEF Finally
    <3>. QED BY <2>1, <3>1 DEF PatrolInv, QuietGuardianCanStart
  <2>3. CASE ~Finally(l)
    <3>1. LoopAlive(l)'
      BY <1>3, <2>3, AliveUnlessFinally DEF PatrolInv
    <3>. QED BY <2>1, <3>1 DEF PatrolInv, QuietGuardianCanStart
  <2>. QED BY <2>2, <2>3
<1>4. CASE (\E n \in Navs : NavStep(n)) \/ OtherClients
  <2>1. PatrolTypeOK' /\ UNCHANGED guardVars
    BY <1>4, ServiceKeepsTypes DEF PatrolInv
  <2>2. QuietGuardianCanStart'
    BY <2>1
    DEF PatrolInv, QuietGuardianCanStart, LoopAlive, guardVars, loopVars,
        guardApiVars
  <2>. QED BY <2>1, <2>2 DEF PatrolInv
<1>. QED BY <1>1, <1>2, <1>3, <1>4 DEF PatrolNext

LEMMA PatrolInvariance == PatrolSpec => []PatrolInv
<1>1. PatrolInit => PatrolTypeOK
  <2> SUFFICES ASSUME PatrolInit PROVE PatrolTypeOK
    OBVIOUS
  <2>1. running \in BOOLEAN /\ gRunning \in BOOLEAN /\ paused \in BOOLEAN
    BY Zenon DEF PatrolInit, ServiceInit
  <2>2. idx \in [Loops -> 1 .. Stops] /\ starting \in 0 .. Cardinality(Loops)
    BY StopsAssumption, SlotsType DEF PatrolInit
  <2>. QED BY <2>1, <2>2 DEF PatrolInit, ServiceInit, PatrolTypeOK, Busy
<1>2. PatrolInit => QuietGuardianCanStart
  BY DEF PatrolInit, QuietGuardianCanStart
<1>3. PatrolInit => PatrolInv
  BY <1>1, <1>2 DEF PatrolInv
<1>. QED BY <1>3, PatrolInvInductive, PTL DEF PatrolSpec

(***************************************************************************)
(* The guardian's fields, its threads and what it sees of the controller   *)
(* keep their types; a thread's position stays within the round.           *)
(***************************************************************************)
THEOREM PatrolTypeCorrect == PatrolSpec => []PatrolTypeOK
<1>1. PatrolInv => PatrolTypeOK BY DEF PatrolInv
<1>. QED BY <1>1, PatrolInvariance, PTL

(***************************************************************************)
(* The guardian never locks itself out, however many starts, stops and     *)
(* threads overlap (start, stop, _run_loop).                               *)
(***************************************************************************)
THEOREM QuietGuardianCanStartAlways == PatrolSpec => []QuietGuardianCanStart
<1>1. PatrolInv => QuietGuardianCanStart BY DEF PatrolInv
<1>. QED BY <1>1, PatrolInvariance, PTL
=============================================================================
