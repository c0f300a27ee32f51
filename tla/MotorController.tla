--------------------------- MODULE MotorController ---------------------------
(***************************************************************************)
(* apps/vector/src/motor_controller.py with its CliffMonitor, and the path *)
(* that feeds it: SdkEventBridge._on_robot_state emits EMERGENCY_STOP and  *)
(* then CLIFF_TRIGGERED in the SDK's thread, SensorHandler zeroes the      *)
(* wheels on the first, CliffMonitor sets its flags on the second.  Driver *)
(* threads (navigation, exploration, follow, HTTP) call the controller     *)
(* meanwhile; the latch and the flags are each read under a lock, and      *)
(* nothing holds a lock from the test to the motor command.                *)
(***************************************************************************)
EXTENDS Naturals

CONSTANTS
    Drivers,     \* threads that call the motor controller
    RampSteps    \* steps of ramp_wheels

ASSUME MotorAssumption == RampSteps \in Nat \ {0}

VARIABLES
    flags,      \* CliffMonitor._cliff_flags
    monitoring, \* CliffMonitor._running
    stopped,    \* MotorController._stopped
    wheels,     \* external: the movement the robot was last told to make
    sensorPc,   \* where _on_robot_state is
    report,     \* the cliff flags of the message being handled
    drvPc,      \* drvPc[t]: where driver thread t is
    drvDir,     \* drvDir[t]: the Direction of its command
    drvKind,    \* drvKind[t]: the method that made it
    rampStep,   \* rampStep[t]: i in ramp_wheels
    seen,       \* history: the sides reported since the last clear_stop
    late        \* history: late[t][s], commands t sent toward side s after
                \* it was reported

sensorVars == <<sensorPc, report>>
drvVars == <<drvPc, drvDir, drvKind, rampStep>>
cliffVars == <<flags, monitoring, seen>>
motorVars == <<cliffVars, stopped, wheels, sensorVars, drvVars, late>>

Sides == {"front", "rear"}
Directions == {"FORWARD", "REVERSE", "ROTATE", "STOP"}
Kinds == {"wheels", "behavior", "ramp"}

\* is_direction_blocked
BlockedBy(d, sides) ==
    \/ d = "FORWARD" /\ "front" \in sides
    \/ d = "REVERSE" /\ "rear" \in sides
    \/ d = "ROTATE" /\ sides # {}

DirectionBlocked(d) == BlockedBy(d, flags)

MotorInit ==
    /\ flags = {} /\ monitoring = FALSE /\ seen = {}
    /\ stopped = FALSE
    /\ wheels = "STOP"
    /\ sensorPc = "idle" /\ report = {}
    /\ drvPc = [t \in Drivers |-> "idle"]
    /\ drvDir = [t \in Drivers |-> "STOP"]
    /\ drvKind = [t \in Drivers |-> "wheels"]
    /\ rampStep = [t \in Drivers |-> 1]
    /\ late = [t \in Drivers |-> [s \in Sides |-> 0]]

-----------------------------------------------------------------------------
(***************************************************************************)
(* A motor command that reaches the SDK: the robot obeys, or the call      *)
(* raises.  late counts, up to 2 (bound), those toward a reported side.    *)
(***************************************************************************)
CountLate(t, d) ==
    late' = [late EXCEPT ![t] =
               [s \in Sides |-> IF s \in seen /\ BlockedBy(d, {s}) /\ @[s] < 2
                                  THEN @[s] + 1 ELSE @[s]]]

Send(d) == wheels' \in {d, wheels}

Goto(t, from, to) ==
    /\ drvPc[t] = from
    /\ drvPc' = [drvPc EXCEPT ![t] = to]

-----------------------------------------------------------------------------
(***************************************************************************)
(* The SDK event thread.  The robot repeats its state, flags included, for *)
(* as long as it stands at an edge.                                        *)
(***************************************************************************)
CliffReport(sides) ==
    /\ sensorPc = "idle" /\ sides # {}
    /\ sensorPc' = "stopping" /\ report' = sides
    /\ UNCHANGED <<cliffVars, stopped, wheels, drvVars, late>>

\* Mutant: the wheels are zeroed for the first report of an edge only.
StopMotorsOnce ==
    /\ sensorPc = "stopping"
    /\ wheels' = IF flags = {} THEN "STOP" ELSE wheels
    /\ sensorPc' = "triggering"
    /\ UNCHANGED <<cliffVars, stopped, report, drvVars, late>>

\* EMERGENCY_STOP: SensorHandler._stop_motors.  The latch is not set.
StopMotors ==
    /\ sensorPc = "stopping"
    /\ wheels' = "STOP"
    /\ sensorPc' = "triggering"
    /\ UNCHANGED <<cliffVars, stopped, report, drvVars, late>>

\* The call raises, before or after the robot obeyed, and is logged.
StopMotorsRaises ==
    /\ sensorPc = "stopping"
    /\ Send("STOP")
    /\ sensorPc' = "raised"
    /\ UNCHANGED <<cliffVars, stopped, report, drvVars, late>>

\* CLIFF_TRIGGERED: CliffMonitor._on_cliff, if subscribed.
TriggerCliff ==
    /\ sensorPc \in {"triggering", "raised"}
    /\ IF monitoring
         THEN /\ flags' = flags \cup report
              /\ seen' = seen \cup report
         ELSE UNCHANGED <<flags, seen>>
    /\ sensorPc' = "idle" /\ report' = {}
    /\ UNCHANGED <<monitoring, stopped, wheels, drvVars, late>>

-----------------------------------------------------------------------------
(***************************************************************************)
(* _safe_drive: the latch, the cliff flags, the action.                    *)
(***************************************************************************)
Command(t, d, k) ==
    /\ Goto(t, "idle", "latch")
    /\ k = "behavior" => d # "STOP"
    /\ drvDir' = [drvDir EXCEPT ![t] = d]
    /\ drvKind' = [drvKind EXCEPT ![t] = k]
    /\ UNCHANGED <<cliffVars, stopped, wheels, sensorVars, rampStep, late>>

\* The thread needs its direction, method and step no more.
GotoForget(t, from, to) ==
    /\ Goto(t, from, to)
    /\ drvDir' = [drvDir EXCEPT ![t] = "STOP"]
    /\ drvKind' = [drvKind EXCEPT ![t] = "wheels"]
    /\ rampStep' = [rampStep EXCEPT ![t] = 1]

\* The command is over (or raised): the thread is back in its caller.
Return(t, from) == GotoForget(t, from, "idle")

LatchRefuses(t) ==
    /\ Return(t, "latch")
    /\ stopped
    /\ UNCHANGED <<cliffVars, stopped, wheels, sensorVars, late>>

LatchPasses(t) ==
    /\ Goto(t, "latch", "cliff")
    /\ ~stopped
    /\ UNCHANGED <<cliffVars, stopped, wheels, sensorVars, drvDir, drvKind,
                   rampStep, late>>

CliffRefuses(t) ==
    /\ GotoForget(t, "cliff", "react")
    /\ DirectionBlocked(drvDir[t])
    /\ UNCHANGED <<cliffVars, stopped, wheels, sensorVars, late>>

CliffPasses(t) ==
    /\ Goto(t, "cliff", IF drvKind[t] = "ramp" THEN "rampCheck" ELSE "act")
    /\ ~DirectionBlocked(drvDir[t])
    /\ UNCHANGED <<cliffVars, stopped, wheels, sensorVars, drvDir, drvKind,
                   rampStep, late>>

\* drive_wheels: the wheels turn until the next command.
ActWheels(t) ==
    /\ drvKind[t] = "wheels"
    /\ Return(t, "act")
    /\ Send(drvDir[t])
    /\ CountLate(t, drvDir[t])
    /\ UNCHANGED <<cliffVars, stopped, sensorVars>>

\* drive_straight, turn_in_place: the call returns when the robot is done.
ActBehavior(t) ==
    /\ drvKind[t] = "behavior"
    /\ GotoForget(t, "act", "moving")
    /\ Send(drvDir[t])
    /\ CountLate(t, drvDir[t])
    /\ UNCHANGED <<cliffVars, stopped, sensorVars>>

BehaviorEnds(t) ==
    /\ Return(t, "moving")
    /\ wheels' = "STOP"
    /\ UNCHANGED <<cliffVars, stopped, sensorVars, late>>

(***************************************************************************)
(* ramp_wheels: the flags, but not the latch, are read before each step.   *)
(***************************************************************************)
\* Mutant: no re-check of the flags before a step.
RampPassesUnchecked(t) ==
    /\ Goto(t, "rampCheck", "rampSend")
    /\ UNCHANGED <<cliffVars, stopped, wheels, sensorVars, drvDir, drvKind,
                   rampStep, late>>

RampPasses(t) ==
    /\ Goto(t, "rampCheck", "rampSend")
    /\ ~DirectionBlocked(drvDir[t])
    /\ UNCHANGED <<cliffVars, stopped, wheels, sensorVars, drvDir, drvKind,
                   rampStep, late>>

\* Mutant: one step too many.
RampSendOffByOne(t) ==
    /\ IF rampStep[t] <= RampSteps
         THEN /\ Goto(t, "rampSend", "rampCheck")
              /\ rampStep' = [rampStep EXCEPT ![t] = @ + 1]
              /\ UNCHANGED <<drvDir, drvKind>>
         ELSE Return(t, "rampSend")
    /\ Send(drvDir[t])
    /\ CountLate(t, drvDir[t])
    /\ UNCHANGED <<cliffVars, stopped, sensorVars>>

RampSend(t) ==
    /\ IF rampStep[t] < RampSteps
         THEN /\ Goto(t, "rampSend", "rampCheck")
              /\ rampStep' = [rampStep EXCEPT ![t] = @ + 1]
              /\ UNCHANGED <<drvDir, drvKind>>
         ELSE Return(t, "rampSend")
    /\ Send(drvDir[t])
    /\ CountLate(t, drvDir[t])
    /\ UNCHANGED <<cliffVars, stopped, sensorVars>>

\* emergency_stop() sets the latch, then zeroes the wheels.
RampBlocked(t) ==
    /\ GotoForget(t, "rampCheck", "rampZero")
    /\ DirectionBlocked(drvDir[t])
    /\ stopped' = TRUE
    /\ UNCHANGED <<cliffVars, wheels, sensorVars, late>>

RampZero(t) ==
    /\ Goto(t, "rampZero", "react")
    /\ Send("STOP")
    /\ UNCHANGED <<cliffVars, stopped, sensorVars, drvDir, drvKind, rampStep,
                   late>>

(***************************************************************************)
(* _handle_cliff_reaction, straight to the SDK: away from the one side     *)
(* that is flagged, or not at all.                                         *)
(***************************************************************************)
React(t) ==
    /\ IF flags \in {{"front"}, {"rear"}}
         THEN /\ Goto(t, "react", "moving")
              /\ Send(IF flags = {"front"} THEN "REVERSE" ELSE "FORWARD")
              /\ UNCHANGED <<drvDir, drvKind, rampStep>>
         ELSE /\ Return(t, "react")
              /\ UNCHANGED wheels
    /\ UNCHANGED <<cliffVars, stopped, sensorVars, late>>

-----------------------------------------------------------------------------
(***************************************************************************)
(* emergency_stop and clear_stop, as ObstacleDetector's escape and         *)
(* MotorController.stop call them.                                         *)
(***************************************************************************)
EmergencyStop(t) ==
    /\ Goto(t, "idle", "zero")
    /\ stopped' = TRUE
    /\ UNCHANGED <<cliffVars, wheels, sensorVars, drvDir, drvKind, rampStep,
                   late>>

EmergencyZero(t) ==
    /\ Goto(t, "zero", "stopped")
    /\ Send("STOP")
    /\ UNCHANGED <<cliffVars, stopped, sensorVars, drvDir, drvKind, rampStep,
                   late>>

\* The escape goes on to clear_stop: the latch first, then the flags.
ClearLatch(t) ==
    /\ Goto(t, "stopped", "clearing")
    /\ stopped' = FALSE
    /\ UNCHANGED <<cliffVars, wheels, sensorVars, drvDir, drvKind, rampStep,
                   late>>

ClearFlags(t) ==
    /\ Goto(t, "clearing", "idle")
    /\ flags' = {} /\ seen' = {}
    /\ late' = [u \in Drivers |-> [s \in Sides |-> 0]]
    /\ UNCHANGED <<monitoring, stopped, wheels, sensorVars, drvDir, drvKind,
                   rampStep>>

\* stop() unsubscribes the monitor after its emergency_stop.
StopController(t) ==
    /\ Goto(t, "stopped", "idle")
    /\ monitoring' = FALSE
    /\ UNCHANGED <<flags, seen, stopped, wheels, sensorVars, drvDir, drvKind,
                   rampStep, late>>

StartController ==
    /\ ~monitoring
    /\ monitoring' = TRUE
    /\ stopped' = FALSE
    /\ UNCHANGED <<flags, seen, wheels, sensorVars, drvVars, late>>

-----------------------------------------------------------------------------
Driver(t) ==
    \/ LatchRefuses(t) \/ LatchPasses(t) \/ CliffRefuses(t) \/ CliffPasses(t)
    \/ ActWheels(t) \/ ActBehavior(t) \/ BehaviorEnds(t)
    \/ RampPasses(t) \/ RampSend(t) \/ RampBlocked(t) \/ RampZero(t)
    \/ React(t)
    \/ EmergencyZero(t) \/ ClearLatch(t) \/ ClearFlags(t) \/ StopController(t)

Sensor == StopMotors \/ StopMotorsRaises \/ TriggerCliff

MotorNext ==
    \/ \E sides \in SUBSET Sides : CliffReport(sides)
    \/ Sensor
    \/ \E t \in Drivers :
          \/ \E d \in Directions, k \in Kinds : Command(t, d, k)
          \/ EmergencyStop(t)
          \/ Driver(t)
    \/ StartController

MotorSpec == MotorInit /\ [][MotorNext]_motorVars

(***************************************************************************)
(* The event thread runs, and a robot that has reported an edge goes on    *)
(* reporting it with every state message.                                  *)
(***************************************************************************)
MotorFairSpec ==
    /\ MotorSpec
    /\ WF_motorVars(Sensor)
    /\ WF_motorVars(flags # {} /\ CliffReport(flags))

-----------------------------------------------------------------------------
(***************************************************************************)
(* Type invariant of the controller and its monitor.                       *)
(***************************************************************************)
MotorTypeOK ==
    /\ flags \subseteq Sides /\ seen \subseteq Sides /\ report \subseteq Sides
    /\ monitoring \in BOOLEAN /\ stopped \in BOOLEAN
    /\ wheels \in Directions
    /\ sensorPc \in {"idle", "stopping", "triggering", "raised"}
    /\ drvPc \in [Drivers -> {"idle", "latch", "cliff", "act", "moving",
                              "rampCheck", "rampSend", "rampZero", "react",
                              "zero", "stopped", "clearing"}]
    /\ drvDir \in [Drivers -> Directions]
    /\ drvKind \in [Drivers -> Kinds]
    /\ rampStep \in [Drivers -> 1 .. RampSteps]
    /\ late \in [Drivers -> [Sides -> 0 .. 2]]

(***************************************************************************)
(* The gate bounds the damage of its own race.  Between a thread's test of *)
(* the cliff flags and its motor command the flags may change, but once a  *)
(* side has been reported a thread sends at most one more command toward   *)
(* it, whatever methods it calls and whichever of them it was in, until    *)
(* clear_stop (_safe_drive, and the re-check in ramp_wheels).              *)
(***************************************************************************)
AtMostOneLateCommand == \A t \in Drivers, s \in Sides : late[t][s] <= 1

(***************************************************************************)
(* A cliff holds the robot: if the front stays flagged, and zeroing the    *)
(* wheels no longer raises, the robot stops being told to go forward.  The *)
(* late commands that slip through the gate are undone by the next         *)
(* report's EMERGENCY_STOP (_on_robot_state, SensorHandler._stop_motors).  *)
(***************************************************************************)
CliffHolds ==
    <>[]("front" \in flags /\ sensorPc # "raised") => <>[](wheels # "FORWARD")
=============================================================================
