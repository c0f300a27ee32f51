# Formal models of the NUC / Vector robot orchestrator

This directory keeps TLA+ models of the program in `src/`: the Python services
that drive an Anki Vector robot from a NUC (`apps/vector`), the page that pairs a
robot over Bluetooth and sets it up (`infra/vector/web-setup`), and the bridge
between the robot and a Signal group (`apps/openclaw`).  TLC checks the models on
small instances; TLAPS proves the theorems of the modules `*Proofs` for every value
of the constants.  `PROJECT.json` ties every definition to the lines it models and lists runs, mutants, findings, hazards and theorems.

Line numbers below without a file name are those of the file named before.

Run TLC as `tlc -workers 2 -config MCNav.cfg MCNav` and TLAPS as
`tlapm MotionProofs.tla`.

## 1. The system

All of `apps/vector` lives in one Python process per entry point.  There are two:
`supervisor.py`, which connects, registers components, monitors their health and
reconnects, and `bridge/server.py`, an HTTP server whose `ConnectionManager`
(`bridge/connection.py`) connects on demand.  Requests reach components on
executor threads, robot events on the SDK's thread, and most components own one
or more threads.  Components talk by direct calls, through plain shared
attributes, and through `NucEventBus` (`src/events/nuc_event_bus.py`), which calls
its subscribers synchronously in the emitter's thread.

| component | state it keeps | operations | interacts with |
|---|---|---|---|
| `rts.js`: messages (`Clad` classes, unions, `ExternalComms`) | — | pack, unpack of 64 message classes in 7 protocol versions | handlers, link |
| `rts.js`: `BleMessageProtocol`, `VectorBluetooth` | reassembly buffer, write queue, `writeReady`, device, sessions in memory | send, tick, receive, connect, disconnect | Web Bluetooth, handlers |
| `rts.js`: `RtsV2Handler` … `RtsV6Handler` | keys, nonces, `encrypted`; promises by key, `waitForResponse`, log file | pairing, requests, answers, timeouts, terminal commands | link, page, terminal |
| `rts.js`: `Sessions` | cookie: one key pair, a secret per robot | get, set, delete, clear, save | handlers, page |
| `rts.js`: the page | phase, `rtsHandler`, `_cmdPending`, `_wifiCredentials`, auto flow | clicks, callbacks of the handler, fetches of updates and logins | handlers, terminal, cloud |
| `pterm.js` | line, cursor, history, variables, prompt promise | keys, paste, process a line, print | page |
| `openclaw/robot-commands.js` | table of commands | parse, execute (HTTP, MQTT, both), take a photo | Signal, bridge, broker |
| `openclaw/intercom-relay.js` | payload files | POST /intercom/receive | robot, gateway container |
| `ControlManager` | holder, its priority, whether the SDK granted control | acquire, release, force_release | every service that drives |
| `MotorController`, `CliffMonitor` | emergency latch; cliff flags, subscription | drive_wheels, drive_straight, turn_in_place, turn_then_drive, ramp_wheels, emergency_stop, clear_stop, start, stop | drivers' threads, event bus, SDK |
| `SdkEventBridge`, `SensorHandler` | subscriptions, touch debounce | _on_robot_state, _stop_motors | SDK thread, event bus |
| `NavController` | _running, _state, target, current thread | start, stop, navigate_to_waypoint/_position, cancel_navigation, start/stop_mapping, the navigation thread | control manager, motors, SLAM, obstacle map, charger |
| `HomeGuardian` (patrol) | _running, _paused, _mode, _state, waypoints | start, stop, pause, resume, patrol and sentry threads | NavController (calls and polls it), camera, alerts |
| `FollowPlanner` | _running, _state, locked track, latest track, miss count | start, stop, tracked-person and emergency callbacks, control loop | event bus, motors, head |
| `FollowPipeline` | _running, detector, thread | start, stop, detection loop, control callbacks | camera, detector, FollowPlanner, control manager |
| `Supervisor` | state, robot, component list, reconnect thread | run, connect, disconnect, reconnect, pause, resume, health and battery loops, shutdown | everything it registers |
| `ConnectionManager` | robot, components, mode, timers | connect, disconnect, override control, set_mode, touch handler | everything, HTTP routes |
| `Explorer`, `AutoCharger` | exploration and charging states, threads | explore loop, return to charger, dock, resume | control manager, nav, motors |
| `ObstacleDetector`, `ObstacleMap` | recent motion, escape state; fused grid | check, escape (the only caller of `clear_stop`) | motors, nav |
| `PresenceTracker`, companion dispatcher | present persons, absence timers, signal times | detection, timers, greeting and farewell | event bus, OpenClaw client |
| `LedController`, lift, head, display, expressions | current state, override timer | set, override, expire | SDK |
| media channels | subscriber queues | publish (drops the oldest), subscribe | streams |
| agent loop | workers, accounts, cooldowns, inbox | dispatch, limits, failure tracking, account switch | GitHub board, Claude CLI |
| perception, SLAM, planning, voice, LiveKit, native streamer | numeric state, I/O | — | — |

The three parts meet outside this code only: the page talks to the robot, the
OpenClaw bridge to the HTTP server and the MQTT broker of the robot's services.

**What is hard.**  In the Python services: flags (`_running`, `_state`) read without a lock between slow
calls; a busy test apart from the transition that makes it true; joins that time
out and leave the old thread alive; SDK calls that raise after or before the
robot acted; results polled from shared state that belongs to somebody else's
call; a safety gate that is tested before, not with, the motor command.  In the
page, where nothing runs concurrently but everything is a callback: state of one
connection (queue, buffer, timer, prompt, promise, fetch) that is still there in
the next; answers that do not name their request; keys replaced while something
is encrypted with the old ones.  In OpenClaw: a step that failed for the caller
and was carried out all the same; files shared by sends that run side by side.
`PROJECT.json` lists each
of these at its line, with the properties that cover it or the reason none does.

**What makes each part correct.**

* *Control manager*: its fields agree whatever fails; it never believes in control
  the robot has not granted; nobody is recorded as holder without knowing it;
  lower priorities never displace higher ones.
* *Motors*: a reported cliff keeps commands toward it from the robot, up to a race
  whose cost is bounded, and the robot ends up stopped.
* *Navigation*: every navigation ends, and the controller is never left refusing
  calls with nothing under way; one navigation at a time; control is given back.
* *Patrol*: stopped loops end and the guardian can start again; it scans where it
  arrived.
* *Supervisor*: after any overlap of startup, reconnections and health checks the
  components are those of the one current robot, and none that needs it is lost.
* *Link*: each side puts together, whole and in order, what the other sent in this
  connection, whatever the last one left behind; what is queued goes out.
* *Messages*: what was packed is what is read, in every version.
* *Requests*: an answer reaches the request it is for or a newer one of the same key;
  a refusal, which names no request, rejects the command that waits last, under
  whatever key, and that command is known; prompts return; a saved log is one log.
* *Pairing*: it goes on until a pin is needed or it is done; the secret of a session
  in the cookie is one the robot remembers; the forms of the pin, the networks, the
  settings and the completion have the robot that they need.
* *OpenClaw*: a phrase does what its entry says; no step is carried out before the
  earlier ones are reported done, and over HTTP none twice or out of order; a send
  that shares its file with no other delivers its own payload.
* *Follow*: a running planner has a thread; a lost target is given up; a stopped
  planner stands still; an idle planner can start.

## 2. Modules and the code

| module | models | built on |
|---|---|---|
| `ControlManager` | `control_manager.py`; one action per way out of each method (all of it runs under one lock) | |
| `ControlClients` | the services as callers; `told` is what acquire returned last to each | `ControlManager` |
| `ExclusiveControl` | abstract: an owner and a rank | refined by `ControlClients` |
| `MotorController` | `motor_controller.py`, the cliff branch of `sdk_events.py`, `_stop_motors` of `sensor_handler.py` | |
| `NavController` | `nav_controller.py` | `ControlManager` |
| `NavService` | abstract: what clients of navigation see | refined by `NavController` |
| `NavProofs` | theorems, the refinements of `ExclusiveControl` and `NavService` among them | `ControlClients`, `NavController`, TLAPS |
| `Patrol` | `patrol.py` composed with `NavService` | `NavService` |
| `MotionProofs` | theorems | `MotorController`, `Patrol`, TLAPS |
| `FollowPlanner` | `follow_planner.py` with the bus callbacks | |
| `FollowProofs` | theorems | `FollowPlanner`, TLAPS |
| `Supervisor` | `supervisor.py` without the battery monitor | |
| `SupervisorProofs` | theorems | `Supervisor`, TLAPS |
| `RtsMessages` | the message classes of `rts.js` as lists of fields, the unions as lists of classes, packing and unpacking once for all of them | |
| `BleLink` | `BleMessageProtocol`, `VectorBluetooth` | |
| `RtsWire` | messages over the link | `BleLink`, `RtsMessages` |
| `WireProofs` | theorems about the link, the messages, and both together | `RtsWire`, TLAPS |
| `RtsHandlers` | tables of the five handlers: request, answer, timeout, terminal command by key | `RtsMessages` |
| `Terminal` | `pterm.js` | |
| `RtsRequests` | promises, answers, refusals, logs, `handleCli` | `RtsHandlers`, `Terminal` |
| `RequestProofs` | theorems | `RtsRequests`, TLAPS |
| `RtsPairing` | pairing, encryption, sessions, connection timer | `RtsHandlers` |
| `WebSetup` | the page around `RtsPairing` | `RtsPairing` |
| `SetupProofs` | theorems | `WebSetup`, TLAPS |
| `RobotCommands` | command table and execution of `robot-commands.js` | |
| `SignalSend` | payload files of `intercom-relay.js` and of photos | |
| `OpenClaw` | messages in and out | `RobotCommands`, `SignalSend` |
| `ClawProofs` | theorems | `OpenClaw`, TLAPS |
| `MCNav`, `MCPatrol`, `MCMotor`, `MCFollow`, `MCSupervisor`, `MCWire`, `MCRequests`, `MCSetup`, `MCOpenClaw` | instances for TLC | |

State variables carry the names of the attributes they stand for; where a thread
is inside a method is a `pc`-like function per thread (`pc`, `drvPc`, `loopPc`,
`lpc`).  A step of a thread is what lies between two of its accesses to shared
attributes or calls to a shared component.  Threads that Python creates per call
are slots (`Navs`, `Loops`): a bound on how many are alive at once.

*ControlManager.*  `AcquireNoChange`, `AcquireSdkFails`, `AcquireGranted` are the
outcomes of `acquire`; `DropControl` is the body shared by `release` and
`force_release`, where `release_control()` may raise.  `robotControl` is the robot's
side, which a failed SDK call may or may not have changed.  The robot is taken to
keep the OVERRIDE level it granted: the code subscribes to no control-lost event,
so nothing in it could react to a loss.

*MotorController.*  `_safe_drive` is `Command`, the latch test (`LatchPasses`,
`LatchRefuses`), the flag test (`CliffPasses`, `CliffRefuses`) and the motor call
(`ActWheels`, `ActBehavior`), with the SDK free to act in between; `ramp_wheels`
re-tests the flags, not the latch, before each step.  `CliffReport`, `StopMotors`,
`TriggerCliff` are one state message handled in the SDK's thread: EMERGENCY_STOP
first, CLIFF_TRIGGERED second.  Any motor call may raise (`Send` then leaves
`wheels`).  `ClearLatch`, `ClearFlags` are `clear_stop` after the escape of
`ObstacleDetector`.  `late` and `seen` are history.  The model stands for
`supervisor.py`, which sets the event bridge up.

*NavController.*  `_navigate_task` with its attempts, segments, docking and its two
early returns; `cancel_navigation`, `start`, `stop`, `start_mapping`,
`stop_mapping` in the steps in which they write `_running` and `_state`; other
services at the control manager.  Poses, path geometry and map saving are
abstracted to the outcomes the control flow tells apart.

*NavService and Patrol.*  `NavController` implements `NavService` through a mapping
of `pc` to three phases (run `nav`), and `Patrol` composes the guardian with
`NavService` instead of the larger controller; what Patrol assumes of navigation is
therefore what NavController was shown to do.  Loading detectors in `start()` is
the window between `GuardStart` and `GuardSpawn`; the guardian's test and set of
`_running` a few instructions apart is one step.

*FollowPlanner.*  `start`, `stop` in their visible steps, the tracked-person and
emergency callbacks, and `_control_loop` with both ticks.  A `_transition` with the
assignments that lead up to it is one step.  Speeds, head angles and turn geometry
are abstracted to whether the wheels were told to turn.

*Supervisor.*  The thread of `run()`, the reconnect threads that
`_on_emergency_stop` starts and the health monitor, over `_robot`, `_sdk_bridge`,
`_state` and `_components`, which no lock covers.  `pc[t]` is the method a thread
is in and `pos[t]` the component its loop is at.  `_register_components` replaces
the list: a loop over the old one goes on (`stale`), and what it starts or stops is
no longer referred to by anybody.  `madeFor` is the robot the factories of the
current list have captured.  Copying back the components that need no connection
is part of `Register`.  Connections break at any time (`LossNoticed`,
`LossIgnored`); the event bus calls `_on_emergency_stop` in the same step.

*RtsMessages.*  A class is a name and a list of fields with their kinds, read off
`pack()` and `unpack()`; `Pack` and `Unpack` do what the hundred generated methods
do, with the widths, byte order and length limits of `CladBuffer` and `IntBuffer`.
A read beyond the end gives zero and short arrays, as there.  The members of a
union are in the order of its tags.

*BleLink.*  JavaScript runs to its next `await`, so an action is a callback:
`ClientSend`, `Tick`, the two ends of a `writeValue()`, `Notify`, `Disconnect`,
`Connect`.  A packet may arrive although its write is rejected.  `Connect` comes
after a tick and after the browser has settled the write of the cut connection: a
user who picks a robot takes longer than the timer's 70 ms.

*RtsRequests.*  `promiseKeys[key]` is the resolver slot of the code; a request
records what became of it.  `Ask`, `Settle` and `React` are
`storePromiseMethods()` with `send()`, `resolvePromise()` and `rejectPromise()`,
and `cliResolve()`.  The versions differ in their tables and in three places of
`receive()` (`OtaSettles`, `Refused`, `EnterMissing`).  A scene bounds what is
typed, pasted and asked.

*RtsPairing and WebSetup.*  One action per message or event, with all callbacks it
runs.  Keys, secrets and ciphers are symbolic; nonces count as in `encrypt()` and
`decrypt()`.  `handler` is the present object; what is left of an earlier one are
its timer (`timers`), the terminal's prompt and fetches under way.  Where the code
shares one array between a handler and a session in memory, `shares` says so and
`EnterPin` changes both.  The robot follows the protocol of pairing and remembers
keys and secrets.  Packets are left to `RtsWire`: messages arrive whole and in
order.

*RobotCommands and SignalSend.*  A pattern is a sequence of sets of words; prefixes
such as `patrol` of *patrolling* are words of the set.  `via` is the transport a
step is tried over, `wires` what is on its way, `ran` which steps the robot has done,
over which transport, in order.  Publications go out with `-q 1` unless `MQTT_QOS` says
otherwise (29, 617), so one that was carried out may stay on its way and come again;
an HTTP request does not.  In
`SignalSend` a payload is the number of its send, so that a file that holds the
payload of another shows.

## 3. Runs

| run | instance | shows |
|---|---|---|
| `control` | 4 services, priorities 0, 5, 10 | the manager's fields agree, priorities are respected, it implements `ExclusiveControl` |
| `nav` | 2 navigation threads, 1 caller, 1 rival service, 2 attempts, 1 segment | no lock-out, every navigation ends, `NavService` is implemented |
| `patrol` | 2 guardian threads, 1 navigation, 1 stop | stopped loops end; the quiet guardian can start |
| `patrol_arrival` | 1 guardian, 2 navigations, 2 stops | violated: a stale ARRIVED starts a scan while driving |
| `motor` | 1 driver, ramps of 3 steps | at most one late command per thread and side; a robot at an edge ends up not going forward |
| `follow` | 2 loop threads, 2 people, lost after 2 ticks, searches of 3 looks | running has a thread; a lost target is abandoned |
| `supervisor` | 2 reconnections, 3 robot identities, 3 components (one critical, one without connection) | a supervisor at rest has settled on one robot and runs what needs it |
| `wire` | every class of every version with small and large values, each way; two messages each way of 5 to 40 bytes in packets of 20 over up to 2 connections with cuts and rejected writes; one of 300 bytes | both ends read what was packed, whole, in order, once per connection; the queue drains unless a write was rejected |
| `requests` | versions 2 to 6: each command alone with up to 3 requests, pairs of six kinds from terminal and forms; every editing key on lines of 6 strokes; variables and quotes | newer requests alone take a slot, refusals reach the last command, logs are whole, answers to forms leave the line, prompts return |
| `setup` | pairing: two robots of versions 2 to 7, up to 3 connections, right and wrong pins, terminal, reloads; flow: versions 2 to 6, every form, cuts | saved sessions work; the forms of the pin, the networks, the settings and the completion have a robot; pairing goes on |
| `setup_v7` | two robots of version 7, one connection | violated: the handler of version 5 drops their messages |
| `openclaw` | every phrase of up to 3 words alone; two of three messages side by side over HTTP, MQTT, both; three photos and texts within 3 milliseconds | a phrase alone does what its entry says (`DoesWhatWasSaid`); whatever fails, is late or comes again, no step is carried out too early, and over HTTP none twice or out of order (`DoesNoMoreThanAsked`); sends deliver their own payload |

A run that expects a violation checks one sentence of the code's own docs; the
counterexample is what its entry under "findings" describes.

**Bounds.**  Two thread slots are the fewest in which a restarted or second thread
overlaps the first, which is what every interleaving hazard here needs; no hazard
listed needs three.  Two attempts separate "retry" from "last attempt"; one
segment gives skipped, driven and refused segments and the arrival behind them;
three ramp steps have a first, a middle and a last re-check; two lost ticks are the
least at which the re-locking rule (`missed >= 2`) and the loss threshold meet;
three looks cover head, biased turn and body turn.  The target `charger` takes the
longest way out of a navigation; two reconnections are the fewest that overlap
each other, and with startup and health monitor every pair of the supervisor's
threads meets; three identities let a robot be replaced while an abandoned one is
still connected.  `late` stops at 2, one above what the property allows.  (`motor`
with two drivers and ramps of one step passes too, with 4.0 million states, but
takes long; `MotionProofs` covers any number of drivers.)

Two connections are what a leftover of the first needs to do harm in the second;
for sessions it takes three (pair, pair another or wrongly, resume).  The lengths
of `wire` are below, at and above one packet and at two, and the 300 bytes need
both bytes of a length.  Two requests are an older and a newer one, and `status`,
which times out, has a third.  Pins are right or wrong; two robots share one
cookie.  Pairing scenes leave out the forms and flow scenes the second robot: they
meet in `saved`, `idKeys` and `phase` only, and both kinds contain reloads and cuts.
`MaxRuns` bounds how much the robot has done for a message while a publication of it
may stay on its way: at 1, what is carried out first may come again, before or after
the steps that follow.  `ClawProofs` covers any number.

**Fairness.**  Weak fairness of each thread's own steps: Python threads that can
run, run.  A call that has begun goes on; no call is ever forced to be made.  In
`PatrolFairSpec` navigations end, which is `EveryNavigationEnds` of `NavController`.
In `MotorFairSpec` the SDK's thread runs and a robot that has reported an edge
repeats it: the robot streams its state, cliff bits included, for as long as it
stands there.  `CliffHolds` and `LostTargetIsAbandoned` carry as explicit
hypotheses what no fairness gives: zeroing the wheels eventually stops raising,
and turns of a search eventually stop failing.  In `WireFairness` the timer fires
(`setInterval`), writes are settled and packets and notifications of a link that is
up arrive; a link whose write is rejected is excepted by name, since the code then
never writes again.  In `ReqFairness` the robot sends what it owes and timers fire;
in `SetupFairness` the page takes the messages that come, a link that is being made
is made or fails, and the robot answers.  Nothing is typed, clicked, cut or picked
by fairness.  `OpenClaw` has no liveness: wires and deliveries may be lost.

## 4. Proofs

**Control** (`NavProofs`).  Proved for any set of services and any priorities in
`Nat`: types, `BeliefIsSound`, `HolderHasControl`, `HolderWasTold`,
`NoPriorityInversion`, and the refinement of `ExclusiveControl`.  The inductive
invariant `ControlInv` is the conjunction of the state properties: none is
inductive alone, because `release` restores agreement only for a holder that
already agrees with the flag, and because a request skipped on
`_has_sdk_control` is sound only when the belief was.  The action property and the
refinement follow from it step by step (a denied or repeated acquire is a
stutter, an acquire granted is a `Take`, releases are `Drop` or a stutter).
`NoPriorityInversion` is implied by the refinement, so the run checks only the latter.

**Motors** (`MotionProofs`).  Proved for any set of drivers and any ramp length
`>= 1`: the types and `AtMostOneLateCommand`.  The property is not inductive: a thread that has used
its late command could be about to send another.  `MotorInv` adds that the sides
ever reported since `clear_stop` are exactly the flagged ones (`SeenIsFlagged`),
and that a thread whose late command toward a side is spent is not past its last
test with a command toward that side (`LateIsSpent`): to get there again it would
have had to pass a test that the still-flagged side fails.

**Link** (`WireProofs`).  Proved for any messages, any packet size from 2 to 63 and any
number of connections: the types, `NoStalePacket`, `RobotGetsWhatWasSent` and
`PageGetsWhatWasSent`.  Nothing empties the queue at a cut, so
the property rests on how the queue and `writeReady` can stand when the next
connection begins.  The inductive invariant adds three facts: a write under way means
that `writeReady` is false (`BusyMeansNotReady`); while a connection is up and
something can still be written, all that is queued is of that connection
(`QueueIsOfConn`); and once the timer has fired after a cut, a link that is still ready
has an empty queue (`ReadyMeansEmpty`).  A queue that was not empty at the cut has had
its head written into the void by then, that write has been rejected, and nothing sets
`writeReady` again: the rest waits for ever instead of going out over the next
connection.

That what is received is what was sent rests on `NoStalePacket` and on a second
invariant, `OutInv` for the one direction and `InInv` for the other.  Every packet on
its way is labelled with the message it is of and with which part of it it is
(`Travels`).  The labels are consecutive: the first one follows what the other end has
handed over and holds in its buffer, the last one is the end of what was sent.  The
labels are functions on the numbers that the proof gives at each step: a message sent
continues them, a packet that arrives takes the first away.  That the parts of a
message, joined, are the message is a lemma about `Fragments`, `Carried`.  Nothing is
claimed of a link on which nothing moves any more: there the packets lost with the
rejected write are never missed, because none comes after them.

**Messages** (`WireProofs`).  Proved for every class of every union and all values that
its fields can hold (`Fits`): what goes out as a message is read as that message
(`EveryMessageReadsBack`).  One predicate carries the argument: `Holds(buf, p, s)`, the
buffer has the bytes of `s` from index `p` on.  Wherever a buffer holds what a field was
written as, the field reads as its value and the index ends behind it; this is proved
kind by kind (integers of each width, strings, the arrays) and then for what is made of
fields: records, lists of records, messages.  The step from parts to the whole is one
lemma, `PartsRead`, about `FlattenSeq` on the writing side and `ReadEach` on the reading
side.  Both are functions defined by recursion on an index; that they exist, that they
are the only ones and what they hold at each index is induction on that index, stated
as a lemma about a set of numbers (`SetInduction`), which the provers can use.  That all
classes are built of these kinds, that the unions hold such classes, and that the tag of
a class leads back to it (`TagLeadsBack`) is proved from the tables themselves.

`RtsWire` implements `BleLink` (`WireImplementsLink`): a handler that sends is
`ClientSend` of a packed message, or nothing when `CanPack` fails.  So the theorems about
the link hold of scripts too, and `ReadsWhatWasPacked` follows from the two invariants
of the link and one more, `SentInv`: all that was ever sent is the packed form of a
message of the script.

**Navigation** (`NavProofs`). Proved for any number of navigation threads, callers,
waypoints, attempts and segments: the types, `QuietMeansAvailable`, and that
`NavController` implements `NavService`. A thread that has its result may still be
docking or releasing while another thread's state overwrites its own, so
`QuietMeansAvailable` is true but not inductive. `NavInv` says more: behind a busy state
of a running controller there is a navigation that has not reached its result, or a
cancel, start or stop that is about to set the state (`BusyIsDriven`); and a segment
that is driven is one of the path (`DrivesASegment`), without which the thread might
find nothing to do. The refinement maps a thread's place to `going`, `over` or `none`: a
result is the step from `going` to `over`, and everything else a thread does stutters or
changes the state that clients read, as the service allows.

**Patrol** (`MotionProofs`).  Proved for any finite number of guardian threads, and any
number of navigations and waypoints: the types and `QuietGuardianCanStart`, which is inductive
beside the types: a thread ends in its `finally` clause alone, which clears `_running`
and sets IDLE, and every other write of `_running` or of a working state is made by a
start under way or by a living thread.

**Follow** (`FollowProofs`).  Proved for any people, threads, patience and length of a
search: the types and `RunningHasThread`: a control loop ends only when it has read `_running`
clear, and only `start()` sets it, whose thread is either spawned or about to be.

**Supervisor** (`SupervisorProofs`).  Proved for any number of reconnect threads, robots
and components: the types, `SettlesOnOneRobot` and `ConnectedComponentsRun`.  Both speak of the
supervisor at rest, when no thread is under way, and say nothing of the states before.
The inductive invariant says of each disorder which thread will put it right: unless
the supervisor is ending, some thread is ahead of making and attaching a robot, or the
robot is the bridge's and the components are made for it or a thread is about to make
them (`RobotInv`); and each component is started, has failed to start, or has a thread
that will still come to it in the present list - a starting loop that has not passed
it and whose list was not replaced, the monitor's restart, or a thread that will
register the components anew (`CompInv`).  `HealthInv` bounds where the monitor is,
so that a critical component whose restart fails is accounted for.

**Requests** (`RequestProofs`).  Proved for any scenes (any version, strokes, pastes,
forms, numbers of requests and of packets of a log): the types, the three invariants of
`RtsRequests` and the action property `AnswersLeaveTheLine`.  What the robot or a timer
does is one of many table-driven cases; the proof first shows that all of them have one
shape, `Progress`: at most one request that was pending is settled, only slots of
requests no longer pending are emptied, and the terminal is touched by the end of a
command alone.  The invariants are then preserved by the shape, not by each case.
`ReqInv` adds to them that slots hold requests that were made, and that the log being
received is the packets the robot no longer owes of it (`LogFileIsPrefix`), without which a
log that is saved need not be one log.  That the keys that go a word to the left or
right leave the cursor in the line needs that sets of naturals have a least element,
which the library gives for well-founded orders (`MinOf`, `MaxOf`).

**Pairing and the page** (`SetupProofs`).  Proved for any robots, pins, versions and
number of connections: the types, `SavedSessionsReconnect` and `FormsHaveARobot`.  The
page saves a session when a message comes that it can read; that the robot knows the
keys by then is nowhere in the page.  `PairInv` says what the two ends and the messages
between them say of each other: at which place of the handshake which message is under
way (`HandshakeFirst`, `RequestNext`), that keys on their way and keys the robot has
taken are the handler's (`KeysAreHandlers`, `KeysAgree`), that the robot remembers what
it has opened (`RobotRemembers`), and how nonces count: 0 the challenge, 1 the success,
2 and on the answers (`NoncesFollow`, `SealedInOrder`).  A handler that has not heard of
the success is at most at the nonce of the success (`ReadsInOrder`), so it can read no
answer before, whatever `EnterPin` put into its place meanwhile.  Steps of the page that
only talk are shown once to be of the shape `Stays`.  `SetupInv` adds the page's
variables and the two properties themselves.

**OpenClaw** (`ClawProofs`).  Proved for any clock and any messages, photos and texts:
`SendsWhatWasMeant` and `DoesNoMoreThanAsked`.  For the sends, `SignalInv` follows a
payload through the two files: a local file of a send of its own is there only while it
is copied (`LocalIsCopied`), what such a send copies and what curl then finds is its
own (`CopiesItsOwn`, `HasItsOwn`), and a copy an earlier send left behind is never taken
for it (`NoOtherHasIt`).  For the jobs, `JobsInv` says of each message that nothing beyond
its present step has been carried out or is on its way (`NotBeyond`); that over HTTP
only the present step is on its way, and that what was carried out over HTTP rises and,
as long as the present step has not been, stays below it (`Rising`); and in `http` mode that what was carried out and what is on its
way are together the steps so far (`Orderly`).  What is on its way has to be part of it,
since a step that failed for the caller may still be carried out.  Nothing is said of
how often publications come, and nothing needs to be.

Assumptions are those named in the modules (`ServicesAssumption`,
`PrioritiesAssumption`, `MotorAssumption`, `SizeAssumption`, `ByteAssumption`,
`ConnsAssumption`, `NavAssumption`, `OverrideAssumption`, `StopsAssumption`,
`LoopsAssumption`, `FollowAssumption`, `SupervisorAssumption`, `PacketsAssumption`,
`ScenesAssumption`, `PinAssumption`, `ClockAssumption`, `RunsAssumption`,
`ScriptsAssumption`), nothing
else.  They ask that
sentinels differ from the values they stand beside, that bounds are natural numbers,
that the priority a navigation asks for is one of the priorities, that the right pin is a
pin, that a scene has one of the versions and that what is pasted in it is text, and
that the messages of a script are of the union of their version and hold values that
fit their fields: a number as wide as its field, strings of one-byte characters.  What
the code does with wider values, it cuts them off, is in the model and in no theorem.
A string that is too long for its length field is allowed, and is refused by `pack`.

Only model-checked:

* liveness, which the prover cannot reach: `EveryNavigationEnds`, `StoppedLoopsEnd`,
  `CliffHolds`, `LostTargetIsAbandoned`, `QueueDrains`, `PromptReturns`,
  `PairingProgresses`;
* `DoesWhatWasSaid` of `OpenClaw`: it compares the table of commands with a reference
  phrase by phrase, and is about the phrases of the run, said alone;
* the two properties of the runs that expect a violation.

## 5. Seen while modelling, not stated by a run

* `cancel_navigation` clears `_running` and sets it again at once
  (`nav_controller.py:297-303`): a thread that is inside a motor call in between
  never notices and drives on.
* `pause()` of the guardian does not touch the navigation it has started
  (`patrol.py:285`).
* `navigate_to_waypoint` tests `_state`, but PLANNING is set only inside the thread it
  starts (`nav_controller.py:257`, `:352`): a second call in between starts a second
  navigation.  The early returns of `_navigate_task` (`:356`, `:369`) skip
  `_release_control`, so `nav` stays the holder until it navigates again.
* A control loop of the follow planner that has passed its running test drives once
  more after a stop or an emergency stop has zeroed the wheels
  (`follow_planner.py:490`); after a search that found nobody the planner is IDLE with
  `_running` set, and `start()` refuses (`:387`).
* The latch has the same window as the flags (`motor_controller.py:366`): a command
  tested before `emergency_stop` is sent after it, and a ramp never re-tests it.
* `bridge/connection.py:216` builds a `MotorController` without an `SdkEventBridge`:
  under that entry point no cliff is ever flagged, and the gate stays open.
* `connection.py:395` says a touch stops everything; it does not stop a
  `NavController`.
* A track arriving between the consumption of another and its locking is locked in
  its place (`follow_planner.py:310`).
* The class comment of `FollowPlanner` (105-109) promises phases that only turn or
  only drive; `_apply_tracking` (434-475) mixes both.

* A connection lost while the state is RECONNECTING is ignored
  (`supervisor.py:604`), also when it is the new one: the supervisor then reports
  RUNNING over a dead connection until the process is restarted.  A loss between
  attaching the bridge and subscribing (`supervisor.py:190-193`) is missed too.
* `_shutdown` does not wait for a reconnect thread: one that ends later sets
  RUNNING and leaves components and a robot behind (`supervisor.py:239`).
* A failed critical restart raises out of the health loop and ends its thread for
  good (`supervisor.py:517`); a failed resume dials a new robot without
  disconnecting the one it has (`supervisor.py:241`).
* A component without connection that is being restarted while a reconnection
  re-registers is copied as it is at that moment and then lost from the list, and
  so is what the startup loop starts after a reconnection has replaced the list.

In the web setup page (`rts.js`, `pterm.js`):

* A robot of version 7 cannot be paired (1634; run `setup_v7`).
* A rejected write leaves the link dead until the page is loaded again (18083).
* All saved sessions share one key pair (1607): after a second robot has been
  paired, the first has to be paired anew.
* `deleteSession` (17805) deletes the sessions of all robots from the cookie, and
  none from memory, so that the next connection resumes with the same wrong keys.
* The pin prompt of the terminal stays when the pin is entered in the form or the
  robot goes away (1659); what is typed there later is taken for a pin and replaces
  the key of the session in memory.  A disconnection while `ble-connect` is pending
  leaves `_cmdPending` set (1297).
* The three-second timer of a dropped handler ends a newer connection (16124).
* A connection that fails is not reported: the page keeps showing Loading (18048).
  Cancelling the browser's list hides a pin form that is shown (1408).
* A login or a list of updates that ends after a disconnection calls methods of
  null (1960, 1306) and shows the form of the update or the account without a robot; a
  list that cannot be fetched throws and leaves the page as it is (1107); `btnTryAgain` calls `doOta()` without the argument it
  destructures (1798).  Requests of forms have neither timeout (but status) nor
  reaction to a refusal.
* From version 3 on the status of an update is read from the wrong object (15947):
  `ota-start` in the terminal never ends, and `ota-cancel` ends at the first report.
* A refusal names no request: that of a form's request rejects the command of the
  terminal that waits (15958).  A newer request of a key leaves the older one unsettled
  for good (16198).
* `doConnectionId` names a variable that does not exist (16378).

In OpenClaw:

* `look forward` drives the robot, since `forward` comes first in the table; `stop
  the patrol` starts one, for `stop patrol` does not match and `patrol` does
  (`robot-commands.js:301`).
* In auto mode a step may be carried out over MQTT and over HTTP; over MQTT, which
  delivers at least once, any number of times and after the steps that follow it; a
  step that timed out may be carried out later, after the next message's.
* Two photos at a time share `/tmp/sig-photo-payload.json`, two texts of the same
  millisecond their payload file: one may be sent twice and the other not at all,
  with success reported.
* `intercom-relay.js:100` reads `.text` of whatever JSON it is sent, null included.
* `parseCommand` does not pass on `isSay` and `isNavigation`, so that the answers made
  for them are never used.

## 6. Plan

The most safety-relevant chain came first (who may drive, what stops the motors,
who navigates), then the web setup, which is the largest program of the repository,
and OpenClaw.  Next, in order:

1. `Supervisor`: the battery monitor (its stops and restarts race with those of
   the reconnection), and what remains started after a shutdown.
2. `FollowPipeline` around `FollowPlanner`: the slow start, stop during the load.
3. `AutoCharger` and `Explorer` with the control manager and `NavService`: an
   interrupted exploration is resumed; docking gives control back.
4. `ConnectionModes`, `PresenceTracker`, `LedController`: timers that have fired
   against the call that cancels them; one module each, one instance for TLC.
5. `ObstacleDetector` with `MotorController`: when flags are cleared again.
6. `WorkerDispatch`, `AccountRotation`: worker caps, cooldowns; `MediaChannel`:
   drop-oldest queues against their consumer.
7. Web setup: a second handshake on one connection, and picking a robot while
   another is connected, in `RtsPairing`.
8. Proofs: that a session in memory, too, is one its robot knows, unless a pin was
   entered into a stale prompt; types of the jobs of OpenClaw as an invariant of its own.

## 7. Not modelled

* Perception (Kalman filter, YOLO), SLAM and map storage, voice, LiveKit and intercom,
  the native streamer: numeric code or I/O to external services without control
  state of its own.
* In the web setup: the choice of the environment (stacks), creating accounts and
  resetting passwords, help texts, drawing, icons and the progress bar; the blesh
  tunnel, which `Blesh.isSupported()` turns off (`rts.js:210`); `RtsV7Handler`,
  which nothing instantiates (its message classes are in `RtsMessages`); the size
  limit of a cookie.  One handshake per connection: a second one goes to
  `cancelConnection()`.
* In OpenClaw: the texts made of the robot's answers; numbers in LED commands beyond
  three samples, capitalized names beyond one; `agent-notifier.js` and
  `narration-receiver.js`, which contain comments only.
* Vendored and generated files (`jquery.min.3.3.1.js`, `sodium.js`,
  `victor-reference`, the streamer's backup).
