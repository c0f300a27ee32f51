----------------------------- MODULE Supervisor -----------------------------
(***************************************************************************)
(* apps/vector/supervisor.py: startup, shutdown, reconnection and health   *)
(* monitoring.  run() is the main thread; every connection_lost event that *)
(* passes the test of _state starts a reconnect thread; the health monitor *)
(* has a thread.  They share _robot, _sdk_bridge, _state and the component *)
(* list, none of which is locked for longer than one access.  A reconnect  *)
(* replaces the list, so a loop over the old one goes on over components   *)
(* nobody else refers to.  A robot's events are attached or not: a second  *)
(* bridge on one robot is not told apart from the first.  Backoff delays,  *)
(* the battery monitor and the systemd notification are left out.          *)
(***************************************************************************)
EXTENDS Integers, FiniteSets

CONSTANTS
    Recons,     \* the reconnect threads there can be (bound)
    Main,       \* the thread of run()
    Health,     \* the health monitor
    Robots,     \* identities of anki_vector.Robot objects (bound)
    NoRobot,    \* None
    NumComps,   \* components 1 .. NumComps, in start order
    Connected,  \* those with requires_connection
    Critical    \* those with is_critical

Comps == 1 .. NumComps
Threads == Recons \cup {Main, Health}

ASSUME SupervisorAssumption ==
    /\ NumComps \in Nat
    /\ Connected \subseteq Comps /\ Critical \subseteq Connected
    /\ NoRobot \notin Robots
    /\ Main # Health
    /\ Recons \cap {Main, Health} = {}

VARIABLES
    state,      \* _state
    shutdown,   \* _shutdown_event is set
    robot,      \* _robot
    bridge,     \* the robot of _sdk_bridge
    madeFor,    \* the robot the factories in _components have captured
    started,    \* the components of _components that are _started
    gaveUp,     \* history: those of them whose last start failed
    listening,  \* _on_emergency_stop is subscribed
    up,         \* external: robots connected to the NUC
    attached,   \* external: robots whose events reach the bus
    pc,         \* pc[t]: where thread t is
    pos,        \* pos[t]: the component its loop is at
    stale       \* stale[t]: the list it loops over has been replaced

listVars == <<madeFor, started, gaveUp>>
linkVars == <<robot, bridge, up, attached>>
flagVars == <<state, shutdown, listening>>
threadVars == <<pc, pos, stale>>
supVars == <<listVars, linkVars, flagVars, threadVars>>

SupInit ==
    /\ state = "INIT" /\ shutdown = FALSE /\ listening = FALSE
    /\ robot = NoRobot /\ bridge = NoRobot /\ up = {} /\ attached = {}
    /\ madeFor = NoRobot /\ started = {} /\ gaveUp = {}
    /\ pc = [t \in Threads |-> IF t = Main THEN "set" ELSE "off"]
    /\ pos = [t \in Threads |-> 0]
    /\ stale = [t \in Threads |-> FALSE]

Goto(t, from, to) ==
    /\ pc[t] = from
    /\ pc' = [pc EXCEPT ![t] = to]

\* A jump that starts a loop over the current list at component c.
GotoLoop(t, from, to, c) ==
    /\ Goto(t, from, to)
    /\ pos' = [pos EXCEPT ![t] = c]
    /\ stale' = [stale EXCEPT ![t] = FALSE]

\* A jump out of a loop.
Leave(t, from, to) == GotoLoop(t, from, to, 0)

-----------------------------------------------------------------------------
(***************************************************************************)
(* _start_component and _stop_component, seen from the list.  A loop over  *)
(* a list that was replaced changes components outside of it.              *)
(***************************************************************************)
Started(t, c) ==
    /\ started' = IF stale[t] THEN started ELSE started \cup {c}
    /\ gaveUp' = IF stale[t] THEN gaveUp ELSE gaveUp \ {c}

StartFailed(t, c) ==
    /\ gaveUp' = IF stale[t] THEN gaveUp ELSE gaveUp \cup {c}
    /\ UNCHANGED started

Stopped(t, c) ==
    /\ started' = IF stale[t] THEN started ELSE started \ {c}
    /\ UNCHANGED gaveUp

-----------------------------------------------------------------------------
(***************************************************************************)
(* Connecting: the loops of _connect_to_vector and _reconnect, as long as  *)
(* there are identities for new Robot objects (bound).                     *)
(***************************************************************************)
SetConnecting ==
    /\ Goto(Main, "set", "connect")
    /\ state' = "CONNECTING"
    /\ UNCHANGED <<listVars, linkVars, shutdown, listening, pos, stale>>

\* Identities of objects nothing refers to any more.
Fresh == Robots \ (up \cup attached \cup {bridge, madeFor})

NewRobot(t) ==
    /\ Goto(t, "connect", "dial")
    /\ ~shutdown
    /\ \E r \in Fresh : robot' = r
    /\ UNCHANGED <<listVars, bridge, up, attached, flagVars, pos, stale>>

GiveUpConnecting(t) ==
    /\ Goto(t, "connect", IF t = Main THEN "shutdown" ELSE "ended")
    /\ shutdown
    /\ UNCHANGED <<listVars, linkVars, flagVars, pos, stale>>

\* self._robot is read again for each call: another thread may have set it.
Dial(t) ==
    /\ Goto(t, "dial", "attach")
    /\ robot # NoRobot
    /\ up' = up \cup {robot}
    /\ UNCHANGED <<listVars, robot, bridge, attached, flagVars, pos, stale>>

DialFails(t) ==
    /\ Goto(t, "dial", "connect")
    /\ UNCHANGED <<listVars, linkVars, flagVars, pos, stale>>

Attach(t) ==
    /\ Goto(t, "attach", IF t = Main THEN "subscribe" ELSE "register")
    /\ robot # NoRobot
    /\ bridge' = robot
    /\ attached' = attached \cup {robot}
    /\ UNCHANGED <<listVars, robot, up, flagVars, pos, stale>>

AttachFails(t) ==
    /\ Goto(t, "attach", "connect")
    /\ robot = NoRobot
    /\ bridge' = NoRobot
    /\ UNCHANGED <<listVars, robot, up, attached, flagVars, pos, stale>>

Subscribe ==
    /\ Goto(Main, "subscribe", "register")
    /\ listening' = TRUE
    /\ UNCHANGED <<listVars, linkVars, state, shutdown, pos, stale>>

(***************************************************************************)
(* _register_components; a reconnect keeps the components that need no     *)
(* connection.                                                             *)
(***************************************************************************)
\* Mutant: components are restarted with the factories they have.
RegisterKeepsFactories(t) ==
    /\ GotoLoop(t, "register", "start", 1)
    /\ IF t = Main
         THEN madeFor' = robot /\ started' = {} /\ gaveUp' = {}
         ELSE UNCHANGED listVars
    /\ UNCHANGED <<linkVars, flagVars>>

Register(t) ==
    /\ Goto(t, "register", "start")
    /\ pos' = [pos EXCEPT ![t] = 1]
    /\ stale' = [u \in Threads |-> u # t /\ pos[u] # 0]
    /\ madeFor' = robot
    /\ started' = IF t = Main THEN {} ELSE started \ Connected
    /\ gaveUp' = IF t = Main THEN {} ELSE gaveUp \ Connected
    /\ UNCHANGED <<linkVars, flagVars>>

(***************************************************************************)
(* The start loops of _start_components and _resume_connected_components.  *)
(***************************************************************************)
Advance(t) ==
    /\ pos' = [pos EXCEPT ![t] = @ + 1]
    /\ UNCHANGED <<pc, stale>>

Skips(t, c) == t # Main /\ (c \notin Connected \/ stale[t] \/ c \in started)

StartSkips(t) ==
    /\ pc[t] = "start" /\ pos[t] \in Comps /\ Skips(t, pos[t])
    /\ Advance(t)
    /\ UNCHANGED <<listVars, linkVars, flagVars>>

MayStart(t) ==
    /\ pc[t] = "start" /\ pos[t] \in Comps
    /\ Skips(t, pos[t]) => stale[t] /\ pos[t] \in Connected

StartWorks(t) ==
    /\ MayStart(t)
    /\ Advance(t)
    /\ Started(t, pos[t])
    /\ UNCHANGED <<madeFor, linkVars, flagVars>>

\* A failure is logged.
StartBreaks(t) ==
    /\ MayStart(t) /\ pos[t] \notin Critical
    /\ Advance(t)
    /\ StartFailed(t, pos[t])
    /\ UNCHANGED <<madeFor, linkVars, flagVars>>

\* Mutant: that of a critical component too, when resuming.
CriticalBreaksQuietly(t) ==
    /\ MayStart(t) /\ pos[t] \in Critical
    /\ IF t = Main THEN Leave(t, "start", "shutdown") ELSE Advance(t)
    /\ StartFailed(t, pos[t])
    /\ UNCHANGED <<madeFor, linkVars, flagVars>>

\* That of a critical component ends run(), or the attempt to reconnect,
\* whose robot stays connected.
CriticalBreaks(t) ==
    /\ MayStart(t) /\ pos[t] \in Critical
    /\ Leave(t, "start", IF t = Main THEN "shutdown" ELSE "connect")
    /\ StartFailed(t, pos[t])
    /\ UNCHANGED <<madeFor, linkVars, flagVars>>

Ready(t) ==
    /\ pc[t] = "start" /\ pos[t] > NumComps
    /\ state' = "RUNNING"
    /\ pc' = IF t = Main
               THEN [pc EXCEPT ![Main] = "wait", ![Health] = "idle"]
               ELSE [pc EXCEPT ![t] = "ended"]
    /\ pos' = [pos EXCEPT ![t] = 0]
    /\ stale' = [stale EXCEPT ![t] = FALSE]
    /\ UNCHANGED <<listVars, linkVars, shutdown, listening>>

Connecting(t) ==
    \/ NewRobot(t) \/ GiveUpConnecting(t)
    \/ Dial(t) \/ DialFails(t) \/ Attach(t) \/ AttachFails(t)
    \/ Register(t)
    \/ StartSkips(t) \/ StartWorks(t) \/ StartBreaks(t) \/ CriticalBreaks(t)
    \/ Ready(t)

-----------------------------------------------------------------------------
(***************************************************************************)
(* _reconnect up to its loop, and _shutdown: a loop over the list in       *)
(* reverse, then _disconnect_robot.                                        *)
(***************************************************************************)
BeginReconnect(t) ==
    /\ t \in Recons
    /\ GotoLoop(t, "set", "pause", NumComps)
    /\ state' = "RECONNECTING"
    /\ UNCHANGED <<listVars, linkVars, shutdown, listening>>

BeginShutdown ==
    /\ GotoLoop(Main, "shutdown", "pause", NumComps)
    /\ state' = "SHUTTING_DOWN"
    /\ UNCHANGED <<listVars, linkVars, shutdown, listening>>

\* Mutant: the loop goes one too far.
PauseNextOffByOne(t) ==
    /\ pc[t] = "pause" /\ pos[t] \in Comps \cup {0}
    /\ pos' = [pos EXCEPT ![t] = @ - 1]
    /\ IF t = Main \/ pos[t] \in Connected
         THEN Stopped(t, pos[t])
         ELSE UNCHANGED <<started, gaveUp>>
    /\ UNCHANGED <<madeFor, linkVars, flagVars, pc, stale>>

PauseNext(t) ==
    /\ pc[t] = "pause" /\ pos[t] \in Comps
    /\ pos' = [pos EXCEPT ![t] = @ - 1]
    /\ IF t = Main \/ pos[t] \in Connected
         THEN Stopped(t, pos[t])
         ELSE UNCHANGED <<started, gaveUp>>
    /\ UNCHANGED <<madeFor, linkVars, flagVars, pc, stale>>

\* _shutdown first unsubscribes _on_emergency_stop.
Teardown(t) ==
    /\ pos[t] = 0
    /\ Leave(t, "pause", "hangup")
    /\ listening' = (listening /\ t # Main)
    /\ attached' = attached \ {bridge}
    /\ bridge' = NoRobot
    /\ UNCHANGED <<listVars, robot, up, state, shutdown>>

\* robot.disconnect() takes its time before _robot is cleared.
Hangup(t) ==
    /\ Goto(t, "hangup", "forget")
    /\ robot # NoRobot
    /\ up' = up \ {robot}
    /\ UNCHANGED <<listVars, robot, bridge, attached, flagVars, pos, stale>>

\* Out of _disconnect_robot, and of _shutdown or into the reconnect loop.
Disconnected(t, from) ==
    /\ Goto(t, from, IF t = Main THEN "exited" ELSE "connect")
    /\ state' = IF t = Main THEN "STOPPED" ELSE state
    /\ UNCHANGED <<listVars, bridge, up, attached, shutdown, listening, pos,
                   stale>>

NothingToHangUp(t) ==
    /\ robot = NoRobot
    /\ Disconnected(t, "hangup")
    /\ UNCHANGED robot

Forget(t) ==
    /\ Disconnected(t, "forget")
    /\ robot' = NoRobot

Disconnecting(t) ==
    \/ BeginReconnect(t)
    \/ PauseNext(t)
    \/ Teardown(t) \/ NothingToHangUp(t) \/ Hangup(t) \/ Forget(t)

WakeUp ==
    /\ Goto(Main, "wait", "shutdown")
    /\ shutdown
    /\ UNCHANGED <<listVars, linkVars, flagVars, pos, stale>>

-----------------------------------------------------------------------------
(***************************************************************************)
(* _check_component_health, when the state is RUNNING.                     *)
(***************************************************************************)
HealthTick ==
    /\ GotoLoop(Health, "idle", "check", 1)
    /\ ~shutdown /\ state = "RUNNING"
    /\ UNCHANGED <<listVars, linkVars, flagVars>>

\* The next started component found dead.
HealthStops ==
    /\ Goto(Health, "check", "restart")
    /\ \E c \in IF stale[Health] THEN Comps ELSE started :
          /\ c >= pos[Health]
          /\ pos' = [pos EXCEPT ![Health] = c]
          /\ Stopped(Health, c)
    /\ UNCHANGED <<madeFor, linkVars, flagVars, stale>>

HealthRestarts ==
    /\ Goto(Health, "restart", "check")
    /\ pos' = [pos EXCEPT ![Health] = @ + 1]
    /\ \/ Started(Health, pos[Health])
       \/ pos[Health] \notin Critical /\ StartFailed(Health, pos[Health])
    /\ UNCHANGED <<madeFor, linkVars, flagVars, stale>>

\* The exception of a critical component ends the health thread.
HealthDies ==
    /\ pos[Health] \in Critical
    /\ Leave(Health, "restart", "off")
    /\ StartFailed(Health, pos[Health])
    /\ UNCHANGED <<madeFor, linkVars, flagVars>>

HealthDone ==
    /\ Leave(Health, "check", "idle")
    /\ UNCHANGED <<listVars, linkVars, flagVars>>

HealthStep ==
    \/ HealthTick \/ HealthStops \/ HealthRestarts \/ HealthDies
    \/ HealthDone

-----------------------------------------------------------------------------
(***************************************************************************)
(* A connection breaks: its connection_lost event reaches                  *)
(* _on_emergency_stop, which may start a reconnect thread.                 *)
(***************************************************************************)
NoReconnect == {"RECONNECTING", "SHUTTING_DOWN", "STOPPED"}

LossIgnored(r) ==
    /\ r \in up \cap attached
    /\ ~listening \/ state \in NoReconnect
    /\ up' = up \ {r}
    /\ UNCHANGED <<listVars, robot, bridge, attached, flagVars, threadVars>>

LossNoticed(r) ==
    /\ r \in up \cap attached
    /\ listening /\ state \notin NoReconnect
    /\ up' = up \ {r}
    /\ \E t \in Recons : Goto(t, "off", "set")
    /\ UNCHANGED <<listVars, robot, bridge, attached, flagVars, pos, stale>>

Signal ==
    /\ ~shutdown
    /\ shutdown' = TRUE
    /\ UNCHANGED <<listVars, linkVars, state, listening, threadVars>>

MainStep ==
    \/ SetConnecting \/ Subscribe \/ WakeUp \/ BeginShutdown
    \/ Connecting(Main) \/ Disconnecting(Main)

ReconStep(t) == Connecting(t) \/ Disconnecting(t)

SupNext ==
    \/ MainStep
    \/ \E t \in Recons : ReconStep(t)
    \/ HealthStep
    \/ \E r \in Robots : LossIgnored(r) \/ LossNoticed(r)
    \/ Signal

SupSpec == SupInit /\ [][SupNext]_supVars

-----------------------------------------------------------------------------
(***************************************************************************)
(* Type invariant of the supervisor.                                       *)
(***************************************************************************)
SupTypeOK ==
    /\ state \in {"INIT", "CONNECTING", "RUNNING", "RECONNECTING",
                  "SHUTTING_DOWN", "STOPPED"}
    /\ {shutdown, listening} \subseteq BOOLEAN
    /\ {robot, bridge, madeFor} \subseteq Robots \cup {NoRobot}
    /\ up \subseteq Robots /\ attached \subseteq Robots
    /\ started \subseteq Comps /\ gaveUp \subseteq Comps
    /\ pc \in [Threads -> {"off", "ended", "set", "connect", "dial", "attach",
                           "subscribe", "register", "start", "wait", "pause",
                           "shutdown", "hangup", "forget", "exited", "idle",
                           "check", "restart"}]
    /\ pos \in [Threads -> 0 .. NumComps + 1]
    /\ stale \in [Threads -> BOOLEAN]

\* No thread is starting, stopping or replacing anything.
AtRest ==
    /\ state = "RUNNING" /\ ~shutdown /\ pc[Main] = "wait"
    /\ \A t \in Recons : pc[t] \in {"off", "ended"}
    /\ pc[Health] \in {"idle", "off"}

(***************************************************************************)
(* However many reconnects overlapped each other, the startup and the      *)
(* monitor, a supervisor at rest has settled on one robot: the one its     *)
(* components were built for and whose events it hears (_reconnect,        *)
(* _register_components).  A component built for an earlier robot would    *)
(* drive a dead connection for ever.                                       *)
(***************************************************************************)
SettlesOnOneRobot ==
    AtRest => robot # NoRobot /\ madeFor = robot /\ bridge = robot

(***************************************************************************)
(* At rest, every component that needs the connection runs, but for those  *)
(* whose last start failed: pauses, resumes and restarts never lose one    *)
(* between them.  A critical one is missing only if its restart by the     *)
(* health monitor failed, which has then ended (_start_component raises).  *)
(***************************************************************************)
ConnectedComponentsRun ==
    AtRest => /\ Connected \subseteq started \cup gaveUp
              /\ Critical \subseteq started \/ pc[Health] = "off"
=============================================================================
