-------------------------- MODULE SupervisorProofs --------------------------
(***************************************************************************)
(* Proofs about the supervisor, for any number of reconnect threads,       *)
(* robots and components.  Whatever is out of order while threads overlap, *)
(* one of them is still on a path that puts it right.                      *)
(***************************************************************************)
EXTENDS Supervisor, TLAPS

\* The threads that connect: run() and the reconnect threads.
Workers == Recons \cup {Main}

\* run() has left its wait, for good.
Leaving == {"shutdown", "pause", "hangup", "forget", "exited"}
Ending == shutdown \/ pc[Main] \in Leaving

\* The monitor runs from run()'s wait on, and restarts a component there is.
HealthInv ==
    /\ pc[Health] \in {"off", "idle", "check", "restart"}
    /\ pc[Health] = "restart" => pos[Health] \in Comps
    /\ pc[Health] # "off" => pc[Main] \in {"wait"} \cup Leaving

\* Ahead of these a thread makes a robot, attaches it and registers for it.
Redo == {"set", "pause", "hangup", "forget", "connect", "dial", "attach"}
Redoing == \E t \in Workers : pc[t] \in Redo

\* The robot is the one attached, and the components are made for it, unless
\* a thread is about to see to it.
RobotInv ==
    \/ Ending \/ Redoing
    \/ /\ robot # NoRobot /\ bridge = robot
       /\ \/ madeFor = robot
          \/ \E t \in Workers : pc[t] \in {"subscribe", "register"}

\* Thread t will come to component c of the present list.
WillStart(t, c) ==
    \/ t \in Workers /\ pc[t] \in Redo \cup {"subscribe", "register"}
    \/ t \in Workers /\ pc[t] = "start" /\ ~stale[t] /\ pos[t] <= c
    \/ t = Health /\ pc[t] = "restart" /\ ~stale[t] /\ pos[t] = c

\* Component c runs, or could not be started, or will be.
Accounted(c) ==
    \/ c \in started
    \/ /\ c \in gaveUp
       /\ c \notin Critical \/ (pc[Health] = "off" /\ pc[Main] = "wait")
    \/ \E t \in Threads : WillStart(t, c)

CompInv == Ending \/ \A c \in Connected : Accounted(c)

SupInv == SupTypeOK /\ HealthInv /\ RobotInv /\ CompInv

-----------------------------------------------------------------------------
LEMMA ThreadFacts ==
    /\ Main \in Threads /\ Health \in Threads /\ Main # Health
    /\ Recons \subseteq Threads /\ Workers \subseteq Threads
    /\ \A t \in Recons : t # Main /\ t # Health
    /\ Health \notin Workers
BY SupervisorAssumption DEF Threads, Workers

\* A jump: the thread is where it says, and no other thread has moved.
LEMMA GotoFacts ==
    ASSUME SupTypeOK, NEW t \in Threads, NEW from, NEW to, Goto(t, from, to)
    PROVE  /\ pc[t] = from /\ pc'[t] = to
           /\ \A u \in Threads \ {t} : pc'[u] = pc[u]
BY DEF SupTypeOK, Goto

-----------------------------------------------------------------------------
(* Types.                                                                   *)
LEMMA ConnectingKeepsTypes ==
    ASSUME SupInv, NEW t \in Workers, Connecting(t)
    PROVE  SupTypeOK'
<1> USE SupervisorAssumption, ThreadFacts
    DEF SupInv, SupTypeOK, Goto, GotoLoop, Leave, listVars, linkVars, flagVars,
        threadVars
<1>1. CASE NewRobot(t)
  BY <1>1 DEF NewRobot, Fresh
<1>2. CASE GiveUpConnecting(t) \/ DialFails(t)
  BY <1>2 DEF GiveUpConnecting, DialFails
<1>3. CASE Dial(t) \/ Attach(t) \/ AttachFails(t)
  BY <1>3 DEF Dial, Attach, AttachFails
<1>4. CASE Register(t)
  <2>1. stale' \in [Threads -> BOOLEAN]
    BY <1>4 DEF Register
  <2>2. pos' \in [Threads -> 0 .. NumComps + 1]
    BY <1>4 DEF Register
  <2>3. started' \subseteq Comps /\ gaveUp' \subseteq Comps
    BY <1>4 DEF Register
  <2>. QED BY <1>4, <2>1, <2>2, <2>3 DEF Register
<1>5. CASE StartSkips(t) \/ StartWorks(t) \/ StartBreaks(t)
  <2>1. pos[t] \in Comps /\ Advance(t)
    BY <1>5 DEF StartSkips, StartWorks, StartBreaks, MayStart
  <2>2. pos' \in [Threads -> 0 .. NumComps + 1]
    BY <2>1 DEF Advance, Comps
  <2>3. started' \subseteq Comps /\ gaveUp' \subseteq Comps
    BY <1>5, <2>1 DEF StartSkips, StartWorks, StartBreaks, Started, StartFailed
  <2>. QED BY <1>5, <2>1, <2>2, <2>3
       DEF StartSkips, StartWorks, StartBreaks, Advance
<1>6. CASE CriticalBreaks(t)
  <2>1. pos' \in [Threads -> 0 .. NumComps + 1]
    BY <1>6 DEF CriticalBreaks
  <2>2. stale' \in [Threads -> BOOLEAN]
    BY <1>6 DEF CriticalBreaks
  <2>3. started' \subseteq Comps /\ gaveUp' \subseteq Comps
    BY <1>6 DEF CriticalBreaks, MayStart, StartFailed
  <2>. QED BY <1>6, <2>1, <2>2, <2>3 DEF CriticalBreaks
<1>7. CASE Ready(t)
  <2>1. pos' \in [Threads -> 0 .. NumComps + 1]
    BY <1>7 DEF Ready
  <2>2. stale' \in [Threads -> BOOLEAN]
    BY <1>7 DEF Ready
  <2>. QED BY <1>7, <2>1, <2>2 DEF Ready
<1>. QED BY <1>1, <1>2, <1>3, <1>4, <1>5, <1>6, <1>7 DEF Connecting

LEMMA DisconnectingKeepsTypes ==
    ASSUME SupInv, NEW t \in Workers, Disconnecting(t)
    PROVE  SupTypeOK'
<1> USE SupervisorAssumption, ThreadFacts
    DEF SupInv, SupTypeOK, Goto, GotoLoop, Leave, listVars, linkVars, flagVars,
        threadVars
<1>1. CASE BeginReconnect(t)
  BY <1>1 DEF BeginReconnect
<1>2. CASE PauseNext(t)
  <2>1. pos' \in [Threads -> 0 .. NumComps + 1]
    BY <1>2 DEF PauseNext, Comps
  <2>2. started' \subseteq Comps /\ gaveUp' \subseteq Comps
    BY <1>2 DEF PauseNext, Stopped
  <2>. QED BY <1>2, <2>1, <2>2 DEF PauseNext
<1>3. CASE Teardown(t)
  <2>1. listening' \in BOOLEAN
    BY <1>3, Zenon DEF Teardown
  <2>. QED BY <1>3, <2>1 DEF Teardown
<1>4. CASE NothingToHangUp(t) \/ Forget(t)
  BY <1>4 DEF NothingToHangUp, Forget, Disconnected
<1>5. CASE Hangup(t)
  BY <1>5 DEF Hangup
<1>. QED BY <1>1, <1>2, <1>3, <1>4, <1>5 DEF Disconnecting

LEMMA HealthKeepsTypes ==
    ASSUME SupInv, HealthStep
    PROVE  SupTypeOK'
<1> USE SupervisorAssumption, ThreadFacts
    DEF SupInv, SupTypeOK, HealthInv, Goto, GotoLoop, Leave, listVars, linkVars,
        flagVars, threadVars
<1>1. CASE HealthTick
  BY <1>1 DEF HealthTick
<1>2. CASE HealthStops
  BY <1>2 DEF HealthStops, Stopped, Comps
<1>3. CASE HealthRestarts
  <2>1. pos[Health] \in Comps
    BY <1>3 DEF HealthRestarts
  <2>2. pos' \in [Threads -> 0 .. NumComps + 1]
    BY <1>3, <2>1 DEF HealthRestarts, Comps
  <2>3. started' \subseteq Comps /\ gaveUp' \subseteq Comps
    BY <1>3, <2>1 DEF HealthRestarts, Started, StartFailed
  <2>. QED BY <1>3, <2>2, <2>3 DEF HealthRestarts
<1>4. CASE HealthDies
  BY <1>4 DEF HealthDies, StartFailed
<1>5. CASE HealthDone
  BY <1>5 DEF HealthDone
<1>. QED BY <1>1, <1>2, <1>3, <1>4, <1>5 DEF HealthStep

LEMMA TypesInductive ==
    ASSUME SupInv, SupNext
    PROVE  SupTypeOK'
<1> USE SupervisorAssumption, ThreadFacts
    DEF SupInv, SupTypeOK, Goto, GotoLoop, listVars, linkVars, flagVars,
        threadVars
<1>1. CASE MainStep
  <2>1. CASE SetConnecting
    BY <2>1 DEF SetConnecting
  <2>4. CASE WakeUp
    BY <2>4 DEF WakeUp
  <2>5. CASE BeginShutdown
    BY <2>5 DEF BeginShutdown
  <2>2. CASE Subscribe
    <3>1. listening' \in BOOLEAN
      BY <2>2, Zenon DEF Subscribe
    <3>. QED BY <2>2, <3>1 DEF Subscribe
  <2>3. CASE Connecting(Main) \/ Disconnecting(Main)
    BY <2>3, ConnectingKeepsTypes, DisconnectingKeepsTypes DEF Workers
  <2>. QED BY <1>1, <2>1, <2>2, <2>3, <2>4, <2>5 DEF MainStep
<1>2. ASSUME NEW t \in Recons, ReconStep(t)
      PROVE  SupTypeOK'
  BY <1>2, ConnectingKeepsTypes, DisconnectingKeepsTypes
  DEF ReconStep, Workers
<1>3. CASE HealthStep
  BY <1>3, HealthKeepsTypes
<1>4. ASSUME NEW r \in Robots, LossIgnored(r) \/ LossNoticed(r)
      PROVE  SupTypeOK'
  BY <1>4 DEF LossIgnored, LossNoticed
<1>5. CASE Signal
  <2>1. shutdown' \in BOOLEAN
    BY <1>5, Zenon DEF Signal
  <2>. QED BY <1>5, <2>1 DEF Signal
<1>. QED BY <1>1, <1>2, <1>3, <1>4, <1>5 DEF SupNext

-----------------------------------------------------------------------------
(* Where the threads are.                                                   *)

\* A worker's step moves that worker only; Ready(Main) starts the monitor.
LEMMA WorkerMoves ==
    ASSUME SupInv, NEW t \in Workers, Connecting(t) \/ Disconnecting(t)
    PROVE  /\ \A u \in Threads \ {t, Health} : pc'[u] = pc[u]
           /\ \/ pc'[Health] = pc[Health]
              \/ t = Main /\ pc'[Health] = "idle" /\ pc'[Main] = "wait"
           /\ shutdown' = shutdown
           /\ \A u \in Threads \ {t} : pos'[u] = pos[u]
<1> USE ThreadFacts
    DEF SupInv, SupTypeOK, Goto, GotoLoop, Leave, flagVars, threadVars
<1>1. CASE Connecting(t) /\ ~Ready(t)
  <2>1. CASE StartSkips(t) \/ StartWorks(t) \/ StartBreaks(t)
    BY <2>1 DEF StartSkips, StartWorks, StartBreaks, Advance
  <2>2. CASE Register(t) \/ CriticalBreaks(t)
    BY <2>2 DEF Register, CriticalBreaks
  <2>3. CASE \/ NewRobot(t) \/ GiveUpConnecting(t) \/ Dial(t)
             \/ DialFails(t) \/ Attach(t) \/ AttachFails(t)
    BY <2>3 DEF NewRobot, GiveUpConnecting, Dial, DialFails, Attach, AttachFails
  <2>. QED BY <1>1, <2>1, <2>2, <2>3 DEF Connecting
<1>2. CASE Ready(t)
  BY <1>2 DEF Ready
<1>3. CASE Disconnecting(t)
  BY <1>3 DEF Disconnecting, BeginReconnect, PauseNext, Teardown,
              NothingToHangUp, Hangup, Forget, Disconnected
<1>. QED BY <1>1, <1>2, <1>3

\* run() that leaves goes on leaving.
LEMMA MainLeaves ==
    ASSUME SupInv, Connecting(Main) \/ Disconnecting(Main), pc[Main] \in Leaving
    PROVE  pc'[Main] \in Leaving
<1> USE ThreadFacts
    DEF SupInv, SupTypeOK, Goto, GotoLoop, Leave, threadVars, Leaving
<1>1. CASE Connecting(Main)
  BY <1>1 DEF Connecting, NewRobot, GiveUpConnecting, Dial, DialFails, Attach,
              AttachFails, Register, StartSkips, StartWorks, StartBreaks,
              CriticalBreaks, MayStart, Ready
<1>2. CASE Disconnecting(Main)
  BY <1>2 DEF Disconnecting, BeginReconnect, PauseNext, Teardown,
              NothingToHangUp, Hangup, Forget, Disconnected
<1>. QED BY <1>1, <1>2

\* A worker's step that is none of these six ends or goes on redoing.
Settling(t) ==
    \/ Attach(t) \/ Register(t)
    \/ StartSkips(t) \/ StartWorks(t) \/ StartBreaks(t) \/ Ready(t)

LEMMA WorkerRedoes ==
    ASSUME SupInv, NEW t \in Workers, Connecting(t) \/ Disconnecting(t),
           ~Settling(t)
    PROVE  pc'[t] \in Redo \/ Ending'
<1> USE ThreadFacts
    DEF SupInv, SupTypeOK, Goto, GotoLoop, Leave, flagVars, Redo
<1>1. CASE NewRobot(t) \/ Dial(t) \/ DialFails(t) \/ AttachFails(t)
  BY <1>1 DEF NewRobot, Dial, DialFails, AttachFails
<1>2. CASE GiveUpConnecting(t)
  BY <1>2 DEF GiveUpConnecting, Ending
<1>3. CASE CriticalBreaks(t)
  BY <1>3 DEF CriticalBreaks, Ending, Leaving
<1>4. CASE Disconnecting(t)
  BY <1>4 DEF Disconnecting, BeginReconnect, PauseNext, Teardown,
              NothingToHangUp, Hangup, Forget, Disconnected, Ending, Leaving
<1>. QED BY <1>1, <1>2, <1>3, <1>4 DEF Connecting, Settling

\* The monitor moves itself only, and between its own places.
LEMMA HealthMoves ==
    ASSUME SupInv, HealthStep
    PROVE  /\ \A u \in Threads \ {Health} :
                  pc'[u] = pc[u] /\ pos'[u] = pos[u] /\ stale'[u] = stale[u]
           /\ pc[Health] # "off"
           /\ pc'[Health] \in {"off", "idle", "check", "restart"}
           /\ pc'[Health] = "restart" => pos'[Health] \in Comps
           /\ UNCHANGED <<shutdown, robot, bridge, madeFor>>
<1> USE ThreadFacts
    DEF SupInv, SupTypeOK, Goto, GotoLoop, Leave, flagVars, linkVars, listVars
<1>1. CASE HealthTick
  BY <1>1 DEF HealthTick
<1>2. CASE HealthStops
  BY <1>2 DEF HealthStops
<1>3. CASE HealthRestarts
  BY <1>3 DEF HealthRestarts
<1>4. CASE HealthDies
  BY <1>4 DEF HealthDies
<1>5. CASE HealthDone
  BY <1>5 DEF HealthDone
<1>. QED BY <1>1, <1>2, <1>3, <1>4, <1>5 DEF HealthStep

\* The steps of run() that it does not share.
LEMMA MainMoves ==
    ASSUME SupInv, SetConnecting \/ Subscribe \/ WakeUp \/ BeginShutdown
    PROVE  /\ \A u \in Threads \ {Main} :
                  pc'[u] = pc[u] /\ pos'[u] = pos[u] /\ stale'[u] = stale[u]
           /\ pc[Main] \in {"set", "subscribe"} \/ pc'[Main] \in Leaving
           /\ pc[Main] \in Leaving => pc'[Main] \in Leaving
           /\ UNCHANGED <<shutdown, listVars, linkVars>>
BY ThreadFacts
DEF SupInv, SupTypeOK, Goto, GotoLoop, flagVars, Leaving, SetConnecting,
    Subscribe, WakeUp, BeginShutdown

\* A loss is ignored, or sends a thread to reconnect.
LEMMA LossMoves ==
    ASSUME SupInv, NEW r \in Robots, LossIgnored(r) \/ LossNoticed(r)
    PROVE  /\ LossIgnored(r) \/ \E t \in Recons : pc'[t] = "set"
           /\ LossIgnored(r) => pc' = pc
           /\ pc'[Main] = pc[Main] /\ pc'[Health] = pc[Health]
           /\ UNCHANGED <<shutdown, listVars, robot, bridge, pos, stale>>
BY ThreadFacts
DEF SupInv, SupTypeOK, Goto, flagVars, threadVars, LossIgnored, LossNoticed

LEMMA EndingStays ==
    ASSUME SupInv, SupNext, Ending
    PROVE  Ending'
<1> USE ThreadFacts DEF Ending
<1>1. CASE MainStep
  <2>1. CASE Connecting(Main) \/ Disconnecting(Main)
    BY <2>1, MainLeaves, WorkerMoves DEF Workers
  <2>. QED BY <1>1, <2>1, MainMoves DEF MainStep
<1>2. ASSUME NEW t \in Recons, ReconStep(t)
      PROVE  Ending'
  BY <1>2, WorkerMoves DEF ReconStep, Workers
<1>3. CASE HealthStep
  BY <1>3, HealthMoves
<1>4. ASSUME NEW r \in Robots, LossIgnored(r) \/ LossNoticed(r)
      PROVE  Ending'
  BY <1>4, LossMoves
<1>5. CASE Signal
  BY <1>5 DEF Signal
<1>. QED BY <1>1, <1>2, <1>3, <1>4, <1>5 DEF SupNext

LEMMA HealthInvInductive ==
    ASSUME SupInv, SupNext
    PROVE  HealthInv'
<1> USE ThreadFacts DEF SupInv, HealthInv
<1>1. CASE MainStep
  <2>1. CASE Connecting(Main) \/ Disconnecting(Main)
    <3>1. /\ pc'[Health] = pc[Health] \/ (pc'[Health] = "idle" /\ pc'[Main] = "wait")
          /\ pos'[Health] = pos[Health]
      BY <2>1, WorkerMoves DEF Workers
    <3>2. pc[Main] \in Leaving => pc'[Main] \in Leaving
      BY <2>1, MainLeaves
    <3>3. pc[Main] # "wait"
      BY <2>1
      DEF Connecting, NewRobot, GiveUpConnecting, Dial, DialFails, Attach,
          AttachFails, Register, StartSkips, StartWorks, StartBreaks,
          CriticalBreaks, MayStart, Ready, Disconnecting, BeginReconnect,
          PauseNext, Teardown, NothingToHangUp, Hangup, Forget, Disconnected,
          Goto, GotoLoop, Leave
    <3>. QED BY <3>1, <3>2, <3>3
  <2>2. CASE SetConnecting \/ Subscribe \/ WakeUp \/ BeginShutdown
    BY <2>2, MainMoves DEF Leaving
  <2>. QED BY <1>1, <2>1, <2>2 DEF MainStep
<1>2. ASSUME NEW t \in Recons, ReconStep(t)
      PROVE  HealthInv'
  <2>1. pc'[Health] = pc[Health] /\ pos'[Health] = pos[Health]
        /\ pc'[Main] = pc[Main]
    BY <1>2, WorkerMoves DEF ReconStep, Workers
  <2>. QED BY <2>1
<1>3. CASE HealthStep
  <2>1. pc'[Main] = pc[Main]
    BY <1>3, HealthMoves
  <2>. QED BY <1>3, <2>1, HealthMoves
<1>4. ASSUME NEW r \in Robots, LossIgnored(r) \/ LossNoticed(r)
      PROVE  HealthInv'
  BY <1>4, LossMoves
<1>5. CASE Signal
  BY <1>5 DEF Signal, threadVars
<1>. QED BY <1>1, <1>2, <1>3, <1>4, <1>5 DEF SupNext

-----------------------------------------------------------------------------
(* What a step can be that neither ends nor leaves a thread redoing.        *)
LEMMA StepsThatMatter ==
    ASSUME SupInv, SupNext
    PROVE  \/ Ending' \/ Redoing'
           \/ \E t \in Workers : Settling(t)
           \/ Subscribe \/ HealthStep
           \/ \E r \in Robots : LossIgnored(r)
<1>1. ASSUME NEW t \in Workers, Connecting(t) \/ Disconnecting(t), ~Settling(t)
      PROVE  Ending' \/ Redoing'
  BY <1>1, WorkerRedoes DEF Redoing
<1>2. CASE MainStep
  <2>1. CASE SetConnecting
    BY <2>1, ThreadFacts, GotoFacts
    DEF SetConnecting, SupInv, Redoing, Redo, Workers
  <2>2. CASE WakeUp
    BY <2>2 DEF WakeUp, Ending, flagVars
  <2>3. CASE BeginShutdown
    BY <2>3, ThreadFacts, GotoFacts
    DEF BeginShutdown, GotoLoop, SupInv, Ending, Leaving
  <2>4. CASE Connecting(Main) \/ Disconnecting(Main)
    BY <2>4, <1>1 DEF Workers
  <2>. QED BY <1>2, <2>1, <2>2, <2>3, <2>4 DEF MainStep
<1>3. ASSUME NEW t \in Recons, ReconStep(t)
      PROVE  Ending' \/ Redoing' \/ Settling(t)
  BY <1>3, <1>1 DEF ReconStep, Workers
<1>4. ASSUME NEW r \in Robots, LossNoticed(r)
      PROVE  Redoing'
  BY <1>4, LossMoves DEF LossNoticed, SupInv, SupTypeOK, Goto, Redoing, Redo,
                         Workers, Threads
<1>5. CASE Signal
  BY <1>5 DEF Signal, Ending
<1>. QED BY <1>2, <1>3, <1>4, <1>5 DEF SupNext, Workers

-----------------------------------------------------------------------------
(* One robot.                                                               *)
LEMMA RobotInvInductive ==
    ASSUME SupInv, SupNext
    PROVE  RobotInv'
<1> SUFFICES ASSUME ~Ending', ~Redoing'
             PROVE  /\ robot' # NoRobot /\ bridge' = robot'
                    /\ \/ madeFor' = robot'
                       \/ \E t \in Workers : pc'[t] \in {"subscribe", "register"}
  BY DEF RobotInv
<1>1. ~Ending
  BY EndingStays
<1> DEFINE Told(t) == pc[t] \in {"subscribe", "register"}
<1>2. \/ Redoing
      \/ /\ robot # NoRobot /\ bridge = robot
         /\ madeFor = robot \/ \E t \in Workers : Told(t)
  BY <1>1 DEF SupInv, RobotInv
<1>3. ASSUME UNCHANGED <<robot, bridge, madeFor>>,
             \A t \in Workers : pc'[t] = pc[t]
      PROVE  /\ robot' # NoRobot /\ bridge' = robot'
             /\ \/ madeFor' = robot'
                \/ \E t \in Workers : pc'[t] \in {"subscribe", "register"}
  BY <1>2, <1>3 DEF Redoing
<1>4. ASSUME NEW t \in Workers, Settling(t)
      PROVE  /\ robot' # NoRobot /\ bridge' = robot'
             /\ \/ madeFor' = robot'
                \/ \E u \in Workers : pc'[u] \in {"subscribe", "register"}
  <2> USE ThreadFacts
      DEF SupInv, SupTypeOK, Goto, listVars, linkVars
  <2>1. CASE Attach(t)
    <3>1. pc'[t] \in {"subscribe", "register"} /\ robot' = robot
          /\ bridge' = robot /\ robot # NoRobot
      BY <2>1 DEF Attach
    <3>. QED BY <3>1
  <2>2. CASE StartSkips(t) \/ StartWorks(t) \/ StartBreaks(t)
    <3>1. pc' = pc /\ UNCHANGED <<robot, bridge, madeFor>>
      BY <2>2 DEF StartSkips, StartWorks, StartBreaks, Advance
    <3>. QED BY <3>1, <1>3
  <2>3. CASE Register(t) \/ Ready(t)
    <3>1. \A u \in Workers \ {t} : pc'[u] = pc[u]
      BY <2>3 DEF Register, Ready
    <3>2. pc[t] \in {"register", "start"}
      BY <2>3 DEF Register, Ready
    <3>3. ~Redoing
      BY <3>1, <3>2 DEF Redoing, Redo
    <3>4. CASE Register(t)
      BY <3>3, <3>4, <1>2 DEF Register
    <3>5. CASE Ready(t)
      <4>1. UNCHANGED <<robot, bridge, madeFor>> /\ ~Told(t)
        BY <3>5 DEF Ready
      <4>. QED BY <3>1, <3>3, <4>1, <1>2
    <3>. QED BY <2>3, <3>4, <3>5
  <2>. QED BY <1>4, <2>1, <2>2, <2>3 DEF Settling
<1>5. CASE Subscribe
  <2>1. \A u \in Workers \ {Main} : pc'[u] = pc[u]
    BY <1>5, MainMoves, ThreadFacts
  <2>2. pc[Main] = "subscribe" /\ pc'[Main] = "register"
    BY <1>5, ThreadFacts, GotoFacts DEF Subscribe, SupInv
  <2>3. ~Redoing
    BY <2>1, <2>2 DEF Redoing, Redo
  <2>4. UNCHANGED <<robot, bridge, madeFor>>
    BY <1>5, MainMoves DEF listVars, linkVars
  <2>. QED BY <2>1, <2>2, <2>3, <2>4, <1>2
<1>6. CASE HealthStep
  BY <1>6, <1>3, HealthMoves, ThreadFacts
<1>7. ASSUME NEW r \in Robots, LossIgnored(r)
      PROVE  /\ robot' # NoRobot /\ bridge' = robot'
             /\ \/ madeFor' = robot'
                \/ \E t \in Workers : pc'[t] \in {"subscribe", "register"}
  BY <1>7, <1>3, LossMoves DEF listVars
<1>. QED BY <1>4, <1>5, <1>6, <1>7, StepsThatMatter

-----------------------------------------------------------------------------
(* Every component.                                                         *)
LEMMA SettlingAccounts ==
    ASSUME SupInv, NEW t \in Workers, Settling(t), ~Ending, ~Redoing',
           NEW c \in Connected, Accounted(c)
    PROVE  Accounted(c)'
<1> USE ThreadFacts, SupervisorAssumption
    DEF SupInv, SupTypeOK, Goto
<1>1. CASE Attach(t)
  <2>1. pc'[t] \in {"subscribe", "register"}
    BY <1>1 DEF Attach
  <2>. QED BY <2>1 DEF Accounted, WillStart
<1>2. CASE Register(t)
  <2>1. pc'[t] = "start" /\ pos'[t] = 1
    BY <1>2 DEF Register
  <2>2. ~stale'[t]
    BY <1>2 DEF Register
  <2>3. 1 <= c
    BY DEF Comps
  <2>. QED BY <2>1, <2>2, <2>3 DEF Accounted, WillStart
<1>3. CASE StartSkips(t) \/ StartWorks(t) \/ StartBreaks(t)
  <2> DEFINE k == pos[t]
  <2>1. /\ pc' = pc /\ stale' = stale
        /\ k \in Comps /\ pos'[t] = k + 1
        /\ \A u \in Threads \ {t} : pos'[u] = pos[u]
    BY <1>3 DEF StartSkips, StartWorks, StartBreaks, MayStart, Advance
  <2>2. c \in started => c \in started'
    BY <1>3 DEF StartSkips, StartWorks, StartBreaks, Started, StartFailed,
                listVars
  <2>3. c \in gaveUp => c \in started' \/ c \in gaveUp'
    BY <1>3 DEF StartSkips, StartWorks, StartBreaks, Started, StartFailed,
                listVars
  <2>4. CASE c = k /\ ~stale[t]
    <3>1. CASE StartSkips(t)
      BY <2>4, <3>1, <2>2 DEF StartSkips, Skips, Accounted
    <3>2. CASE StartWorks(t)
      BY <2>4, <3>2 DEF StartWorks, Started, Accounted
    <3>3. CASE StartBreaks(t)
      BY <2>4, <3>3 DEF StartBreaks, StartFailed, Accounted
    <3>. QED BY <1>3, <3>1, <3>2, <3>3
  <2>5. CASE ~(c = k /\ ~stale[t])
    <3>1. ASSUME NEW u \in Threads, WillStart(u, c)
          PROVE  WillStart(u, c)'
      <4>1. CASE u # t
        BY <3>1, <4>1, <2>1 DEF WillStart
      <4>2. CASE u = t
        <5>1. c \in Int /\ k \in Int BY <2>1 DEF Comps
        <5>. QED BY <3>1, <4>2, <5>1, <2>1, <2>5 DEF WillStart
      <4>. QED BY <4>1, <4>2
    <3>. QED BY <3>1, <2>1, <2>2, <2>3 DEF Accounted
  <2>. QED BY <2>4, <2>5
<1>4. CASE Ready(t)
  <2>1. /\ UNCHANGED <<started, gaveUp>>
        /\ pc[t] = "start" /\ pos[t] > NumComps
        /\ \A u \in Threads \ {t} : pos'[u] = pos[u] /\ stale'[u] = stale[u]
        /\ \A u \in Workers \ {t} : pc'[u] = pc[u]
        /\ t # Main => pc'[Health] = pc[Health]
    BY <1>4 DEF Ready, listVars
  <2>2. t = Main => pc[Health] = "off"
    BY <2>1 DEF HealthInv, Leaving
  <2>3. ASSUME NEW u \in Threads, WillStart(u, c)
        PROVE  WillStart(u, c)'
    <3>1. u # t
      <4>1. c <= NumComps /\ c \in Int /\ pos[t] \in Int BY DEF Comps
      <4>. QED BY <2>3, <4>1, <2>1 DEF WillStart, Redo
    <3>. QED BY <2>3, <3>1, <2>1, <2>2 DEF WillStart, Threads, Workers
  <2>4. pc[Main] = "wait" => pc'[Main] = "wait" /\ pc'[Health] = pc[Health]
    BY <2>1 DEF Workers
  <2>. QED BY <2>1, <2>3, <2>4 DEF Accounted
<1>. QED BY <1>1, <1>2, <1>3, <1>4 DEF Settling

LEMMA HealthAccounts ==
    ASSUME SupInv, HealthStep, ~Ending, NEW c \in Connected, Accounted(c)
    PROVE  Accounted(c)'
<1> USE ThreadFacts, SupervisorAssumption
    DEF SupInv, SupTypeOK, Goto, GotoLoop, Leave
<1>1. /\ \A u \in Threads \ {Health} :
             pc'[u] = pc[u] /\ pos'[u] = pos[u] /\ stale'[u] = stale[u]
      /\ pc[Health] # "off" /\ pc[Main] = "wait" /\ pc'[Main] = "wait"
  BY HealthMoves DEF HealthInv, Ending
<1>2. ASSUME NEW u \in Workers, WillStart(u, c)
      PROVE  WillStart(u, c)'
  BY <1>2, <1>1 DEF WillStart
<1>3. \/ c \in started \/ (c \in gaveUp /\ c \notin Critical)
      \/ (\E u \in Workers : WillStart(u, c)) \/ WillStart(Health, c)
  <2>1. ASSUME NEW u \in Threads, WillStart(u, c)
        PROVE  (\E v \in Workers : WillStart(v, c)) \/ WillStart(Health, c)
    <3>1. u \in Workers \/ u = Health
      BY DEF Threads, Workers
    <3>. QED BY <2>1, <3>1
  <2>. QED BY <1>1, <2>1 DEF Accounted
<1>4. CASE HealthTick \/ HealthDone
  <2>1. UNCHANGED <<started, gaveUp>> /\ pc[Health] # "restart"
    BY <1>4 DEF HealthTick, HealthDone, listVars
  <2>2. ~WillStart(Health, c)
    BY <2>1 DEF WillStart
  <2>. QED BY <1>2, <1>3, <2>1, <2>2 DEF Accounted
<1>5. CASE HealthStops
  <2>1. pc[Health] = "check" /\ pc'[Health] = "restart" /\ stale' = stale
    BY <1>5 DEF HealthStops
  <2>2. gaveUp' = gaveUp
        /\ (started' = started \/ (~stale[Health] /\ started' = started \ {pos'[Health]}))
    BY <1>5 DEF HealthStops, Stopped
  <2>3. ~WillStart(Health, c)
    BY <2>1 DEF WillStart
  <2>4. c \in started => c \in started' \/ WillStart(Health, c)'
    BY <2>1, <2>2 DEF WillStart
  <2>. QED BY <1>2, <1>3, <2>2, <2>3, <2>4 DEF Accounted
<1>6. CASE HealthRestarts
  <2>1. c \in started => c \in started'
    BY <1>6 DEF HealthRestarts, Started, StartFailed
  <2>2. c \in gaveUp => c \in started' \/ c \in gaveUp'
    BY <1>6 DEF HealthRestarts, Started, StartFailed
  <2>3. WillStart(Health, c) => c \in started' \/ (c \in gaveUp' /\ c \notin Critical)
    BY <1>6 DEF HealthRestarts, Started, StartFailed, WillStart
  <2>. QED BY <1>2, <1>3, <2>1, <2>2, <2>3 DEF Accounted
<1>7. CASE HealthDies
  <2>1. pc'[Health] = "off"
    BY <1>7 DEF HealthDies
  <2>2. started' = started /\ gaveUp \subseteq gaveUp'
    BY <1>7 DEF HealthDies, StartFailed
  <2>3. WillStart(Health, c) => c \in gaveUp'
    BY <1>7 DEF HealthDies, StartFailed, WillStart
  <2>. QED BY <1>1, <1>2, <1>3, <2>1, <2>2, <2>3 DEF Accounted
<1>. QED BY <1>4, <1>5, <1>6, <1>7 DEF HealthStep

LEMMA CompInvInductive ==
    ASSUME SupInv, SupNext
    PROVE  CompInv'
<1> SUFFICES ASSUME ~Ending', NEW c \in Connected
             PROVE  Accounted(c)'
  BY DEF CompInv
<1>1. ~Ending /\ Accounted(c)
  BY EndingStays DEF SupInv, CompInv
<1>2. CASE Redoing'
  BY <1>2, ThreadFacts DEF Redoing, Accounted, WillStart
<1>3. ASSUME NEW t \in Workers, Settling(t), ~Redoing'
      PROVE  Accounted(c)'
  BY <1>1, <1>3, SettlingAccounts
<1>4. CASE Subscribe
  <2>1. pc'[Main] = "register"
    BY <1>4, ThreadFacts, GotoFacts DEF Subscribe, SupInv
  <2>. QED BY <2>1, ThreadFacts DEF Accounted, WillStart, Workers
<1>5. CASE HealthStep
  BY <1>1, <1>5, HealthAccounts
<1>6. ASSUME NEW r \in Robots, LossIgnored(r)
      PROVE  Accounted(c)'
  BY <1>1, <1>6, LossMoves DEF Accounted, WillStart, listVars
<1>. QED BY <1>2, <1>3, <1>4, <1>5, <1>6, StepsThatMatter

-----------------------------------------------------------------------------
LEMMA SupInvInductive == SupInv /\ [SupNext]_supVars => SupInv'
<1> SUFFICES ASSUME SupInv, [SupNext]_supVars
             PROVE  SupInv'
  OBVIOUS
<1>1. CASE UNCHANGED supVars
  BY <1>1
  DEF supVars, listVars, linkVars, flagVars, threadVars, SupInv, SupTypeOK,
      HealthInv, RobotInv, CompInv, Accounted, WillStart, Ending, Redoing
<1>2. CASE SupNext
  BY <1>2, TypesInductive, HealthInvInductive, RobotInvInductive,
     CompInvInductive DEF SupInv
<1>. QED BY <1>1, <1>2

LEMMA SupInvariance == SupSpec => []SupInv
<1>1. SupInit => SupInv
  <2> SUFFICES ASSUME SupInit PROVE SupInv
    OBVIOUS
  <2>1. {shutdown, listening} \subseteq BOOLEAN
    BY Zenon DEF SupInit
  <2>2. pos \in [Threads -> 0 .. NumComps + 1] /\ stale \in [Threads -> BOOLEAN]
    BY SupervisorAssumption DEF SupInit
  <2>3. SupTypeOK
    BY <2>1, <2>2 DEF SupInit, SupTypeOK
  <2>4. pc[Main] = "set" /\ pc[Health] = "off"
    BY ThreadFacts DEF SupInit
  <2>5. Redoing
    BY <2>4 DEF Redoing, Redo, Workers
  <2>6. \A c \in Connected : Accounted(c)
    BY <2>5, ThreadFacts DEF Redoing, Accounted, WillStart
  <2>. QED BY <2>3, <2>4, <2>5, <2>6
       DEF SupInv, HealthInv, RobotInv, CompInv
<1>. QED BY <1>1, SupInvInductive, PTL DEF SupSpec

(***************************************************************************)
(* The supervisor's fields, lists and threads keep their types.            *)
(***************************************************************************)
THEOREM SupTypeCorrect == SupSpec => []SupTypeOK
<1>1. SupInv => SupTypeOK BY DEF SupInv
<1>. QED BY <1>1, SupInvariance, PTL

(***************************************************************************)
(* At rest, the robot, the bridge's robot and the robot the components     *)
(* were made for are one, however many reconnects overlapped (_reconnect,  *)
(* _connect_to_vector, _disconnect_robot, _register_components).           *)
(***************************************************************************)
THEOREM SettlesOnOneRobotAlways == SupSpec => []SettlesOnOneRobot
<1>1. SupInv => SettlesOnOneRobot
  <2> SUFFICES ASSUME SupInv, AtRest
               PROVE  robot # NoRobot /\ madeFor = robot /\ bridge = robot
    BY DEF SettlesOnOneRobot
  <2>1. ~Ending
    BY DEF AtRest, Ending, Leaving
  <2>2. \A t \in Workers : pc[t] \in {"off", "ended", "wait"}
    BY DEF AtRest, Workers
  <2>. QED BY <2>1, <2>2 DEF SupInv, RobotInv, Redoing, Redo
<1>. QED BY <1>1, SupInvariance, PTL

(***************************************************************************)
(* At rest, no component that needs the connection has been lost between   *)
(* pauses, resumes and restarts (_pause_connected_components,              *)
(* _resume_connected_components, _check_component_health).                 *)
(***************************************************************************)
THEOREM ConnectedComponentsRunAlways == SupSpec => []ConnectedComponentsRun
<1>1. SupInv => ConnectedComponentsRun
  <2> SUFFICES ASSUME SupInv, AtRest
               PROVE  /\ Connected \subseteq started \cup gaveUp
                      /\ Critical \subseteq started \/ pc[Health] = "off"
    BY DEF ConnectedComponentsRun
  <2>1. ~Ending
    BY DEF AtRest, Ending, Leaving
  <2>2. \A t \in Workers : pc[t] \in {"off", "ended", "wait"}
    BY DEF AtRest, Workers
  <2>3. pc[Health] \in {"idle", "off"}
    BY DEF AtRest
  <2>4. \A c \in Connected, t \in Threads : ~WillStart(t, c)
    BY <2>2, <2>3 DEF WillStart, Redo
  <2>5. \A c \in Connected : c \in started
            \/ (c \in gaveUp /\ (c \notin Critical \/ pc[Health] = "off"))
    <3>1. \A c \in Connected : Accounted(c)
      BY <2>1 DEF SupInv, CompInv
    <3>. QED BY <3>1, <2>4 DEF Accounted
  <2>. QED BY <2>5, SupervisorAssumption
<1>. QED BY <1>1, SupInvariance, PTL
=============================================================================
