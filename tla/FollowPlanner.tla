---------------------------- MODULE FollowPlanner ----------------------------
(***************************************************************************)
(* apps/vector/src/planner/follow_planner.py: person following.  start and *)
(* stop come from HTTP or supervisor threads, tracked persons from the     *)
(* detection thread, emergency stops from the SDK's event thread, and the  *)
(* control loop runs in a thread of its own.  _running and _state are read *)
(* by the loop at its own pace; a callback, and a _transition with the     *)
(* assignments that lead up to it, are one step each.  Speeds, head angles *)
(* and the geometry of a search are abstracted to the motor commands they  *)
(* end in.                                                                 *)
(***************************************************************************)
EXTENDS Naturals, FiniteSets

CONSTANTS
    Loops,       \* slots for control-loop threads (bound)
    People,      \* track ids
    NoTrack,     \* no track: None
    LostTicks,   \* target_lost_frames
    SearchSteps  \* looks of a full search (bound): head angles, then the
                 \* velocity-biased turn, then turns of the body

ASSUME FollowAssumption ==
    /\ NoTrack \notin People
    /\ LostTicks \in Nat /\ LostTicks >= 2
    /\ SearchSteps \in Nat /\ SearchSteps >= 3

VARIABLES
    fRunning,  \* _running
    fState,    \* _state
    locked,    \* _locked_track_id
    latest,    \* _latest_track
    missed,    \* _frames_without_track
    listening, \* the bus callbacks are subscribed
    lpc,       \* lpc[l]: where control-loop thread l is
    track,     \* track[l]: the track it has consumed
    look,      \* look[l]: how far its search has got
    startPc,   \* where start() is
    stopPc,    \* where stop() is
    halting,   \* _on_emergency_stop has yet to make its transition
    moving     \* external: the wheels were last told to turn

loopVars == <<lpc, track, look>>
callVars == <<startPc, stopPc, halting, listening>>
followVars ==
    <<fRunning, fState, locked, latest, missed, loopVars, callVars, moving>>

Alive(l) == lpc[l] # "done"

FollowInit ==
    /\ fRunning = FALSE /\ fState = "IDLE"
    /\ locked = NoTrack /\ latest = NoTrack /\ missed = 0
    /\ listening = FALSE
    /\ lpc = [l \in Loops |-> "done"]
    /\ track = [l \in Loops |-> NoTrack]
    /\ look = [l \in Loops |-> 1]
    /\ startPc = "idle" /\ stopPc = "idle" /\ halting = FALSE
    /\ moving = FALSE

(***************************************************************************)
(* _transition: nothing if the state is the same; otherwise the miss count *)
(* restarts and a search forgets the lock.                                 *)
(***************************************************************************)
Transition(s, lock) ==
    /\ fState' = s
    /\ missed' = IF fState = s THEN missed ELSE 0
    /\ locked' = IF s = "SEARCHING" /\ fState # s THEN NoTrack ELSE lock

-----------------------------------------------------------------------------
(***************************************************************************)
(* start and stop.                                                         *)
(***************************************************************************)
StartBegin ==
    /\ startPc = "idle" /\ ~fRunning
    /\ fRunning' = TRUE
    /\ locked' = NoTrack
    /\ startPc' = "search"
    /\ UNCHANGED <<fState, latest, missed, loopVars, stopPc, halting,
                   listening, moving>>

StartSearch ==
    /\ startPc = "search"
    /\ listening' = TRUE
    /\ Transition("SEARCHING", locked)
    /\ startPc' = "spawn"
    /\ UNCHANGED <<fRunning, latest, loopVars, stopPc, halting, moving>>

StartSpawn(l) ==
    /\ startPc = "spawn" /\ ~Alive(l)
    /\ lpc' = [lpc EXCEPT ![l] = "top"]
    /\ startPc' = "idle"
    /\ UNCHANGED <<fRunning, fState, locked, latest, missed, track, look,
                   stopPc, halting, listening, moving>>

StopBegin ==
    /\ stopPc = "idle" /\ fRunning
    /\ fRunning' = FALSE
    /\ stopPc' = "off"
    /\ UNCHANGED <<fState, locked, latest, missed, loopVars, startPc, halting,
                   listening, moving>>

StopMotors ==
    /\ stopPc = "off"
    /\ listening' = FALSE
    /\ moving' = FALSE
    /\ stopPc' = "settle"
    /\ UNCHANGED <<fRunning, fState, locked, latest, missed, loopVars, startPc,
                   halting>>

StopIdle ==
    /\ stopPc = "settle"
    /\ Transition("IDLE", NoTrack)
    /\ stopPc' = "join"
    /\ UNCHANGED <<fRunning, latest, loopVars, startPc, halting, listening,
                   moving>>

\* The thread has ended, or three seconds are over.
StopJoined ==
    /\ stopPc = "join"
    /\ stopPc' = "idle"
    /\ UNCHANGED <<fRunning, fState, locked, latest, missed, loopVars, startPc,
                   halting, listening, moving>>

(***************************************************************************)
(* Bus callbacks.  On an emergency stop SensorHandler zeroes the wheels.   *)
(***************************************************************************)
TrackedPerson(p) ==
    /\ listening
    /\ \/ /\ locked \in {NoTrack, p}
          /\ UNCHANGED locked
       \/ /\ locked \notin {NoTrack, p} /\ missed >= 2
          /\ locked' = p
    /\ latest' = p
    /\ missed' = 0
    /\ UNCHANGED <<fRunning, fState, loopVars, callVars, moving>>

EmergencyStop ==
    /\ listening /\ ~halting
    /\ fRunning' = FALSE
    /\ moving' = FALSE
    /\ halting' = TRUE
    /\ UNCHANGED <<fState, locked, latest, missed, loopVars, startPc, stopPc,
                   listening>>

EmergencyIdle ==
    /\ halting
    /\ Transition("IDLE", locked)
    /\ halting' = FALSE
    /\ UNCHANGED <<fRunning, latest, loopVars, startPc, stopPc, listening,
                   moving>>

-----------------------------------------------------------------------------
(***************************************************************************)
(* _control_loop.                                                          *)
(***************************************************************************)
Move(l, from, to) ==
    /\ lpc[l] = from
    /\ lpc' = [lpc EXCEPT ![l] = to]

\* Mutant: the loop also ends when the search has returned to IDLE.
LoopEndsWhenIdle(l) ==
    /\ Move(l, "top", "done")
    /\ ~fRunning \/ fState = "IDLE"
    /\ UNCHANGED <<fRunning, fState, locked, latest, missed, track, look,
                   callVars, moving>>

LoopEnds(l) ==
    /\ Move(l, "top", "done")
    /\ ~fRunning
    /\ UNCHANGED <<fRunning, fState, locked, latest, missed, track, look,
                   callVars, moving>>

TickSearching(l) ==
    /\ Move(l, "top", "search")
    /\ fRunning /\ fState = "SEARCHING"
    /\ UNCHANGED <<fRunning, fState, locked, latest, missed, track, look,
                   callVars, moving>>

TickFollowing(l) ==
    /\ Move(l, "top", "follow")
    /\ fRunning /\ fState = "FOLLOWING"
    /\ UNCHANGED <<fRunning, fState, locked, latest, missed, track, look,
                   callVars, moving>>

\* _consume_track finds a track; the thread goes on at "to" with it.
Consume(l, from, to) ==
    /\ Move(l, from, to)
    /\ latest # NoTrack
    /\ latest' = NoTrack
    /\ track' = [track EXCEPT ![l] = latest]
    /\ UNCHANGED <<fRunning, fState, locked, missed, look, callVars, moving>>

\* The track seen first is locked and driven for; one seen later in the
\* search only starts the following.
SearchFindsAtOnce(l) == Consume(l, "search", "lockDrive")
SearchFinds(l) == Consume(l, "looked", "lock")

Lock(l) ==
    /\ \/ Move(l, "lockDrive", "drive")
       \/ Move(l, "lock", "top")
    /\ Transition("FOLLOWING", track[l])
    /\ look' = [look EXCEPT ![l] = 1]
    /\ track' = IF lpc[l] = "lock" THEN [track EXCEPT ![l] = NoTrack] ELSE track
    /\ UNCHANGED <<fRunning, latest, callVars, moving>>

\* The head angles and the body turns look at _running first, the turn
\* toward the last velocity does not; an exception ends body turns only.
BiasedLook == 2

NoTrackYet(l) ==
    /\ Move(l, "search", "look")
    /\ latest = NoTrack
    /\ UNCHANGED <<fRunning, fState, locked, latest, missed, track, look,
                   callVars, moving>>

Look(l) ==
    /\ Move(l, "look", "looked")
    /\ fRunning \/ look[l] = BiasedLook
    /\ UNCHANGED <<fRunning, fState, locked, latest, missed, track, look,
                   callVars, moving>>

LookEnds(l) ==
    /\ Move(l, "look", "top")
    /\ ~fRunning \/ look[l] > BiasedLook
    /\ look' = [look EXCEPT ![l] = 1]
    /\ UNCHANGED <<fRunning, fState, locked, latest, missed, track, callVars,
                   moving>>

\* Mutant: one look too many.
LookAgainOffByOne(l) ==
    /\ Move(l, "looked", "look")
    /\ latest = NoTrack /\ look[l] <= SearchSteps
    /\ look' = [look EXCEPT ![l] = @ + 1]
    /\ UNCHANGED <<fRunning, fState, locked, latest, missed, track, callVars,
                   moving>>

LookAgain(l) ==
    /\ Move(l, "looked", "look")
    /\ latest = NoTrack /\ look[l] < SearchSteps
    /\ look' = [look EXCEPT ![l] = @ + 1]
    /\ UNCHANGED <<fRunning, fState, locked, latest, missed, track, callVars,
                   moving>>

\* Mutant: the last line of the search forgets the transition.
SearchGivesUpSilently(l) ==
    /\ Move(l, "looked", "top")
    /\ latest = NoTrack /\ look[l] = SearchSteps
    /\ look' = [look EXCEPT ![l] = 1]
    /\ UNCHANGED <<fRunning, fState, locked, latest, missed, track, callVars,
                   moving>>

SearchGivesUp(l) ==
    /\ Move(l, "looked", "top")
    /\ latest = NoTrack /\ look[l] = SearchSteps
    /\ Transition("IDLE", locked)
    /\ look' = [look EXCEPT ![l] = 1]
    /\ UNCHANGED <<fRunning, latest, track, callVars, moving>>

FollowFinds(l) == Consume(l, "follow", "drive")

FollowMisses(l) ==
    /\ Move(l, "follow", IF missed + 1 >= LostTicks THEN "lost" ELSE "top")
    /\ latest = NoTrack
    /\ missed' = IF missed < LostTicks THEN missed + 1 ELSE missed
    /\ UNCHANGED <<fRunning, fState, locked, latest, track, look, callVars,
                   moving>>

FollowLost(l) ==
    /\ Move(l, "lost", "top")
    /\ moving' = FALSE
    /\ Transition("SEARCHING", locked)
    /\ UNCHANGED <<fRunning, latest, track, look, callVars>>

\* _apply_tracking: the command may be a stop, or be skipped or refused.
ApplyTracking(l) ==
    /\ Move(l, "drive", "top")
    /\ moving' \in {moving, FALSE, TRUE}
    /\ track' = [track EXCEPT ![l] = NoTrack]
    /\ UNCHANGED <<fRunning, fState, locked, latest, missed, look, callVars>>

ControlLoop(l) ==
    \/ LoopEnds(l) \/ TickSearching(l) \/ TickFollowing(l)
    \/ SearchFindsAtOnce(l) \/ SearchFinds(l) \/ Lock(l)
    \/ NoTrackYet(l) \/ Look(l) \/ LookEnds(l) \/ LookAgain(l)
    \/ SearchGivesUp(l)
    \/ FollowFinds(l) \/ FollowMisses(l) \/ FollowLost(l) \/ ApplyTracking(l)

Calls ==
    \/ StartBegin \/ StartSearch \/ (\E l \in Loops : StartSpawn(l))
    \/ StopBegin \/ StopMotors \/ StopIdle \/ StopJoined

FollowNext ==
    \/ \E l \in Loops : ControlLoop(l)
    \/ Calls
    \/ \E p \in People : TrackedPerson(p)
    \/ EmergencyStop \/ EmergencyIdle

FollowSpec == FollowInit /\ [][FollowNext]_followVars

(***************************************************************************)
(* Every thread keeps running; a start or stop that has begun goes on.     *)
(***************************************************************************)
FollowFairSpec ==
    /\ FollowSpec
    /\ \A l \in Loops : WF_followVars(ControlLoop(l))
    /\ WF_followVars(StartSearch \/ \E l \in Loops : StartSpawn(l))
    /\ WF_followVars(StopMotors \/ StopIdle \/ StopJoined)
    /\ WF_followVars(EmergencyIdle)

-----------------------------------------------------------------------------
(***************************************************************************)
(* Type invariant of the planner.                                          *)
(***************************************************************************)
FollowTypeOK ==
    /\ fRunning \in BOOLEAN /\ moving \in BOOLEAN
    /\ listening \in BOOLEAN /\ halting \in BOOLEAN
    /\ fState \in {"IDLE", "SEARCHING", "FOLLOWING"}
    /\ locked \in People \cup {NoTrack} /\ latest \in People \cup {NoTrack}
    /\ missed \in 0 .. LostTicks
    /\ lpc \in [Loops -> {"done", "top", "search", "lockDrive", "lock", "look",
                          "looked", "follow", "lost", "drive"}]
    /\ track \in [Loops -> People \cup {NoTrack}]
    /\ look \in [Loops -> 1 .. SearchSteps]
    /\ startPc \in {"idle", "search", "spawn"}
    /\ stopPc \in {"idle", "off", "settle", "join"}

(***************************************************************************)
(* A planner that says it runs has a thread, whatever stops, restarts and  *)
(* emergency stops overlap: _running left set without one would refuse     *)
(* every later start (start, _control_loop).                               *)
(***************************************************************************)
RunningHasThread ==
    fRunning /\ startPc = "idle" => \E l \in Loops : Alive(l)

(***************************************************************************)
(* A target that is gone for good is given up: a planner that goes on      *)
(* running and sees nobody any more, and whose turns no longer fail, ends  *)
(* its following, searches, and ends in IDLE (_tick_following's lost       *)
(* frames, _tick_searching's last line).                                   *)
(***************************************************************************)
LostTargetIsAbandoned ==
    (/\ <>[](fRunning /\ latest = NoTrack /\ startPc = "idle" /\ stopPc = "idle")
     /\ <>[][\A l \in Loops : lpc[l] = "look" => lpc'[l] # "top"]_followVars)
      => <>[](fState = "IDLE")
=============================================================================
