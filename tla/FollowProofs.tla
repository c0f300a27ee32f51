---------------------------- MODULE FollowProofs ----------------------------
(***************************************************************************)
(* Proofs about the follow planner, for any people, any number of control- *)
(* loop threads, any patience and any length of a search.                  *)
(***************************************************************************)
EXTENDS FollowPlanner, TLAPS

(***************************************************************************)
(* The inductive invariant.  Only LoopEnds ends a thread, and it has read  *)
(* _running clear; only start() sets _running, and until its thread has    *)
(* been spawned startPc says so.                                           *)
(***************************************************************************)
FollowInv == FollowTypeOK /\ RunningHasThread

\* What a move of thread l leaves of the program counters.
LEMMA MoveKeepsThreads ==
    ASSUME FollowTypeOK, NEW l \in Loops, NEW from, NEW to,
           Move(l, from, to), to # "done"
    PROVE  /\ lpc'[l] = to
           /\ \A m \in Loops : Alive(m) => Alive(m)'
  BY DEF FollowTypeOK, Move, Alive

\* A transition keeps the types of the variables it assigns.
LEMMA TransitionType ==
    ASSUME FollowTypeOK, NEW s \in {"IDLE", "SEARCHING", "FOLLOWING"},
           NEW lock \in People \cup {NoTrack}, Transition(s, lock)
    PROVE  /\ fState' \in {"IDLE", "SEARCHING", "FOLLOWING"}
           /\ missed' \in 0 .. LostTicks
           /\ locked' \in People \cup {NoTrack}
  BY FollowAssumption DEF FollowTypeOK, Transition

LEMMA CallsPreserveInv ==
    ASSUME FollowInv, Calls
    PROVE  FollowInv'
<1> USE DEF FollowInv, FollowTypeOK, RunningHasThread, Alive, loopVars
<1>1. CASE StartBegin
  BY <1>1 DEF StartBegin
<1>2. CASE StartSearch
  <2>1. Transition("SEARCHING", locked)
    BY <1>2 DEF StartSearch
  <2>. QED BY <1>2, <2>1, TransitionType DEF StartSearch
<1>3. ASSUME NEW l \in Loops, StartSpawn(l)
      PROVE  FollowInv'
  <2>1. lpc'[l] = "top" BY <1>3 DEF StartSpawn
  <2>. QED BY <1>3, <2>1 DEF StartSpawn
<1>4. CASE StopBegin
  BY <1>4 DEF StopBegin
<1>5. CASE StopMotors
  BY <1>5 DEF StopMotors
<1>6. CASE StopIdle
  <2>1. Transition("IDLE", NoTrack)
    BY <1>6 DEF StopIdle
  <2>. QED BY <1>6, <2>1, TransitionType DEF StopIdle
<1>7. CASE StopJoined
  BY <1>7 DEF StopJoined
<1>. QED BY <1>1, <1>2, <1>3, <1>4, <1>5, <1>6, <1>7 DEF Calls

LEMMA CallbacksPreserveInv ==
    ASSUME FollowInv,
           (\E p \in People : TrackedPerson(p)) \/ EmergencyStop \/ EmergencyIdle
    PROVE  FollowInv'
<1> USE DEF FollowInv, FollowTypeOK, RunningHasThread, Alive, loopVars, callVars
<1>1. ASSUME NEW p \in People, TrackedPerson(p)
      PROVE  FollowInv'
  BY <1>1, FollowAssumption DEF TrackedPerson
<1>2. CASE EmergencyStop
  BY <1>2 DEF EmergencyStop
<1>3. CASE EmergencyIdle
  <2>1. Transition("IDLE", locked)
    BY <1>3 DEF EmergencyIdle
  <2>. QED BY <1>3, <2>1, TransitionType DEF EmergencyIdle
<1>. QED BY <1>1, <1>2, <1>3

\* The type part of a step of a control loop.
LEMMA LoopKeepsTypes ==
    ASSUME FollowTypeOK, NEW l \in Loops, ControlLoop(l)
    PROVE  FollowTypeOK'
<1> USE DEF FollowTypeOK, Move, callVars
<1>1. CASE LoopEnds(l) \/ TickSearching(l) \/ TickFollowing(l)
  BY <1>1 DEF LoopEnds, TickSearching, TickFollowing
<1>2. CASE SearchFindsAtOnce(l) \/ SearchFinds(l) \/ FollowFinds(l)
  BY <1>2 DEF SearchFindsAtOnce, SearchFinds, FollowFinds, Consume
<1>3. CASE Lock(l)
  <2>1. Transition("FOLLOWING", track[l]) /\ track[l] \in People \cup {NoTrack}
    BY <1>3 DEF Lock
  <2>2. lpc' \in [Loops -> {"done", "top", "search", "lockDrive", "lock",
                            "look", "looked", "follow", "lost", "drive"}]
    BY <1>3 DEF Lock
  <2>3. track' \in [Loops -> People \cup {NoTrack}]
    BY <1>3 DEF Lock
  <2>4. look' \in [Loops -> 1 .. SearchSteps]
    BY <1>3, FollowAssumption DEF Lock
  <2>. QED BY <1>3, <2>1, <2>2, <2>3, <2>4, TransitionType DEF Lock
<1>4. CASE NoTrackYet(l) \/ Look(l)
  BY <1>4 DEF NoTrackYet, Look
<1>5. CASE LookEnds(l) \/ LookAgain(l)
  BY <1>5, FollowAssumption DEF LookEnds, LookAgain
<1>6. CASE SearchGivesUp(l)
  <2>1. Transition("IDLE", locked)
    BY <1>6 DEF SearchGivesUp
  <2>2. look' \in [Loops -> 1 .. SearchSteps]
    BY <1>6, FollowAssumption DEF SearchGivesUp
  <2>. QED BY <1>6, <2>1, <2>2, TransitionType DEF SearchGivesUp
<1>7. CASE FollowMisses(l)
  BY <1>7, FollowAssumption DEF FollowMisses
<1>8. CASE FollowLost(l)
  <2>1. Transition("SEARCHING", locked)
    BY <1>8 DEF FollowLost
  <2>. QED BY <1>8, <2>1, TransitionType DEF FollowLost
<1>9. CASE ApplyTracking(l)
  <2>1. moving' \in BOOLEAN
    <3>1. moving \in BOOLEAN /\ moving' \in {moving, FALSE, TRUE}
      BY <1>9 DEF ApplyTracking
    <3>. QED BY ONLY <3>1, Zenon
  <2>. QED BY <1>9, <2>1 DEF ApplyTracking
<1>. QED
  BY <1>1, <1>2, <1>3, <1>4, <1>5, <1>6, <1>7, <1>8, <1>9 DEF ControlLoop

\* A control loop never sets _running nor moves start(), and is the only one
\* that ends it, having read _running clear.
LEMMA LoopEndsOnlyWhenStopped ==
    ASSUME FollowTypeOK, NEW l \in Loops, ControlLoop(l)
    PROVE  /\ UNCHANGED <<fRunning, startPc>>
           /\ fRunning => \A m \in Loops : Alive(m) => Alive(m)'
<1>1. CASE LoopEnds(l)
  BY <1>1 DEF LoopEnds, callVars
<1>2. CASE ~LoopEnds(l)
  <2>1. UNCHANGED <<fRunning, startPc>>
    BY <1>2
    DEF ControlLoop, TickSearching, TickFollowing, SearchFindsAtOnce,
        SearchFinds, FollowFinds, Consume, Lock, NoTrackYet, Look, LookEnds,
        LookAgain, SearchGivesUp, FollowMisses, FollowLost, ApplyTracking,
        callVars
  <2>2. \E from, to : to # "done" /\ Move(l, from, to)
    BY <1>2
    DEF ControlLoop, TickSearching, TickFollowing, SearchFindsAtOnce,
        SearchFinds, FollowFinds, Consume, Lock, NoTrackYet, Look, LookEnds,
        LookAgain, SearchGivesUp, FollowMisses, FollowLost, ApplyTracking
  <2>. QED BY <2>1, <2>2, MoveKeepsThreads
<1>. QED BY <1>1, <1>2

LEMMA FollowInvInductive ==
    FollowInv /\ [FollowNext]_followVars => FollowInv'
<1> SUFFICES ASSUME FollowInv, [FollowNext]_followVars
             PROVE  FollowInv'
  OBVIOUS
<1>1. CASE UNCHANGED followVars
  BY <1>1
  DEF followVars, loopVars, callVars, FollowInv, FollowTypeOK,
      RunningHasThread, Alive
<1>2. ASSUME NEW l \in Loops, ControlLoop(l)
      PROVE  FollowInv'
  <2>1. FollowTypeOK'
    BY <1>2, LoopKeepsTypes DEF FollowInv
  <2>2. RunningHasThread'
    BY <1>2, LoopEndsOnlyWhenStopped DEF FollowInv, RunningHasThread
  <2>. QED BY <2>1, <2>2 DEF FollowInv
<1>3. CASE Calls
  BY <1>3, CallsPreserveInv
<1>4. CASE (\E p \in People : TrackedPerson(p)) \/ EmergencyStop \/ EmergencyIdle
  BY <1>4, CallbacksPreserveInv
<1>. QED BY <1>1, <1>2, <1>3, <1>4 DEF FollowNext

LEMMA FollowInvariance == FollowSpec => []FollowInv
<1>1. FollowInit => FollowInv
  <2>1. FollowInit => FollowTypeOK
    <3>1. 0 \in 0 .. LostTicks /\ 1 \in 1 .. SearchSteps
      BY FollowAssumption
    <3>2. FollowInit => fRunning \in BOOLEAN /\ moving \in BOOLEAN
                          /\ listening \in BOOLEAN /\ halting \in BOOLEAN
      BY Zenon DEF FollowInit
    <3>3. FollowInit => lpc \in [Loops -> {"done"}]
                          /\ track \in [Loops -> People \cup {NoTrack}]
                          /\ look \in [Loops -> 1 .. SearchSteps]
      BY <3>1 DEF FollowInit
    <3>. QED BY <3>1, <3>2, <3>3 DEF FollowInit, FollowTypeOK
  <2>2. FollowInit => RunningHasThread
    BY DEF FollowInit, RunningHasThread
  <2>. QED BY <2>1, <2>2 DEF FollowInv
<1>. QED BY <1>1, FollowInvInductive, PTL DEF FollowSpec

(***************************************************************************)
(* The planner's fields and its threads keep their types: the miss count   *)
(* stays within the patience, a search within its looks.                   *)
(***************************************************************************)
THEOREM FollowTypeCorrect == FollowSpec => []FollowTypeOK
<1>1. FollowInv => FollowTypeOK BY DEF FollowInv
<1>. QED BY <1>1, FollowInvariance, PTL

(***************************************************************************)
(* A planner that says it runs has a thread, however many of its threads   *)
(* overlap (start, stop, _on_emergency_stop, _control_loop).               *)
(***************************************************************************)
THEOREM RunningHasThreadAlways == FollowSpec => []RunningHasThread
<1>1. FollowInv => RunningHasThread BY DEF FollowInv
<1>. QED BY <1>1, FollowInvariance, PTL
=============================================================================
