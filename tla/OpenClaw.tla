------------------------------ MODULE OpenClaw ------------------------------
(***************************************************************************)
(* The Signal side of the robot: messages that come in (RobotCommands), of *)
(* which a photo goes out again, and texts that the robot has relayed      *)
(* (SignalSend).                                                           *)
(***************************************************************************)
EXTENDS RobotCommands, SignalSend

CONSTANT Scenes   \* the transport, what may be said, and how often

VARIABLES
    scene,    \* the scene that is played
    turns     \* messages handled and texts relayed so far

vars == <<commandVars, signalVars, scene, turns>>

Turn == turns < scene.turns /\ turns' = turns + 1 /\ UNCHANGED scene

ClawInit ==
    /\ scene \in Scenes /\ turns = 0
    /\ CommandInit(scene.mode) /\ SignalInit

\* handleMessage().
Says(text) ==
    /\ Turn
    /\ IF parseCommand(text) = Photo
       THEN Capture /\ UNCHANGED commandVars
       ELSE HandleMessage(text) /\ UNCHANGED signalVars

Relays ==
    /\ scene.relays /\ Turn
    /\ Relay /\ UNCHANGED commandVars

ClawNext ==
    \/ \E text \in scene.texts : Says(text)
    \/ Relays
    \/ CommandNext /\ UNCHANGED <<signalVars, scene, turns>>
    \/ SignalNext /\ UNCHANGED <<commandVars, scene, turns>>

ClawSpec == ClawInit /\ [][ClawNext]_vars

-----------------------------------------------------------------------------
\* Each phrase of the table, said alone, reaches the entry that lists it: none
\* is hidden by an earlier entry, but for "look forward", which drives the
\* robot (COMMAND_MAP, parseCommand).
ListedIn(text) ==
    {e \in DOMAIN COMMAND_MAP :
        \E p \in COMMAND_MAP[e].patterns :
            /\ Len(p) = Len(text)
            /\ \A k \in DOMAIN p : p[k] = Any \/ text[k] \in p[k]}

DoesWhatWasSaid ==
    \A j \in DOMAIN jobs :
        \/ \E e \in ListedIn(jobs[j].text) : COMMAND_MAP[e].steps = jobs[j].steps
        \/ jobs[j].text = <<"look", "forward">>

\* Whatever fails, is late, is lost or comes again, the robot carries out of
\* each message no step too early, and what goes over HTTP once and in order
\* (executeSequence, executeCommand; CarriesOutWhatWasAsked).
DoesNoMoreThanAsked == \A j \in DOMAIN jobs : CarriesOutWhatWasAsked(j)

\* What the group is sent is what was to be sent (SendsItsOwn).
SendsWhatWasMeant == \A s \in Sends : SendsItsOwn(s)
=============================================================================
