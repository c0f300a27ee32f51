--------------------------- MODULE RobotCommands ---------------------------
(***************************************************************************)
(* The commands that a Signal message can give the robot                   *)
(* (openclaw/robot-commands.js): the table that finds the command in a     *)
(* message, and how its steps reach the robot over HTTP, over MQTT, or     *)
(* over MQTT and then HTTP.  Messages are handled side by side.            *)
(*                                                                         *)
(* A message is a sequence of words; a pattern is a sequence of sets of    *)
(* words, {} for any word; a step is an endpoint, with what is asked of it *)
(* where two commands share one.  The bridge and the broker are external.  *)
(***************************************************************************)
EXTENDS Naturals, Sequences

CONSTANT MaxRuns   \* bound on what the robot is seen to carry out of a message
                   \* while a publication of it may still come again

ASSUME RunsAssumption == MaxRuns \in Nat

VARIABLES
    mode,     \* ROBOT_COMMAND_TRANSPORT: "http", "mqtt" or "auto"
    jobs,     \* jobs[j]: the message, its steps, and how far it is
    wires,    \* <<j, k, via>>: step k of job j on its way to the robot
    ran       \* ran[j]: <<step, transport>> that the robot carried out, in order

commandVars == <<mode, jobs, wires, ran>>

-----------------------------------------------------------------------------
(* parseCommand().                                                          *)
Any == {}
Entry(patterns, steps) == [patterns |-> patterns, steps |-> steps]

Lights == {"led", "light", "lights"}
Effects == {"blink", "fade", "breathe", "running", "steady"}
Colors == {"red", "green", "blue", "yellow", "orange", "purple", "white",
           "cyan", "pink", "off"}
Pictures == {"photo", "picture", "pic", "snapshot", "selfie"}
Shots == {"photo", "picture", "pic", "image", "frame"}
Views == {"scene", "surroundings", "environment", "room", "view"}
FollowWords == {"follow", "following"}
NavigateWords == {"navigate", "navigating", "navigation"}
PatrolWords == {"patrol", "patrolling"}
Number == {"0", "128", "255"}
Names == {"Ophir"}   \* capitalized words

\* The first entry with a pattern in the message wins.
COMMAND_MAP == <<
    Entry({<<{"call"}, {"me"}>>, <<{"video", "start"}, {"call"}>>}, <<"/call/start">>),
    Entry({<<{"hang"}, {"up"}>>, <<{"end", "stop"}, {"call"}>>}, <<"/call/stop">>),
    Entry({<<{"say"}, Any>>}, <<"/say">>),
    Entry({<<Lights, {"charging"}>>}, <<"/led charging", "/led/effect running">>),
    Entry({<<Lights, Effects>>, <<Lights, {"effect"}, Effects>>}, <<"/led/effect">>),
    Entry({<<Lights \cup {"color"}, Number, Number, Number>>,
           <<Lights \cup {"color"}, {"rgb"}, Number, Number, Number>>,
           <<Lights \cup {"color"}, Colors>>,
           <<Lights \cup {"color"}, {"to"}, Colors>>}, <<"/led">>),
    Entry({<<{"turn"}, {"off"}, Lights>>}, <<"/led off">>),
    Entry({<<{"what"}, {"do", "can"}, {"you"}, {"see"}>>,
           <<{"describe"}, Views>>, <<{"describe"}, {"the"}, Views>>,
           <<{"what's"}, {"around", "ahead"}>>, <<{"what's"}, {"in"}, {"front"}>>,
           <<{"what"}, {"is"}, {"around", "ahead"}>>,
           <<{"what"}, {"is"}, {"in"}, {"front"}>>, <<{"scene"}, {"description"}>>},
          <<"/scene">>),
    Entry({<<{"take"}, Pictures>>, <<{"take"}, {"a"}, Pictures>>,
           <<{"capture", "snap"}, Shots>>, <<{"capture", "snap"}, {"a", "an"}, Shots>>,
           <<{"photo", "snapshot"}>>}, <<"/capture">>),
    Entry({<<{"remember"}, {"face", "me", "this"}, {"as"}, Any>>,
           <<{"remember"}, {"this"}, {"face"}, {"as"}, Any>>,
           <<{"enroll"}, Any>>}, <<"/enroll">>),
    Entry({<<{"follow"}, Names>>}, <<"/follow/start name">>),
    Entry({<<{"stop"}, FollowWords>>}, <<"/follow/stop">>),
    Entry({<<{"follow"}, {"status"}>>}, <<"/follow/status">>),
    Entry({<<{"start"}, FollowWords>>, <<{"follow"}>>}, <<"/follow/start">>),
    Entry({<<{"stop", "cancel"}, NavigateWords>>}, <<"/cancel">>),
    Entry({<<{"stop", "end", "cancel"}, PatrolWords>>}, <<"/patrol/stop">>),
    Entry({<<{"pause"}, PatrolWords>>}, <<"/patrol/pause">>),
    Entry({<<{"resume", "continue"}, PatrolWords>>}, <<"/patrol/resume">>),
    Entry({<<{"patrol"}, {"status"}>>}, <<"/patrol/status">>),
    Entry({<<{"start", "begin"}, PatrolWords>>, <<{"patrol"}>>}, <<"/patrol/start">>),
    Entry({<<{"stop"}>>}, <<"/stop">>),
    Entry({<<{"go", "navigate", "drive"}, {"to"}, Any>>}, <<"/navigate">>),
    Entry({<<{"go"}, {"straight"}>>, <<{"forward"}>>}, <<"/move forward">>),
    Entry({<<{"go"}, {"back"}>>, <<{"backward"}>>}, <<"/move backward">>),
    Entry({<<{"slide", "strafe"}, {"left"}>>}, <<"/move left">>),
    Entry({<<{"slide", "strafe"}, {"right"}>>}, <<"/move right">>),
    Entry({<<{"turn"}, {"left"}>>}, <<"/move turn left">>),
    Entry({<<{"turn"}, {"right"}>>}, <<"/move turn right">>),
    Entry({<<{"battery", "batteries", "voltage"}>>,
           <<{"power"}, {"level", "status"}>>}, <<"/health battery">>),
    Entry({<<{"spin", "dance"}>>}, <<"/move spin">>),
    Entry({<<{"look"}, {"left"}>>}, <<"/servo left">>),
    Entry({<<{"look"}, {"right"}>>}, <<"/servo right">>),
    Entry({<<{"look"}, {"up"}>>}, <<"/servo up">>),
    Entry({<<{"look"}, {"down"}>>}, <<"/servo down">>),
    Entry({<<{"look"}, {"center", "straight", "ahead", "forward"}>>,
           <<{"center"}, {"camera"}>>}, <<"/servo yaw", "/servo pitch">>),
    Entry({<<{"beep", "honk"}>>}, <<"/beep">>),
    Entry({<<{"camera"}>>, <<{"video"}, {"feed"}>>,
           <<{"live"}, {"stream", "feed", "video"}>>,
           <<{"show"}, {"me"}, {"what"}, {"you"}, {"see"}>>,
           <<{"show"}, {"what"}, {"you"}, {"see"}>>,
           <<{"show"}, {"your"}, {"view"}>>, <<{"show"}, {"me"}, {"your"}, {"view"}>>}, <<"/camera">>),
    Entry({<<{"status"}>>, <<{"how"}, {"are"}, {"you"}>>, <<{"diagnostics"}>>},
          <<"/status">>),
    Entry({<<{"health", "sensor", "sensors"}>>}, <<"/health">>)
>>

Found(pattern, text) ==
    \E i \in 0..(Len(text) - Len(pattern)) :
        \A k \in DOMAIN pattern : pattern[k] = Any \/ text[i + k] \in pattern[k]

Matching(text) ==
    {e \in DOMAIN COMMAND_MAP :
        \E pattern \in COMMAND_MAP[e].patterns : Found(pattern, text)}

\* Mutant: the last entry that matches wins.
parseCommandLast(text) ==
    IF Matching(text) = {} THEN <<>>
    ELSE COMMAND_MAP[CHOOSE e \in Matching(text) :
                        \A f \in Matching(text) : f <= e].steps

parseCommand(text) ==
    IF Matching(text) = {} THEN <<>>
    ELSE COMMAND_MAP[CHOOSE e \in Matching(text) :
                        \A f \in Matching(text) : e <= f].steps

Photo == <<"/capture">>

-----------------------------------------------------------------------------
(* executeCommand(): one step at a time, each over HTTP or MQTT.            *)
FirstVia == IF mode = "http" THEN "http" ELSE "mqtt"
Running(j) == jobs[j].state = "running"

\* handleMessage() of a command that is not a photo.
HandleMessage(text) ==
    LET steps == parseCommand(text)
        j == Len(jobs) + 1
    IN  /\ steps # <<>> /\ steps # Photo
        /\ jobs' = Append(jobs, [text |-> text, steps |-> steps, step |-> 1,
                                 via |-> FirstVia, state |-> "running"])
        /\ wires' = wires \cup {<<j, 1, FirstVia>>}
        /\ ran' = Append(ran, <<>>)
        /\ UNCHANGED mode

\* The robot carries out a step (external), be it after executeCommand() has
\* given it up.  A publication may reach it again: MQTT_QOS is 1 unless it is
\* set, at least once.
RobotRuns(w) ==
    /\ w \in wires
    /\ \/ wires' = wires \ {w}
       \/ w[3] = "mqtt" /\ Len(ran[w[1]]) < MaxRuns /\ UNCHANGED wires
    /\ ran' = [ran EXCEPT ![w[1]] = Append(@, <<w[2], w[3]>>)]
    /\ UNCHANGED <<mode, jobs>>

\* executeSequence() after step k has succeeded: the next step, or the end.
StepDone(j) ==
    LET k == jobs[j].step
    IN  IF k = Len(jobs[j].steps)
        THEN jobs' = [jobs EXCEPT ![j].state = "done"] /\ UNCHANGED wires
        ELSE /\ jobs' = [jobs EXCEPT ![j].step = k + 1, ![j].via = FirstVia]
             /\ wires' = wires \cup {<<j, k + 1, FirstVia>>}

\* Mutant: what failed over HTTP is tried over HTTP again.
StepFailedAgain(j) ==
    IF mode = "auto"
    THEN /\ jobs' = [jobs EXCEPT ![j].via = "http"]
         /\ wires' = wires \cup {<<j, jobs[j].step, "http">>}
    ELSE jobs' = [jobs EXCEPT ![j].state = "failed"] /\ UNCHANGED wires

\* After a step has failed over MQTT in auto mode it is tried over HTTP;
\* otherwise the sequence ends.
StepFailed(j) ==
    IF mode = "auto" /\ jobs[j].via = "mqtt"
    THEN /\ jobs' = [jobs EXCEPT ![j].via = "http"]
         /\ wires' = wires \cup {<<j, jobs[j].step, "http">>}
    ELSE jobs' = [jobs EXCEPT ![j].state = "failed"] /\ UNCHANGED wires

\* The bridge answers, which it does after it has carried the step out: with
\* success, or with an HTTP status or a status field that says failure.
HttpAnswers(j) ==
    /\ Running(j) /\ jobs[j].via = "http"
    /\ <<j, jobs[j].step, "http">> \notin wires
    /\ StepDone(j) \/ StepFailed(j)
    /\ UNCHANGED <<mode, ran>>

\* Ten seconds are over, or the connection broke.  The bridge may have the
\* request all the same.
HttpGivesUp(j) ==
    /\ Running(j) /\ jobs[j].via = "http"
    /\ StepFailed(j)
    /\ UNCHANGED <<mode, ran>>

\* mosquitto_pub ends: published is success.
MqttPublished(j) ==
    /\ Running(j) /\ jobs[j].via = "mqtt"
    /\ StepDone(j)
    /\ UNCHANGED <<mode, ran>>

\* It fails or is stopped after MQTT_TIMEOUT_MS: the broker may have the
\* message all the same.
MqttFails(j) ==
    /\ Running(j) /\ jobs[j].via = "mqtt"
    /\ StepFailed(j)
    /\ UNCHANGED <<mode, ran>>

\* What is on its way is lost.
WireLost(w) ==
    /\ w \in wires /\ wires' = wires \ {w}
    /\ ~(Running(w[1]) /\ jobs[w[1]].via = "http" /\ jobs[w[1]].step = w[2])
    /\ UNCHANGED <<mode, jobs, ran>>

CommandInit(m) == mode = m /\ jobs = <<>> /\ wires = {} /\ ran = <<>>

CommandNext ==
    \/ \E w \in wires : RobotRuns(w) \/ WireLost(w)
    \/ \E j \in DOMAIN jobs :
          HttpAnswers(j) \/ HttpGivesUp(j) \/ MqttPublished(j) \/ MqttFails(j)

-----------------------------------------------------------------------------
\* What the robot carries out for a message.  Nothing after a step that failed
\* or before the one at hand has succeeded; over HTTP, in auto mode too, each
\* step at most once and none out of order; and where all goes over HTTP no
\* step is left out, and success is reported for all of them.  Over MQTT a step
\* may be carried out any number of times, late, or never, and the step that
\* auto mode takes to HTTP may have been carried out already.
CarriesOutWhatWasAsked(j) ==
    LET did == ran[j]
        OverHttp == {i \in DOMAIN did : did[i][2] = "http"}
    IN  /\ \A i \in DOMAIN did : did[i][1] <= jobs[j].step
        /\ \A a, b \in OverHttp : a < b => did[a][1] < did[b][1]
        /\ mode = "http" =>
              /\ \A i \in DOMAIN did : did[i][1] = i
              /\ jobs[j].state = "done" => Len(did) = Len(jobs[j].steps)
=============================================================================
