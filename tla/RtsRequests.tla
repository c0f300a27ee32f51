---------------------------- MODULE RtsRequests ----------------------------
(***************************************************************************)
(* The requests that the page makes of a robot it is paired with, from the *)
(* terminal (handleCli) and from its forms, and the answers (receive).     *)
(* Each key has one slot, promiseKeys[key], for the resolver of the last   *)
(* request of that key; waitForResponse is the key of the terminal's.      *)
(*                                                                         *)
(* The robot (external) answers each request once, in any order, refuses   *)
(* it with RtsResponse, or, for a log, may fail.  A scene fixes the version*)
(* and what may be typed, pasted and asked from the forms.                 *)
(***************************************************************************)
EXTENDS RtsHandlers, Terminal

CONSTANTS
    Scenes,       \* what the user and the robot may do
    Packets       \* packets of a log

ASSUME PacketsAssumption == Packets \in Nat \ {0}
ASSUME ScenesAssumption ==
    \A s \in Scenes : /\ s.version \in Versions
                      /\ \A text \in s.pastes : text \in Seq(Range(text))

VARIABLES
    scene,            \* the scene that is played
    strokes,          \* keys and pastes so far
    up,               \* rtsHandler is not null
    waitForResponse,  \* key of the last command that waits, or ""
    promiseKeys,      \* by key, the request whose resolver is kept, or 0
    requests,         \* all requests: key, who asked, what became of it, and
                      \* how many messages the robot still owes it
    logId, logFile,   \* the log that is received and its packets so far
    saved,            \* the last log given to the user
    hasProgressBar

reqVars == <<waitForResponse, promiseKeys, requests, logId, logFile, saved,
             hasProgressBar>>
vars == <<scene, strokes, up, reqVars, termVars>>

v == scene.version
Keys == DOMAIN Requests(v)
Ids == DOMAIN requests
NoRequest == 0

LastCommand == LET mine == {i \in Ids : requests[i].from = "terminal"}
               IN  IF mine = {} THEN NoRequest ELSE Max(mine)

-----------------------------------------------------------------------------
(* Making a request.                                                        *)
\* What the robot owes: a log is announced and sent in packets, an update
\* reports its progress and its end.
Owed(key) == CASE key = "logs" -> Packets + 1
               [] key = "ota-start" -> 2
               [] OTHER -> 1

\* storePromiseMethods() and send().  If sending throws, the promise is
\* rejected with the error; cliResolve() of an error throws in its turn, so
\* that neither waitForResponse nor the prompt changes.  n is the number of words.
Ask(key, from, n) ==
    LET throws == SendThrows(v, key, n)
    IN  /\ requests' = Append(requests,
              [key |-> key, from |-> from,
               state |-> IF throws THEN "failed" ELSE "pending",
               owed |-> IF throws \/ ~up THEN 0 ELSE Owed(key)])
        /\ promiseKeys' = [promiseKeys EXCEPT ![key] = Len(requests')]

\* Room for one more request in the bound of the scene.
MayAsk == Len(requests) < scene.requests

\* A form of the page asks: doWifiScan(), doWifiConnect(), doStatus(),
\* doOtaStart(), doAnkiAuth(), doSdk(), doLog().
FormAsks(key) ==
    /\ up /\ MayAsk
    /\ key \in scene.forms \cap Keys
    /\ Ask(key, "form", 4)
    /\ UNCHANGED <<scene, strokes, up, waitForResponse, logId, logFile, saved,
                   hasProgressBar, termVars>>

-----------------------------------------------------------------------------
(* Settling.                                                                *)
\* Mutant: cliResolve() does not empty waitForResponse.
ReactKeepsWaiting(i, resolved) ==
    IF requests[i].from = "terminal"
    THEN NewLine /\ UNCHANGED <<waitForResponse, hasProgressBar>>
    ELSE UNCHANGED <<termVars, waitForResponse, hasProgressBar>>

\* Mutant: every answer goes through cliResolve().
ReactForAll(i, resolved) ==
    NewLine /\ waitForResponse' = "" /\ UNCHANGED hasProgressBar

\* The reactions to the settlement of request i.  A command's is cliResolve():
\* the answer is printed, a new line begins and waitForResponse is emptied.
React(i, resolved) ==
    IF requests[i].from = "terminal"
    THEN /\ NewLine
         /\ waitForResponse' = ""
         /\ hasProgressBar' =
                (hasProgressBar /\ ~(resolved /\ requests[i].key \in {"ota-start", "logs"}))
    ELSE UNCHANGED <<termVars, waitForResponse, hasProgressBar>>

\* Mutant: rejectPromise() empties the slot and does not reject.
SettleDropsRefusal(key, how, reqs) ==
    LET i == IF key \in Keys THEN promiseKeys[key] ELSE NoRequest
    IN  /\ promiseKeys' = IF i = NoRequest THEN promiseKeys
                          ELSE [promiseKeys EXCEPT ![key] = NoRequest]
        /\ IF i # NoRequest /\ requests[i].state = "pending" /\ how = "resolved"
           THEN requests' = [reqs EXCEPT ![i].state = how] /\ React(i, TRUE)
           ELSE /\ requests' = reqs
                /\ UNCHANGED <<termVars, waitForResponse, hasProgressBar>>

\* resolvePromise(), rejectPromise() on key, which may be "": the slot is
\* emptied; a promise that has timed out is settled without effect.  reqs are
\* the requests after the robot's message has been counted.
Settle(key, how, reqs) ==
    LET i == IF key \in Keys THEN promiseKeys[key] ELSE NoRequest
    IN  IF i = NoRequest
        THEN /\ requests' = reqs
             /\ UNCHANGED <<promiseKeys, termVars, waitForResponse, hasProgressBar>>
        ELSE /\ promiseKeys' = [promiseKeys EXCEPT ![key] = NoRequest]
             /\ IF requests[i].state = "pending"
                THEN /\ requests' = [reqs EXCEPT ![i].state = how]
                     /\ React(i, how = "resolved")
                ELSE /\ requests' = reqs
                     /\ UNCHANGED <<termVars, waitForResponse, hasProgressBar>>

NothingSettled(reqs) ==
    /\ requests' = reqs
    /\ UNCHANGED <<promiseKeys, termVars, waitForResponse, hasProgressBar>>

\* The robot sends one, or the last, of the messages it owes request i.
Sent(i) == [requests EXCEPT ![i].owed = @ - 1]
SentLast(i) == [requests EXCEPT ![i].owed = 0]

Plain(i) == requests[i].key \in DOMAIN Answers(v)

\* The answer of request i arrives.
Answered(i) ==
    /\ up /\ requests[i].owed > 0 /\ Plain(i)
    /\ \E key \in SettledBy(v, Answers(v)[requests[i].key]) :
          Settle(key, "resolved", Sent(i))
    /\ UNCHANGED <<scene, strokes, up, logId, logFile, saved>>

\* RtsResponse: the robot refuses request i, without naming it.
Refused(i) ==
    /\ up /\ requests[i].owed > 0 /\ HasMember(v, RtsResponse)
    /\ requests[i].owed = Owed(requests[i].key)
    /\ Settle(waitForResponse, "rejected", SentLast(i))
    /\ UNCHANGED <<scene, strokes, up, logId, logFile, saved>>

\* RtsOtaUpdateResponse with this status: 2 in progress, 3 done, 5 failed.
\* From version 3 on the status is read from the wrong object: undefined.
OtaSettles(status, reqs) ==
    CASE waitForResponse = "ota-start" /\ v = 2 /\ status = 3 ->
           Settle("ota-start", "resolved", reqs)
      [] waitForResponse = "ota-start" /\ v = 2 /\ status >= 5 ->
           Settle("ota-start", "rejected", reqs)
      [] waitForResponse = "ota-cancel" /\ (v > 2 \/ status # 2) ->
           Settle("ota-cancel", "resolved", reqs)
      [] OTHER -> NothingSettled(reqs)

OtaReports(i) ==
    /\ up /\ requests[i].owed > 0
    /\ requests[i].key \in {"ota-start", "ota-cancel"}
    /\ \E status \in {2, 3, 5} :
          /\ (status = 2) <=> (requests[i].owed = 2)
          /\ (requests[i].key = "ota-cancel") => status = 5
          /\ OtaSettles(status, Sent(i))
    /\ UNCHANGED <<scene, strokes, up, logId, logFile, saved>>

\* Mutant: a new log does not empty logFile.
LogAnnouncedKeepsFile(i) ==
    /\ up /\ requests[i].key = "logs" /\ requests[i].owed = Packets + 1
    /\ logId' = i /\ UNCHANGED logFile /\ NothingSettled(Sent(i))
    /\ UNCHANGED <<scene, strokes, up, saved>>

\* RtsLogResponse: exitCode is 0, or the robot has no log to send.
LogAnnounced(i) ==
    /\ up /\ requests[i].key = "logs" /\ requests[i].owed = Packets + 1
    /\ \/ logId' = i /\ logFile' = <<>> /\ NothingSettled(Sent(i))
       \/ UNCHANGED <<logId, logFile>> /\ NothingSettled(SentLast(i))
    /\ UNCHANGED <<scene, strokes, up, saved>>

\* RtsFileDownload: packet n of the file of request i.
LogPacket(i) ==
    LET n == Packets + 1 - requests[i].owed
        file == Append(logFile, <<i, n>>)
    IN  /\ up /\ requests[i].key = "logs" /\ requests[i].owed \in 1..Packets
        /\ IF logId # i
           THEN UNCHANGED <<logFile, saved>> /\ NothingSettled(Sent(i))
           ELSE /\ logFile' = file
                /\ saved' = IF n = Packets THEN file ELSE saved
                /\ IF n = Packets THEN Settle("logs", "resolved", Sent(i))
                   ELSE NothingSettled(Sent(i))
        /\ UNCHANGED <<scene, strokes, up, logId>>

\* Mutant: a timeout is not told to whoever asked.
TimesOutUntold(i) ==
    /\ requests[i].state = "pending" /\ requests[i].key \in Timed(v)
    /\ requests' = [requests EXCEPT ![i].state = "timed out"]
    /\ UNCHANGED <<scene, strokes, up, promiseKeys, waitForResponse, logId,
                   logFile, saved, hasProgressBar, termVars>>

\* The five seconds of request i are over.
TimesOut(i) ==
    /\ requests[i].state = "pending" /\ requests[i].key \in Timed(v)
    /\ requests' = [requests EXCEPT ![i].state = "timed out"]
    /\ React(i, FALSE)
    /\ UNCHANGED <<scene, strokes, up, promiseKeys, logId, logFile, saved>>

\* handleDisconnected(): the handler is dropped; its timers go on.
Disconnected ==
    /\ up /\ up' = FALSE
    /\ requests' = [i \in Ids |-> [requests[i] EXCEPT !.owed = 0]]
    /\ UNCHANGED <<scene, strokes, waitForResponse, promiseKeys, logId, logFile,
                   saved, hasProgressBar, termVars>>

-----------------------------------------------------------------------------
(* The terminal: handleCli() and the "cmd" event of the page.               *)
KeyPressed(key) ==
    /\ strokes < scene.strokes /\ key \in scene.keys
    /\ Press(key)
    /\ strokes' = strokes + 1
    /\ UNCHANGED <<scene, up, reqVars>>

CtrlC ==
    /\ strokes < scene.strokes
    /\ NewLine
    /\ strokes' = strokes + 1
    /\ UNCHANGED <<scene, up, reqVars>>

Pasted(text) ==
    /\ strokes < scene.strokes /\ (scene.tidy => line = <<>>)
    /\ Insert(text)
    /\ strokes' = strokes + 1
    /\ UNCHANGED <<scene, up, reqVars>>

\* Enter, on a line that is not empty.
Enter ==
    /\ strokes < scene.strokes /\ line # <<>>
    /\ strokes' = strokes + 1
    /\ UNCHANGED <<scene, up, logId, logFile, saved>>

Args == ArgsOf(line)
Cmd == IF Len(Command(Args)) = 1 THEN Command(Args)[1] ELSE "no command"

EnterBuiltIn == Enter /\ RunBuiltIn /\ UNCHANGED reqVars

\* A command of the handler, with what it requires.
ForHandler == up /\ Command(Args) \notin BuiltIns
HasArgs == Cmd \in DOMAIN Commands(v) /\ Len(Args) >= Commands(v)[Cmd]

EnterRequest ==
    /\ Enter /\ ForHandler /\ HasArgs /\ Cmd \in Keys /\ MayAsk
    /\ waitForResponse' = Cmd
    /\ hasProgressBar' = (hasProgressBar \/ Cmd \in {"ota-start", "logs"})
    /\ Ask(Cmd, "terminal", Len(Args))
    /\ RunOther(FALSE)

\* anki-auth in version 2, whose handler has no doAnkiAuth().
EnterMissing ==
    /\ Enter /\ ForHandler /\ HasArgs /\ Cmd \notin Keys
    /\ waitForResponse' = Cmd
    /\ RunThrows
    /\ UNCHANGED <<requests, promiseKeys, hasProgressBar>>

\* help, or a command without its arguments: handled if nothing waits.
EnterQuiet ==
    /\ Enter /\ ForHandler
    /\ Cmd \in Quiet(v) \/ (Cmd \in DOMAIN Commands(v) /\ ~HasArgs)
    /\ RunOther(waitForResponse = "")
    /\ UNCHANGED <<requests, promiseKeys, waitForResponse, hasProgressBar>>

EnterLeaves ==
    /\ Enter /\ ForHandler /\ Cmd \in Leaves
    /\ RunOther(FALSE)
    /\ UNCHANGED <<requests, promiseKeys, waitForResponse, hasProgressBar>>

EnterUnknown ==
    /\ Enter /\ ForHandler
    /\ Cmd \notin DOMAIN Commands(v) \cup Quiet(v) \cup Leaves
    /\ waitForResponse' = ""
    /\ RunOther(TRUE)
    /\ UNCHANGED <<requests, promiseKeys, hasProgressBar>>

\* Without a handler every command is handled (ble-connect: WebSetup).
EnterAlone ==
    /\ Enter /\ ~up /\ Command(Args) \notin BuiltIns
    /\ RunOther(TRUE)
    /\ UNCHANGED <<requests, promiseKeys, waitForResponse, hasProgressBar>>

-----------------------------------------------------------------------------
ReqInit ==
    /\ scene \in Scenes
    /\ strokes = 0 /\ up = scene.up
    /\ waitForResponse = "" /\ requests = <<>>
    /\ promiseKeys = [key \in Keys |-> NoRequest]
    /\ logId = NoRequest /\ logFile = <<>> /\ saved = <<>>
    /\ hasProgressBar = FALSE
    /\ TermInit

Typing ==
    \/ \E key \in scene.keys : KeyPressed(key)
    \/ \E text \in scene.pastes : Pasted(text)
    \/ CtrlC
    \/ EnterBuiltIn \/ EnterRequest \/ EnterMissing \/ EnterQuiet
    \/ EnterLeaves \/ EnterUnknown \/ EnterAlone

Sends(i) == Answered(i) \/ Refused(i) \/ OtaReports(i) \/ LogAnnounced(i) \/ LogPacket(i)

ReqNext ==
    \/ Typing
    \/ \E key \in scene.forms : FormAsks(key)
    \/ \E i \in Ids : Sends(i) \/ TimesOut(i)
    \/ Disconnected

\* The robot sends what it owes and the timers fire; the user need not type.
MaxRequests == Max({s.requests : s \in Scenes})
ReqFairness ==
    \A i \in 1..MaxRequests :
        WF_vars(i \in Ids /\ Sends(i)) /\ WF_vars(i \in Ids /\ TimesOut(i))

ReqSpec == ReqInit /\ [][ReqNext]_vars /\ ReqFairness

-----------------------------------------------------------------------------
States == {"pending", "resolved", "rejected", "timed out", "failed"}

ReqTypeOK ==
    /\ TerminalTypeOK
    /\ waitForResponse \in DOMAIN Commands(v) \cup {""}
    /\ \A key \in Keys : promiseKeys[key] \in Ids \cup {NoRequest}
    /\ \A i \in Ids : requests[i].key \in Keys /\ requests[i].state \in States

\* A request that waits can still be settled, unless a newer one of the same
\* key took its slot (storePromiseMethods, resolvePromise, rejectPromise).
OnlyANewerRequestTakesTheSlot ==
    \A i \in Ids :
        requests[i].state = "pending" =>
            \/ promiseKeys[requests[i].key] = i
            \/ \E j \in Ids : j > i /\ requests[j].key = requests[i].key

\* waitForResponse, by which receive() finds whom a refusal or the progress of
\* an update is for, is the key of the last command, and that command has
\* not been answered.
WaitsForTheLastCommand ==
    (waitForResponse \in Keys) =>
        /\ LastCommand # NoRequest
        /\ requests[LastCommand].key = waitForResponse
        /\ requests[LastCommand].state \in {"pending", "failed"}

\* The log file that the user is given holds all packets of one log, in order,
\* though several logs may be on their way.
SavedLogIsWhole ==
    saved # <<>> =>
        \E i \in Ids : saved = [n \in 1..Packets |-> <<i, n>>]

\* What is being typed is lost only to the user's own keys and to the end of a
\* command: answers to the page's forms leave the terminal alone.
AnswersLeaveTheLine ==
    [][(line' = <<>> /\ line # <<>> /\ strokes' = strokes) =>
            \E i \in Ids : /\ requests[i].from = "terminal"
                           /\ requests[i].state = "pending"
                           /\ requests'[i].state # "pending"]_vars

\* The prompt comes back after the last command if that can time out, and if
\* it is one that is settled by the class of its answer as long as the robot
\* is connected and no form takes its slot.
Waiting ==
    {i \in Ids : /\ i = LastCommand /\ requests[i].state = "pending"
                /\ requests[i].key = waitForResponse
                /\ requests[i].key \in Timed(v) \cup DOMAIN Answers(v)}

Abandoned ==
    {i \in Ids : /\ requests[i].key \notin Timed(v)
                /\ (~up \/ promiseKeys[requests[i].key] # i)}

PromptReturns ==
    \A i \in 1..MaxRequests :
        (i \in Waiting /\ ~editing)
            ~> (editing \/ i \in Abandoned \/ i # LastCommand)
=============================================================================
