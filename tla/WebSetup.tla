------------------------------ MODULE WebSetup ------------------------------
(***************************************************************************)
(* The web setup page around RtsPairing: what it shows (phase), the flow   *)
(* from the status of a robot to the end of its setup, the terminal as far *)
(* as it takes part (ble-connect, ble-clear, the prompt for a pin), and    *)
(* reloading the page.  A callback or a then() belongs to the action that  *)
(* brings the message; a fetch() ends in an action of its own.             *)
(***************************************************************************)
EXTENDS RtsPairing, FiniteSets

CONSTANT Scenes   \* robots' versions and bounds on what happens

VARIABLES
    scene,        \* the scene that is played
    acts,         \* terminal lines, reloads and clicks after pairing so far
    phase,        \* the container that is shown
    chooser,      \* the browser's list of robots is open
    cmdPending,   \* _cmdPending: a ble-connect waits
    editing,      \* pterm_editing
    prompt,       \* pterm_prompt_promise: the next line is a pin
    autoFlow,     \* _enableAutoFlow
    credentials,  \* _wifiCredentials is not null
    fetching,     \* "", "otas" or "login": the fetch() under way
    lastVersion   \* _version

pageVars == <<phase, chooser, cmdPending, editing, prompt, autoFlow,
              credentials, fetching, lastVersion>>
boundVars == <<scene, acts>>
vars == <<pairVars, boundVars, pageVars>>

Acts == acts < scene.acts /\ acts' = acts + 1 /\ UNCHANGED scene

SetupInit ==
    /\ PairInit
    /\ chooser = FALSE /\ cmdPending = FALSE /\ editing = TRUE
    /\ prompt = FALSE /\ autoFlow = TRUE /\ fetching = "" /\ lastVersion = 0
    /\ scene \in Scenes /\ versions = scene.versions
    /\ acts = 0 /\ phase = "Discover"
    /\ credentials \in (IF scene.forms THEN BOOLEAN ELSE {FALSE})

-----------------------------------------------------------------------------
(* Connecting.                                                              *)
\* btnDiscoverVector: tryConnect().
ClickDiscover ==
    /\ phase = "Discover" /\ ~chooser /\ conns < scene.conns
    /\ phase' = "Loading" /\ chooser' = TRUE
    /\ UNCHANGED <<pairVars, boundVars, cmdPending, editing, prompt, autoFlow,
                   credentials, fetching, lastVersion>>

\* The user picks a robot.
Picks(r) ==
    /\ chooser /\ Pick(r) /\ chooser' = FALSE
    /\ UNCHANGED <<boundVars, phase, cmdPending, editing, prompt, autoFlow,
                   credentials, fetching, lastVersion>>

\* The user picks none: onCancelSelect.
CancelsSelect ==
    /\ chooser /\ chooser' = FALSE
    /\ phase' = "Discover"
    /\ cmdPending' = FALSE /\ editing' = (editing \/ cmdPending)
    /\ UNCHANGED <<pairVars, boundVars, prompt, autoFlow, credentials,
                   fetching, lastVersion>>

\* Mutant: the form that is shown stays.
LosesRobotSilently ==
    /\ Disconnected
    /\ UNCHANGED <<boundVars, pageVars>>

\* handleDisconnected().
LosesRobot ==
    /\ Disconnected
    /\ phase' = "Discover"
    /\ UNCHANGED <<boundVars, chooser, cmdPending, editing, prompt, autoFlow,
                   credentials, fetching, lastVersion>>

ShakesHands ==
    /\ Handshake
    /\ lastVersion' = Data
    /\ UNCHANGED <<boundVars, phase, chooser, cmdPending, editing, prompt,
                   autoFlow, credentials, fetching>>

\* cancelConnection() ends with onCommandDone: a new line in the terminal.
Cancels ==
    /\ RefusesToPair \/ \E c \in timers : TimerFires(c)
    /\ editing' = TRUE
    /\ UNCHANGED <<boundVars, phase, chooser, cmdPending, prompt, autoFlow,
                   credentials, fetching, lastVersion>>

\* onReadyForPin: the form, and the terminal if ble-connect waits.
ReadyForPin ==
    /\ NonceAsksPin
    /\ phase' = "EnterPin"
    /\ prompt' = (prompt \/ cmdPending) /\ editing' = (editing \/ cmdPending)
    /\ UNCHANGED <<boundVars, chooser, cmdPending, autoFlow, credentials,
                   fetching, lastVersion>>

\* btnEnterPin: the prompt of the terminal, if there is one, stays.
ClickEnterPin(pin, auto) ==
    /\ phase = "EnterPin" /\ EnterPin(pin)
    /\ phase' = "Loading" /\ autoFlow' = auto
    /\ UNCHANGED <<boundVars, chooser, cmdPending, editing, prompt,
                   credentials, fetching, lastVersion>>

\* Steps of the handler and of the robot that the page does not see.
HandlerSteps ==
    /\ \/ Resumes \/ PairsAnew \/ NonceResumes \/ Challenged \/ Undecipherable
       \/ Foreign \/ Connected \/ ConnectFails \/ RobotStep
       \/ scene.cuts /\ Lost
    /\ UNCHANGED <<boundVars, pageVars>>

-----------------------------------------------------------------------------
(* The terminal.                                                            *)
TypeConnect ==
    /\ editing /\ ~prompt /\ handler = NoHandler /\ ~chooser
    /\ conns < scene.conns /\ Acts
    /\ phase' = "Loading" /\ chooser' = TRUE
    /\ cmdPending' = TRUE /\ editing' = FALSE
    /\ UNCHANGED <<pairVars, prompt, autoFlow, credentials, fetching,
                   lastVersion>>

TypeClear ==
    /\ editing /\ ~prompt /\ handler = NoHandler /\ Acts
    /\ saved' = Nothing
    /\ UNCHANGED <<bleVars, handler, timers, minted, memory, idKeys, robotVars,
                   pageVars>>

\* Whatever is typed at the prompt is a pin, for the present handler if there
\* is one that has keys; otherwise enterPin() throws.
TypePin(pin) ==
    /\ editing /\ prompt /\ Acts
    /\ prompt' = FALSE /\ cmdPending' = FALSE /\ autoFlow' = FALSE
    /\ IF CanEnterPin
       THEN EnterPin(pin) /\ phase' = "Loading"
       ELSE UNCHANGED <<pairVars, phase>>
    /\ UNCHANGED <<chooser, editing, credentials, fetching, lastVersion>>

TypeCtrlC ==
    /\ ~editing /\ editing' = TRUE
    /\ UNCHANGED <<pairVars, boundVars, phase, chooser, cmdPending, prompt,
                   autoFlow, credentials, fetching, lastVersion>>

\* The page is loaded again: the cookie and the robots remain.
Reload ==
    /\ Acts
    /\ phase' = "Discover" /\ chooser' = FALSE /\ UNCHANGED credentials
    /\ cmdPending' = FALSE /\ editing' = TRUE /\ prompt' = FALSE
    /\ autoFlow' = TRUE /\ fetching' = "" /\ lastVersion' = 0
    /\ device' = NoRobot /\ link' = "idle" /\ toRobot' = <<>> /\ toPage' = <<>>
    /\ handler' = NoHandler /\ timers' = {} /\ memory' = Nothing
    /\ UNCHANGED <<conns, minted, saved, idKeys, robotVars>>

-----------------------------------------------------------------------------
(* The flow.  handler.awaits[key] is what follows the answer to key.        *)
Awaiting(h, key, next) == [h EXCEPT !.awaits = (key :> next) @@ @]

\* A request of handler h.  It throws where the handler has no such request or
\* cannot pack it, and the page does not look at that.
AskFails(h, key) ==
    \/ key \notin DOMAIN Requests(h.version)
    \/ SendThrows(h.version, key, 4)
    \/ SendFails(h)

Asks(h, key, next) ==
    IF AskFails(h, key)
    THEN handler' = h /\ UNCHANGED toRobot
    ELSE /\ handler' = Awaiting(Spent(h), key, next)
         /\ toRobot' = Told(h, Message("ask", key))

\* onEncryptedConnection: the pending ble-connect is done, doStatus().
Encrypted ==
    /\ handler # NoHandler
    /\ LET h == [Read EXCEPT !.keysAuthorized = TRUE, !.shares = TRUE]
       IN  Success(h) /\ Asks(h, "status", "status")
    /\ cmdPending' = FALSE /\ editing' = (editing \/ cmdPending)
    /\ UNCHANGED <<boundVars, phase, chooser, prompt, autoFlow, credentials,
                   fetching, lastVersion>>

\* Mutant: the key pair of the page is saved once only.
SaveSessionKeepsKeys ==
    /\ saved' = Kept(saved, handler.remote, handler.crypto)
    /\ idKeys' = IF idKeys = NoKeys THEN handler.keys ELSE idKeys

\* saveSession(), with what the handler has now.
SaveSession ==
    /\ saved' = Kept(saved, handler.remote, handler.crypto)
    /\ idKeys' = handler.keys
NoSave == UNCHANGED <<saved, idKeys>>

\* doOta(): an update for a robot of version 2 (factory), which throws if there
\* is no handler any more; the account for the others.
DoOta(h) ==
    IF lastVersion = 2
    THEN /\ phase' = "Ota"
         /\ IF h # NoHandler THEN Asks(h, "ota-start", "ota")
            ELSE UNCHANGED <<handler, toRobot>>
    ELSE phase' = "Account" /\ handler' = h /\ UNCHANGED toRobot

\* The robot is on a network: the latest update, or a list of them.
OnNetwork(h) ==
    \/ DoOta(h) /\ UNCHANGED fetching
    \/ /\ fetching' = "otas"
       /\ handler' = h /\ UNCHANGED <<toRobot, phase>>

\* The answer m to the status.
Skips(m) == m.good /\ lastVersion # 2
StatusAnswered(h, m) ==
    /\ IF lastVersion \in {2, 3} \/ m.saves THEN SaveSession ELSE NoSave
    /\ UNCHANGED credentials
    /\ CASE ~autoFlow -> handler' = h /\ UNCHANGED <<toRobot, phase, fetching>>
         [] autoFlow /\ Skips(m) ->
              phase' = "Account" /\ handler' = h /\ UNCHANGED <<toRobot, fetching>>
         [] autoFlow /\ m.good /\ ~Skips(m) -> OnNetwork(h)
         [] OTHER -> /\ Asks(h, "wifi-scan",
                             IF credentials THEN "connect" ELSE "show")
                     /\ UNCHANGED <<phase, fetching>>

\* connectToWifi(): on failure the networks are scanned again.
WifiAnswered(h, m) ==
    /\ NoSave
    /\ IF m.good
       THEN OnNetwork(h) /\ UNCHANGED credentials
       ELSE /\ Asks(h, "wifi-scan", "show")
            /\ credentials' = FALSE /\ UNCHANGED <<phase, fetching>>

ScanAnswered(h, next) ==
    /\ NoSave /\ UNCHANGED <<credentials, fetching>>
    /\ IF next = "connect"
       THEN Asks(h, "wifi-connect", "wifi") /\ UNCHANGED phase
       ELSE phase' = "Wifi" /\ handler' = h /\ UNCHANGED toRobot

\* The answer to the account: onCloudAuthorized, then the settings.
AuthAnswered(h, m) ==
    /\ IF m.good THEN SaveSession ELSE NoSave
    /\ phase' = IF m.good THEN "Settings" ELSE "Account"
    /\ handler' = h /\ UNCHANGED <<toRobot, credentials, fetching>>

\* The settings go out in four requests, one after the other.
SdkAnswered(h) ==
    /\ NoSave /\ UNCHANGED <<credentials, fetching>>
    /\ LET g == [h EXCEPT !.sdk = @ + 1]
       IN  IF g.sdk < 4
           THEN Asks(g, "sdk", "settings") /\ UNCHANGED phase
           ELSE phase' = "Complete" /\ handler' = g /\ UNCHANGED toRobot

\* Progress of the update: at its end the page is back at its beginning.
OtaReported(h) ==
    /\ NoSave /\ UNCHANGED <<credentials, fetching>>
    /\ phase' \in {"Discover", phase}
    /\ handler' = h /\ UNCHANGED toRobot

\* An answer comes.  One that nothing waits for does nothing, but the account's
\* still reaches onCloudAuthorized.
Answered ==
    /\ SameVersion /\ Hears("answer")
    /\ LET m == Data
           h == [Read EXCEPT !.awaits =
                    [k \in DOMAIN @ \ {m.key} |-> @[k]]]
       IN  IF m.key \notin DOMAIN handler.awaits
           THEN /\ handler' = Read
                /\ IF m.key = "anki-auth" /\ m.good THEN SaveSession ELSE NoSave
                /\ UNCHANGED <<toRobot, phase, credentials, fetching>>
           ELSE LET next == handler.awaits[m.key]
                IN  CASE next = "status"   -> StatusAnswered(h, m)
                      [] next = "wifi"     -> WifiAnswered(h, m)
                      [] next = "auth"     -> AuthAnswered(h, m)
                      [] next = "settings" -> SdkAnswered(h)
                      [] next = "ota"      -> OtaReported(h)
                      [] OTHER             -> ScanAnswered(h, next)
    /\ UNCHANGED <<timers, minted, memory, robotVars, boundVars, chooser,
                   cmdPending, editing, prompt, autoFlow, lastVersion>>

\* doStatus() gives up after five seconds, and the flow with it.
StatusTimesOut ==
    /\ handler # NoHandler /\ "status" \in DOMAIN handler.awaits
    /\ handler' = [handler EXCEPT !.awaits =
                       [k \in DOMAIN @ \ {"status"} |-> @[k]]]
    /\ UNCHANGED <<bleVars, timers, keyVars, robotVars, boundVars, pageVars>>

-----------------------------------------------------------------------------
(* The forms of the flow.                                                   *)
Unmoved == <<device, link, conns, toPage, timers, keyVars, robotVars, chooser,
             cmdPending, editing, prompt, autoFlow, lastVersion>>

ChooseWifi ==
    /\ phase = "Wifi" /\ Acts
    /\ phase' = "WifiConfig"
    /\ UNCHANGED <<Unmoved, toRobot, handler, credentials, fetching>>

ClickConnectWifi ==
    /\ phase = "WifiConfig" /\ Acts
    /\ phase' = "Loading" /\ credentials' = TRUE
    /\ Asks(handler, "wifi-connect", "wifi")
    /\ UNCHANGED <<Unmoved, fetching>>

\* The fetch() of the updates ends: none or several, or the one there is; or it
\* failed, which throws before anything is shown.
OtasListed ==
    /\ fetching = "otas" /\ fetching' = ""
    /\ \/ phase' \in {"Ota", phase} /\ UNCHANGED <<handler, toRobot>>
       \/ DoOta(handler)
    /\ UNCHANGED <<Unmoved, boundVars, credentials>>

ClickOta ==
    /\ phase = "Ota" /\ Acts
    /\ DoOta(handler)
    /\ UNCHANGED <<Unmoved, credentials, fetching>>

\* btnConnectCloud: a login at the cloud first.
ClickConnectCloud ==
    /\ phase = "Account" /\ fetching = "" /\ Acts
    /\ phase' = "Loading" /\ fetching' = "login"
    /\ UNCHANGED <<Unmoved, toRobot, handler, credentials>>

\* The login ends.  rtsHandler is whoever it is by now: doAnkiAuth() of it
\* throws if there is none.
LoggedIn ==
    /\ fetching = "login" /\ fetching' = ""
    /\ \/ phase' = "Account" /\ UNCHANGED <<handler, toRobot>>
       \/ /\ IF handler = NoHandler THEN UNCHANGED <<handler, toRobot>>
             ELSE Asks(handler, "anki-auth", "auth")
          /\ UNCHANGED phase
    /\ UNCHANGED <<Unmoved, boundVars, credentials>>

ClickFinishSetup ==
    /\ phase = "Settings" /\ Acts
    /\ phase' = "Loading"
    /\ Asks(handler, "sdk", "settings")
    /\ UNCHANGED <<Unmoved, credentials, fetching>>

Forms ==
    \/ ChooseWifi \/ ClickConnectWifi \/ OtasListed \/ ClickOta
    \/ ClickConnectCloud \/ LoggedIn \/ ClickFinishSetup

SetupNext ==
    \/ ClickDiscover \/ CancelsSelect \/ LosesRobot \/ ShakesHands \/ Cancels
    \/ \E r \in Robots : Picks(r)
    \/ ReadyForPin \/ Encrypted \/ Answered \/ StatusTimesOut \/ HandlerSteps
    \/ \E pin \in Pins : TypePin(pin)
    \/ \E pin \in Pins, auto \in (IF scene.forms THEN BOOLEAN ELSE {FALSE}) :
          ClickEnterPin(pin, auto)
    \/ TypeConnect \/ TypeClear \/ TypeCtrlC \/ Reload
    \/ scene.forms /\ Forms

\* The page takes every message that comes, the link is made, and the robot
\* answers.  Nobody need type or click, and nothing need be lost.
Takes == ShakesHands \/ ReadyForPin \/ Encrypted \/ Answered
SetupFairness ==
    /\ WF_vars(Takes)
    /\ WF_vars((Resumes \/ PairsAnew \/ NonceResumes \/ Challenged
                  \/ Undecipherable \/ Foreign)
               /\ UNCHANGED <<boundVars, pageVars>>)
    /\ WF_vars((Connected \/ RobotStep) /\ UNCHANGED <<boundVars, pageVars>>)
    /\ WF_vars(Cancels)

SetupSpec == SetupInit /\ [][SetupNext]_vars /\ SetupFairness

-----------------------------------------------------------------------------
Phases == {"Discover", "Loading", "EnterPin", "Wifi", "WifiConfig", "Ota",
           "Account", "Settings", "Complete"}

SetupTypeOK ==
    /\ phase \in Phases
    /\ {chooser, cmdPending, editing, prompt, autoFlow, credentials} \subseteq BOOLEAN
    /\ fetching \in {"", "otas", "login"}
    /\ device \in Robots \cup {NoRobot}
    /\ link \in {"idle", "connecting", "up", "closed"}
    /\ timers \subseteq 1..conns
    /\ DOMAIN saved \cup DOMAIN memory \subseteq Robots
    /\ handler # NoHandler => link \in {"up", "closed"}

\* Each saved session has a secret that its robot remembers, whatever was
\* typed into a stale prompt; and as long as it is the only one, the one key
\* pair of the page (id-keys) is the one that the robot knows it by.
SavedSessionsReconnect ==
    \A r \in DOMAIN saved :
        /\ \E k \in known[r] : k[2] = saved[r]
        /\ DOMAIN saved = {r} => <<idKeys, saved[r]>> \in known[r]

\* A form that needs the robot is shown only while there is one: to pair with
\* (the pin), or that is paired (the networks, the settings); a robot that
\* goes away takes the form with it, though answers and timers still come in.
\* Those of the update and the account come up without one as well.
FormsHaveARobot ==
    /\ phase = "EnterPin" => handler # NoHandler /\ handler.asked
    /\ phase \in {"Wifi", "WifiConfig", "Settings", "Complete"} =>
          handler # NoHandler /\ handler.keysAuthorized

\* Once the link to a robot is up, pairing goes on until a pin is asked for, and
\* again from that pin on, until it is done or cut; keys that the robot does not
\* have end it (a wrong pin, one not asked for, a session that does not fit).
Settled ==
    \/ link # "up"
    \/ handler # NoHandler /\ (handler.keysAuthorized \/ handler.astray)
    \/ handler # NoHandler /\ handler.asked /\ ~handler.encrypted

ToPair(speaks) == link = "up" /\ ~Settled /\ versions[device] \in speaks
PairingGoesOn(speaks) == ToPair(speaks) ~> Settled

PairingProgresses == PairingGoesOn(2..6)

\* HandleHandshake() (rts.js): "RTSv5 same as V7": a robot of version 7 pairs
\* like one of version 5.
Version7PairsLike5 == PairingGoesOn({7})
=============================================================================
