----------------------------- MODULE RtsPairing -----------------------------
(***************************************************************************)
(* How the web setup page and a robot agree on keys: the handshake that    *)
(* chooses a handler by the robot's version, the connection request, the   *)
(* nonces, the pin, the challenge, and the sessions that spare the pin the *)
(* next time.  The actions of the page are those of RtsV2Handler ...       *)
(* RtsV6Handler, which differ in RtsConnRequest only; the robot is         *)
(* external.  Messages are whole and in order, as RtsWire shows.           *)
(*                                                                         *)
(* Keys are symbolic: the key pair n that the page made, with the robot r  *)
(* and the pin p, gives the secret <<n, r, p>>; a sealed message carries   *)
(* <<secret, nonce>>.                                                      *)
(***************************************************************************)
EXTENDS RtsHandlers

CONSTANTS
    Robots,    \* the robots, by their public keys
    Pins,      \* what may be typed for a pin
    RightPin   \* what the robots show

ASSUME PinAssumption == RightPin \in Pins

VARIABLES
    versions,  \* versions[r]: the RTS version that robot r speaks
    device,    \* bleDevice: the robot that was picked
    link,      \* "idle", "connecting", "up", or "closed" and not yet noticed
    conns,     \* number of connections so far; the last one is conns
    toRobot, toPage,   \* messages on their way
    handler,   \* rtsHandler
    timers,    \* connections whose connRequestHandle is running
    minted,    \* number of key pairs made
    memory,    \* vectorBle.sessions: by robot, keys and crypto
    saved,     \* _sessions["remote-keys"]: by robot, its secret
    idKeys,    \* _sessions["id-keys"]: the one key pair of the page
    peer,      \* the robot's end of the connection
    known      \* known[r]: the keys and secrets that robot r remembers

bleVars   == <<device, link, conns, toRobot, toPage>>
keyVars   == <<minted, memory, saved, idKeys>>
robotVars == <<versions, peer, known>>
pairVars  == <<bleVars, handler, timers, keyVars, robotVars>>

NoRobot == "no robot"
NoKeys  == 0
NoNonce == <<>>
Nothing == [r \in {} |-> NoKeys]   \* no sessions
Open    == <<>>                    \* the lock of a message in the clear

Secret(keys, r, pin) == <<keys, r, pin>>
Message(type, data) == [type |-> type, data |-> data, lock |-> Open]
Sealed(m, secret, nonce) ==
    [type |-> m.type, data |-> m.data, lock |-> <<secret, nonce>>]
After(nonce) == <<nonce[1], nonce[2] + 1>>

-----------------------------------------------------------------------------
(* The handler.                                                             *)
NoHandler == [version |-> 0]

\* The handler that HandleHandshake() makes: a robot of version 7 gets that of
\* version 5.  asked and astray are history: the pin was asked for; the robot
\* does not have these keys, since a pin was wrong or not asked for or the
\* session kept is not one of its.  shares: cryptoKeys is the object in memory.
HandlerVersion(version) == IF version = 7 THEN 5 ELSE version
Supported(version) == HandlerVersion(version) \in Versions

NewHandler(version) ==
    [version |-> HandlerVersion(version), encrypted |-> FALSE,
     keysAuthorized |-> FALSE, firstTimePair |-> TRUE,
     remote |-> NoRobot, keys |-> NoKeys, crypto |-> <<>>,
     enc |-> NoNonce, dec |-> NoNonce, shares |-> FALSE,
     asked |-> FALSE, astray |-> FALSE, awaits |-> Nothing, sdk |-> 0]

\* send() of handler h: what goes out, and h after it.  What is sent without a
\* connection is lost; encrypt() throws before the nonces have come.
SendFails(h) == h.encrypted /\ h.enc = NoNonce
Told(h, m) ==
    IF link = "up"
    THEN Append(toRobot, IF h.encrypted THEN Sealed(m, h.crypto, h.enc) ELSE m)
    ELSE toRobot
Spent(h) == IF h.encrypted THEN [h EXCEPT !.enc = After(@)] ELSE h

\* receive(): a message that the handler can read, and the handler after it.
Legible(m) ==
    IF handler # NoHandler /\ handler.encrypted
    THEN handler.dec # NoNonce /\ m.lock = <<handler.crypto, handler.dec>>
    ELSE m.lock = Open
Read == IF handler.encrypted THEN [handler EXCEPT !.dec = After(@)] ELSE handler

SameVersion == handler # NoHandler /\ handler.version = versions[device]

Hears(type) ==
    /\ link = "up" /\ toPage # <<>>
    /\ Head(toPage).type = type /\ Legible(Head(toPage))
    /\ toPage' = Tail(toPage)
    /\ UNCHANGED <<device, link, conns>>

Data == Head(toPage).data

\* HandleHandshake().  With a version that it does not know it throws at
\* rtsHandler.onReadyForPin and nothing is answered.
Handshake ==
    /\ Hears("handshake")
    /\ IF Supported(Data)
       THEN /\ handler' = NewHandler(Data)
            /\ toRobot' = Told(NewHandler(Data), Message("handshake", Data))
       ELSE handler' = NoHandler /\ UNCHANGED toRobot
    /\ UNCHANGED <<timers, keyVars, robotVars>>

\* A session with robot r, from the cookie or from this page's memory.  The
\* cookie has one key pair for all robots.
HasSession(r) == r \in DOMAIN saved \cup DOMAIN memory
Session(r) ==
    IF r \in DOMAIN saved
    THEN [keys |-> idKeys, crypto |-> saved[r], shares |-> FALSE]
    ELSE [keys |-> memory[r].keys, crypto |-> memory[r].crypto, shares |-> TRUE]

\* onRtsConnRequest(): Data is isPairing, which only version 6 knows.
HearsRequest == SameVersion /\ Hears("request")
Pairs == IF handler.version = 6 THEN Data ELSE ~HasSession(device)

Resumes ==
    /\ HearsRequest /\ ~Pairs /\ HasSession(device)
    /\ LET s == Session(device)
           h == [handler EXCEPT !.remote = device, !.keys = s.keys,
                     !.crypto = s.crypto, !.shares = s.shares,
                     !.firstTimePair = FALSE,
                     !.astray = <<s.keys, s.crypto>> \notin known[device]]
       IN  handler' = h /\ toRobot' = Told(h, Message("reconnect", s.keys))
    /\ UNCHANGED <<timers, keyVars, robotVars>>

\* Mutant: the page goes on with the key pair before the new one.
PairsWithOldKeys ==
    /\ HearsRequest /\ Pairs
    /\ minted' = minted + 1
    /\ LET h == [handler EXCEPT !.remote = device,
                     !.keys = minted]
       IN  handler' = h /\ toRobot' = Told(h, Message("first time", minted'))
    /\ timers' = timers \cup {conns}
    /\ UNCHANGED <<memory, saved, idKeys, robotVars>>

PairsAnew ==
    /\ HearsRequest /\ Pairs
    /\ minted' = minted + 1
    /\ LET h == [handler EXCEPT !.remote = device, !.keys = minted']
       IN  handler' = h /\ toRobot' = Told(h, Message("first time", minted'))
    /\ timers' = timers \cup {conns}
    /\ UNCHANGED <<memory, saved, idKeys, robotVars>>

\* tryDisconnect() on whatever the page is connected to.
TryDisconnect ==
    /\ link' = CASE link = "up" -> "closed"
                 [] link = "connecting" -> "idle"
                 [] OTHER -> link
    /\ toRobot' = <<>> /\ toPage' = <<>>
    /\ UNCHANGED <<device, conns>>

\* Version 6, no session, and the robot is not in pairing mode.
RefusesToPair ==
    /\ SameVersion /\ link = "up" /\ toPage # <<>>
    /\ Head(toPage).type = "request" /\ Legible(Head(toPage))
    /\ ~Pairs /\ ~HasSession(device)
    /\ TryDisconnect
    /\ handler' = [handler EXCEPT !.remote = device]
    /\ UNCHANGED <<timers, keyVars, robotVars>>

\* The three seconds of connection c are over: cancelConnection() of its
\* handler, which need not be the present one.
TimerFires(c) ==
    /\ c \in timers
    /\ timers' = timers \ {c}
    /\ TryDisconnect
    /\ UNCHANGED <<handler, keyVars, robotVars>>

\* onRtsNonceMessage().
NonceOf(h) == [h EXCEPT !.enc = <<conns, 0>>, !.dec = <<conns, 0>>]

NonceResumes ==
    /\ SameVersion /\ Hears("nonce") /\ ~handler.firstTimePair
    /\ toRobot' = Told(NonceOf(handler), Message("ack", 0))
    /\ handler' = [Spent(NonceOf(handler)) EXCEPT !.encrypted = TRUE]
    /\ timers' = timers \ {conns}
    /\ UNCHANGED <<keyVars, robotVars>>

NonceAsksPin ==
    /\ SameVersion /\ Hears("nonce") /\ handler.firstTimePair
    /\ handler' = [NonceOf(handler) EXCEPT !.asked = TRUE]
    /\ timers' = timers \ {conns}
    /\ UNCHANGED <<toRobot, keyVars, robotVars>>

\* enterPin(): throws before there are keys, and in encrypt() if it was called
\* before the nonces came; by then the keys have been replaced.
CanEnterPin == handler # NoHandler /\ handler.keys # NoKeys

EnterPin(pin) ==
    LET s == Secret(handler.keys, handler.remote, pin)
        h == [handler EXCEPT !.crypto = s,
                  !.astray = @ \/ pin # RightPin \/ handler.encrypted
                               \/ ~handler.asked]
    IN  /\ CanEnterPin
        /\ memory' = IF h.shares THEN [memory EXCEPT ![h.remote].crypto = s]
                     ELSE memory
        /\ toRobot' = IF SendFails(h) THEN toRobot ELSE Told(h, Message("ack", 0))
        /\ handler' = IF SendFails(h) THEN h
                      ELSE [Spent(h) EXCEPT !.encrypted = TRUE]
        /\ UNCHANGED <<device, link, conns, toPage, timers, minted, saved,
                       idKeys, robotVars>>

\* onRtsChallengeMessage().
Challenged ==
    /\ SameVersion /\ Hears("challenge")
    /\ toRobot' = Told(Read, Message("challenge", Data + 1))
    /\ handler' = Spent(Read)
    /\ UNCHANGED <<timers, keyVars, robotVars>>

\* Sessions, in memory or in the cookie, with that of robot r put in.
Kept(sessions, r, session) ==
    [q \in DOMAIN sessions \cup {r} |-> IF q = r THEN session ELSE sessions[q]]

\* onRtsChallengeSuccessMessage(), and the status that the page asks for next.
Success(h) ==
    /\ SameVersion /\ Hears("success")
    /\ memory' = Kept(memory, h.remote, [keys |-> h.keys, crypto |-> h.crypto])
    /\ UNCHANGED <<timers, minted, saved, idKeys, robotVars>>

\* decrypt() fails: every saved session is deleted if there is one with this
\* robot, and the message is dropped.  Without nonces it throws.
Undecipherable ==
    /\ link = "up" /\ toPage # <<>>
    /\ handler # NoHandler /\ handler.encrypted /\ ~Legible(Head(toPage))
    /\ toPage' = Tail(toPage)
    /\ saved' = IF handler.dec # NoNonce /\ handler.remote \in DOMAIN saved
                THEN Nothing ELSE saved
    /\ UNCHANGED <<device, link, conns, toRobot, handler, timers, minted,
                   memory, idKeys, robotVars>>

\* receive() of a message in another version's union: dropped.
Foreign ==
    /\ link = "up" /\ toPage # <<>> /\ handler # NoHandler
    /\ ~SameVersion /\ Head(toPage).type # "handshake"
    /\ toPage' = Tail(toPage)
    /\ UNCHANGED <<device, link, conns, toRobot, handler, timers, keyVars,
                   robotVars>>

-----------------------------------------------------------------------------
(* Choosing a robot and losing it.                                          *)
\* The user picks robot r: tryConnect().  The page may be connected to one
\* robot at a time here.
Pick(r) ==
    /\ link = "idle"
    /\ device' = r /\ link' = "connecting" /\ conns' = conns + 1
    /\ UNCHANGED <<toRobot, toPage, handler, timers, keyVars, robotVars>>

\* connectToDevice(): the robot greets the page, in pairing mode or not; or
\* the connection fails, which nobody is told.
Connected ==
    /\ link = "connecting" /\ link' = "up"
    /\ toPage' = <<Message("handshake", versions[device])>>
    /\ \E pairing \in BOOLEAN :
          peer' = [stage |-> "greeted", pairing |-> pairing, keys |-> NoKeys,
                   secret |-> <<>>, enc |-> NoNonce, dec |-> NoNonce]
    /\ UNCHANGED <<device, conns, toRobot, handler, timers, keyVars, versions,
                   known>>

ConnectFails ==
    /\ link = "connecting" /\ link' = "idle"
    /\ UNCHANGED <<device, conns, toRobot, toPage, handler, timers, keyVars,
                   robotVars>>

\* The robot hangs up or goes out of reach.
Lost ==
    /\ link = "up" /\ link' = "closed"
    /\ toRobot' = <<>> /\ toPage' = <<>>
    /\ UNCHANGED <<device, conns, handler, timers, keyVars, robotVars>>

\* Mutant: the handler stays.
DisconnectedKeepsHandler ==
    /\ link = "closed" /\ link' = "idle"
    /\ device' = NoRobot
    /\ UNCHANGED <<conns, toRobot, toPage, handler, timers, keyVars, robotVars>>

\* "gattserverdisconnected": handleDisconnected() drops the handler.  Its
\* timer goes on.
Disconnected ==
    /\ link = "closed" /\ link' = "idle"
    /\ device' = NoRobot
    /\ handler' = NoHandler
    /\ UNCHANGED <<conns, toRobot, toPage, timers, keyVars, robotVars>>

-----------------------------------------------------------------------------
(* The robot (external): it takes the messages in the order of the protocol,*)
(* passes over requests before it is paired, and goes no further on another *)
(* message or one it cannot decrypt.                                        *)
Encrypts == peer.stage \in {"challenged", "open"}
Understands(m) ==
    m.lock = IF Encrypts THEN <<peer.secret, peer.dec>> ELSE Open

SecretFor(m) ==
    CASE m.type = "first time" /\ peer.pairing ->
           {Secret(m.data, device, RightPin)}
      [] m.type = "reconnect" ->
           {k[2] : k \in {k \in known[device] : k[1] = m.data}}
      [] OTHER -> {}

Step(stage) == [peer EXCEPT !.stage = stage]

RobotHears(m) ==
    LET p == IF Encrypts THEN [peer EXCEPT !.dec = After(@)] ELSE peer
        sealed(x) == Sealed(x, p.secret, p.enc)
    IN  CASE p.stage = "greeted" /\ m.type = "handshake" ->
               /\ toPage' = Append(toPage, Message("request", p.pairing))
               /\ peer' = Step("requested") /\ UNCHANGED known
          [] p.stage = "requested" /\ SecretFor(m) # {} ->
               /\ toPage' = Append(toPage, Message("nonce", 0))
               /\ peer' = [p EXCEPT !.stage = "nonce", !.keys = m.data,
                               !.secret = CHOOSE s \in SecretFor(m) : TRUE,
                               !.enc = <<conns, 0>>, !.dec = <<conns, 0>>]
               /\ UNCHANGED known
          [] p.stage = "nonce" /\ m.type = "ack" ->
               /\ toPage' = Append(toPage, sealed(Message("challenge", 7)))
               /\ peer' = [p EXCEPT !.stage = "challenged", !.enc = After(@)]
               /\ UNCHANGED known
          [] p.stage = "challenged" /\ m.type = "challenge" /\ m.data = 8 ->
               /\ toPage' = Append(toPage, sealed(Message("success", 0)))
               /\ peer' = [p EXCEPT !.stage = "open", !.enc = After(@)]
               /\ known' = [known EXCEPT ![device] = @ \cup {<<p.keys, p.secret>>}]
          [] p.stage = "open" /\ m.type = "ask" ->
               /\ \E good \in BOOLEAN, saves \in BOOLEAN :
                     toPage' = Append(toPage,
                         sealed(Message("answer",
                             [key |-> m.data, good |-> good, saves |-> saves])))
               /\ peer' = [p EXCEPT !.enc = After(@)]
               /\ UNCHANGED known
          [] p.stage # "open" /\ m.type = "ask" ->
               peer' = p /\ UNCHANGED <<toPage, known>>
          [] OTHER -> FALSE

RobotStep ==
    /\ link = "up" /\ toRobot # <<>>
    /\ Understands(Head(toRobot)) /\ RobotHears(Head(toRobot))
    /\ toRobot' = Tail(toRobot)
    /\ UNCHANGED <<versions, device, link, conns, handler, timers, keyVars>>

PairInit ==
    /\ device = NoRobot /\ link = "idle" /\ conns = 0
    /\ toRobot = <<>> /\ toPage = <<>>
    /\ handler = NoHandler /\ timers = {}
    /\ minted = 0 /\ memory = Nothing /\ saved = Nothing /\ idKeys = NoKeys
    /\ peer = [stage |-> "none", pairing |-> FALSE, keys |-> NoKeys,
               secret |-> <<>>, enc |-> NoNonce, dec |-> NoNonce]
    /\ known = [r \in Robots |-> {}]
=============================================================================
