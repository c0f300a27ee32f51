---------------------------- MODULE SetupProofs ----------------------------
(***************************************************************************)
(* Proofs about pairing and the flow of the setup, for any robots, pins,   *)
(* versions and number of connections, whatever is typed into a stale      *)
(* prompt, whatever timer of a lost connection fires, and whatever         *)
(* messages of the connection before are left when the page is loaded      *)
(* again.                                                                  *)
(*                                                                         *)
(* The page saves a session when an answer comes that it can read.  That   *)
(* the robot knows the keys by then is not in the page: it follows from    *)
(* what the two ends and the messages between them say of each other       *)
(* (PairInv).                                                              *)
(***************************************************************************)
EXTENDS WebSetup, SequenceTheorems, TLAPS

-----------------------------------------------------------------------------
(* Messages on their way, whatever they are.                                *)
IsSequence(s) == s \in Seq(Range(s))

\* The empty sequence.
LEMMA SeqEmpty == IsSequence(<<>>) /\ Range(<<>>) = {}
BY DEF IsSequence, Range

\* One message.
LEMMA SeqSingle ==
    ASSUME NEW m
    PROVE  IsSequence(<<m>>) /\ Range(<<m>>) = {m} /\ Len(<<m>>) = 1
BY DEF IsSequence, Range

\* One message more.
LEMMA SeqAppend ==
    ASSUME NEW s, IsSequence(s), NEW m
    PROVE  /\ IsSequence(Append(s, m)) /\ Range(Append(s, m)) = Range(s) \cup {m}
           /\ Append(s, m) # <<>>
           /\ s = <<>> => Len(Append(s, m)) = 1
<1> DEFINE S == Range(s) \cup {m}
<1>1. s \in Seq(S) BY DEF IsSequence
<1> HIDE DEF S
<1>2. m \in S BY DEF S
<1>3. Append(s, m) \in Seq(S) /\ Len(Append(s, m)) = Len(s) + 1 /\ Len(s) \in Nat
  BY <1>1, <1>2
<1>4. Range(Append(s, m)) = S
  <2>1. DOMAIN Append(s, m) = 1..(Len(s) + 1) BY <1>3
  <2>2. \A i \in 1..Len(s) : Append(s, m)[i] = s[i] BY <1>1, <1>2
  <2>3. Append(s, m)[Len(s) + 1] = m BY <1>1, <1>2
  <2>4. DOMAIN s = 1..Len(s) BY <1>1
  <2>. QED BY <2>1, <2>2, <2>3, <2>4, <1>3 DEF Range, S
<1>. QED BY <1>3, <1>4 DEF IsSequence, S

\* The first message taken.
LEMMA SeqTail ==
    ASSUME NEW s, IsSequence(s), s # <<>>
    PROVE  /\ IsSequence(Tail(s)) /\ Range(Tail(s)) \subseteq Range(s)
           /\ Head(s) \in Range(s)
           /\ Len(s) = 1 => Tail(s) = <<>>
<1> DEFINE S == Range(s)
<1>1. s \in Seq(S) BY DEF IsSequence
<1> HIDE DEF S
<1>2. /\ Tail(s) \in Seq(S) /\ Head(s) \in S
      /\ Len(Tail(s)) = Len(s) - 1
  BY <1>1, HeadTailProperties
<1>3. IsSequence(Tail(s)) BY <1>2, SeqOfRange DEF IsSequence
<1>4. Range(Tail(s)) \subseteq S BY <1>2, RangeOfSeq
<1>5. Len(s) = 1 => Tail(s) = <<>> 
  <2>1. ASSUME Len(s) = 1 PROVE Len(Tail(s)) = 0 BY <1>2, <2>1
  <2>. QED BY <1>2, <2>1, EmptySeq
<1>. QED BY <1>2, <1>3, <1>4, <1>5 DEF S

-----------------------------------------------------------------------------
(* The inductive invariant of pairing, in parts.                            *)
Nonces == {NoNonce} \cup (Nat \X Nat)
Stages == {"none", "greeted", "requested", "nonce", "challenged", "open"}
Agreed == {"nonce", "challenged", "open"}   \* the robot has chosen a secret

\* The fields of a handler, and of the robot's end; {h.keys} stands for any.
IsHandler(h) ==
    h \in [version : Versions, encrypted : BOOLEAN, keysAuthorized : BOOLEAN,
           firstTimePair : BOOLEAN, remote : Robots \cup {NoRobot},
           keys : {h.keys}, crypto : {h.crypto}, enc : {h.enc}, dec : Nonces,
           shares : BOOLEAN, asked : BOOLEAN, astray : BOOLEAN,
           awaits : {h.awaits}, sdk : {h.sdk}]
IsPeer(p) ==
    p \in [stage : Stages, pairing : {p.pairing}, keys : {p.keys},
           secret : {p.secret}, enc : Nonces, dec : {p.dec}]

PairTypeOK ==
    /\ conns \in Nat /\ device \in Robots \cup {NoRobot}
    /\ link \in {"idle", "connecting", "up", "closed"}
    /\ handler = NoHandler \/ IsHandler(handler)
    /\ IsPeer(peer)
    /\ IsSequence(toPage) /\ IsSequence(toRobot)
    /\ known = [r \in Robots |-> known[r]]

\* A handler lives while the link is up or its loss is not yet noticed, and
\* messages while it is up.
LinkHasRobot ==
    /\ link # "idle" => device \in Robots /\ conns # 0
    /\ link # "up" => toPage = <<>> /\ toRobot = <<>>
    /\ handler # NoHandler => link \in {"up", "closed"}

Pending(type) == \E m \in Range(toPage) : m.type = type
KeyMessage(m) == m.type \in {"first time", "reconnect"}
KeysSent == \E m \in Range(toRobot) : KeyMessage(m)

\* The handshake is the first message of a connection, before there is a
\* handler; the request is the only one under way, before any keys.
HandshakeFirst ==
    /\ Pending("handshake") => /\ Len(toPage) = 1 /\ toRobot = <<>>
                               /\ handler = NoHandler /\ peer.stage = "greeted"
    /\ link = "up" /\ peer.stage = "greeted" =>
          ~KeysSent /\ (toPage # <<>> => Pending("handshake"))
RequestNext ==
    Pending("request") => Len(toPage) = 1 /\ peer.stage = "requested" /\ ~KeysSent

\* The keys on their way are those of the handler, and so are the keys that
\* the robot has taken.
KeysAreHandlers ==
    \A m \in Range(toRobot) :
        KeyMessage(m) =>
            /\ handler # NoHandler
            /\ m.data = handler.keys /\ handler.remote = device
KeysAgree ==
    link = "up" /\ peer.stage \in Agreed =>
        /\ handler # NoHandler
        /\ handler.keys = peer.keys /\ handler.remote = device

\* What the robot has opened it remembers.
RobotRemembers ==
    link = "up" /\ peer.stage = "open" => <<peer.keys, peer.secret>> \in known[device]

\* The robot's nonces count its sealed messages: 0 the challenge, 1 the
\* success, 2 and on the answers.
NoncesFollow ==
    link = "up" =>
        /\ peer.stage = "nonce" => peer.enc = <<conns, 0>>
        /\ peer.stage = "challenged" => peer.enc = <<conns, 1>>
        /\ peer.stage = "open" => peer.enc \in Nat \X Nat /\ peer.enc[2] >= 2
SealedInOrder ==
    \A m \in Range(toPage) :
        /\ m.type = "challenge" => /\ m.lock = <<peer.secret, <<conns, 0>>>>
                                   /\ peer.stage \in {"challenged", "open"}
        /\ m.type = "success" => m.lock # Open /\ peer.stage = "open"
        /\ m.type = "answer" =>
              /\ peer.stage = "open" /\ m.lock = <<peer.secret, m.lock[2]>>
              /\ m.lock[2] \in Nat \X Nat /\ m.lock[2][2] >= 2

\* A handler that has not heard of the success can read no answer: its nonce
\* is at most that of the success.
ReadsInOrder ==
    handler # NoHandler /\ ~handler.keysAuthorized =>
        handler.dec = NoNonce \/ handler.dec[2] <= 1

PairInv ==
    /\ PairTypeOK /\ LinkHasRobot
    /\ HandshakeFirst /\ RequestNext /\ KeysAreHandlers /\ KeysAgree
    /\ RobotRemembers /\ NoncesFollow /\ SealedInOrder /\ ReadsInOrder

-----------------------------------------------------------------------------
(* Steps of the page that go on with the handler there is.                  *)
LEMMA HandlerIsOne ==
    ASSUME NEW h, IsHandler(h)
    PROVE  h # NoHandler
BY DEF IsHandler, NoHandler, Versions

\* Handler g is h after some messages.
Continues(h, g) ==
    /\ IsHandler(g) /\ g.keys = h.keys /\ g.remote = h.remote
    /\ h.asked => g.asked
    /\ h.keysAuthorized => g.keysAuthorized
    /\ ~g.keysAuthorized => g.dec = NoNonce \/ g.dec[2] <= 1

\* The page sends nothing or something other than keys.
Talks ==
    /\ IsSequence(toRobot') /\ (link # "up" => toRobot' = toRobot)
    /\ \A m \in Range(toRobot') : m \in Range(toRobot) \/ ~KeyMessage(m)

\* send() of anything but keys.
LEMMA ToldTalks ==
    ASSUME PairInv, NEW h, NEW m, ~KeyMessage(m), toRobot' = Told(h, m)
    PROVE  Talks
<1>1. IsSequence(toRobot) BY DEF PairInv, PairTypeOK
<1>2. CASE link # "up" BY <1>1, <1>2 DEF Talks, Told
<1>3. CASE link = "up"
  <2> DEFINE n == IF h.encrypted THEN Sealed(m, h.crypto, h.enc) ELSE m
  <2>1. n.type = m.type BY DEF Sealed
  <2> HIDE DEF n
  <2>2. toRobot' = Append(toRobot, n) BY <1>3 DEF Told, n
  <2>3. IsSequence(toRobot') /\ Range(toRobot') = Range(toRobot) \cup {n}
    BY <1>1, <2>2, SeqAppend
  <2>. QED BY <1>3, <2>1, <2>3 DEF Talks, KeyMessage
<1>. QED BY <1>2, <1>3

\* The messages that are no keys.
LEMMA NotKeys ==
    ASSUME NEW data
    PROVE  /\ ~KeyMessage(Message("ack", data))
           /\ ~KeyMessage(Message("challenge", data))
           /\ ~KeyMessage(Message("ask", data))
           /\ ~KeyMessage(Message("handshake", data))
BY DEF KeyMessage, Message

\* Such a step keeps the invariant.
LEMMA TalkingKeepsInv ==
    ASSUME PairInv, handler # NoHandler, Continues(handler, handler'), Talks,
           toPage' = toPage \/ (toPage # <<>> /\ toPage' = Tail(toPage)),
           UNCHANGED <<device, link, conns, peer, known>>
    PROVE  PairInv'
<1> USE DEF PairInv
<1>1. IsSequence(toPage) /\ IsSequence(toRobot) BY DEF PairTypeOK
<1>2. /\ IsSequence(toPage') /\ Range(toPage') \subseteq Range(toPage)
      /\ toPage = <<>> => toPage' = <<>>
      /\ Len(toPage) = 1 => toPage' = <<>> \/ toPage' = toPage
  BY <1>1, SeqTail
<1>3. handler' # NoHandler BY HandlerIsOne DEF Continues
<1>4. PairTypeOK' BY <1>2 DEF PairTypeOK, Continues, Talks
<1>5. LinkHasRobot' BY <1>2 DEF LinkHasRobot, Talks
<1>6. KeysSent' => KeysSent BY DEF Talks, KeysSent, KeyMessage
<1>7. \A type : Pending(type)' => Pending(type) /\ toPage' # <<>>
  <2>1. Range(<<>>) = {} BY SeqEmpty
  <2>. QED BY <1>2, <2>1 DEF Pending
<1>8. HandshakeFirst' BY <1>2, <1>6, <1>7 DEF HandshakeFirst
<1>9. RequestNext' BY <1>2, <1>6, <1>7 DEF RequestNext
<1>10. KeysAreHandlers' BY <1>3 DEF KeysAreHandlers, Talks, Continues, KeyMessage
<1>11. KeysAgree' BY <1>3 DEF KeysAgree, Continues
<1>12. RobotRemembers' /\ NoncesFollow' BY DEF RobotRemembers, NoncesFollow
<1>13. SealedInOrder' BY <1>2 DEF SealedInOrder
<1>14. ReadsInOrder' BY DEF ReadsInOrder, Continues
<1>. QED BY <1>4, <1>5, <1>8, <1>9, <1>10, <1>11, <1>12, <1>13, <1>14

\* While the link is not up most of the invariant is idle.
LEMMA NotUpKeepsInv ==
    ASSUME PairTypeOK', LinkHasRobot', ReadsInOrder', link' # "up"
    PROVE  PairInv'
<1>1. toPage' = <<>> /\ toRobot' = <<>> BY DEF LinkHasRobot
<1>2. Range(toPage') = {} /\ Range(toRobot') = {} BY <1>1, SeqEmpty
<1>. QED BY <1>1, <1>2 DEF PairInv, HandshakeFirst, RequestNext, KeysAreHandlers,
        KeysAgree, RobotRemembers, NoncesFollow, SealedInOrder, Pending

\* A step in which the page goes on with its handler, and may have taken the
\* next message.
TalksStep ==
    /\ handler # NoHandler /\ Continues(handler, handler') /\ Talks
    /\ toPage' = toPage \/ (toPage # <<>> /\ toPage' = Tail(toPage))
    /\ UNCHANGED <<device, link, conns, peer, known>>

\* Sending nothing.
LEMMA SilenceTalks ==
    ASSUME PairInv, UNCHANGED toRobot
    PROVE  Talks
BY DEF PairInv, PairTypeOK, Talks

\* Encrypting moves the handler's own nonce on.
LEMMA SpentContinues ==
    ASSUME NEW h, NEW g, Continues(h, g)
    PROVE  Continues(h, Spent(g))
BY DEF Continues, IsHandler, Spent

\* What a sealed message says of the two ends.
LEMMA HearsSealed ==
    ASSUME PairInv, NEW type \in {"challenge", "success", "answer"}, Hears(type)
    PROVE  /\ IsHandler(handler) /\ handler.encrypted /\ handler.dec # NoNonce
           /\ Head(toPage).lock = <<handler.crypto, handler.dec>>
           /\ Head(toPage) \in Range(toPage) /\ Head(toPage).type = type
           /\ link = "up" /\ toPage # <<>> /\ toPage' = Tail(toPage)
           /\ UNCHANGED <<device, link, conns>>
<1>1. /\ link = "up" /\ toPage # <<>> /\ toPage' = Tail(toPage)
      /\ Head(toPage).type = type /\ Legible(Head(toPage))
      /\ UNCHANGED <<device, link, conns>>
  BY DEF Hears
<1>2. Head(toPage) \in Range(toPage) BY <1>1, SeqTail DEF PairInv, PairTypeOK
<1>3. Head(toPage).lock # Open BY <1>1, <1>2 DEF PairInv, SealedInOrder, Open
<1>4. handler # NoHandler /\ handler.encrypted BY <1>1, <1>3 DEF Legible
<1>. QED BY <1>1, <1>2, <1>4 DEF Legible, PairInv, PairTypeOK

\* Decrypting moves the other nonce on and leaves the rest.
LEMMA ReadKeeps ==
    ASSUME IsHandler(handler), handler.encrypted => handler.dec # NoNonce
    PROVE  /\ IsHandler(Read) /\ Read.keys = handler.keys
           /\ Read.remote = handler.remote /\ Read.crypto = handler.crypto
           /\ Read.asked = handler.asked
           /\ Read.keysAuthorized = handler.keysAuthorized
           /\ handler.encrypted => Read.dec = After(handler.dec)
BY DEF IsHandler, Read, After, Nonces

\* The challenge is the first sealed message: the nonce after it is 1.
LEMMA ChallengedTalks ==
    ASSUME PairInv, Challenged
    PROVE  TalksStep
<1>1. Hears("challenge") /\ UNCHANGED <<peer, known>> BY DEF Challenged, robotVars
<1>2. handler.dec = <<conns, 0>>
  BY <1>1, HearsSealed DEF PairInv, SealedInOrder
<1>3. Read.dec = <<conns, 1>> BY <1>1, <1>2, HearsSealed, ReadKeeps DEF After
<1>4. Continues(handler, Read)
  BY <1>1, <1>3, HearsSealed, ReadKeeps DEF Continues
<1>5. Continues(handler, handler') BY <1>4, SpentContinues DEF Challenged
<1>6. Talks
  <2>1. toRobot' = Told(Read, Message("challenge", Data + 1)) BY DEF Challenged
  <2>. QED BY <2>1, NotKeys, ToldTalks
<1>7. handler # NoHandler BY <1>1, HearsSealed, HandlerIsOne
<1>. QED BY <1>1, <1>5, <1>6, <1>7, HearsSealed DEF TalksStep

\* What every step that takes a message does.
LEMMA HearsTakes ==
    ASSUME NEW type, Hears(type)
    PROVE  /\ link = "up" /\ toPage # <<>> /\ toPage' = Tail(toPage)
           /\ UNCHANGED <<device, link, conns>>
BY DEF Hears

\* Fields of a handler that Continues leaves free.
LEMMA FieldsContinue ==
    ASSUME NEW h, NEW g, Continues(h, g), NEW x
    PROVE  /\ Continues(h, [g EXCEPT !.asked = TRUE])
           /\ Continues(h, [g EXCEPT !.encrypted = TRUE])
           /\ Continues(h, [g EXCEPT !.awaits = x])
           /\ Continues(h, [g EXCEPT !.sdk = x])
           /\ Continues(h, [g EXCEPT !.keysAuthorized = TRUE, !.shares = TRUE])
<1>1. Continues(h, [g EXCEPT !.asked = TRUE]) BY DEF Continues, IsHandler
<1>2. Continues(h, [g EXCEPT !.encrypted = TRUE]) BY DEF Continues, IsHandler
<1>3. Continues(h, [g EXCEPT !.awaits = x]) BY DEF Continues, IsHandler
<1>4. Continues(h, [g EXCEPT !.sdk = x]) BY DEF Continues, IsHandler
<1>5. Continues(h, [g EXCEPT !.keysAuthorized = TRUE, !.shares = TRUE])
  BY DEF Continues, IsHandler
<1>. QED BY <1>1, <1>2, <1>3, <1>4, <1>5

\* Nonces set the counters back.
LEMMA NonceContinues ==
    ASSUME PairInv, IsHandler(handler)
    PROVE  /\ Continues(handler, [NonceOf(handler) EXCEPT !.asked = TRUE])
           /\ Continues(handler, [Spent(NonceOf(handler)) EXCEPT !.encrypted = TRUE])
<1>1. conns \in Nat BY DEF PairInv, PairTypeOK
<1>2. <<conns, 0>> \in Nonces BY <1>1 DEF Nonces
<1>3. IsHandler(NonceOf(handler)) BY <1>2 DEF IsHandler, NonceOf
<1>5. Continues(handler, NonceOf(handler))
  BY <1>2, <1>3 DEF IsHandler, NonceOf, Continues
<1>4. Continues(handler, Spent(NonceOf(handler))) BY <1>5, SpentContinues
<1>. QED BY <1>4, <1>5, FieldsContinue

\* onRtsNonceMessage().
LEMMA NonceTalks ==
    ASSUME PairInv, NonceResumes \/ NonceAsksPin
    PROVE  TalksStep
<1>1. Hears("nonce") /\ UNCHANGED <<peer, known>> /\ handler # NoHandler
  BY DEF NonceResumes, NonceAsksPin, robotVars, SameVersion
<1>2. IsHandler(handler) BY <1>1 DEF PairInv, PairTypeOK
<1>3. Continues(handler, handler')
  BY <1>2, NonceContinues DEF NonceResumes, NonceAsksPin
<1>4. Talks
  <2>1. CASE NonceResumes
    <3>1. toRobot' = Told(NonceOf(handler), Message("ack", 0))
      BY <2>1 DEF NonceResumes
    <3>. QED BY <3>1, NotKeys, ToldTalks
  <2>2. CASE NonceAsksPin BY <2>2, SilenceTalks DEF NonceAsksPin
  <2>. QED BY <2>1, <2>2
<1>. QED BY <1>1, <1>3, <1>4, HearsTakes DEF TalksStep

\* enterPin(), at whatever time.
LEMMA PinTalks ==
    ASSUME PairInv, NEW pin, EnterPin(pin)
    PROVE  TalksStep
<1> DEFINE s == Secret(handler.keys, handler.remote, pin)
           h == [handler EXCEPT !.crypto = s,
                     !.astray = @ \/ pin # RightPin \/ handler.encrypted
                                  \/ ~handler.asked]
<1>1. handler # NoHandler /\ UNCHANGED <<device, link, conns, toPage, peer, known>>
  BY DEF EnterPin, CanEnterPin, robotVars
<1>2. IsHandler(handler) BY <1>1 DEF PairInv, PairTypeOK
<1>3. Continues(handler, h)
  BY <1>1, <1>2 DEF PairInv, ReadsInOrder, Continues, IsHandler
<1>4. Continues(handler, Spent(h)) BY <1>3, SpentContinues
<1>5. Continues(handler, [Spent(h) EXCEPT !.encrypted = TRUE])
  BY <1>4, FieldsContinue
<1>6. Continues(handler, handler') BY <1>3, <1>5 DEF EnterPin
<1>7. Talks
  <2>1. CASE SendFails(h) BY <2>1, SilenceTalks DEF EnterPin
  <2>2. CASE ~SendFails(h)
    <3>1. toRobot' = Told(h, Message("ack", 0)) BY <2>2 DEF EnterPin
    <3> HIDE DEF h
    <3>. QED BY <3>1, NotKeys, ToldTalks
  <2>. QED BY <2>1, <2>2
<1>. QED BY <1>1, <1>6, <1>7 DEF TalksStep

\* Messages that are dropped.
LEMMA DroppingTalks ==
    ASSUME PairInv, Undecipherable \/ Foreign
    PROVE  TalksStep
<1>1. /\ UNCHANGED <<device, link, conns, toRobot, handler, peer, known>>
      /\ handler # NoHandler /\ toPage # <<>> /\ toPage' = Tail(toPage)
  BY DEF Undecipherable, Foreign, robotVars
<1>2. Continues(handler, handler)
  BY <1>1 DEF PairInv, PairTypeOK, ReadsInOrder, Continues
<1>. QED BY <1>1, <1>2, SilenceTalks DEF TalksStep

\* A request of the handler, or one that throws.
LEMMA AsksTalks ==
    ASSUME PairInv, handler # NoHandler, NEW h, Continues(handler, h),
           NEW key, NEW next, Asks(h, key, next)
    PROVE  Continues(handler, handler') /\ Talks
<1>1. CASE AskFails(h, key)
  BY <1>1, SilenceTalks DEF Asks
<1>2. CASE ~AskFails(h, key)
  <2> DEFINE x == (key :> next) @@ Spent(h).awaits
  <2>1. /\ handler' = [Spent(h) EXCEPT !.awaits = x]
        /\ toRobot' = Told(h, Message("ask", key))
    BY <1>2 DEF Asks, Awaiting
  <2> HIDE DEF x
  <2>2. Talks BY <2>1, NotKeys, ToldTalks
  <2>. QED BY <2>1, <2>2, SpentContinues, FieldsContinue
<1>. QED BY <1>1, <1>2

\* What an answer says: the robot has these keys, and the page knows that.
LEMMA AnswerIsPaired ==
    ASSUME PairInv, Hears("answer")
    PROVE  /\ IsHandler(handler) /\ handler.keysAuthorized
           /\ handler.remote = device /\ device \in Robots
           /\ <<handler.keys, handler.crypto>> \in known[device]
           /\ handler.encrypted /\ handler.dec # NoNonce
<1> DEFINE m == Head(toPage)
<1>1. /\ IsHandler(handler) /\ handler.encrypted /\ handler.dec # NoNonce
      /\ m.lock = <<handler.crypto, handler.dec>>
      /\ m \in Range(toPage) /\ m.type = "answer" /\ link = "up"
  BY HearsSealed
<1> HIDE DEF m
<1>2. /\ peer.stage = "open" /\ m.lock = <<peer.secret, m.lock[2]>>
      /\ m.lock[2] \in Nat \X Nat /\ m.lock[2][2] >= 2
  BY <1>1 DEF PairInv, SealedInOrder
<1>3. handler.crypto = peer.secret /\ handler.dec = m.lock[2] BY <1>1, <1>2
<1>4. handler # NoHandler BY <1>1, HandlerIsOne
<1>5. ~(handler.dec[2] <= 1) BY <1>2, <1>3
<1>6. handler.keysAuthorized
  BY <1>1, <1>4, <1>5 DEF PairInv, ReadsInOrder
<1>7. handler.keys = peer.keys /\ handler.remote = device
  BY <1>1, <1>2 DEF PairInv, KeysAgree, Agreed
<1>8. <<peer.keys, peer.secret>> \in known[device]
  BY <1>1, <1>2 DEF PairInv, RobotRemembers
<1>9. device \in Robots BY <1>1 DEF PairInv, LinkHasRobot
<1>. QED BY <1>1, <1>3, <1>6, <1>7, <1>8, <1>9

\* What the success says: the robot is the one of this handler.
LEMMA SuccessIsPaired ==
    ASSUME PairInv, Hears("success")
    PROVE  /\ IsHandler(handler) /\ handler.encrypted /\ handler.dec # NoNonce
           /\ handler.remote = device /\ device \in Robots
<1> DEFINE m == Head(toPage)
<1>1. /\ IsHandler(handler) /\ handler.encrypted /\ handler.dec # NoNonce
      /\ m \in Range(toPage) /\ m.type = "success" /\ link = "up"
  BY HearsSealed
<1>2. peer.stage = "open" BY <1>1 DEF PairInv, SealedInOrder
<1>. QED BY <1>1, <1>2 DEF PairInv, KeysAgree, Agreed, LinkHasRobot

\* onEncryptedConnection.
LEMMA EncryptedTalks ==
    ASSUME PairInv, Encrypted
    PROVE  TalksStep
<1> DEFINE h == [Read EXCEPT !.keysAuthorized = TRUE, !.shares = TRUE]
<1>1. Success(h) /\ Asks(h, "status", "status") BY DEF Encrypted
<1>2. Hears("success") /\ UNCHANGED <<peer, known>>
  BY <1>1 DEF Success, robotVars
<1>3. IsHandler(Read) /\ Read.keys = handler.keys /\ Read.remote = handler.remote
      /\ Read.asked = handler.asked
  BY <1>2, SuccessIsPaired, ReadKeeps
<1>4. Continues(handler, h) BY <1>3 DEF Continues, IsHandler
<1> HIDE DEF h
<1>5. handler # NoHandler BY DEF Encrypted
<1>6. Continues(handler, handler') /\ Talks BY <1>1, <1>4, <1>5, AsksTalks
<1>. QED BY <1>2, <1>5, <1>6, HearsTakes DEF TalksStep

\* A step of the page that leaves the connection as it is.
Stays ==
    \/ TalksStep
    \/ UNCHANGED <<device, link, conns, toRobot, toPage, handler, peer, known>>

\* doOta(), which does nothing where there is no handler.
LEMMA DoOtaTalks ==
    ASSUME PairInv, NEW h, handler # NoHandler, Continues(handler, h), DoOta(h)
    PROVE  Continues(handler, handler') /\ Talks
<1>1. CASE lastVersion = 2 /\ h # NoHandler
  BY <1>1, AsksTalks DEF DoOta
<1>2. CASE lastVersion = 2 /\ h = NoHandler
  BY <1>2, HandlerIsOne DEF Continues
<1>3. CASE lastVersion # 2
  BY <1>3, SilenceTalks DEF DoOta
<1>. QED BY <1>1, <1>2, <1>3

\* An answer, whatever follows it.
LEMMA AnsweredTalks ==
    ASSUME PairInv, Answered
    PROVE  TalksStep
<1> DEFINE m == Data
           h == [Read EXCEPT !.awaits = [k \in DOMAIN @ \ {m.key} |-> @[k]]]
           next == handler.awaits[m.key]
<1>1. Hears("answer") /\ UNCHANGED <<peer, known>> BY DEF Answered, robotVars
<1>2. IsHandler(handler) /\ handler.keysAuthorized /\ handler.encrypted
      /\ handler.dec # NoNonce
  BY <1>1, AnswerIsPaired
<1>3. Continues(handler, Read) BY <1>2, ReadKeeps DEF Continues
<1>4. Continues(handler, h) BY <1>3, FieldsContinue
<1>5. handler # NoHandler BY <1>2, HandlerIsOne
<1>6. \/ handler' = Read /\ UNCHANGED toRobot
      \/ StatusAnswered(h, m) \/ WifiAnswered(h, m) \/ AuthAnswered(h, m)
      \/ SdkAnswered(h) \/ OtaReported(h) \/ ScanAnswered(h, next)
  BY DEF Answered
<1> HIDE DEF m, h, next
<1>7. Continues(handler, handler') /\ Talks
  <2>1. ASSUME OnNetwork(h) PROVE Continues(handler, handler') /\ Talks
    BY <2>1, <1>4, <1>5, DoOtaTalks, SilenceTalks DEF OnNetwork
  <2>2. CASE handler' = Read /\ UNCHANGED toRobot BY <2>2, <1>3, SilenceTalks
  <2>3. CASE StatusAnswered(h, m)
    <3>1. \/ handler' = h /\ UNCHANGED toRobot
          \/ OnNetwork(h)
          \/ Asks(h, "wifi-scan", IF credentials THEN "connect" ELSE "show")
      BY <2>3 DEF StatusAnswered
    <3>. QED BY <3>1, <2>1, <1>4, <1>5, AsksTalks, SilenceTalks
  <2>4. CASE WifiAnswered(h, m)
    BY <2>4, <2>1, <1>4, <1>5, AsksTalks DEF WifiAnswered
  <2>5. CASE AuthAnswered(h, m) BY <2>5, <1>4, SilenceTalks DEF AuthAnswered
  <2>6. CASE SdkAnswered(h)
    <3> DEFINE g == [h EXCEPT !.sdk = @ + 1]
    <3>1. Continues(handler, g) BY <1>4, FieldsContinue
    <3>2. \/ Asks(g, "sdk", "settings")
          \/ handler' = g /\ UNCHANGED toRobot
      BY <2>6 DEF SdkAnswered
    <3> HIDE DEF g
    <3>. QED BY <3>1, <3>2, <1>5, AsksTalks, SilenceTalks
  <2>7. CASE OtaReported(h) BY <2>7, <1>4, SilenceTalks DEF OtaReported
  <2>8. CASE ScanAnswered(h, next)
    BY <2>8, <1>4, <1>5, AsksTalks, SilenceTalks DEF ScanAnswered
  <2>. QED BY <1>6, <2>2, <2>3, <2>4, <2>5, <2>6, <2>7, <2>8
<1>. QED BY <1>1, <1>5, <1>7, HearsTakes DEF TalksStep

\* The forms, and the status that does not come.
LEMMA FormsStay ==
    ASSUME PairInv, FormsHaveARobot, Forms \/ StatusTimesOut
    PROVE  Stays
<1>1. UNCHANGED <<device, link, conns, toPage, peer, known>>
  BY DEF Forms, ChooseWifi, ClickConnectWifi, OtasListed, ClickOta,
         ClickConnectCloud, LoggedIn, ClickFinishSetup, Unmoved, robotVars,
         StatusTimesOut, bleVars
<1>2. ASSUME handler # NoHandler PROVE Continues(handler, handler)
  BY <1>2 DEF PairInv, PairTypeOK, ReadsInOrder, Continues
<1>3. \/ UNCHANGED <<handler, toRobot>>
      \/ DoOta(handler)
      \/ handler # NoHandler /\ \E key, next : Asks(handler, key, next)
      \/ handler # NoHandler /\ \E x : /\ handler' = [handler EXCEPT !.awaits = x]
                                      /\ UNCHANGED toRobot
  BY DEF Forms, ChooseWifi, ClickConnectWifi, OtasListed, ClickOta, FormsHaveARobot,
         ClickConnectCloud, LoggedIn, ClickFinishSetup, StatusTimesOut, bleVars
<1>4. ASSUME handler = NoHandler, DoOta(handler)
      PROVE  UNCHANGED <<handler, toRobot>>
  BY <1>4 DEF DoOta
<1>5. CASE UNCHANGED <<handler, toRobot>> BY <1>1, <1>5 DEF Stays
<1>6. CASE handler # NoHandler /\ ~UNCHANGED <<handler, toRobot>>
  <2>1. Continues(handler, handler) BY <1>2, <1>6
  <2>5. Continues(handler, handler') /\ Talks
    <3>1. CASE DoOta(handler) BY <1>6, <2>1, <3>1, DoOtaTalks
    <3>2. CASE \E key, next : Asks(handler, key, next)
      BY <1>6, <2>1, <3>2, AsksTalks
    <3>3. CASE \E x : /\ handler' = [handler EXCEPT !.awaits = x]
                      /\ UNCHANGED toRobot
      <4>1. PICK x : handler' = [handler EXCEPT !.awaits = x] BY <3>3
      <4>2. Continues(handler, [handler EXCEPT !.awaits = x])
        BY <2>1, FieldsContinue
      <4>. QED BY <3>3, <4>1, <4>2, SilenceTalks
    <3>. QED BY <1>3, <1>6, <3>1, <3>2, <3>3
  <2>. QED BY <1>1, <1>6, <2>5 DEF Stays, TalksStep
<1>. QED BY <1>3, <1>4, <1>5, <1>6

\* These steps keep the invariant.
LEMMA StaysKeepsInv ==
    ASSUME PairInv, Stays
    PROVE  PairInv'
<1>1. CASE TalksStep BY <1>1, TalkingKeepsInv DEF TalksStep
<1>2. CASE UNCHANGED <<device, link, conns, toRobot, toPage, handler, peer, known>>
  <2>1. /\ PairTypeOK' /\ LinkHasRobot' /\ HandshakeFirst' /\ RequestNext'
        /\ KeysAreHandlers'
    BY <1>2 DEF PairInv, PairTypeOK, LinkHasRobot, HandshakeFirst, RequestNext,
           KeysAreHandlers, Pending, KeysSent
  <2>2. /\ KeysAgree' /\ RobotRemembers' /\ NoncesFollow' /\ SealedInOrder'
        /\ ReadsInOrder'
    BY <1>2 DEF PairInv, KeysAgree, RobotRemembers, NoncesFollow, SealedInOrder,
           ReadsInOrder
  <2>. QED BY <2>1, <2>2 DEF PairInv
<1>. QED BY <1>1, <1>2 DEF Stays

-----------------------------------------------------------------------------
(* The other steps of the page.                                             *)
LEMMA NewHandlerIsHandler ==
    ASSUME NEW version, Supported(version)
    PROVE  /\ IsHandler(NewHandler(version)) /\ ~NewHandler(version).encrypted
           /\ NewHandler(version).dec = NoNonce
BY DEF IsHandler, NewHandler, Supported, Nonces

\* HandleHandshake().
LEMMA HandshakeKeepsInv ==
    ASSUME PairInv, Handshake
    PROVE  PairInv' /\ handler = NoHandler
<1> USE DEF PairInv
<1>1. /\ link = "up" /\ toPage # <<>> /\ toPage' = Tail(toPage)
      /\ Head(toPage).type = "handshake"
      /\ UNCHANGED <<device, link, conns, peer, known>>
  BY DEF Handshake, Hears, robotVars
<1>2. Head(toPage) \in Range(toPage) BY <1>1, SeqTail DEF PairTypeOK
<1>3. /\ Len(toPage) = 1 /\ toRobot = <<>> /\ handler = NoHandler
      /\ peer.stage = "greeted"
  BY <1>1, <1>2 DEF HandshakeFirst, Pending
<1>4. toPage' = <<>> /\ Range(toPage') = {} /\ IsSequence(toPage')
  BY <1>1, <1>3, SeqTail, SeqEmpty DEF PairTypeOK
<1>5. \/ handler' = NoHandler /\ toRobot' = <<>>
      \/ /\ IsHandler(handler') /\ handler'.dec = NoNonce
         /\ toRobot' = <<Message("handshake", Data)>>
  <2>1. CASE ~Supported(Data) BY <1>3, <2>1 DEF Handshake
  <2>2. CASE Supported(Data)
    <3>1. handler' = NewHandler(Data)
          /\ toRobot' = Told(NewHandler(Data), Message("handshake", Data))
      BY <2>2 DEF Handshake
    <3>2. Told(NewHandler(Data), Message("handshake", Data))
            = Append(toRobot, Message("handshake", Data))
      BY <1>1, <2>2, NewHandlerIsHandler DEF Told
    <3>3. Append(<<>>, Message("handshake", Data)) = <<Message("handshake", Data)>>
      OBVIOUS
    <3>. QED BY <1>3, <2>2, <3>1, <3>2, <3>3, NewHandlerIsHandler
  <2>. QED BY <2>1, <2>2
<1>6. IsSequence(toRobot') /\ \A m \in Range(toRobot') : ~KeyMessage(m)
  BY <1>5, SeqEmpty, SeqSingle, NotKeys
<1>7. PairTypeOK' BY <1>1, <1>4, <1>5, <1>6 DEF PairTypeOK
<1>8. LinkHasRobot' BY <1>1 DEF LinkHasRobot
<1>9. HandshakeFirst' /\ RequestNext' /\ SealedInOrder' /\ KeysAreHandlers'
  BY <1>4, <1>6 DEF HandshakeFirst, RequestNext, SealedInOrder, KeysAreHandlers,
         Pending, KeysSent
<1>10. KeysAgree' /\ RobotRemembers' /\ NoncesFollow'
  BY <1>1, <1>3 DEF KeysAgree, RobotRemembers, NoncesFollow, Agreed
<1>11. ReadsInOrder' BY <1>5 DEF ReadsInOrder
<1>. QED BY <1>3, <1>7, <1>8, <1>9, <1>10, <1>11

\* The answer to the connection request.
LEMMA OffersKeys ==
    ASSUME PairInv, Resumes \/ PairsAnew
    PROVE  /\ PairInv' /\ link = "up" /\ handler # NoHandler /\ IsHandler(handler')
           /\ handler'.asked = handler.asked
           /\ handler'.keysAuthorized = handler.keysAuthorized
<1> USE DEF PairInv
<1>1. /\ link = "up" /\ toPage # <<>> /\ toPage' = Tail(toPage)
      /\ Head(toPage).type = "request"
      /\ UNCHANGED <<device, link, conns, peer, known>>
      /\ handler # NoHandler
  BY DEF Resumes, PairsAnew, HearsRequest, Hears, robotVars, SameVersion
<1>2. Head(toPage) \in Range(toPage) BY <1>1, SeqTail DEF PairTypeOK
<1>3. Len(toPage) = 1 /\ ~KeysSent /\ peer.stage = "requested"
  BY <1>1, <1>2 DEF RequestNext, Pending
<1>4. toPage' = <<>> /\ Range(toPage') = {} /\ IsSequence(toPage')
  BY <1>1, <1>3, SeqTail, SeqEmpty DEF PairTypeOK
<1>5. IsHandler(handler) /\ device \in Robots
  BY <1>1 DEF PairTypeOK, LinkHasRobot
<1>6. /\ IsHandler(handler') /\ handler'.remote = device
      /\ handler'.asked = handler.asked
      /\ handler'.keysAuthorized = handler.keysAuthorized
      /\ handler'.dec = handler.dec
      /\ \E type \in {"first time", "reconnect"} :
            toRobot' = Told(handler', Message(type, handler'.keys))
  <2>1. CASE Resumes
    <3> DEFINE s == Session(device)
               b == <<s.keys, s.crypto>> \notin known[device]
               h == [handler EXCEPT !.remote = device, !.keys = s.keys,
                         !.crypto = s.crypto, !.shares = s.shares,
                         !.firstTimePair = FALSE, !.astray = b]
    <3>1. handler' = h /\ toRobot' = Told(h, Message("reconnect", s.keys))
      BY <2>1 DEF Resumes
    <3>2. s.shares \in BOOLEAN BY DEF Session
    <3>3. b \in BOOLEAN OBVIOUS
    <3> HIDE DEF s, b
    <3>4. /\ IsHandler(h) /\ h.remote = device /\ h.asked = handler.asked
          /\ h.keysAuthorized = handler.keysAuthorized /\ h.dec = handler.dec
          /\ h.keys = s.keys
      BY <1>5, <3>2, <3>3 DEF IsHandler
    <3>. QED BY <3>1, <3>4
  <2>2. CASE PairsAnew
    <3> DEFINE h == [handler EXCEPT !.remote = device, !.keys = minted']
    <3>1. handler' = h /\ toRobot' = Told(h, Message("first time", minted'))
      BY <2>2 DEF PairsAnew
    <3>2. /\ IsHandler(h) /\ h.remote = device /\ h.asked = handler.asked
          /\ h.keysAuthorized = handler.keysAuthorized /\ h.dec = handler.dec
          /\ h.keys = minted'
      BY <1>5 DEF IsHandler
    <3>. QED BY <3>1, <3>2
  <2>. QED BY <2>1, <2>2
<1>7. /\ IsSequence(toRobot')
      /\ \A m \in Range(toRobot') :
            m \in Range(toRobot) \/ m.data = handler'.keys
  <2>1. PICK type : toRobot' = Told(handler', Message(type, handler'.keys))
    BY <1>6
  <2> DEFINE m == Message(type, handler'.keys)
             n == IF handler'.encrypted
                  THEN Sealed(m, handler'.crypto, handler'.enc) ELSE m
  <2>2. n.data = handler'.keys BY DEF Message, Sealed
  <2>3. toRobot' = Append(toRobot, n) BY <1>1, <2>1 DEF Told
  <2> HIDE DEF n
  <2>. QED BY <2>2, <2>3, SeqAppend DEF PairTypeOK
<1>8. handler' # NoHandler BY <1>6, HandlerIsOne
<1>9. PairTypeOK' BY <1>1, <1>4, <1>6, <1>7 DEF PairTypeOK
<1>10. LinkHasRobot' BY <1>1 DEF LinkHasRobot
<1>11. HandshakeFirst' /\ RequestNext' /\ SealedInOrder'
  BY <1>1, <1>3, <1>4 DEF HandshakeFirst, RequestNext, SealedInOrder, Pending
<1>12. KeysAreHandlers'
  BY <1>1, <1>3, <1>6, <1>7, <1>8 DEF KeysAreHandlers, KeysSent
<1>13. KeysAgree' /\ RobotRemembers' /\ NoncesFollow'
  BY <1>1, <1>3 DEF KeysAgree, RobotRemembers, NoncesFollow, Agreed
<1>14. ReadsInOrder' BY <1>1, <1>6 DEF ReadsInOrder
<1>. QED BY <1>1, <1>6, <1>9, <1>10, <1>11, <1>12, <1>13, <1>14

\* The robot's greeting.
LEMMA ConnectedKeepsInv ==
    ASSUME PairInv, Connected
    PROVE  PairInv'
<1> USE DEF PairInv
<1> DEFINE m == Message("handshake", versions[device])
<1>1. /\ link = "connecting" /\ link' = "up" /\ toPage' = <<m>>
      /\ UNCHANGED <<device, conns, toRobot, handler, known>>
  BY DEF Connected
<1>2. IsPeer(peer') /\ peer'.stage = "greeted"
  BY DEF Connected, IsPeer, Stages, Nonces
<1>3. m.type = "handshake" BY DEF Message
<1> HIDE DEF m
<1>4. IsSequence(toPage') /\ Range(toPage') = {m} /\ Len(toPage') = 1
  BY <1>1, SeqSingle
<1>5. toRobot = <<>> /\ handler = NoHandler /\ device \in Robots /\ conns # 0
  BY <1>1 DEF LinkHasRobot
<1>6. Range(toRobot') = {} BY <1>1, <1>5, SeqEmpty
<1>7. PairTypeOK' BY <1>1, <1>2, <1>4 DEF PairTypeOK
<1>8. LinkHasRobot' BY <1>1, <1>5 DEF LinkHasRobot
<1>9. HandshakeFirst'
  BY <1>1, <1>2, <1>3, <1>4, <1>5, <1>6 DEF HandshakeFirst, Pending, KeysSent
<1>10. RequestNext' /\ SealedInOrder' BY <1>3, <1>4 DEF RequestNext, SealedInOrder, Pending
<1>11. KeysAreHandlers' BY <1>6 DEF KeysAreHandlers
<1>12. KeysAgree' /\ RobotRemembers' /\ NoncesFollow' /\ ReadsInOrder'
  BY <1>1, <1>2, <1>5 DEF KeysAgree, RobotRemembers, NoncesFollow, ReadsInOrder, Agreed
<1>. QED BY <1>7, <1>8, <1>9, <1>10, <1>11, <1>12

\* The link goes, or was not up.
LEMMA LinkGone ==
    ASSUME PairInv, toRobot' = <<>>, toPage' = <<>>, UNCHANGED <<peer, known>>,
           link' \in {"idle", "connecting", "closed"}, conns' \in {conns, conns + 1},
           device' \in Robots \cup {NoRobot},
           link' # "idle" => device' \in Robots /\ conns' # 0,
           handler' # NoHandler => IsHandler(handler') /\ link' = "closed",
           handler' # NoHandler =>
              /\ handler # NoHandler /\ handler'.dec = handler.dec
              /\ handler'.keysAuthorized = handler.keysAuthorized
    PROVE  PairInv'
<1>1. ReadsInOrder' BY DEF PairInv, ReadsInOrder
<1>2. LinkHasRobot' BY DEF PairInv, LinkHasRobot
<1>3. PairTypeOK' BY SeqEmpty DEF PairInv, PairTypeOK
<1>. QED BY <1>1, <1>2, <1>3, NotUpKeepsInv

\* tryDisconnect() on whatever the page is connected to.
LEMMA DisconnectKeepsInv ==
    ASSUME PairInv, TryDisconnect, handler' = handler, UNCHANGED <<peer, known>>
    PROVE  PairInv'
<1>1. /\ toRobot' = <<>> /\ toPage' = <<>> /\ UNCHANGED <<device, conns>>
      /\ link' \in {"idle", "closed"}
      /\ link' = "closed" <=> link \in {"up", "closed"}
  BY DEF TryDisconnect, PairInv, PairTypeOK
<1>. QED BY <1>1, LinkGone DEF PairInv, PairTypeOK, LinkHasRobot

\* A version 6 robot that is not in pairing mode.
LEMMA RefusesKeepsInv ==
    ASSUME PairInv, RefusesToPair
    PROVE  /\ PairInv' /\ handler # NoHandler /\ IsHandler(handler')
           /\ handler'.asked = handler.asked
           /\ handler'.keysAuthorized = handler.keysAuthorized
<1>1. /\ handler # NoHandler /\ UNCHANGED <<peer, known>> /\ TryDisconnect
      /\ link = "up" /\ handler' = [handler EXCEPT !.remote = device]
  BY DEF RefusesToPair, SameVersion, robotVars
<1>2. /\ toRobot' = <<>> /\ toPage' = <<>> /\ UNCHANGED <<device, conns>>
      /\ link' = "closed"
  BY <1>1 DEF TryDisconnect
<1>3. IsHandler(handler) /\ device \in Robots /\ conns # 0
  BY <1>1 DEF PairInv, PairTypeOK, LinkHasRobot
<1>4. /\ IsHandler(handler') /\ handler'.dec = handler.dec
      /\ handler'.asked = handler.asked
      /\ handler'.keysAuthorized = handler.keysAuthorized
  BY <1>1, <1>3 DEF IsHandler
<1>. QED BY <1>1, <1>2, <1>3, <1>4, LinkGone

\* The other ways to lose a robot, and picking one.
LEMMA LosesKeepsInv ==
    ASSUME PairInv,
           \/ Lost \/ Disconnected \/ ConnectFails \/ Reload
           \/ \E r \in Robots : Pick(r)
           \/ \E c \in timers : TimerFires(c)
    PROVE  PairInv'
<1> USE DEF robotVars, keyVars
<1>1. CASE Lost
  BY <1>1, LinkGone DEF Lost, PairInv, PairTypeOK, LinkHasRobot
<1>2. CASE Disconnected
  BY <1>2, LinkGone DEF Disconnected, PairInv, LinkHasRobot
<1>3. CASE ConnectFails
  BY <1>3, LinkGone DEF ConnectFails, PairInv, PairTypeOK, LinkHasRobot
<1>4. CASE Reload
  BY <1>4, LinkGone DEF Reload
<1>5. CASE \E r \in Robots : Pick(r)
  <2>1. conns \in Nat BY DEF PairInv, PairTypeOK
  <2>. QED BY <1>5, <2>1, LinkGone DEF Pick, PairInv, LinkHasRobot
<1>6. CASE \E c \in timers : TimerFires(c)
  BY <1>6, DisconnectKeepsInv DEF TimerFires
<1>. QED BY <1>1, <1>2, <1>3, <1>4, <1>5, <1>6

-----------------------------------------------------------------------------
(* The robot.                                                               *)
\* The robot takes the next message and sends m.
LEMMA RobotSends ==
    ASSUME PairInv, RobotStep
    PROVE  /\ link = "up" /\ toRobot # <<>> /\ toRobot' = Tail(toRobot)
           /\ IsSequence(toRobot') /\ Range(toRobot') \subseteq Range(toRobot)
           /\ Head(toRobot) \in Range(toRobot)
           /\ UNCHANGED <<device, link, conns, handler>>
           /\ device \in Robots /\ conns # 0 /\ conns \in Nat
           /\ Understands(Head(toRobot)) /\ RobotHears(Head(toRobot))
<1>1. /\ link = "up" /\ toRobot # <<>> /\ toRobot' = Tail(toRobot)
      /\ UNCHANGED <<device, link, conns, handler>>
      /\ Understands(Head(toRobot)) /\ RobotHears(Head(toRobot))
  BY DEF RobotStep
<1>. QED BY <1>1, SeqTail DEF PairInv, PairTypeOK, LinkHasRobot

\* The robot answers the handshake with its request.
LEMMA RobotGreets ==
    ASSUME PairInv, RobotStep, peer.stage = "greeted",
           toPage' = Append(toPage, Message("request", peer.pairing)),
           peer' = Step("requested"), UNCHANGED known
    PROVE  PairInv'
<1> USE DEF PairInv
<1> DEFINE m == Message("request", peer.pairing)
<1>1. /\ link = "up" /\ toRobot # <<>>
      /\ IsSequence(toRobot') /\ Range(toRobot') \subseteq Range(toRobot)
      /\ UNCHANGED <<device, link, conns, handler>>
      /\ device \in Robots /\ conns # 0 /\ conns \in Nat
  BY RobotSends
<1>2. m.type = "request" BY DEF Message
<1> HIDE DEF m
<1>3. toPage = <<>> BY <1>1 DEF HandshakeFirst
<1>4. IsSequence(toPage') /\ Range(toPage') = {m} /\ Len(toPage') = 1
  <2>1. toPage' = Append(<<>>, m) BY <1>3 DEF m
  <2>2. Append(<<>>, m) = <<m>> OBVIOUS
  <2>. QED BY <2>1, <2>2, SeqSingle
<1>5. IsPeer(peer') /\ peer'.stage = "requested"
  BY DEF PairTypeOK, IsPeer, Step, Stages
<1>6. ~KeysSent BY <1>1 DEF HandshakeFirst
<1>7. PairTypeOK' BY <1>1, <1>4, <1>5 DEF PairTypeOK
<1>8. LinkHasRobot' BY <1>1 DEF LinkHasRobot
<1>9. HandshakeFirst' BY <1>2, <1>4, <1>5 DEF HandshakeFirst, Pending
<1>10. RequestNext' BY <1>1, <1>4, <1>5, <1>6 DEF RequestNext, KeysSent
<1>11. SealedInOrder' BY <1>2, <1>4 DEF SealedInOrder
<1>12. KeysAreHandlers' BY <1>1 DEF KeysAreHandlers
<1>13. KeysAgree' /\ RobotRemembers' /\ NoncesFollow' /\ ReadsInOrder'
  BY <1>1, <1>5 DEF KeysAgree, RobotRemembers, NoncesFollow, ReadsInOrder, Agreed
<1>. QED BY <1>7, <1>8, <1>9, <1>10, <1>11, <1>12, <1>13

\* Adding m to what is on its way to the page.
LEMMA PageGets ==
    ASSUME PairInv, NEW m, toPage' = Append(toPage, m)
    PROVE  IsSequence(toPage') /\ Range(toPage') = Range(toPage) \cup {m}
BY SeqAppend DEF PairInv, PairTypeOK

\* The robot takes the keys, which are the handler's, and chooses a secret.
LEMMA RobotAgrees ==
    ASSUME PairInv, RobotStep, peer.stage = "requested",
           SecretFor(Head(toRobot)) # {},
           toPage' = Append(toPage, Message("nonce", 0)), UNCHANGED known,
           peer' = [peer EXCEPT !.stage = "nonce", !.keys = Head(toRobot).data,
                       !.secret = CHOOSE s \in SecretFor(Head(toRobot)) : TRUE,
                       !.enc = <<conns, 0>>, !.dec = <<conns, 0>>]
    PROVE  PairInv'
<1> USE DEF PairInv
<1> DEFINE m == Message("nonce", 0)
           k == Head(toRobot)
           z == CHOOSE s \in SecretFor(Head(toRobot)) : TRUE
<1>1. /\ link = "up" /\ toRobot # <<>> /\ k \in Range(toRobot)
      /\ IsSequence(toRobot') /\ Range(toRobot') \subseteq Range(toRobot)
      /\ UNCHANGED <<device, link, conns, handler>>
      /\ device \in Robots /\ conns # 0 /\ conns \in Nat
  BY RobotSends
<1>2. m.type = "nonce" BY DEF Message
<1>3. KeyMessage(k) BY DEF SecretFor, KeyMessage
<1> HIDE DEF m
<1>4. IsSequence(toPage') /\ Range(toPage') = Range(toPage) \cup {m}
  BY PageGets DEF m
<1>5. IsPeer(peer') /\ peer'.stage = "nonce" /\ peer'.keys = k.data
      /\ peer'.enc = <<conns, 0>>
  <2>1. <<conns, 0>> \in Nonces BY <1>1 DEF Nonces
  <2>2. IsPeer(peer) BY DEF PairTypeOK
  <2> DEFINE d == k.data
  <2>3. peer' = [peer EXCEPT !.stage = "nonce", !.keys = d, !.secret = z,
                     !.enc = <<conns, 0>>, !.dec = <<conns, 0>>]
    OBVIOUS
  <2> HIDE DEF z, d
  <2>4. IsPeer(peer') /\ peer'.stage = "nonce" /\ peer'.keys = d
      /\ peer'.enc = <<conns, 0>>
    BY ONLY <2>1, <2>2, <2>3 DEF IsPeer, Stages
  <2>. QED BY <2>4 DEF d
<1>6. handler # NoHandler /\ k.data = handler.keys /\ handler.remote = device
  BY <1>1, <1>3 DEF KeysAreHandlers
<1>7. ~Pending("request")' /\ ~Pending("handshake")'
  BY <1>1, <1>2, <1>3, <1>4 DEF RequestNext, HandshakeFirst, Pending, KeysSent
<1>8. PairTypeOK' BY <1>1, <1>4, <1>5 DEF PairTypeOK
<1>9. LinkHasRobot' BY <1>1 DEF LinkHasRobot
<1>10. HandshakeFirst' /\ RequestNext' BY <1>5, <1>7 DEF HandshakeFirst, RequestNext
<1>11. SealedInOrder' BY <1>2, <1>4 DEF SealedInOrder
<1>12. KeysAreHandlers' BY <1>1 DEF KeysAreHandlers
<1>13. KeysAgree' BY <1>1, <1>5, <1>6 DEF KeysAgree
<1>14. RobotRemembers' /\ NoncesFollow' /\ ReadsInOrder'
  BY <1>1, <1>5 DEF RobotRemembers, NoncesFollow, ReadsInOrder
<1>. QED BY <1>8, <1>9, <1>10, <1>11, <1>12, <1>13, <1>14

\* The robot goes on with the keys and the secret it has agreed on.
LEMMA RobotGoesOn ==
    ASSUME PairInv, RobotStep, peer.stage \in Agreed, peer'.stage \in Agreed,
           IsPeer(peer'), peer'.keys = peer.keys, peer'.secret = peer.secret,
           NEW m, toPage' = Append(toPage, m), SealedInOrder',
           m.type \notin {"handshake", "request"},
           known' = [r \in Robots |-> known'[r]],
           RobotRemembers', NoncesFollow'
    PROVE  PairInv'
<1> USE DEF PairInv
<1>1. /\ link = "up" /\ toRobot # <<>>
      /\ IsSequence(toRobot') /\ Range(toRobot') \subseteq Range(toRobot)
      /\ UNCHANGED <<device, link, conns, handler>>
      /\ device \in Robots /\ conns # 0 /\ conns \in Nat
  BY RobotSends
<1>2. IsSequence(toPage') /\ Range(toPage') = Range(toPage) \cup {m}
  BY PageGets
<1>3. ~Pending("request")' /\ ~Pending("handshake")'
  BY <1>2 DEF RequestNext, HandshakeFirst, Pending, Agreed
<1>4. PairTypeOK' BY <1>1, <1>2 DEF PairTypeOK
<1>5. LinkHasRobot' BY <1>1 DEF LinkHasRobot
<1>6. HandshakeFirst' /\ RequestNext' BY <1>3 DEF HandshakeFirst, RequestNext, Agreed
<1>7. KeysAreHandlers' BY <1>1 DEF KeysAreHandlers
<1>8. KeysAgree' /\ ReadsInOrder' BY <1>1 DEF KeysAgree, ReadsInOrder
<1>. QED BY <1>4, <1>5, <1>6, <1>7, <1>8

\* A sealed message is what it was, and locked.
LEMMA SealedKeeps ==
    ASSUME NEW type, NEW data, NEW secret, NEW nonce
    PROVE  /\ Sealed(Message(type, data), secret, nonce).type = type
           /\ Sealed(Message(type, data), secret, nonce).lock = <<secret, nonce>>
           /\ Sealed(Message(type, data), secret, nonce).lock # Open
<1>1. Sealed(Message(type, data), secret, nonce).type = type BY DEF Sealed, Message
<1>2. Sealed(Message(type, data), secret, nonce).lock = <<secret, nonce>>
  BY DEF Sealed
<1>3. <<secret, nonce>> # Open BY DEF Open
<1>. QED BY <1>1, <1>2, <1>3

\* The robot hears the acknowledgement and challenges.
LEMMA RobotChallenges ==
    ASSUME PairInv, RobotStep, peer.stage = "nonce", UNCHANGED known,
           toPage' = Append(toPage,
                            Sealed(Message("challenge", 7), peer.secret, peer.enc)),
           peer' = [peer EXCEPT !.stage = "challenged", !.enc = After(@)]
    PROVE  PairInv'
<1> DEFINE m == Sealed(Message("challenge", 7), peer.secret, peer.enc)
<1>1. UNCHANGED <<device, link, conns>> /\ link = "up" /\ conns \in Nat
  BY RobotSends
<1>2. peer.enc = <<conns, 0>> /\ IsPeer(peer)
  BY <1>1 DEF PairInv, PairTypeOK, NoncesFollow
<1>3. After(peer.enc) = <<conns, 1>> BY <1>2 DEF After
<1>4. /\ IsPeer(peer') /\ peer'.stage = "challenged" /\ peer'.enc = <<conns, 1>>
      /\ peer'.keys = peer.keys /\ peer'.secret = peer.secret
  <2>1. <<conns, 1>> \in Nonces BY <1>1 DEF Nonces
  <2>. QED BY <1>2, <1>3, <2>1 DEF IsPeer, Stages
<1>5. m.type = "challenge" /\ m.lock = <<peer.secret, <<conns, 0>>>>
  BY <1>2, SealedKeeps
<1> HIDE DEF m
<1>6. Range(toPage') = Range(toPage) \cup {m} BY PageGets DEF m
<1>7. SealedInOrder' BY <1>1, <1>4, <1>5, <1>6 DEF PairInv, SealedInOrder
<1>8. RobotRemembers' /\ NoncesFollow' BY <1>1, <1>4 DEF RobotRemembers, NoncesFollow
<1>9. known' = [r \in Robots |-> known'[r]] BY DEF PairInv, PairTypeOK
<1>10. m.type \notin {"handshake", "request"} BY <1>5
<1>11. toPage' = Append(toPage, m) BY DEF m
<1>. QED BY <1>4, <1>7, <1>8, <1>9, <1>10, <1>11, RobotGoesOn DEF Agreed

\* q is peer p at another stage and with other nonces.
AtStage(p, q, stage, enc) ==
    /\ IsPeer(q) /\ q.stage = stage /\ q.enc = enc
    /\ q.keys = p.keys /\ q.secret = p.secret

\* The robot decrypts a message.
LEMMA PeerReads ==
    ASSUME NEW p, IsPeer(p), NEW d
    PROVE  AtStage(p, [p EXCEPT !.dec = d], p.stage, p.enc)
BY DEF IsPeer, AtStage

\* The robot seals a message and goes on.
LEMMA PeerSends ==
    ASSUME NEW p, IsPeer(p), NEW stage \in Stages, NEW e \in Nonces
    PROVE  /\ AtStage(p, [p EXCEPT !.stage = stage, !.enc = e], stage, e)
           /\ AtStage(p, [p EXCEPT !.enc = e], p.stage, e)
<1>1. AtStage(p, [p EXCEPT !.stage = stage, !.enc = e], stage, e)
  BY DEF IsPeer, AtStage
<1>2. AtStage(p, [p EXCEPT !.enc = e], p.stage, e) BY DEF IsPeer, AtStage
<1>. QED BY <1>1, <1>2

\* The challenge is met: the robot remembers the keys, then says so.
LEMMA RobotOpens ==
    ASSUME PairInv, RobotStep, peer.stage = "challenged",
           NEW p, p = [peer EXCEPT !.dec = After(@)],
           toPage' = Append(toPage, Sealed(Message("success", 0), p.secret, p.enc)),
           peer' = [p EXCEPT !.stage = "open", !.enc = After(@)],
           known' = [known EXCEPT ![device] = @ \cup {<<p.keys, p.secret>>}]
    PROVE  PairInv'
<1> DEFINE m == Sealed(Message("success", 0), p.secret, p.enc)
           d == After(peer.dec)
<1>1. /\ UNCHANGED <<device, link, conns>> /\ link = "up" /\ conns \in Nat
      /\ device \in Robots
  BY RobotSends
<1>2. peer.enc = <<conns, 1>> /\ IsPeer(peer)
  BY <1>1 DEF PairInv, PairTypeOK, NoncesFollow
<1>3. p = [peer EXCEPT !.dec = d] OBVIOUS
<1> HIDE DEF d
<1>4. AtStage(peer, p, "challenged", <<conns, 1>>) BY ONLY <1>2, <1>3, PeerReads,
        peer.stage = "challenged"
<1>5. After(p.enc) = <<conns, 2>> /\ <<conns, 2>> \in Nat \X Nat
  BY <1>1, <1>4 DEF After, AtStage
<1>6. peer' = [p EXCEPT !.stage = "open", !.enc = <<conns, 2>>] BY <1>5
<1>16. AtStage(p, peer', "open", <<conns, 2>>)
  <2> DEFINE e == <<conns, 2>>
  <2>1. e \in Nonces BY <1>5 DEF Nonces
  <2>2. peer' = [p EXCEPT !.stage = "open", !.enc = e] BY <1>6
  <2> HIDE DEF e
  <2>3. IsPeer(p) /\ "open" \in Stages BY <1>4 DEF Stages, AtStage
  <2>4. AtStage(p, [p EXCEPT !.stage = "open", !.enc = e], "open", e)
    BY ONLY <2>1, <2>3, PeerSends
  <2>. QED BY <2>2, <2>4 DEF e
<1>7. /\ IsPeer(peer') /\ peer'.stage = "open" /\ peer'.enc = <<conns, 2>>
      /\ peer'.keys = peer.keys /\ peer'.secret = peer.secret
  BY <1>4, <1>16 DEF AtStage
<1>8. m.type = "success" /\ m.lock # Open BY ONLY SealedKeeps
<1> HIDE DEF m
<1>9. Range(toPage') = Range(toPage) \cup {m} BY PageGets DEF m
<1>10. SealedInOrder' BY <1>1, <1>7, <1>8, <1>9 DEF PairInv, SealedInOrder
<1>11. known' = [r \in Robots |-> known'[r]]
       /\ known'[device] = known[device] \cup {<<p.keys, p.secret>>}
  BY <1>1 DEF PairInv, PairTypeOK
<1>12. RobotRemembers' BY <1>1, <1>4, <1>7, <1>11 DEF RobotRemembers, AtStage
<1>13. NoncesFollow' BY <1>5, <1>7 DEF NoncesFollow
<1>14. m.type \notin {"handshake", "request"} BY <1>8
<1>15. toPage' = Append(toPage, m) BY DEF m
<1>. QED BY <1>7, <1>10, <1>11, <1>12, <1>13, <1>14, <1>15, RobotGoesOn DEF Agreed

\* An answer.
LEMMA RobotAnswers ==
    ASSUME PairInv, RobotStep, peer.stage = "open", UNCHANGED known,
           NEW data, NEW p, p = [peer EXCEPT !.dec = After(@)],
           toPage' = Append(toPage, Sealed(Message("answer", data), p.secret, p.enc)),
           peer' = [p EXCEPT !.enc = After(@)]
    PROVE  PairInv'
<1> DEFINE m == Sealed(Message("answer", data), p.secret, p.enc)
           d == After(peer.dec)
<1>1. UNCHANGED <<device, link, conns>> /\ link = "up" BY RobotSends
<1>2. peer.enc \in Nat \X Nat /\ peer.enc[2] >= 2 /\ IsPeer(peer)
  BY <1>1 DEF PairInv, PairTypeOK, NoncesFollow
<1>3. p = [peer EXCEPT !.dec = d] OBVIOUS
<1> HIDE DEF d
<1>4. AtStage(peer, p, "open", peer.enc)
  BY ONLY <1>2, <1>3, PeerReads, peer.stage = "open"
<1>5. After(p.enc) \in Nat \X Nat /\ After(p.enc)[2] >= 2
  BY <1>2, <1>4 DEF After, AtStage
<1>6. /\ IsPeer(peer') /\ peer'.stage = "open" /\ peer'.enc = After(p.enc)
      /\ peer'.keys = peer.keys /\ peer'.secret = peer.secret
  <2> DEFINE e == After(p.enc)
  <2>1. peer' = [p EXCEPT !.enc = e] /\ e \in Nonces BY <1>5 DEF Nonces
  <2> HIDE DEF e
  <2>2. IsPeer(p) /\ p.stage = "open" /\ "open" \in Stages BY <1>4 DEF Stages, AtStage
  <2>3. AtStage(p, [p EXCEPT !.enc = e], p.stage, e)
    BY ONLY <2>1, <2>2, PeerSends
  <2>4. AtStage(p, peer', "open", e) BY ONLY <2>1, <2>2, <2>3
  <2>. QED BY <1>4, <2>4 DEF e, AtStage
<1>7. m.type = "answer" /\ m.lock = <<peer.secret, peer.enc>>
  BY <1>4, SealedKeeps DEF AtStage
<1> HIDE DEF m
<1>8. Range(toPage') = Range(toPage) \cup {m} BY PageGets DEF m
<1>9. SealedInOrder' BY <1>1, <1>2, <1>6, <1>7, <1>8 DEF PairInv, SealedInOrder
<1>10. RobotRemembers' BY <1>1, <1>6 DEF PairInv, RobotRemembers
<1>11. NoncesFollow' BY <1>5, <1>6 DEF NoncesFollow
<1>12. m.type \notin {"handshake", "request"} BY <1>7
<1>13. toPage' = Append(toPage, m) BY DEF m
<1>14. known' = [r \in Robots |-> known'[r]] BY DEF PairInv, PairTypeOK
<1>. QED BY <1>6, <1>9, <1>10, <1>11, <1>12, <1>13, <1>14, RobotGoesOn DEF Agreed

\* A request before the robot is paired.
LEMMA RobotPassesOver ==
    ASSUME PairInv, RobotStep, UNCHANGED <<toPage, known>>,
           NEW p, p = peer \/ p = [peer EXCEPT !.dec = After(@)], peer' = p
    PROVE  PairInv'
<1> USE DEF PairInv
<1>1. /\ link = "up" /\ toRobot # <<>>
      /\ IsSequence(toRobot') /\ Range(toRobot') \subseteq Range(toRobot)
      /\ UNCHANGED <<device, link, conns, handler>>
      /\ device \in Robots /\ conns # 0 /\ conns \in Nat
  BY RobotSends
<1>2. /\ IsPeer(peer') /\ peer'.stage = peer.stage /\ peer'.enc = peer.enc
      /\ peer'.keys = peer.keys /\ peer'.secret = peer.secret
  <2> DEFINE d == After(peer.dec)
  <2>1. IsPeer(peer) BY DEF PairTypeOK
  <2>2. p = peer \/ p = [peer EXCEPT !.dec = d] OBVIOUS
  <2> HIDE DEF d
  <2>3. AtStage(peer, [peer EXCEPT !.dec = d], peer.stage, peer.enc)
    BY ONLY <2>1, PeerReads
  <2>4. AtStage(peer, p, peer.stage, peer.enc) BY <2>1, <2>2, <2>3 DEF AtStage
  <2>. QED BY <2>4 DEF AtStage
<1>3. PairTypeOK' BY <1>1, <1>2 DEF PairTypeOK
<1>4. LinkHasRobot' BY <1>1 DEF LinkHasRobot
<1>5. HandshakeFirst' BY <1>1, <1>2 DEF HandshakeFirst, Pending, KeysSent
<1>6. RequestNext' BY <1>1, <1>2 DEF RequestNext, Pending, KeysSent
<1>7. SealedInOrder' BY <1>1, <1>2 DEF SealedInOrder
<1>8. KeysAreHandlers' BY <1>1 DEF KeysAreHandlers
<1>9. KeysAgree' /\ RobotRemembers' /\ NoncesFollow' /\ ReadsInOrder'
  BY <1>1, <1>2 DEF KeysAgree, RobotRemembers, NoncesFollow, ReadsInOrder, Agreed
<1>. QED BY <1>3, <1>4, <1>5, <1>6, <1>7, <1>8, <1>9

\* Every step of the robot keeps the invariant.
LEMMA RobotKeepsInv ==
    ASSUME PairInv, RobotStep
    PROVE  PairInv'
<1> DEFINE m == Head(toRobot)
           p == IF Encrypts THEN [peer EXCEPT !.dec = After(@)] ELSE peer
           sealed(x) == Sealed(x, p.secret, p.enc)
<1>1. \/ /\ p.stage = "greeted"
         /\ toPage' = Append(toPage, Message("request", p.pairing))
         /\ peer' = Step("requested") /\ UNCHANGED known
      \/ /\ p.stage = "requested" /\ SecretFor(m) # {}
         /\ toPage' = Append(toPage, Message("nonce", 0))
         /\ peer' = [p EXCEPT !.stage = "nonce", !.keys = m.data,
                         !.secret = CHOOSE s \in SecretFor(m) : TRUE,
                         !.enc = <<conns, 0>>, !.dec = <<conns, 0>>]
         /\ UNCHANGED known
      \/ /\ p.stage = "nonce"
         /\ toPage' = Append(toPage, sealed(Message("challenge", 7)))
         /\ peer' = [p EXCEPT !.stage = "challenged", !.enc = After(@)]
         /\ UNCHANGED known
      \/ /\ p.stage = "challenged"
         /\ toPage' = Append(toPage, sealed(Message("success", 0)))
         /\ peer' = [p EXCEPT !.stage = "open", !.enc = After(@)]
         /\ known' = [known EXCEPT ![device] = @ \cup {<<p.keys, p.secret>>}]
      \/ /\ p.stage = "open"
         /\ \E data : toPage' = Append(toPage, sealed(Message("answer", data)))
         /\ peer' = [p EXCEPT !.enc = After(@)]
         /\ UNCHANGED known
      \/ peer' = p /\ UNCHANGED <<toPage, known>>
  <2>1. RobotHears(m) BY RobotSends
  <2> USE DEF RobotHears
  <2>2. CASE p.stage = "greeted" /\ m.type = "handshake" BY ONLY <2>1, <2>2
  <2>3. CASE p.stage = "requested" /\ SecretFor(m) # {} BY ONLY <2>1, <2>3
  <2>4. CASE p.stage = "nonce" /\ m.type = "ack" BY ONLY <2>1, <2>4
  <2>5. CASE p.stage = "challenged" /\ m.type = "challenge" /\ m.data = 8
    BY ONLY <2>1, <2>5
  <2>6. CASE p.stage = "open" /\ m.type = "ask"
    <3>1. /\ \E good \in BOOLEAN, saves \in BOOLEAN :
                toPage' = Append(toPage, sealed(Message("answer",
                              [key |-> m.data, good |-> good, saves |-> saves])))
          /\ peer' = [p EXCEPT !.enc = After(@)]
          /\ UNCHANGED known
      BY ONLY <2>1, <2>6
    <3> HIDE DEF RobotHears
    <3>. QED BY ONLY <2>6, <3>1
  <2>7. CASE p.stage # "open" /\ m.type = "ask"
    BY ONLY <2>1, <2>2, <2>3, <2>4, <2>5, <2>7
  <2>. QED BY ONLY <2>1, <2>2, <2>3, <2>4, <2>5, <2>6, <2>7
<1>2. p.stage = peer.stage
  <2> DEFINE d == After(peer.dec)
  <2>1. IsPeer(peer) BY DEF PairInv, PairTypeOK
  <2>2. p = peer \/ p = [peer EXCEPT !.dec = d] OBVIOUS
  <2> HIDE DEF d, p
  <2>. QED BY ONLY <2>1, <2>2, PeerReads DEF AtStage
<1>3. /\ peer.stage \in {"challenged", "open"} => p = [peer EXCEPT !.dec = After(@)]
      /\ peer.stage \notin {"challenged", "open"} => p = peer
  BY DEF Encrypts
<1> HIDE DEF p
<1>4. CASE peer.stage = "greeted"
  BY <1>1, <1>2, <1>3, <1>4, RobotGreets, RobotPassesOver
<1>5. CASE peer.stage = "requested"
  BY <1>1, <1>2, <1>3, <1>5, RobotAgrees, RobotPassesOver
<1>6. CASE peer.stage = "nonce"
  BY <1>1, <1>2, <1>3, <1>6, RobotChallenges, RobotPassesOver
<1>7. CASE peer.stage = "challenged"
  BY <1>1, <1>2, <1>3, <1>7, RobotOpens, RobotPassesOver
<1>8. CASE peer.stage = "open"
  BY <1>1, <1>2, <1>3, <1>8, RobotAnswers, RobotPassesOver
<1>9. CASE peer.stage = "none"
  BY <1>1, <1>2, <1>3, <1>9, RobotPassesOver
<1>10. peer.stage \in Stages BY DEF PairInv, PairTypeOK, IsPeer
<1>. QED BY <1>4, <1>5, <1>6, <1>7, <1>8, <1>9, <1>10 DEF Stages

-----------------------------------------------------------------------------
(* The steps of the setup.                                                  *)
\* A robot that is there stays, and what has been asked of it and found of it
\* with it.
HandlerLasts ==
    handler # NoHandler =>
        /\ handler' # NoHandler
        /\ handler.asked => handler'.asked
        /\ handler.keysAuthorized => handler'.keysAuthorized

\* With the connection, the handler lasts.
LEMMA StaysLasts ==
    ASSUME PairInv, Stays
    PROVE  PairInv' /\ HandlerLasts
<1>1. CASE TalksStep
  BY <1>1, StaysKeepsInv, HandlerIsOne DEF TalksStep, Continues, HandlerLasts, Stays
<1>2. CASE UNCHANGED <<device, link, conns, toRobot, toPage, handler, peer, known>>
  BY <1>2, StaysKeepsInv DEF HandlerLasts, Stays
<1>. QED BY <1>1, <1>2 DEF Stays

\* Steps of the page alone.
LEMMA PageAloneLasts ==
    ASSUME PairInv,
           \/ ClickDiscover \/ CancelsSelect \/ TypeConnect \/ TypeClear \/ TypeCtrlC
           \/ UNCHANGED vars
    PROVE  PairInv' /\ HandlerLasts
<1>1. UNCHANGED <<device, link, conns, toRobot, toPage, handler, peer, known>>
  BY DEF ClickDiscover, CancelsSelect, TypeConnect, TypeClear, TypeCtrlC, vars,
         pairVars, bleVars, robotVars
<1>. QED BY <1>1, StaysLasts DEF Stays

\* Messages taken, and what is typed and clicked.
LEMMA PageLasts ==
    ASSUME PairInv, FormsHaveARobot,
           \/ ReadyForPin \/ Encrypted \/ Answered \/ StatusTimesOut \/ Forms
           \/ \E pin \in Pins : TypePin(pin)
           \/ \E pin \in Pins, auto \in BOOLEAN : ClickEnterPin(pin, auto)
    PROVE  PairInv' /\ HandlerLasts
<1>1. CASE ReadyForPin BY <1>1, NonceTalks, StaysLasts DEF ReadyForPin, Stays
<1>2. CASE Encrypted BY <1>2, EncryptedTalks, StaysLasts DEF Stays
<1>3. CASE Answered BY <1>3, AnsweredTalks, StaysLasts DEF Stays
<1>4. CASE StatusTimesOut \/ Forms BY <1>4, FormsStay, StaysLasts
<1>5. CASE \E pin \in Pins : TypePin(pin)
  <2>1. \/ \E pin \in Pins : EnterPin(pin)
        \/ UNCHANGED <<device, link, conns, toRobot, toPage, handler, peer, known>>
    BY <1>5 DEF TypePin, pairVars, bleVars, robotVars
  <2>. QED BY <2>1, PinTalks, StaysLasts DEF Stays
<1>6. CASE \E pin \in Pins, auto \in BOOLEAN : ClickEnterPin(pin, auto)
  BY <1>6, PinTalks, StaysLasts DEF ClickEnterPin, Stays
<1>. QED BY <1>1, <1>2, <1>3, <1>4, <1>5, <1>6

\* Steps of the link: where it ends the page is back at its beginning.
LEMMA LinkLasts ==
    ASSUME PairInv,
           \/ LosesRobot \/ ShakesHands \/ Cancels \/ HandlerSteps \/ Reload
           \/ \E r \in Robots : Picks(r)
    PROVE  PairInv' /\ (phase' = "Discover" \/ HandlerLasts)
<1> USE DEF HandlerLasts
<1>1. CASE LosesRobot BY <1>1, LosesKeepsInv DEF LosesRobot
<1>2. CASE ShakesHands BY <1>2, HandshakeKeepsInv DEF ShakesHands
<1>3. CASE Reload BY <1>3, LosesKeepsInv DEF Reload
<1>4. CASE \E r \in Robots : Picks(r)
  <2>1. \E r \in Robots : Pick(r) BY <1>4 DEF Picks
  <2>2. handler' = handler BY <2>1 DEF Pick
  <2>. QED BY <2>1, <2>2, LosesKeepsInv
<1>5. CASE Cancels
  <2>1. CASE RefusesToPair BY <2>1, RefusesKeepsInv, HandlerIsOne
  <2>2. CASE \E c \in timers : TimerFires(c)
    <3>1. handler' = handler BY <2>2 DEF TimerFires
    <3>. QED BY <2>2, <3>1, LosesKeepsInv
  <2>. QED BY <1>5, <2>1, <2>2 DEF Cancels
<1>6. CASE HandlerSteps
  <2>1. CASE Resumes \/ PairsAnew BY <2>1, OffersKeys, HandlerIsOne
  <2>2. CASE NonceResumes BY <2>2, NonceTalks, StaysLasts DEF Stays
  <2>3. CASE Challenged BY <2>3, ChallengedTalks, StaysLasts DEF Stays
  <2>4. CASE Undecipherable \/ Foreign BY <2>4, DroppingTalks, StaysLasts DEF Stays
  <2>5. CASE Connected
    <3>1. handler' = handler BY <2>5 DEF Connected
    <3>. QED BY <2>5, <3>1, ConnectedKeepsInv
  <2>6. CASE ConnectFails \/ Lost
    <3>1. handler' = handler BY <2>6 DEF ConnectFails, Lost
    <3>. QED BY <2>6, <3>1, LosesKeepsInv
  <2>7. CASE RobotStep
    <3>1. handler' = handler BY <2>7 DEF RobotStep
    <3>. QED BY <2>7, <3>1, RobotKeepsInv
  <2>. QED BY <1>6, <2>1, <2>2, <2>3, <2>4, <2>5, <2>6, <2>7 DEF HandlerSteps
<1>. QED BY <1>1, <1>2, <1>3, <1>4, <1>5, <1>6

\* The steps of the setup, by what they do to the link and the handler.
LEMMA SetupSteps ==
    ASSUME SetupNext \/ UNCHANGED vars
    PROVE  \/ ClickDiscover \/ CancelsSelect \/ TypeConnect \/ TypeClear
           \/ TypeCtrlC \/ UNCHANGED vars
           \/ ReadyForPin \/ Encrypted \/ Answered \/ StatusTimesOut \/ Forms
           \/ \E pin \in Pins : TypePin(pin)
           \/ \E pin \in Pins, auto \in BOOLEAN : ClickEnterPin(pin, auto)
           \/ LosesRobot \/ ShakesHands \/ Cancels \/ HandlerSteps \/ Reload
           \/ \E r \in Robots : Picks(r)
BY DEF SetupNext

\* Every step keeps the invariant of pairing.
LEMMA SetupLasts ==
    ASSUME PairInv, FormsHaveARobot, SetupNext \/ UNCHANGED vars
    PROVE  PairInv' /\ (phase' = "Discover" \/ HandlerLasts)
BY SetupSteps, PageAloneLasts, PageLasts, LinkLasts

-----------------------------------------------------------------------------
(* The forms.                                                               *)
PairedForms == {"Wifi", "WifiConfig", "Settings", "Complete"}

\* What a form is shown for: the step of the handler, or the form before it.
LEMMA FormsFollow ==
    ASSUME SetupNext \/ UNCHANGED vars
    PROVE  \/ phase' = phase \/ phase' \notin PairedForms \cup {"EnterPin"}
           \/ phase' = "EnterPin" /\ NonceAsksPin
           \/ phase' \in PairedForms /\ Hears("answer")
           \/ phase' = "WifiConfig" /\ phase = "Wifi"
<1>1. ASSUME NEW h, DoOta(h) PROVE phase' \in {"Ota", "Account"} BY <1>1 DEF DoOta
<1>2. CASE Answered
  <2> DEFINE m == Data
             h == [Read EXCEPT !.awaits = [k \in DOMAIN @ \ {m.key} |-> @[k]]]
             next == handler.awaits[m.key]
  <2>1. \/ UNCHANGED phase
        \/ StatusAnswered(h, m) \/ WifiAnswered(h, m) \/ AuthAnswered(h, m)
        \/ SdkAnswered(h) \/ OtaReported(h) \/ ScanAnswered(h, next)
    BY <1>2 DEF Answered
  <2> HIDE DEF m, h, next
  <2>2. CASE StatusAnswered(h, m) \/ WifiAnswered(h, m)
    <3>1. \/ UNCHANGED phase \/ phase' = "Account" \/ OnNetwork(h)
      BY <2>2 DEF StatusAnswered, WifiAnswered
    <3>. QED BY <3>1, <1>1 DEF OnNetwork, PairedForms
  <2>3. CASE \/ AuthAnswered(h, m) \/ SdkAnswered(h) \/ OtaReported(h)
             \/ ScanAnswered(h, next)
    <3>1. \/ UNCHANGED phase
          \/ phase' \in {"Settings", "Account", "Complete", "Discover", "Wifi"}
      BY <2>3 DEF AuthAnswered, SdkAnswered, OtaReported, ScanAnswered
    <3>2. Hears("answer") BY <1>2 DEF Answered
    <3>. QED BY <3>1, <3>2 DEF PairedForms
  <2>. QED BY <2>1, <2>2, <2>3
<1>3. CASE Forms
  BY <1>1, <1>3 DEF Forms, ChooseWifi, ClickConnectWifi, OtasListed, ClickOta,
         ClickConnectCloud, LoggedIn, ClickFinishSetup, PairedForms
<1>4. CASE ReadyForPin BY <1>4 DEF ReadyForPin
<1>5. CASE \/ \E pin \in Pins : TypePin(pin)
           \/ \E pin \in Pins, auto \in BOOLEAN : ClickEnterPin(pin, auto)
  BY <1>5 DEF TypePin, ClickEnterPin, PairedForms
<1>6. CASE \/ ClickDiscover \/ CancelsSelect \/ TypeConnect \/ TypeClear
           \/ TypeCtrlC \/ UNCHANGED vars \/ Encrypted \/ StatusTimesOut
           \/ LosesRobot \/ ShakesHands \/ Cancels \/ HandlerSteps \/ Reload
           \/ \E r \in Robots : Picks(r)
  BY <1>6 DEF ClickDiscover, CancelsSelect, TypeConnect, TypeClear, TypeCtrlC,
         vars, pageVars, Encrypted, StatusTimesOut, LosesRobot, ShakesHands,
         Cancels, HandlerSteps, Reload, Picks, PairedForms
<1>. QED BY SetupSteps, <1>2, <1>3, <1>4, <1>5, <1>6

\* The form for the pin comes with asked.
LEMMA NonceAsks ==
    ASSUME PairInv, NonceAsksPin
    PROVE  handler' # NoHandler /\ handler'.asked
<1>1. IsHandler(handler)
  BY DEF NonceAsksPin, SameVersion, PairInv, PairTypeOK
<1> DEFINE g == NonceOf(handler)
<1>2. conns \in Nat BY DEF PairInv, PairTypeOK
<1>3. <<conns, 0>> \in Nonces BY <1>2 DEF Nonces
<1>4. IsHandler(g) BY <1>1, <1>3 DEF IsHandler, NonceOf
<1>5. handler' = [g EXCEPT !.asked = TRUE] BY DEF NonceAsksPin
<1> HIDE DEF g
<1>6. IsHandler(handler') /\ handler'.asked BY <1>4, <1>5 DEF IsHandler
<1>. QED BY <1>6, HandlerIsOne

\* Forms stay only with their robot.
LEMMA FormsHaveARobotInductive ==
    ASSUME PairInv, FormsHaveARobot, SetupNext \/ UNCHANGED vars
    PROVE  FormsHaveARobot'
<1>1. phase' = "Discover" \/ HandlerLasts BY SetupLasts
<1>2. CASE phase' = "Discover" BY <1>2 DEF FormsHaveARobot
<1>3. CASE HandlerLasts /\ phase' = phase BY <1>3 DEF FormsHaveARobot, HandlerLasts
<1>4. CASE phase' \notin PairedForms \cup {"EnterPin"}
  BY <1>4 DEF FormsHaveARobot, PairedForms
<1>5. CASE phase' = "EnterPin" /\ NonceAsksPin
  BY <1>5, NonceAsks DEF FormsHaveARobot
<1>6. CASE HandlerLasts /\ phase' \in PairedForms /\ Hears("answer")
  BY <1>6, AnswerIsPaired, HandlerIsOne DEF FormsHaveARobot, HandlerLasts, PairedForms
<1>7. CASE HandlerLasts /\ phase' = "WifiConfig" /\ phase = "Wifi"
  BY <1>7 DEF FormsHaveARobot, HandlerLasts
<1>. QED BY FormsFollow, <1>1, <1>2, <1>3, <1>4, <1>5, <1>6, <1>7

-----------------------------------------------------------------------------
(* The saved sessions.                                                      *)
\* Every step of RtsPairing but the robot's, and every one around it, leaves
\* what the robots know; the cookie changes when it is cleared or saved.
LEMMA SavedChanges ==
    ASSUME SetupNext \/ UNCHANGED vars
    PROVE  /\ known' = known \/ RobotStep
           /\ \/ UNCHANGED <<saved, idKeys>>
              \/ saved' = Nothing
              \/ Hears("answer") /\ SaveSession /\ known' = known
<1> USE DEF keyVars, robotVars
<1>1. CASE Answered
  <2> DEFINE m == Data
             h == [Read EXCEPT !.awaits = [k \in DOMAIN @ \ {m.key} |-> @[k]]]
             next == handler.awaits[m.key]
  <2>1. \/ NoSave \/ SaveSession
        \/ StatusAnswered(h, m) \/ WifiAnswered(h, m) \/ AuthAnswered(h, m)
        \/ SdkAnswered(h) \/ OtaReported(h) \/ ScanAnswered(h, next)
    BY <1>1 DEF Answered
  <2> HIDE DEF m, h, next
  <2>2. SaveSession \/ NoSave
    BY <2>1 DEF StatusAnswered, WifiAnswered, AuthAnswered, SdkAnswered,
           OtaReported, ScanAnswered
  <2>. QED BY <1>1, <2>2 DEF Answered, NoSave
<1>2. CASE HandlerSteps
  <2>1. CASE RobotStep BY <1>2, <2>1 DEF RobotStep
  <2>2. CASE ~RobotStep
    <3>1. known' = known
      BY <1>2, <2>2 DEF HandlerSteps, Resumes, PairsAnew, NonceResumes, Challenged,
             Undecipherable, Foreign, Connected, ConnectFails, Lost
    <3>2. idKeys' = idKeys /\ saved' \in {saved, Nothing}
      BY <1>2, <2>2 DEF HandlerSteps, Resumes, PairsAnew, NonceResumes, Challenged,
             Undecipherable, Foreign, Connected, ConnectFails, Lost
    <3>. QED BY <3>1, <3>2
  <2>. QED BY <2>1, <2>2
<1>3. CASE \/ ReadyForPin \/ Encrypted \/ StatusTimesOut
           \/ \E pin \in Pins : TypePin(pin)
           \/ \E pin \in Pins, auto \in BOOLEAN : ClickEnterPin(pin, auto)
  BY <1>3 DEF ReadyForPin, NonceAsksPin, Encrypted, Success, StatusTimesOut,
         TypePin, ClickEnterPin, EnterPin, pairVars
<1>4. CASE Forms
  BY <1>4 DEF Forms, ChooseWifi, ClickConnectWifi, OtasListed, ClickOta,
         ClickConnectCloud, LoggedIn, ClickFinishSetup, Unmoved
<1>5. CASE \/ LosesRobot \/ ShakesHands \/ Cancels \/ Reload
           \/ \E r \in Robots : Picks(r)
  BY <1>5 DEF LosesRobot, Disconnected, ShakesHands, Handshake, Cancels,
         RefusesToPair, TimerFires, Reload, Picks, Pick
<1>6. CASE \/ ClickDiscover \/ CancelsSelect \/ TypeConnect \/ TypeClear
           \/ TypeCtrlC \/ UNCHANGED vars
  BY <1>6 DEF ClickDiscover, CancelsSelect, TypeConnect, TypeClear, TypeCtrlC,
         vars, pairVars
<1>. QED BY SetupSteps, <1>1, <1>2, <1>3, <1>4, <1>5, <1>6

\* A robot forgets no keys.
LEMMA KnownGrows ==
    ASSUME PairInv, SetupNext \/ UNCHANGED vars, NEW r \in Robots
    PROVE  known[r] \subseteq known'[r]
<1>1. CASE known' = known BY <1>1
<1>2. CASE RobotStep
  <2>1. \/ known' = known
        \/ \E k : known' = [known EXCEPT ![device] = @ \cup {k}]
    BY <1>2, RobotSends DEF RobotHears
  <2>. QED BY <2>1 DEF PairInv, PairTypeOK
<1>. QED BY <1>1, <1>2, SavedChanges

\* What is saved is what an answer vouches for.
LEMMA SavedSessionsReconnectInductive ==
    ASSUME PairInv, DOMAIN saved \subseteq Robots, SavedSessionsReconnect,
           SetupNext \/ UNCHANGED vars
    PROVE  SavedSessionsReconnect' /\ DOMAIN saved' \subseteq Robots
<1>1. CASE UNCHANGED <<saved, idKeys>>
  BY <1>1, KnownGrows DEF SavedSessionsReconnect
<1>2. CASE saved' = Nothing
  BY <1>2 DEF SavedSessionsReconnect, Nothing
<1>3. CASE Hears("answer") /\ SaveSession /\ known' = known
  <2> DEFINE r == handler.remote
  <2>1. r \in Robots /\ <<handler.keys, handler.crypto>> \in known[r]
    BY <1>3, AnswerIsPaired
  <2>2. /\ DOMAIN saved' = DOMAIN saved \cup {r} /\ saved'[r] = handler.crypto
        /\ \A q \in DOMAIN saved \ {r} : saved'[q] = saved[q]
        /\ idKeys' = handler.keys
    <3>1. saved' = Kept(saved, r, handler.crypto) /\ idKeys' = handler.keys
      BY <1>3 DEF SaveSession
    <3> HIDE DEF r
    <3>. QED BY ONLY <3>1 DEF Kept
  <2> HIDE DEF r
  <2>3. \A q \in DOMAIN saved' : \E k \in known'[q] : k[2] = saved'[q]
    <3>1. <<handler.keys, handler.crypto>>[2] = handler.crypto OBVIOUS
    <3>. QED BY <1>3, <2>1, <2>2, <3>1 DEF SavedSessionsReconnect
  <2>4. \A q \in DOMAIN saved' :
           DOMAIN saved' = {q} => <<idKeys', saved'[q]>> \in known'[q]
    BY <1>3, <2>1, <2>2
  <2>. QED BY <2>1, <2>2, <2>3, <2>4 DEF SavedSessionsReconnect
<1>. QED BY SavedChanges, <1>1, <1>2, <1>3

-----------------------------------------------------------------------------
(* The types.                                                               *)
\* A timer runs for a connection there has been.
LEMMA TimersOfConnections ==
    ASSUME PairInv, timers \subseteq 1..conns, SetupNext \/ UNCHANGED vars
    PROVE  timers' \subseteq 1..conns'
<1>1. conns \in Nat BY DEF PairInv, PairTypeOK
<1>2. CASE PairsAnew
  <2>1. conns # 0 /\ conns' = conns /\ timers' = timers \cup {conns}
    BY <1>2, OffersKeys DEF PairsAnew, HearsRequest, Hears, PairInv, LinkHasRobot
  <2>. QED BY <1>1, <2>1
<1>3. CASE \E r \in Robots : Pick(r)
  <2>1. conns' = conns + 1 /\ timers' = timers BY <1>3 DEF Pick
  <2>. QED BY <1>1, <2>1
<1>4. CASE conns' = conns /\ timers' \subseteq timers BY <1>4
<1>5. ASSUME NEW type, Hears(type) PROVE conns' = conns BY <1>5, HearsTakes
<1> USE DEF keyVars, robotVars, bleVars, pairVars
<1>6. CASE HandlerSteps
  <2>1. CASE \/ Resumes \/ NonceResumes \/ Challenged \/ Undecipherable
             \/ Foreign \/ Connected \/ ConnectFails \/ RobotStep \/ Lost
    <3>1. conns' = conns
      BY <2>1, <1>5 DEF Resumes, NonceResumes, Challenged, Undecipherable,
           Foreign, Connected, ConnectFails, RobotStep, Lost, HearsRequest
    <3>2. timers' \subseteq timers
      BY <2>1 DEF Resumes, NonceResumes, Challenged, Undecipherable,
           Foreign, Connected, ConnectFails, RobotStep, Lost
    <3>. QED BY <3>1, <3>2, <1>4
  <2>. QED BY <1>2, <1>6, <2>1 DEF HandlerSteps
<1>7. CASE ReadyForPin \/ Encrypted \/ Answered \/ StatusTimesOut \/ ShakesHands
  <2>1. conns' = conns
    BY <1>5, <1>7 DEF ReadyForPin, NonceAsksPin, Encrypted, Success, Answered,
           StatusTimesOut, ShakesHands, Handshake
  <2>2. timers' \subseteq timers
    BY <1>7 DEF ReadyForPin, NonceAsksPin, Encrypted, Success, Answered,
           StatusTimesOut, ShakesHands, Handshake
  <2>. QED BY <1>4, <2>1, <2>2
<1>8. CASE \/ \E pin \in Pins : TypePin(pin)
           \/ \E pin \in Pins, auto \in BOOLEAN : ClickEnterPin(pin, auto)
  BY <1>4, <1>8 DEF TypePin, ClickEnterPin, EnterPin
<1>9. CASE Forms
  BY <1>4, <1>9 DEF Forms, ChooseWifi, ClickConnectWifi, OtasListed, ClickOta,
         ClickConnectCloud, LoggedIn, ClickFinishSetup, Unmoved
<1>10. CASE LosesRobot \/ Cancels \/ Reload
  <2>1. conns' = conns
    BY <1>10 DEF LosesRobot, Disconnected, Cancels, RefusesToPair, TimerFires,
         TryDisconnect, Reload
  <2>2. timers' \subseteq timers
    BY <1>10 DEF LosesRobot, Disconnected, Cancels, RefusesToPair, TimerFires, Reload
  <2>. QED BY <1>4, <2>1, <2>2
<1>11. CASE \E r \in Robots : Picks(r) BY <1>3, <1>11 DEF Picks
<1>12. CASE \/ ClickDiscover \/ CancelsSelect \/ TypeConnect \/ TypeClear
            \/ TypeCtrlC \/ UNCHANGED vars
  BY <1>4, <1>12 DEF ClickDiscover, CancelsSelect, TypeConnect, TypeClear, TypeCtrlC,
         vars
<1>. QED BY SetupSteps, <1>6, <1>7, <1>8, <1>9, <1>10, <1>11, <1>12

\* The sessions in memory are with robots.
LEMMA MemoryOfRobots ==
    ASSUME PairInv, DOMAIN memory \subseteq Robots, SetupNext \/ UNCHANGED vars
    PROVE  DOMAIN memory' \subseteq Robots
<1> USE DEF keyVars, pairVars
<1>1. CASE UNCHANGED memory BY <1>1
<1>2. CASE memory' = Nothing BY <1>2 DEF Nothing
<1>3. ASSUME NEW pin, EnterPin(pin) PROVE DOMAIN memory' = DOMAIN memory
  BY <1>3 DEF EnterPin
<1>4. CASE Encrypted
  <2> DEFINE h == [Read EXCEPT !.keysAuthorized = TRUE, !.shares = TRUE]
  <2>1. Success(h) BY <1>4 DEF Encrypted
  <2>2. Hears("success") BY <2>1 DEF Success
  <2>3. IsHandler(handler) /\ handler.remote \in Robots
    BY <2>2, SuccessIsPaired
  <2>4. IsHandler(Read) /\ Read.remote = handler.remote
    BY <2>2, SuccessIsPaired, ReadKeeps
  <2>5. h.remote = Read.remote BY <2>4 DEF IsHandler
  <2> HIDE DEF h
  <2>6. DOMAIN memory' = DOMAIN memory \cup {h.remote} BY <2>1 DEF Success, Kept
  <2>. QED BY <2>3, <2>4, <2>5, <2>6
<1>5. CASE \/ \E pin \in Pins : TypePin(pin)
           \/ \E pin \in Pins, auto \in BOOLEAN : ClickEnterPin(pin, auto)
  <2>1. UNCHANGED memory \/ \E pin : EnterPin(pin)
    BY <1>5 DEF TypePin, ClickEnterPin
  <2>. QED BY <1>1, <1>3, <2>1
<1>6. CASE HandlerSteps
  BY <1>1, <1>6 DEF HandlerSteps, Resumes, PairsAnew, NonceResumes, Challenged,
         Undecipherable, Foreign, Connected, ConnectFails, Lost, RobotStep
<1>7. CASE Forms \/ StatusTimesOut \/ ReadyForPin \/ Answered
  BY <1>1, <1>7 DEF Forms, ChooseWifi, ClickConnectWifi, OtasListed, ClickOta,
         ClickConnectCloud, LoggedIn, ClickFinishSetup, Unmoved, StatusTimesOut,
         ReadyForPin, NonceAsksPin, Answered
<1>8. CASE \/ LosesRobot \/ ShakesHands \/ Cancels \/ Reload
           \/ \E r \in Robots : Picks(r)
  BY <1>1, <1>2, <1>8 DEF LosesRobot, Disconnected, ShakesHands, Handshake, Cancels,
         RefusesToPair, TimerFires, Reload, Picks, Pick
<1>9. CASE \/ ClickDiscover \/ CancelsSelect \/ TypeConnect \/ TypeClear
           \/ TypeCtrlC \/ UNCHANGED vars
  BY <1>1, <1>9 DEF ClickDiscover, CancelsSelect, TypeConnect, TypeClear, TypeCtrlC,
         vars
<1>. QED BY SetupSteps, <1>4, <1>5, <1>6, <1>7, <1>8, <1>9

\* The variables of the page.
PageTypeOK ==
    /\ phase \in Phases
    /\ chooser \in BOOLEAN /\ cmdPending \in BOOLEAN /\ editing \in BOOLEAN
    /\ prompt \in BOOLEAN /\ autoFlow \in BOOLEAN /\ credentials \in BOOLEAN
    /\ fetching \in {"", "otas", "login"}

\* doOta() shows the update or the account.
LEMMA DoOtaPage ==
    ASSUME NEW h, DoOta(h)
    PROVE  phase' \in Phases
BY DEF DoOta, Phases

\* Every step keeps the types of the page.
LEMMA PageTypes ==
    ASSUME PageTypeOK, SetupNext \/ UNCHANGED vars
    PROVE  PageTypeOK'
<1> USE DEF boundVars, pageVars
<1>1. CASE Answered
  <2> DEFINE m == Data
             h == [Read EXCEPT !.awaits = [k \in DOMAIN @ \ {m.key} |-> @[k]]]
             next == handler.awaits[m.key]
  <2>1. \/ UNCHANGED <<phase, credentials, fetching>>
        \/ StatusAnswered(h, m) \/ WifiAnswered(h, m) \/ AuthAnswered(h, m)
        \/ SdkAnswered(h) \/ OtaReported(h) \/ ScanAnswered(h, next)
    BY <1>1 DEF Answered
  <2>2. UNCHANGED <<chooser, cmdPending, editing, prompt, autoFlow>>
    BY <1>1 DEF Answered
  <2> HIDE DEF m, h, next
  <2>3. ASSUME OnNetwork(h) PROVE /\ phase' \in Phases
                                  /\ fetching' \in {"", "otas", "login"}
    BY <2>3, DoOtaPage DEF OnNetwork, PageTypeOK
  <2>4. CASE StatusAnswered(h, m)
    <3>1. UNCHANGED credentials BY <2>4 DEF StatusAnswered
    <3>2. \/ UNCHANGED <<phase, fetching>>
          \/ phase' = "Account" /\ UNCHANGED fetching
          \/ OnNetwork(h)
      BY <2>4 DEF StatusAnswered
    <3>. QED BY <2>2, <2>3, <3>1, <3>2 DEF PageTypeOK, Phases
  <2>5. CASE WifiAnswered(h, m)
    <3>1. \/ UNCHANGED <<phase, fetching>> /\ credentials' = FALSE
          \/ OnNetwork(h) /\ UNCHANGED credentials
      BY <2>5 DEF WifiAnswered
    <3>. QED BY <2>2, <2>3, <3>1 DEF PageTypeOK
  <2>6. CASE \/ AuthAnswered(h, m) \/ SdkAnswered(h) \/ OtaReported(h)
             \/ ScanAnswered(h, next)
    <3>1. /\ UNCHANGED <<credentials, fetching>>
          /\ phase' \in {"Settings", "Account", "Complete", "Discover", "Wifi", phase}
      BY <2>6 DEF AuthAnswered, SdkAnswered, OtaReported, ScanAnswered
    <3>. QED BY <2>2, <3>1 DEF PageTypeOK, Phases
  <2>7. CASE UNCHANGED <<phase, credentials, fetching>>
    BY <2>2, <2>7 DEF PageTypeOK
  <2>. QED BY <2>1, <2>4, <2>5, <2>6, <2>7
<1>2. CASE Forms
  BY <1>2, DoOtaPage DEF Forms, ChooseWifi, ClickConnectWifi, OtasListed, ClickOta,
         ClickConnectCloud, LoggedIn, ClickFinishSetup, Unmoved, PageTypeOK, Phases
<1>3. CASE \/ \E pin \in Pins : TypePin(pin)
           \/ \E pin \in Pins, auto \in BOOLEAN : ClickEnterPin(pin, auto)
  BY <1>3 DEF TypePin, ClickEnterPin, PageTypeOK, Phases
<1>4. CASE \/ ReadyForPin \/ Encrypted \/ StatusTimesOut \/ Cancels \/ HandlerSteps
  BY <1>4 DEF ReadyForPin, Encrypted, StatusTimesOut, Cancels, HandlerSteps,
         PageTypeOK, Phases
<1>5. CASE \/ LosesRobot \/ ShakesHands \/ Reload \/ \E r \in Robots : Picks(r)
  BY <1>5 DEF LosesRobot, ShakesHands, Reload, Picks, PageTypeOK, Phases
<1>6. CASE \/ ClickDiscover \/ CancelsSelect \/ TypeConnect \/ TypeClear
           \/ TypeCtrlC \/ UNCHANGED vars
  BY <1>6 DEF ClickDiscover, CancelsSelect, TypeConnect, TypeClear, TypeCtrlC, vars,
         PageTypeOK, Phases
<1>. QED BY SetupSteps, <1>1, <1>2, <1>3, <1>4, <1>5, <1>6

-----------------------------------------------------------------------------
(* The invariant: of pairing, of the page, and the properties themselves.   *)
SetupInv ==
    /\ PairInv /\ PageTypeOK
    /\ timers \subseteq 1..conns /\ DOMAIN saved \cup DOMAIN memory \subseteq Robots
    /\ SavedSessionsReconnect /\ FormsHaveARobot

\* It holds at first.
LEMMA SetupInvInit ==
    ASSUME SetupInit
    PROVE  SetupInv
<1> USE DEF SetupInit, PairInit
<1>1. NoRobot \in Robots \cup {NoRobot} OBVIOUS
<1>2. Range(toPage) = {} /\ Range(toRobot) = {} BY SeqEmpty
<1>3. IsPeer(peer) /\ peer.stage = "none" BY DEF IsPeer, Stages, Nonces
<1>4. known = [r \in Robots |-> known[r]] OBVIOUS
<1>5. PairTypeOK BY <1>1, <1>3, <1>4, SeqEmpty DEF PairTypeOK
<1>6. LinkHasRobot BY DEF LinkHasRobot
<1>7. HandshakeFirst /\ RequestNext BY <1>2 DEF HandshakeFirst, RequestNext, Pending
<1>8. KeysAreHandlers /\ SealedInOrder BY <1>2 DEF KeysAreHandlers, SealedInOrder
<1>9. KeysAgree /\ RobotRemembers /\ NoncesFollow /\ ReadsInOrder
  BY DEF KeysAgree, RobotRemembers, NoncesFollow, ReadsInOrder
<1>10. PageTypeOK BY DEF PageTypeOK, Phases
<1>11. DOMAIN Nothing = {} BY DEF Nothing
<1>12. SavedSessionsReconnect /\ FormsHaveARobot
  BY <1>11 DEF SavedSessionsReconnect, FormsHaveARobot
<1>. QED BY <1>5, <1>6, <1>7, <1>8, <1>9, <1>10, <1>11, <1>12 DEF SetupInv, PairInv

\* Every step keeps it.
LEMMA SetupInvInductive ==
    ASSUME SetupInv, [SetupNext]_vars
    PROVE  SetupInv'
<1> USE DEF SetupInv
<1>1. PairInv' BY SetupLasts
<1>2. PageTypeOK' BY PageTypes
<1>3. timers' \subseteq 1..conns' BY TimersOfConnections
<1>4. DOMAIN memory' \subseteq Robots BY MemoryOfRobots
<1>5. SavedSessionsReconnect' /\ DOMAIN saved' \subseteq Robots
  BY SavedSessionsReconnectInductive
<1>6. FormsHaveARobot' BY FormsHaveARobotInductive
<1>. QED BY <1>1, <1>2, <1>3, <1>4, <1>5, <1>6

\* It always holds.
LEMMA SetupInvAlways == SetupSpec => []SetupInv
<1>1. SetupInit => SetupInv BY SetupInvInit
<1>2. SetupInv /\ [SetupNext]_vars => SetupInv' BY SetupInvInductive
<1>. QED BY <1>1, <1>2, PTL DEF SetupSpec

\* SetupTypeOK: the types of the page and the link, timers only of connections
\* there have been, and sessions only with robots.
THEOREM SetupTypesAlways == SetupSpec => []SetupTypeOK
<1>1. SetupInv => SetupTypeOK
  BY DEF SetupInv, SetupTypeOK, PageTypeOK, PairInv, PairTypeOK, LinkHasRobot
<1>. QED BY <1>1, SetupInvAlways, PTL

\* SavedSessionsReconnect: every secret in the cookie is one that its robot
\* remembers, by the page's key pair if it is the only one, though enterPin() may
\* replace the handler's secret at any time and the cookie is written from the
\* handler as it is when an answer comes.
THEOREM SavedSessionsReconnectAlways == SetupSpec => []SavedSessionsReconnect
<1>1. SetupInv => SavedSessionsReconnect BY DEF SetupInv
<1>. QED BY <1>1, SetupInvAlways, PTL

\* FormsHaveARobot: the forms of the pin, the networks, the settings and the
\* completion go when the robot has gone, and none comes up without it, whichever of answers, timers, disconnects and clicks comes first.
THEOREM FormsHaveARobotAlways == SetupSpec => []FormsHaveARobot
<1>1. SetupInv => FormsHaveARobot BY DEF SetupInv
<1>. QED BY <1>1, SetupInvAlways, PTL
=============================================================================
