------------------------------ MODULE BleLink ------------------------------
(***************************************************************************)
(* The Bluetooth link of the web setup page: BleMessageProtocol cuts a     *)
(* message into packets of at most MaxSize bytes and puts packets together *)
(* again; VectorBluetooth keeps the packets in writeQueue and writes one   *)
(* at a time, from sendMessage() when it may and from a timer otherwise.   *)
(* The robot at the other end (external) puts packets together the same    *)
(* way.  The connection can be cut at any time and made again.             *)
(*                                                                         *)
(* What JavaScript runs between two awaits is one action.  History         *)
(* variables record what was sent and what came out, by connection.        *)
(***************************************************************************)
EXTENDS Integers, Sequences

CONSTANTS
    MaxSize,   \* maxPacketSize: the header byte and the bytes of a packet
    Byte,      \* the values of a byte
    Message,   \* what can be sent: sequences of bytes
    MaxConns   \* bound on the connections made

ASSUME SizeAssumption  == MaxSize \in 2..63
ASSUME ByteAssumption  == Message \subseteq Seq(Byte)
ASSUME ConnsAssumption == MaxConns \in Nat \ {0}

VARIABLES
    conn,        \* number of the present or last connection
    connected,   \* whether it is up
    ticked,      \* whether the timer has fired since it was cut
    writeQueue,  \* packets that wait to be written
    writeReady,  \* writeReady: no write is under way
    writing,     \* the packet of the write under way, or <<>>
    arrived,     \* whether that packet has reached the robot
    notified,    \* packets of the robot on their way to the page
    buffer,      \* BleMessageProtocol.buffer of the page
    robotBuffer, \* the same of the robot
    clientSent, robotGot,   \* clientSent[c]: messages sent in connection c
    robotSent, clientGot    \* clientGot[c]: messages received in connection c

outVars  == <<writeQueue, writeReady, writing, arrived, robotBuffer,
              clientSent, robotGot>>
inVars   == <<notified, buffer, robotSent, clientGot>>
linkVars == <<conn, connected, ticked, outVars, inVars>>

Conns == 1..MaxConns
Nobody == 0   \* the connection of what is sent while there is none

-----------------------------------------------------------------------------
(* Packets.  A header byte holds two bits for the part and six for the size.*)
Parts == {"start", "continue", "end", "solo"}

Packet == [part : Parts, size : Nat, body : Seq(Byte), conn : Nat]

\* Mutant: the part bits are not masked out of the size.
MakePacketUnmasked(part, body, c) ==
    [part |-> part, size |-> (Len(body) % 64) - 64, body |-> body, conn |-> c]
MakePacket(part, body, c) ==
    [part |-> part, size |-> Len(body) % 64, body |-> body, conn |-> c]

\* The packets of message m: sendMessage() of BleMessageProtocol.
Room == MaxSize - 1
PartCount(m) == (Len(m) + Room - 1) \div Room
PartAt(m, i) ==
    SubSeq(m, (i - 1) * Room + 1, IF i * Room < Len(m) THEN i * Room ELSE Len(m))

Fragments(m, c) ==
    IF Len(m) < MaxSize
    THEN <<MakePacket("solo", m, c)>>
    ELSE [i \in 1..PartCount(m) |->
            MakePacket(IF i = 1 THEN "start"
                       ELSE IF i = PartCount(m) THEN "end" ELSE "continue",
                       PartAt(m, i), c)]

\* receiveRawBuffer(): the buffer after packet p, and the messages it ends.
\* A start empties the buffer, whatever it holds; an end leaves it full.
SizeMatches(p) == p.size = Len(p.body)

\* Mutant (BufferKept): a start is appended to what the buffer holds.
BufferKept(buf, p) ==
    IF ~SizeMatches(p) \/ p.part = "solo" THEN buf ELSE buf \o p.body

BufferAfter(buf, p) ==
    CASE ~SizeMatches(p) \/ p.part = "solo" -> buf
      [] p.part = "start" -> p.body
      [] OTHER            -> buf \o p.body

MessagesOf(buf, p) ==
    CASE ~SizeMatches(p)  -> <<>>
      [] p.part = "solo"  -> <<p.body>>
      [] p.part = "end"   -> <<buf \o p.body>>
      [] OTHER            -> <<>>

-----------------------------------------------------------------------------
LinkInit ==
    /\ conn = 1 /\ connected = TRUE /\ ticked = FALSE
    /\ writeQueue = <<>> /\ writeReady = TRUE
    /\ writing = <<>> /\ arrived = FALSE
    /\ notified = <<>> /\ buffer = <<>> /\ robotBuffer = <<>>
    /\ clientSent = [c \in Conns |-> <<>>]
    /\ robotGot = [c \in Conns |-> <<>>]
    /\ robotSent = [c \in Conns |-> <<>>]
    /\ clientGot = [c \in Conns |-> <<>>]

\* forceSendMsg() on queue q: its head is written and leaves the queue,
\* whatever becomes of the write.
ForceSend(q) ==
    /\ writing' = <<Head(q)>> /\ arrived' = FALSE
    /\ writeReady' = FALSE
    /\ writeQueue' = Tail(q)

\* send(): every packet of m is queued, and the first of the queue is written
\* if no write is under way.  The page may well send after a cut.
ClientSend(m) ==
    LET c == IF connected THEN conn ELSE Nobody
        q == writeQueue \o Fragments(m, c)
    IN  /\ IF writeReady
           THEN ForceSend(q)
           ELSE writeQueue' = q /\ UNCHANGED <<writeReady, writing, arrived>>
        /\ clientSent' = IF connected
                         THEN [clientSent EXCEPT ![conn] = Append(@, m)]
                         ELSE clientSent
        /\ UNCHANGED <<conn, connected, ticked, robotBuffer, robotGot, inVars>>

\* Mutants: the timer does not wait for writeReady; it never writes.
TickForces ==
    /\ ticked' = TRUE
    /\ IF writeQueue # <<>>
       THEN ForceSend(writeQueue)
       ELSE UNCHANGED <<writeQueue, writeReady, writing, arrived>>
    /\ UNCHANGED <<conn, connected, robotBuffer, clientSent, robotGot, inVars>>
TickIdle ==
    /\ ticked' = TRUE
    /\ UNCHANGED <<conn, connected, inVars, outVars>>

\* tick(), every 70 ms.
Tick ==
    /\ ticked' = TRUE
    /\ IF writeReady /\ writeQueue # <<>>
       THEN ForceSend(writeQueue)
       ELSE UNCHANGED <<writeQueue, writeReady, writing, arrived>>
    /\ UNCHANGED <<conn, connected, robotBuffer, clientSent, robotGot, inVars>>

\* The packet reaches the robot.
RobotReceives ==
    /\ connected /\ writing # <<>> /\ ~arrived
    /\ arrived' = TRUE
    /\ robotBuffer' = BufferAfter(robotBuffer, writing[1])
    /\ robotGot' = [robotGot EXCEPT ![conn] =
                        @ \o MessagesOf(robotBuffer, writing[1])]
    /\ UNCHANGED <<conn, connected, ticked, writeQueue, writeReady, writing,
                   clientSent, inVars>>

\* writeValue() resolves: the next packet waits for the timer or a send.
WriteResolves ==
    /\ connected /\ writing # <<>> /\ arrived
    /\ writing' = <<>> /\ arrived' = FALSE
    /\ writeReady' = TRUE
    /\ UNCHANGED <<conn, connected, ticked, writeQueue, robotBuffer,
                   clientSent, robotGot, inVars>>

\* writeValue() rejects, after a cut or for a GATT error: the error is logged
\* and writeReady is left as it is.
WriteRejects ==
    /\ writing # <<>>
    /\ writing' = <<>> /\ arrived' = FALSE
    /\ UNCHANGED <<conn, connected, ticked, writeQueue, writeReady,
                   robotBuffer, clientSent, robotGot, inVars>>

\* The robot sends a message (external).
RobotSend(m) ==
    /\ connected
    /\ notified' = notified \o Fragments(m, conn)
    /\ robotSent' = [robotSent EXCEPT ![conn] = Append(@, m)]
    /\ UNCHANGED <<conn, connected, ticked, buffer, clientGot, outVars>>

\* "characteristicvaluechanged": receiveRawBuffer() of the next packet.
Notify ==
    /\ connected /\ notified # <<>>
    /\ notified' = Tail(notified)
    /\ buffer' = BufferAfter(buffer, Head(notified))
    /\ clientGot' = [clientGot EXCEPT ![conn] =
                        @ \o MessagesOf(buffer, Head(notified))]
    /\ UNCHANGED <<conn, connected, ticked, robotSent, outVars>>

\* "gattserverdisconnected": neither queue nor buffer is emptied.
Disconnect ==
    /\ connected
    /\ connected' = FALSE /\ ticked' = FALSE
    /\ notified' = <<>>
    /\ UNCHANGED <<conn, buffer, robotSent, clientGot, outVars>>

\* The user picks the robot again and connectToDevice() has found the
\* characteristics: longer than a period of the timer, and than the browser
\* needs to reject the write that the cut left pending.
Connect ==
    /\ ~connected /\ conn < MaxConns
    /\ ticked /\ writing = <<>>
    /\ conn' = conn + 1 /\ connected' = TRUE
    /\ UNCHANGED <<ticked, outVars, inVars>>

LinkStep ==
    \/ Tick \/ RobotReceives \/ WriteResolves \/ WriteRejects
    \/ Notify \/ Disconnect \/ Connect

LinkNext == LinkStep \/ \E m \in Message : ClientSend(m) \/ RobotSend(m)

LinkSpec == LinkInit /\ [][LinkNext]_linkVars

-----------------------------------------------------------------------------
LinkTypeOK ==
    /\ conn \in Nat /\ connected \in BOOLEAN /\ ticked \in BOOLEAN
    /\ writeQueue \in Seq(Packet) /\ writeReady \in BOOLEAN
    /\ writing \in Seq(Packet) /\ arrived \in BOOLEAN

\* What goes out over a connection was sent over it: a packet that an earlier
\* connection left in writeQueue is never written into a later one, though
\* nothing empties the queue (handleDisconnected, tryConnect).
NoStalePacket ==
    connected => \A i \in DOMAIN writing : writing[i].conn = conn

IsPrefixOf(s, t) == Len(s) <= Len(t) /\ s = SubSeq(t, 1, Len(s))

\* In each connection the robot puts together a prefix of what the page sent
\* over it, in order, nothing twice, nothing glued from two messages.
RobotGetsWhatWasSent ==
    \A c \in DOMAIN robotGot : IsPrefixOf(robotGot[c], clientSent[c])

\* The same from the robot to the page, whose buffer survives the cut.
PageGetsWhatWasSent ==
    \A c \in DOMAIN clientGot : IsPrefixOf(clientGot[c], robotSent[c])
=============================================================================
