----------------------------- MODULE WireProofs ----------------------------
(***************************************************************************)
(* The link and the messages that travel over it, in three parts.          *)
(*                                                                         *)
(* The link.  No packet of one connection goes out over a later one:       *)
(* nothing ever empties the queue on a cut, but the timer then starts a    *)
(* write, or a write is already under way; either is rejected, and         *)
(* writeReady stays FALSE for good.  And what comes out at either end is a *)
(* prefix of what was sent, for every message, packet size and cut.        *)
(*                                                                         *)
(* The messages.  What pack() writes unpack() reads back, for every class  *)
(* of every union and all values that its fields can hold: a sequence      *)
(* joined of parts is read part by part, each from the index where the one *)
(* before it ended.                                                        *)
(*                                                                         *)
(* Both together: the values that a script of messages sends are those     *)
(* that the other end reads.                                               *)
(***************************************************************************)
EXTENDS RtsWire, SequenceTheorems, WellFoundedInduction, TLAPS

\* The inductive invariant.
OfConn(q, c) == \A i \in DOMAIN q : q[i].conn = c

BusyMeansNotReady == writing # <<>> => ~writeReady

\* While a connection is up and something can still be written, all that is
\* queued or being written belongs to it.
QueueIsOfConn ==
    connected /\ (writeReady \/ writing # <<>>) => OfConn(writeQueue, conn)

\* Once the timer has fired after a cut, a link that is still ready has
\* nothing left to write.
ReadyMeansEmpty ==
    ~connected /\ ticked /\ writeReady => writeQueue = <<>>

LinkInv ==
    LinkTypeOK /\ NoStalePacket /\ BusyMeansNotReady /\ QueueIsOfConn
    /\ ReadyMeansEmpty

-----------------------------------------------------------------------------
\* A part of a message is a sequence of bytes.
LEMMA PartType ==
    ASSUME NEW m \in Seq(Byte), NEW i \in Nat \ {0}
    PROVE  PartAt(m, i) \in Seq(Byte)
<1> DEFINE a == (i - 1) * Room + 1
           b == IF i * Room < Len(m) THEN i * Room ELSE Len(m)
<1>1. Room \in Nat \ {0} BY SizeAssumption DEF Room
<1>2. (i - 1) * Room \in Nat
  <2>1. i - 1 \in Nat OBVIOUS
  <2>. QED BY <1>1, <2>1
<1>3. a \in Nat \ {0} BY <1>2
<1>4. i * Room \in Int /\ Len(m) \in Nat BY <1>1
<1>5. b \in Int /\ b <= Len(m) BY <1>4
<1>. HIDE DEF a, b
<1>6. SubSeq(m, a, b) \in Seq(Byte) BY <1>3, <1>5
<1>. QED BY <1>6 DEF PartAt, a, b

\* A message that fills a packet has at least one part.
LEMMA PartCountType ==
    ASSUME NEW m \in Seq(Byte), Len(m) >= MaxSize
    PROVE  PartCount(m) \in Nat \ {0}
<1>1. Room \in Nat \ {0} /\ MaxSize = Room + 1 BY SizeAssumption DEF Room
<1>2. \A x, n \in Nat : n > 0 /\ x >= n => x \div n \in Nat \ {0} BY Z3
<1>3. Len(m) + Room - 1 \in Nat /\ Len(m) + Room - 1 >= Room BY <1>1
<1>. QED BY <1>1, <1>2, <1>3 DEF PartCount

\* The packets of a message: at least one, all of the connection given.
LEMMA FragmentsType ==
    ASSUME NEW m \in Seq(Byte), NEW c \in Nat
    PROVE  /\ Fragments(m, c) \in Seq(Packet)
           /\ Fragments(m, c) # <<>>
           /\ OfConn(Fragments(m, c), c)
<1>1. ASSUME NEW part \in Parts, NEW body \in Seq(Byte)
      PROVE  MakePacket(part, body, c) \in Packet
             /\ MakePacket(part, body, c).conn = c
  <2>1. Len(body) % 64 \in Nat OBVIOUS
  <2>. QED BY <2>1 DEF MakePacket, Packet
<1>2. CASE Len(m) < MaxSize
  <2>1. "solo" \in Parts BY DEF Parts
  <2>. QED BY <1>1, <1>2, <2>1 DEF Fragments, OfConn
<1>3. CASE ~(Len(m) < MaxSize)
  <2>1. PartCount(m) \in Nat \ {0}
    <3>1. Len(m) >= MaxSize BY <1>3, SizeAssumption
    <3>. QED BY <3>1, PartCountType
  <2> DEFINE part(i) == IF i = 1 THEN "start"
                        ELSE IF i = PartCount(m) THEN "end" ELSE "continue"
             f == [i \in 1..PartCount(m) |-> MakePacket(part(i), PartAt(m, i), c)]
  <2>2. \A i \in 1..PartCount(m) : part(i) \in Parts BY DEF Parts
  <2>3. \A i \in 1..PartCount(m) : PartAt(m, i) \in Seq(Byte)
    BY <2>1, PartType
  <2>4. \A i \in 1..PartCount(m) :
            MakePacket(part(i), PartAt(m, i), c) \in Packet
            /\ MakePacket(part(i), PartAt(m, i), c).conn = c
    BY <1>1, <2>2, <2>3
  <2>5. Fragments(m, c) = f BY <1>3 DEF Fragments
  <2>. HIDE DEF part
  <2>6. f \in Seq(Packet) /\ DOMAIN f = 1..PartCount(m) /\ Len(f) = PartCount(m)
    BY <2>1, <2>4
  <2>7. f # <<>> BY <2>1, <2>6
  <2>8. \A i \in DOMAIN f : f[i].conn = c BY <2>4, <2>6
  <2>. QED BY <2>5, <2>6, <2>7, <2>8 DEF OfConn
<1>. QED BY <1>2, <1>3

-----------------------------------------------------------------------------
\* What the link keeps of a queue.
LEMMA TailOfConn ==
    ASSUME NEW q \in Seq(Packet), q # <<>>, NEW c \in Nat, OfConn(q, c)
    PROVE  OfConn(Tail(q), c) /\ Head(q).conn = c
BY DEF OfConn

LEMMA ConcatOfConn ==
    ASSUME NEW q \in Seq(Packet), NEW r \in Seq(Packet), NEW c \in Nat,
           OfConn(q, c), OfConn(r, c)
    PROVE  OfConn(q \o r, c)
<1> SUFFICES ASSUME NEW i \in DOMAIN (q \o r) PROVE (q \o r)[i].conn = c
    BY DEF OfConn
<1>1. i \in 1..(Len(q) + Len(r)) OBVIOUS
<1>2. CASE i <= Len(q) BY <1>1, <1>2 DEF OfConn
<1>3. CASE i > Len(q)
  <2>1. i - Len(q) \in 1..Len(r) BY <1>1, <1>3
  <2>2. (q \o r)[i] = r[i - Len(q)] BY <1>1, <1>3
  <2>. QED BY <2>1, <2>2 DEF OfConn
<1>. QED BY <1>1, <1>2, <1>3

\* A write that is started takes the head of a queue of packets.
LEMMA ForceSendType ==
    ASSUME NEW q \in Seq(Packet), q # <<>>, ForceSend(q)
    PROVE  /\ writeQueue' \in Seq(Packet) /\ writing' \in Seq(Packet)
           /\ writing' # <<>> /\ arrived' = FALSE /\ writeReady' = FALSE
           /\ \A c \in Nat : OfConn(q, c) =>
                 OfConn(writeQueue', c) /\ OfConn(writing', c)
<1>1. Head(q) \in Packet /\ Tail(q) \in Seq(Packet) OBVIOUS
<1>2. writing' = <<Head(q)>> /\ writeQueue' = Tail(q) BY DEF ForceSend
<1>3. writing' \in Seq(Packet) /\ writing' # <<>> BY <1>1, <1>2
<1>4. ASSUME NEW c \in Nat, OfConn(q, c)
      PROVE  OfConn(writeQueue', c) /\ OfConn(writing', c)
  <2>1. OfConn(Tail(q), c) /\ Head(q).conn = c BY <1>4, TailOfConn
  <2>. QED BY <2>1, <1>2 DEF OfConn
<1>. QED BY <1>1, <1>2, <1>3, <1>4 DEF ForceSend

-----------------------------------------------------------------------------
LEMMA LinkInvInit == LinkInit => LinkInv
<1> SUFFICES ASSUME LinkInit PROVE LinkInv
    OBVIOUS
<1>1. LinkTypeOK
  <2>1. <<>> \in Seq(Packet) OBVIOUS
  <2>2. writeQueue \in Seq(Packet) /\ writing \in Seq(Packet)
    BY <2>1 DEF LinkInit
  <2>3. conn \in Nat /\ connected \in BOOLEAN /\ ticked \in BOOLEAN
        /\ writeReady \in BOOLEAN /\ arrived \in BOOLEAN
    BY DEF LinkInit
  <2>. QED BY <2>2, <2>3 DEF LinkTypeOK
<1>2. NoStalePacket /\ BusyMeansNotReady
  BY DEF LinkInit, NoStalePacket, BusyMeansNotReady
<1>3. QueueIsOfConn /\ ReadyMeansEmpty
  BY DEF LinkInit, QueueIsOfConn, ReadyMeansEmpty, OfConn
<1>. QED BY <1>1, <1>2, <1>3 DEF LinkInv

\* A send puts packets of the present connection, or of none, behind the
\* queue, and starts a write if it can.
LEMMA SendKeepsInv ==
    ASSUME LinkInv, NEW m \in Message, ClientSend(m)
    PROVE  LinkInv'
<1> DEFINE c == IF connected THEN conn ELSE Nobody
           fs == Fragments(m, c)
           q == writeQueue \o fs
<1> USE DEF LinkInv, LinkTypeOK
<1>1. m \in Seq(Byte) /\ c \in Nat BY ByteAssumption DEF Nobody
<1>2. fs \in Seq(Packet) /\ fs # <<>> /\ OfConn(fs, c) BY <1>1, FragmentsType
<1>. HIDE DEF fs
<1>3. q \in Seq(Packet) /\ q # <<>> BY <1>2
<1>4. connected => c = conn OBVIOUS
<1>5. UNCHANGED <<conn, connected, ticked>> BY DEF ClientSend
<1>6. CASE writeReady
  <2>1. ForceSend(q) BY <1>6 DEF ClientSend, fs
  <2>2. writing = <<>> BY <1>6 DEF BusyMeansNotReady
  <2>3. LinkTypeOK' /\ BusyMeansNotReady'
    BY <1>3, <1>5, <2>1, ForceSendType DEF BusyMeansNotReady
  <2>4. ASSUME connected PROVE OfConn(q, conn)
    <3>1. OfConn(writeQueue, conn) BY <1>6, <2>4 DEF QueueIsOfConn
    <3>2. OfConn(fs, conn) BY <1>2, <2>4
    <3>. QED BY <3>1, <3>2, <1>2, ConcatOfConn
  <2>5. NoStalePacket' /\ QueueIsOfConn'
    <3>1. connected => OfConn(writeQueue', conn) /\ OfConn(writing', conn)
      BY <1>3, <2>1, <2>4, ForceSendType
    <3>. QED BY <3>1, <1>5 DEF NoStalePacket, QueueIsOfConn, OfConn
  <2>6. ReadyMeansEmpty'
    BY <1>3, <2>1, ForceSendType DEF ReadyMeansEmpty
  <2>. QED BY <2>3, <2>5, <2>6
<1>7. CASE ~writeReady
  <2>1. writeQueue' = q /\ UNCHANGED <<writeReady, writing, arrived>>
    BY <1>7 DEF ClientSend, fs
  <2>2. LinkTypeOK' /\ BusyMeansNotReady' /\ NoStalePacket' /\ ReadyMeansEmpty'
    BY <1>3, <1>5, <1>7, <2>1
    DEF BusyMeansNotReady, NoStalePacket, ReadyMeansEmpty
  <2>3. ASSUME connected, writing # <<>> PROVE OfConn(q, conn)
    <3>1. OfConn(writeQueue, conn) BY <2>3 DEF QueueIsOfConn
    <3>2. OfConn(fs, conn) BY <1>2, <2>3
    <3>. QED BY <3>1, <3>2, <1>2, ConcatOfConn
  <2>4. QueueIsOfConn' BY <1>5, <1>7, <2>1, <2>3 DEF QueueIsOfConn
  <2>. QED BY <2>2, <2>4
<1>. QED BY <1>6, <1>7

LEMMA TickKeepsInv == LinkInv /\ Tick => LinkInv'
<1> SUFFICES ASSUME LinkInv, Tick PROVE LinkInv'
    OBVIOUS
<1> USE DEF LinkInv, LinkTypeOK
<1>1. UNCHANGED <<conn, connected>> /\ ticked' = TRUE BY DEF Tick
<1>2. CASE writeReady /\ writeQueue # <<>>
  <2>1. ForceSend(writeQueue) BY <1>2 DEF Tick
  <2>2. LinkTypeOK' /\ BusyMeansNotReady' /\ ReadyMeansEmpty'
    BY <1>1, <1>2, <2>1, ForceSendType DEF BusyMeansNotReady, ReadyMeansEmpty
  <2>3. connected => OfConn(writeQueue', conn) /\ OfConn(writing', conn)
    BY <1>2, <2>1, ForceSendType DEF QueueIsOfConn
  <2>4. NoStalePacket' /\ QueueIsOfConn'
    BY <1>1, <2>3 DEF NoStalePacket, QueueIsOfConn, OfConn
  <2>. QED BY <2>2, <2>4
<1>3. CASE ~(writeReady /\ writeQueue # <<>>)
  <2>1. UNCHANGED <<writeQueue, writeReady, writing, arrived>> BY <1>3 DEF Tick
  <2>. QED BY <1>1, <1>3, <2>1
       DEF NoStalePacket, BusyMeansNotReady, QueueIsOfConn, ReadyMeansEmpty,
           OfConn
<1>. QED BY <1>2, <1>3

LEMMA LinkInvStep == LinkInv /\ [LinkNext]_linkVars => LinkInv'
<1> SUFFICES ASSUME LinkInv, [LinkNext]_linkVars PROVE LinkInv'
    OBVIOUS
<1> USE DEF LinkInv, LinkTypeOK
<1>1. CASE Tick BY <1>1, TickKeepsInv
<1>2. ASSUME NEW m \in Message, ClientSend(m) PROVE LinkInv'
  BY <1>2, SendKeepsInv
<1>3. CASE RobotReceives
  BY <1>3 DEF RobotReceives, inVars, NoStalePacket, BusyMeansNotReady,
              QueueIsOfConn, ReadyMeansEmpty, OfConn
<1>4. CASE WriteResolves
  <2>1. /\ UNCHANGED <<conn, connected, ticked, writeQueue>>
        /\ connected /\ writing # <<>> /\ writing' = <<>>
        /\ arrived' = FALSE /\ writeReady' = TRUE
    BY <1>4 DEF WriteResolves
  <2>2. LinkTypeOK'
    <3>1. writing' \in Seq(Packet) BY <2>1
    <3>. QED BY <2>1, <3>1
  <2>3. NoStalePacket' /\ BusyMeansNotReady' /\ ReadyMeansEmpty'
    BY <2>1 DEF NoStalePacket, BusyMeansNotReady, ReadyMeansEmpty
  <2>4. QueueIsOfConn' BY <2>1 DEF QueueIsOfConn, OfConn
  <2>. QED BY <2>2, <2>3, <2>4
<1>5. CASE WriteRejects
  <2>1. /\ UNCHANGED <<conn, connected, ticked, writeQueue, writeReady>>
        /\ writing # <<>> /\ writing' = <<>> /\ arrived' = FALSE
    BY <1>5 DEF WriteRejects
  <2>2. ~writeReady' BY <2>1 DEF BusyMeansNotReady
  <2>3. LinkTypeOK'
    <3>1. writing' \in Seq(Packet) BY <2>1
    <3>. QED BY <2>1, <3>1
  <2>4. NoStalePacket' /\ BusyMeansNotReady' /\ ReadyMeansEmpty'
    BY <2>1, <2>2 DEF NoStalePacket, BusyMeansNotReady, ReadyMeansEmpty
  <2>5. QueueIsOfConn' BY <2>1, <2>2 DEF QueueIsOfConn
  <2>. QED BY <2>3, <2>4, <2>5
<1>6. CASE Notify
  BY <1>6 DEF Notify, outVars, NoStalePacket, BusyMeansNotReady,
              QueueIsOfConn, ReadyMeansEmpty, OfConn
<1>7. CASE Disconnect
  BY <1>7 DEF Disconnect, outVars, NoStalePacket, BusyMeansNotReady,
              QueueIsOfConn, ReadyMeansEmpty, OfConn
<1>8. CASE Connect
  <2>1. conn' = conn + 1 /\ conn' \in Nat /\ UNCHANGED <<ticked, outVars>>
        /\ connected' = TRUE
    BY <1>8 DEF Connect
  <2>2. writing' = <<>> BY <1>8, <2>1 DEF Connect, outVars
  <2>3. writeReady => writeQueue = <<>> BY <1>8 DEF Connect, ReadyMeansEmpty
  <2>4. LinkTypeOK' /\ BusyMeansNotReady' BY <2>1, <2>2 DEF outVars, BusyMeansNotReady
  <2>5. NoStalePacket' /\ ReadyMeansEmpty' BY <2>1, <2>2 DEF NoStalePacket, ReadyMeansEmpty
  <2>6. QueueIsOfConn' BY <2>1, <2>2, <2>3 DEF QueueIsOfConn, OfConn, outVars
  <2>. QED BY <2>4, <2>5, <2>6
<1>9. ASSUME NEW m \in Message, RobotSend(m) PROVE LinkInv'
  BY <1>9 DEF RobotSend, outVars, NoStalePacket, BusyMeansNotReady,
              QueueIsOfConn, ReadyMeansEmpty, OfConn
<1>10. CASE UNCHANGED linkVars
  BY <1>10 DEF linkVars, outVars, NoStalePacket, BusyMeansNotReady,
               QueueIsOfConn, ReadyMeansEmpty, OfConn
<1>. QED BY <1>1, <1>2, <1>3, <1>4, <1>5, <1>6, <1>7, <1>8, <1>9, <1>10
         DEF LinkNext, LinkStep

\* The variables of the link keep their types: whatever is queued or written
\* is a packet (BleMessageProtocol, VectorBluetooth).
THEOREM LinkTypeCorrect == LinkSpec => []LinkTypeOK
<1>1. LinkInv => LinkTypeOK BY DEF LinkInv
<1>. QED BY LinkInvInit, LinkInvStep, <1>1, PTL DEF LinkSpec

\* No packet that an earlier connection left behind is written into a later
\* one (forceSendMsg, handleDisconnected, connectToDevice).
THEOREM NothingStaleIsSent == LinkSpec => []NoStalePacket
<1>1. LinkInv => NoStalePacket BY DEF LinkInv
<1>. QED BY LinkInvInit, LinkInvStep, <1>1, PTL DEF LinkSpec

-----------------------------------------------------------------------------
(***************************************************************************)
(* What is received is what was sent.  A packet on its way is labelled     *)
(* with the message it is of and with which part of it it is.  The labels  *)
(* are consecutive; the first follows what the other end has in its buffer *)
(* and has handed over, the last is the end of what was sent.  Sending and *)
(* arriving keep this: nothing is said of a link on which nothing moves    *)
(* any more.                                                               *)
(***************************************************************************)
\* The messages of the protocol.
ByteSeqs == Seq(Byte)

\* Multiplication by a natural keeps the order.
LEMMA Multiples ==
    ASSUME NEW a \in Nat, NEW b \in Nat, NEW r \in Nat, a <= b
    PROVE  a * r \in Nat /\ b * r \in Nat /\ a * r <= b * r /\ (a + 1) * r = a * r + r
<1>1. \A x, y, z \in Nat : x <= y => x * z <= y * z BY Z3
<1>2. \A x, z \in Nat : x * z \in Nat /\ (x + 1) * z = x * z + z BY Z3
<1>. QED BY <1>1, <1>2

\* A message that does not fit into one packet takes two or more; the last
\* part alone reaches its end.
LEMMA PartCounts ==
    ASSUME NEW m \in ByteSeqs, Len(m) >= MaxSize
    PROVE  /\ PartCount(m) \in Nat /\ PartCount(m) >= 2
           /\ (PartCount(m) - 1) * Room < Len(m) /\ Len(m) <= PartCount(m) * Room
<1> DEFINE x == Len(m) + Room - 1
           k == x \div Room
<1>1. Room \in Nat \ {0} /\ MaxSize = Room + 1 BY SizeAssumption DEF Room
<1>2. \A n, r \in Nat : r > 0 => /\ n \div r \in Nat /\ (n \div r) * r <= n
                                 /\ n < (n \div r) * r + r
  BY Z3
<1>3. \A a, r \in Nat : (a - 1) * r = a * r - r BY Z3
<1>4. \A a, r \in Nat : a \in {0, 1} => a * r <= r BY Z3
<1>5. Len(m) \in Nat /\ x \in Nat /\ x >= 2 * Room BY <1>1 DEF ByteSeqs
<1>6. k \in Nat /\ k * Room <= x /\ x < k * Room + Room BY <1>1, <1>2, <1>5
<1>7. k * Room \in Int /\ (k - 1) * Room = k * Room - Room BY <1>1, <1>3, <1>6
<1>8. k = PartCount(m) BY DEF PartCount
<1>9. k >= 2
  <2>1. k \in {0, 1} => k * Room <= Room BY <1>1, <1>4, <1>6, Zenon
  <2>2. x >= 2 * Room /\ x < k * Room + Room /\ k * Room \in Int /\ x \in Nat
    BY <1>5, <1>6, <1>7, Zenon
  <2> HIDE DEF x, k
  <2>3. ~(k * Room <= Room) BY <1>1, <2>2
  <2>4. k \notin {0, 1} /\ k \in Nat BY <1>6, <2>1, <2>3, Zenon
  <2>. QED BY <2>4
<1>10. (k - 1) * Room < Len(m) /\ Len(m) <= k * Room
  <2> DEFINE y == k * Room
  <2>1. y \in Int /\ (k - 1) * Room = y - Room /\ y <= x /\ x < y + Room
    BY <1>6, <1>7, Zenon
  <2> HIDE DEF y, k
  <2>2. y - Room < Len(m) /\ Len(m) <= y BY <1>1, <1>5, <2>1
  <2>. QED BY <2>1, <2>2 DEF y
<1> HIDE DEF k
<1>. QED BY <1>6, <1>8, <1>9, <1>10, Zenon

\* The bytes of m that its first p packets carry.
Carried(m, p) == SubSeq(m, 1, IF p * Room < Len(m) THEN p * Room ELSE Len(m))

(* The next part goes where the bytes before it end; it fits into a packet. *)
LEMMA PartsJoin ==
    ASSUME NEW m \in ByteSeqs, NEW p \in Nat \ {0}, (p - 1) * Room < Len(m)
    PROVE  /\ PartAt(m, p) \in ByteSeqs /\ Len(PartAt(m, p)) < 64
           /\ SubSeq(m, 1, (p - 1) * Room) \o PartAt(m, p) = Carried(m, p)
           /\ p = 1 => PartAt(m, p) = Carried(m, p)
           /\ Carried(m, p) \in ByteSeqs
<1> DEFINE a == (p - 1) * Room
           b == IF p * Room < Len(m) THEN p * Room ELSE Len(m)
<1>1. Room \in 1..62 BY SizeAssumption DEF Room
<1>2. Len(m) \in Nat BY DEF ByteSeqs
<1>3. a \in Nat /\ p * Room = a + Room /\ (p = 1 => a = 0)
  <2>1. p - 1 \in Nat /\ p = (p - 1) + 1 OBVIOUS
  <2>2. \A y \in Nat : 0 * y = 0 BY Z3
  <2>. QED BY <1>1, <2>1, <2>2, Multiples
<1>4. a < b /\ b <= Len(m) /\ b <= a + Room /\ b \in Nat BY <1>1, <1>2, <1>3
<1>5. PartAt(m, p) = SubSeq(m, a + 1, b) /\ Carried(m, p) = SubSeq(m, 1, b)
  BY DEF PartAt, Carried
<1> HIDE DEF a, b
<1>6. m \in Seq(Byte) BY DEF ByteSeqs
<1>7. 1 \in 1..(Len(m) + 1) /\ a \in (1 - 1)..Len(m) /\ b \in a..Len(m)
  BY <1>2, <1>3, <1>4
<1>8. SubSeq(m, 1, a) \o SubSeq(m, a + 1, b) = SubSeq(m, 1, b)
  BY <1>6, <1>7, ConcatAdjacentSubSeq
<1>9. p = 1 => SubSeq(m, a + 1, b) = SubSeq(m, 1, b)
  <2>1. p = 1 => a + 1 = 1 BY <1>3
  <2>. QED BY <2>1
<1>10. \A y \in {1, a + 1} : /\ SubSeq(m, y, b) \in Seq(Byte)
                             /\ Len(SubSeq(m, y, b)) = IF y <= b THEN b - y + 1 ELSE 0
  <2> SUFFICES ASSUME NEW y \in {1, a + 1}
               PROVE  /\ SubSeq(m, y, b) \in Seq(Byte)
                      /\ Len(SubSeq(m, y, b)) = IF y <= b THEN b - y + 1 ELSE 0
    OBVIOUS
  <2>1. y \in Int /\ b \in Int BY <1>3, <1>4
  <2>2. \A i \in y..b : m[i] \in Byte BY <1>2, <1>3, <1>4, <1>6
  <2>. QED BY <2>1, <2>2, SubSeqProperties
<1>11. Len(SubSeq(m, a + 1, b)) < 64 BY <1>1, <1>3, <1>4, <1>10
<1>. QED BY <1>5, <1>8, <1>9, <1>10, <1>11 DEF a, ByteSeqs

-----------------------------------------------------------------------------
(* Packets on their way.                                                    *)
\* The number of packets of a message.
Pcs(m, c) == Len(Fragments(m, c))

(***************************************************************************)
(* The packets Q on their way over connection c, when S was sent: at and   *)
(* part are the labels.                                                    *)
(***************************************************************************)
Indices == [Nat -> Nat]
Labels(S, Q, c, at, part) ==
    /\ at[Len(Q) + 1] = Len(S) + 1 /\ part[Len(Q) + 1] = 1
    /\ \A x \in 1..Len(Q) :
          /\ at[x] \in 1..Len(S) /\ part[x] \in 1..Pcs(S[at[x]], c)
          /\ Q[x] = Fragments(S[at[x]], c)[part[x]]
          /\ IF part[x] < Pcs(S[at[x]], c)
             THEN at[x + 1] = at[x] /\ part[x + 1] = part[x] + 1
             ELSE at[x + 1] = at[x] + 1 /\ part[x + 1] = 1

\* G has been handed over and B is what the other end holds of a message.
Travels(S, Q, G, B, c) ==
    \E at, part \in Indices :
        /\ Labels(S, Q, c, at, part)
        /\ Len(G) + 1 = at[1]
        /\ \A x \in 1..Len(G) : G[x] = S[x]
        /\ part[1] > 1 => B = SubSeq(S[at[1]], 1, (part[1] - 1) * Room)

\* The same as a prefix in the sense of the properties.
LEMMA PrefixIs ==
    ASSUME NEW T, NEW S \in Seq(T), NEW G \in Seq(T), Len(G) <= Len(S),
           \A x \in 1..Len(G) : G[x] = S[x]
    PROVE  IsPrefixOf(G, S)
<1>1. Len(G) \in Int /\ 1 \in Int /\ \A x \in 1..Len(G) : S[x] \in T OBVIOUS
<1>2. /\ SubSeq(S, 1, Len(G)) \in Seq(T)
      /\ Len(SubSeq(S, 1, Len(G))) = IF 1 <= Len(G) THEN Len(G) - 1 + 1 ELSE 0
      /\ \A i \in 1..(Len(G) - 1 + 1) : SubSeq(S, 1, Len(G))[i] = S[1 + i - 1]
  BY <1>1, SubSeqProperties
<1>3. Len(SubSeq(S, 1, Len(G))) = Len(G) BY <1>2
<1>4. \A i \in 1..Len(G) : SubSeq(S, 1, Len(G))[i] = G[i]
  BY <1>2
<1>5. G = SubSeq(S, 1, Len(G)) BY <1>2, <1>3, <1>4, SeqEqual
<1>. QED BY <1>5 DEF IsPrefixOf

\* Nothing is on its way when nothing was sent.
LEMMA TravelsStarts ==
    ASSUME NEW B, NEW c
    PROVE  Travels(<<>>, <<>>, <<>>, B, c)
<1> DEFINE one == [x \in Nat |-> 1]
<1>1. one \in Indices /\ one[1] = 1 BY DEF Indices
<1> HIDE DEF one
<1>2. Labels(<<>>, <<>>, c, one, one) BY <1>1 DEF Labels
<1>3. Len(<<>>) + 1 = one[1] /\ ~(one[1] > 1) BY <1>1
<1>. QED BY <1>1, <1>2, <1>3 DEF Travels

\* The labels once the k packets of message s + 1 are queued after the n
\* packets already on their way.
AtAfter(at, n, k, s) ==
    [x \in Nat |-> IF x <= n THEN at[x] ELSE IF x <= n + k THEN s + 1 ELSE s + 2]
PartAfter(part, n, k) ==
    [x \in Nat |-> IF x <= n THEN part[x] ELSE IF x <= n + k THEN x - n ELSE 1]

LabelTypes(n, k, s, at, part) ==
    n \in Nat /\ k \in Nat /\ k > 0 /\ s \in Nat /\ at \in Indices /\ part \in Indices
Continued(n, k, s, at, part, at2, part2) ==
    /\ at2 \in Indices /\ part2 \in Indices
    /\ \A x \in 1..(n + 1) : at2[x] = at[x] /\ part2[x] = part[x]
    /\ \A x \in (n + 1)..(n + k) : at2[x] = s + 1 /\ part2[x] = x - n
    /\ at2[n + k + 1] = s + 2 /\ part2[n + k + 1] = 1

\* They are labels, and leave those of the earlier packets alone.
LEMMA LabelsExtend ==
    ASSUME NEW n, NEW k, NEW s, NEW at, NEW part, LabelTypes(n, k, s, at, part),
           at[n + 1] = s + 1, part[n + 1] = 1
    PROVE  Continued(n, k, s, at, part, AtAfter(at, n, k, s), PartAfter(part, n, k))
<1> USE DEF LabelTypes
<1> DEFINE at2 == AtAfter(at, n, k, s)
           part2 == PartAfter(part, n, k)
<1> USE DEF AtAfter, PartAfter, Indices
<1>1. at2 \in Indices
  <2>1. \A x \in Nat : (IF x <= n THEN at[x]
                        ELSE IF x <= n + k THEN s + 1 ELSE s + 2) \in Nat
    OBVIOUS
  <2>. QED BY <2>1
<1>2. part2 \in Indices
  <2>1. \A x \in Nat : (IF x <= n THEN part[x]
                        ELSE IF x <= n + k THEN x - n ELSE 1) \in Nat
    OBVIOUS
  <2>. QED BY <2>1
<1>3. \A x \in 1..(n + 1) : at2[x] = at[x] /\ part2[x] = part[x]
  <2> SUFFICES ASSUME NEW x \in 1..(n + 1) PROVE at2[x] = at[x] /\ part2[x] = part[x]
    OBVIOUS
  <2>1. CASE x <= n BY <2>1
  <2>2. CASE x = n + 1 BY <2>2
  <2>. QED BY <2>1, <2>2
<1>4. \A x \in (n + 1)..(n + k) : at2[x] = s + 1 /\ part2[x] = x - n OBVIOUS
<1>5. at2[n + k + 1] = s + 2 /\ part2[n + k + 1] = 1 OBVIOUS
<1>. QED BY <1>1, <1>2, <1>3, <1>4, <1>5 DEF Continued

(* Where a packet stands among those of the messages sent.                  *)
Stands(S, c, q, j, p) ==
    j \in 1..Len(S) /\ p \in 1..Pcs(S[j], c) /\ q = Fragments(S[j], c)[p]
Follows(S, c, j, p, j2, p2) ==
    IF p < Pcs(S[j], c) THEN j2 = j /\ p2 = p + 1 ELSE j2 = j + 1 /\ p2 = 1

\* T is S and then m; R is Q and then F.
Grown(S, m, T, s) ==
    /\ Len(S) = s /\ Len(T) = s + 1 /\ T[s + 1] = m
    /\ \A x \in 1..s : T[x] = S[x]
Joined(Q, F, R, n, k) ==
    /\ Len(Q) = n /\ Len(R) = n + k
    /\ \A x \in 1..(n + k) : R[x] = IF x <= n THEN Q[x] ELSE F[x - n]

Extends(S, T, Q, R, c, m, n, k, s, at, part) ==
    /\ LabelTypes(n, k, s, at, part)
    /\ k = Pcs(m, c) /\ Grown(S, m, T, s) /\ Joined(Q, Fragments(m, c), R, n, k)
    /\ Labels(S, Q, c, at, part)

StartsAlike(T, R, c, at, part, at2, part2) ==
    /\ at2 \in Indices /\ part2 \in Indices /\ Labels(T, R, c, at2, part2)
    /\ at2[1] = at[1] /\ part2[1] = part[1]

\* The packets of one message more are labelled after those of the others.
LEMMA LabelsAppend ==
    ASSUME NEW S, NEW T, NEW Q, NEW R, NEW c, NEW m, NEW n, NEW k, NEW s,
           NEW at, NEW part, Extends(S, T, Q, R, c, m, n, k, s, at, part)
    PROVE  StartsAlike(T, R, c, at, part, AtAfter(at, n, k, s), PartAfter(part, n, k))
<1>. LabelTypes(n, k, s, at, part) BY DEF Extends
<1>1. /\ n \in Nat /\ k \in Nat /\ k > 0 /\ s \in Nat
      /\ at \in Indices /\ part \in Indices
  BY DEF LabelTypes
<1>2. /\ k = Pcs(m, c) /\ Grown(S, m, T, s) /\ Joined(Q, Fragments(m, c), R, n, k)
      /\ Labels(S, Q, c, at, part)
  BY DEF Extends
<1> DEFINE at2 == AtAfter(at, n, k, s)
           part2 == PartAfter(part, n, k)
<1>8. /\ at[n + 1] = s + 1 /\ part[n + 1] = 1
      /\ \A x \in 1..n : /\ Stands(S, c, Q[x], at[x], part[x])
                         /\ Follows(S, c, at[x], part[x], at[x + 1], part[x + 1])
  BY <1>1, <1>2 DEF Labels, Stands, Follows, Grown, Joined
<1>9. /\ Len(S) = s /\ Len(T) = s + 1 /\ T[s + 1] = m
      /\ \A x \in 1..s : T[x] = S[x]
  BY <1>2, Zenon DEF Grown
<1>10. at[n + 1] = s + 1 /\ part[n + 1] = 1 BY <1>8
<1>11. /\ at2 \in Indices /\ part2 \in Indices
       /\ \A x \in 1..(n + 1) : at2[x] = at[x] /\ part2[x] = part[x]
       /\ \A x \in (n + 1)..(n + k) : at2[x] = s + 1 /\ part2[x] = x - n
       /\ at2[n + k + 1] = s + 2 /\ part2[n + k + 1] = 1
  <2>1. Continued(n, k, s, at, part, at2, part2) BY <1>10, LabelsExtend, Zenon
  <2>. QED BY <2>1, Zenon DEF Continued
<1> HIDE DEF at2, part2
<1> USE <1>1, <1>2 DEF Indices
<1>12. ASSUME NEW x \in 1..n
       PROVE  /\ Stands(T, c, R[x], at2[x], part2[x])
              /\ Follows(T, c, at2[x], part2[x], at2[x + 1], part2[x + 1])
  <2>1. x \in 1..(n + 1) /\ x + 1 \in 1..(n + 1) /\ x \in 1..(n + k) /\ x <= n
    OBVIOUS
  <2>2. at2[x] = at[x] /\ part2[x] = part[x]
        /\ at2[x + 1] = at[x + 1] /\ part2[x + 1] = part[x + 1]
    BY <1>11, <2>1
  <2>3. R[x] = Q[x] BY <2>1 DEF Joined
  <2>4. Stands(S, c, Q[x], at[x], part[x])
        /\ Follows(S, c, at[x], part[x], at[x + 1], part[x + 1])
    BY <1>8
  <2>5. at[x] \in 1..s BY <2>4 DEF Stands, Grown
  <2>6. at[x] \in 1..(s + 1) BY <2>5
  <2>7. T[at[x]] = S[at[x]] BY <1>9, <2>5, Zenon
  <2>. QED BY <1>9, <2>2, <2>3, <2>4, <2>6, <2>7, Zenon DEF Stands, Follows
<1>13. ASSUME NEW x \in (n + 1)..(n + k)
       PROVE  /\ Stands(T, c, R[x], at2[x], part2[x])
              /\ Follows(T, c, at2[x], part2[x], at2[x + 1], part2[x + 1])
  <2>1. x \in 1..(n + k) /\ ~(x <= n) /\ x - n \in 1..k /\ x + 1 - n = x - n + 1
    OBVIOUS
  <2>2. at2[x] = s + 1 /\ part2[x] = x - n BY <1>11
  <2>3. R[x] = Fragments(m, c)[x - n] BY <2>1 DEF Joined
  <2>4. s + 1 \in 1..(s + 1) OBVIOUS
  <2>5. Stands(T, c, R[x], at2[x], part2[x])
    BY <1>9, <2>1, <2>2, <2>3, <2>4, Zenon DEF Stands
  <2>6. CASE x - n < k
    <3>1. x + 1 \in (n + 1)..(n + k) BY <2>6
    <3>2. at2[x + 1] = s + 1 /\ part2[x + 1] = x - n + 1 BY <1>11, <2>1, <3>1
    <3>3. Pcs(T[at2[x]], c) = k BY <1>9, <2>2
    <3>. QED BY <2>2, <2>5, <2>6, <3>2, <3>3, Zenon DEF Follows
  <2>7. CASE ~(x - n < k)
    <3>1. x + 1 = n + k + 1 /\ s + 2 = s + 1 + 1 BY <2>7
    <3>2. at2[x + 1] = s + 1 + 1 /\ part2[x + 1] = 1 BY <1>11, <3>1
    <3>3. Pcs(T[at2[x]], c) = k BY <1>9, <2>2
    <3>. QED BY <2>2, <2>5, <2>7, <3>2, <3>3, Zenon DEF Follows
  <2>. QED BY <2>6, <2>7
<1>14. Labels(T, R, c, at2, part2)
  <2>1. \A x \in 1..Len(R) : x \in 1..n \/ x \in (n + 1)..(n + k) BY DEF Joined
  <2>2. at2[Len(R) + 1] = Len(T) + 1 /\ part2[Len(R) + 1] = 1
    <3>1. Len(R) + 1 = n + k + 1 /\ Len(T) + 1 = s + 2 BY DEF Joined, Grown
    <3>. QED BY <1>11, <3>1
  <2>3. \A x \in 1..Len(R) :
           /\ Stands(T, c, R[x], at2[x], part2[x])
           /\ Follows(T, c, at2[x], part2[x], at2[x + 1], part2[x + 1])
    BY <1>12, <1>13, <2>1
  <2>. QED BY <2>2, <2>3 DEF Labels, Stands, Follows
<1>15. at2[1] = at[1] /\ part2[1] = part[1] BY <1>11
<1>. QED BY <1>11, <1>14, <1>15 DEF at2, part2, StartsAlike

\* The first packet that is not yet there.
LEMMA FirstLabel ==
    ASSUME NEW S, NEW Q, NEW c, NEW at \in Indices, NEW part \in Indices,
           Len(S) \in Nat, Len(Q) \in Nat, Labels(S, Q, c, at, part)
    PROVE  at[1] <= Len(S) + 1 /\ (part[1] > 1 => at[1] \in 1..Len(S))
<1>1. CASE Len(Q) = 0
  <2>1. Len(Q) + 1 = 1 BY <1>1
  <2>2. at[1] = Len(S) + 1 /\ part[1] = 1 BY <2>1, Zenon DEF Labels
  <2>. QED BY <2>2
<1>2. CASE Len(Q) > 0
  <2>1. 1 \in 1..Len(Q) BY <1>2
  <2>2. at[1] \in 1..Len(S) BY <2>1, Zenon DEF Labels
  <2>. QED BY <2>2
<1>. QED BY <1>1, <1>2

\* Sending a message puts its packets behind those on their way.
LEMMA TravelsSends ==
    ASSUME NEW S \in Seq(ByteSeqs), NEW Q \in Seq(Packet), NEW G \in Seq(ByteSeqs), NEW B,
           NEW c \in Nat, NEW m \in ByteSeqs, Travels(S, Q, G, B, c)
    PROVE  Travels(Append(S, m), Q \o Fragments(m, c), G, B, c)
<1> DEFINE F == Fragments(m, c)
           T == Append(S, m)
           R == Q \o F
<1>1. PICK at \in Indices, part \in Indices :
        /\ Labels(S, Q, c, at, part)
        /\ Len(G) + 1 = at[1]
        /\ \A x \in 1..Len(G) : G[x] = S[x]
        /\ part[1] > 1 => B = SubSeq(S[at[1]], 1, (part[1] - 1) * Room)
  BY Zenon DEF Travels
<1>2. F \in Seq(Packet) /\ F # <<>> BY FragmentsType DEF ByteSeqs
<1>3. Len(F) \in Nat /\ Len(F) > 0 BY <1>2
<1>4. Len(T) = Len(S) + 1 /\ T[Len(S) + 1] = m /\ \A x \in 1..Len(S) : T[x] = S[x]
  OBVIOUS
<1>5. /\ Len(R) = Len(Q) + Len(F)
      /\ \A x \in 1..(Len(Q) + Len(F)) :
            R[x] = IF x <= Len(Q) THEN Q[x] ELSE F[x - Len(Q)]
  BY <1>2, ConcatProperties, Zenon
<1>6. Len(Q) \in Nat /\ Len(S) \in Nat /\ Len(G) \in Nat BY LenProperties, Zenon
<1>7. Pcs(m, c) = Len(F) /\ F = Fragments(m, c) BY DEF Pcs
<1> DEFINE n == Len(Q)
           k == Len(F)
           s == Len(S)
<1> HIDE DEF F, T, R
<1>15. Extends(S, T, Q, R, c, m, n, k, s, at, part)
  BY <1>1, <1>3, <1>4, <1>5, <1>6, <1>7 DEF Grown, Joined, Extends, LabelTypes
<1> DEFINE at2 == AtAfter(at, n, k, s)
           part2 == PartAfter(part, n, k)
<1> HIDE DEF n, k, s
<1>8. /\ at2 \in Indices /\ part2 \in Indices
      /\ Labels(T, R, c, at2, part2)
      /\ at2[1] = at[1] /\ part2[1] = part[1]
  <2>1. StartsAlike(T, R, c, at, part, at2, part2) BY <1>15, LabelsAppend, Zenon
  <2>. QED BY <2>1, Zenon DEF StartsAlike
<1> HIDE DEF at2, part2
<1>9. at[1] <= Len(S) + 1 /\ (part[1] > 1 => at[1] \in 1..Len(S))
  BY <1>1, <1>6, FirstLabel, Zenon
<1>10. \A x \in 1..Len(G) : x \in 1..Len(S)
  <2>1. Len(G) <= Len(S) BY <1>1, <1>6, <1>9
  <2>. QED BY <1>6, <2>1
<1>11. \A x \in 1..Len(G) : G[x] = T[x] BY <1>1, <1>4, <1>10, Zenon
<1>12. part2[1] > 1 => B = SubSeq(T[at2[1]], 1, (part2[1] - 1) * Room)
  <2> SUFFICES ASSUME part[1] > 1
               PROVE  B = SubSeq(T[at[1]], 1, (part[1] - 1) * Room)
    BY <1>8, Zenon
  <2>1. T[at[1]] = S[at[1]] BY <1>4, <1>9, Zenon
  <2>. QED BY <1>1, <2>1, Zenon
<1>13. Len(G) + 1 = at2[1] BY <1>1, <1>8, Zenon
<1>14. Travels(T, R, G, B, c) BY <1>8, <1>11, <1>12, <1>13, Zenon DEF Travels
<1>. QED BY <1>14 DEF F, T, R

\* What a packet of m does at the other end, if those before it are in its
\* buffer.
Comes(m, c, p, B, h) ==
    /\ m \in ByteSeqs /\ c \in Nat /\ p \in 1..Pcs(m, c) /\ h = Fragments(m, c)[p]
    /\ p > 1 => B = SubSeq(m, 1, (p - 1) * Room)
Taken(m, c, p, B, h) ==
    IF p < Pcs(m, c)
    THEN MessagesOf(B, h) = <<>> /\ BufferAfter(B, h) = SubSeq(m, 1, p * Room)
    ELSE MessagesOf(B, h) = <<m>>

\* A packet that comes in its turn extends the buffer by its part, and the
\* last one of a message hands over the message: the six bits of its size
\* hold the length of its body, because MaxSize is at most 63.
LEMMA PacketDone ==
    ASSUME NEW m, NEW c, NEW p, NEW B, NEW h, Comes(m, c, p, B, h)
    PROVE  Taken(m, c, p, B, h)
<1>. m \in ByteSeqs /\ c \in Nat /\ p \in 1..Pcs(m, c) BY DEF Comes
<1>. h = Fragments(m, c)[p] /\ (p > 1 => B = SubSeq(m, 1, (p - 1) * Room))
  BY DEF Comes
<1>1. Len(m) \in Nat /\ Room \in Nat \ {0} /\ MaxSize = Room + 1 /\ MaxSize \in 2..63
  BY SizeAssumption DEF ByteSeqs, Room
<1>2. CASE Len(m) < MaxSize
  <2>1. Fragments(m, c) = <<MakePacket("solo", m, c)>> BY <1>2 DEF Fragments
  <2>2. Pcs(m, c) = 1 BY <2>1 DEF Pcs
  <2>3. p = 1 /\ ~(p < Pcs(m, c)) BY <2>2
  <2>4. h = MakePacket("solo", m, c) BY <2>1, <2>3
  <2>5. Len(m) % 64 = Len(m)
    <3>1. \A x \in Nat : x < 64 => x % 64 = x OBVIOUS
    <3>2. Len(m) \in Nat /\ Len(m) < 64 BY <1>1, <1>2
    <3>. QED BY <3>1, <3>2, Zenon
  <2>6. h.part = "solo" /\ h.body = m /\ SizeMatches(h)
    BY <2>4, <2>5 DEF MakePacket, SizeMatches
  <2>7. MessagesOf(B, h) = <<m>> BY <2>6 DEF MessagesOf
  <2>. QED BY <2>3, <2>7 DEF Taken
<1>3. CASE ~(Len(m) < MaxSize)
  <2> DEFINE k == PartCount(m)
             name(i) == IF i = 1 THEN "start" ELSE IF i = k THEN "end" ELSE "continue"
             body == PartAt(m, p)
  <2>1. Len(m) >= MaxSize BY <1>1, <1>3
  <2>2. k \in Nat /\ k >= 2 /\ (k - 1) * Room < Len(m) /\ Len(m) <= k * Room
    BY <2>1, PartCounts
  <2>3. Fragments(m, c) = [i \in 1..k |-> MakePacket(name(i), PartAt(m, i), c)]
    BY <1>3 DEF Fragments
  <2>4. Pcs(m, c) = k BY <2>2, <2>3 DEF Pcs
  <2> HIDE DEF k
  <2>5. p \in 1..k BY <2>4
  <2>6. h = MakePacket(name(p), body, c) BY <2>3, <2>5
  <2>7. (p - 1) * Room < Len(m) /\ p * Room \in Nat
        /\ (p < k => p * Room < Len(m)) /\ (p = k => ~(p * Room < Len(m)))
    <3>1. p - 1 \in Nat /\ k - 1 \in Nat /\ p \in Nat /\ p - 1 <= k - 1 BY <2>2, <2>5
    <3>2. (p - 1) * Room \in Nat /\ (k - 1) * Room \in Nat
          /\ (p - 1) * Room <= (k - 1) * Room
      BY <1>1, <3>1, Multiples
    <3>3. p * Room \in Nat BY <1>1, <3>1, Multiples
    <3>4. p < k => p * Room <= (k - 1) * Room
      <4>1. p < k => p <= k - 1 BY <2>2, <3>1
      <4>. QED BY <1>1, <3>1, <4>1, Multiples
    <3>. QED BY <1>1, <2>2, <3>2, <3>3, <3>4
  <2>8. /\ body \in ByteSeqs /\ Len(body) < 64
        /\ SubSeq(m, 1, (p - 1) * Room) \o body = Carried(m, p)
        /\ p = 1 => body = Carried(m, p)
    <3>1. p \in Nat \ {0} /\ (p - 1) * Room < Len(m) BY <2>5, <2>7
    <3>. QED BY <3>1, PartsJoin, Zenon
  <2> HIDE DEF body, name
  <2>9. h.part = name(p) /\ h.body = body /\ SizeMatches(h)
    <3>1. Len(body) \in Nat BY <2>8 DEF ByteSeqs
    <3>2. \A x \in Nat : x < 64 => x % 64 = x OBVIOUS
    <3>3. Len(body) % 64 = Len(body) BY <2>8, <3>1, <3>2, Zenon
    <3>. QED BY <2>6, <3>3 DEF MakePacket, SizeMatches
  <2>10. CASE p < k
    <3>1. Carried(m, p) = SubSeq(m, 1, p * Room) BY <2>7, <2>10 DEF Carried
    <3>2. h.part # "solo" /\ h.part # "end" /\ ((h.part = "start") <=> (p = 1))
      BY <2>5, <2>9, <2>10 DEF name
    <3>3. MessagesOf(B, h) = <<>> BY <2>9, <3>2 DEF MessagesOf
    <3>4. BufferAfter(B, h) = IF p = 1 THEN body ELSE B \o body
      BY <2>9, <3>2 DEF BufferAfter
    <3>5. p # 1 => p > 1 BY <2>5
    <3>6. BufferAfter(B, h) = Carried(m, p) BY <2>8, <3>4, <3>5
    <3>. QED BY <2>4, <2>10, <3>1, <3>3, <3>6 DEF Taken
  <2>11. CASE ~(p < k)
    <3>1. p = k /\ p > 1 BY <2>2, <2>5, <2>11
    <3>2. Carried(m, p) = m
      <4>1. Carried(m, p) = SubSeq(m, 1, Len(m)) BY <2>7, <3>1 DEF Carried
      <4>. QED BY <4>1, SubSeqFull DEF ByteSeqs
    <3>3. h.part = "end" BY <2>9, <3>1 DEF name
    <3>4. MessagesOf(B, h) = <<B \o body>> BY <2>9, <3>3 DEF MessagesOf
    <3>5. B \o body = m BY <2>8, <3>1, <3>2
    <3>. QED BY <2>4, <2>11, <3>4, <3>5 DEF Taken
  <2>. QED BY <2>10, <2>11
<1>. QED BY <1>2, <1>3

\* The labels without the first one.
Later(f) == [x \in Nat |-> f[x + 1]]

LEMMA LaterIs ==
    ASSUME NEW f \in Indices
    PROVE  Later(f) \in Indices /\ \A x \in Nat : Later(f)[x] = f[x + 1]
BY DEF Later, Indices

\* The packets behind the first one keep their labels.
LEMMA LabelsTail ==
    ASSUME NEW S, NEW Q, NEW R, NEW n \in Nat, n > 0, NEW c, NEW at \in Indices,
           NEW part \in Indices, Labels(S, Q, c, at, part),
           Len(Q) = n, Len(R) = n - 1, \A x \in 1..(n - 1) : R[x] = Q[x + 1]
    PROVE  Labels(S, R, c, Later(at), Later(part))
<1> DEFINE at2 == Later(at)
           part2 == Later(part)
<1>1. \A x \in Nat : at2[x] = at[x + 1] /\ part2[x] = part[x + 1] BY LaterIs
<1> HIDE DEF at2, part2
<1>2. /\ at[n + 1] = Len(S) + 1 /\ part[n + 1] = 1
      /\ \A x \in 1..n : /\ Stands(S, c, Q[x], at[x], part[x])
                         /\ Follows(S, c, at[x], part[x], at[x + 1], part[x + 1])
  BY DEF Labels, Stands, Follows
<1>3. at2[n - 1 + 1] = Len(S) + 1 /\ part2[n - 1 + 1] = 1
  <2>1. n \in Nat /\ n - 1 + 1 = n OBVIOUS
  <2>. QED BY <1>1, <1>2, <2>1
<1>4. ASSUME NEW x \in 1..(n - 1)
      PROVE  /\ Stands(S, c, R[x], at2[x], part2[x])
             /\ Follows(S, c, at2[x], part2[x], at2[x + 1], part2[x + 1])
  <2>1. x \in Nat /\ x + 1 \in Nat /\ x + 1 \in 1..n OBVIOUS
  <2>. QED BY <1>1, <1>2, <2>1
<1>5. Labels(S, R, c, at2, part2) BY <1>3, <1>4 DEF Labels, Stands, Follows
<1>. QED BY <1>5 DEF at2, part2

\* The first packet on its way arrives.
LEMMA TravelsArrives ==
    ASSUME NEW S \in Seq(ByteSeqs), NEW Q \in Seq(Packet), Q # <<>>, NEW G \in Seq(ByteSeqs), NEW B,
           NEW c \in Nat, Travels(S, Q, G, B, c)
    PROVE  /\ G \o MessagesOf(B, Head(Q)) \in Seq(ByteSeqs)
           /\ Travels(S, Tail(Q), G \o MessagesOf(B, Head(Q)), BufferAfter(B, Head(Q)), c)
<1> DEFINE h == Head(Q)
           R == Tail(Q)
           H == G \o MessagesOf(B, h)
           C == BufferAfter(B, h)
           n == Len(Q)
<1>1. PICK at \in Indices, part \in Indices :
        /\ Labels(S, Q, c, at, part)
        /\ Len(G) + 1 = at[1]
        /\ \A x \in 1..Len(G) : G[x] = S[x]
        /\ part[1] > 1 => B = SubSeq(S[at[1]], 1, (part[1] - 1) * Room)
  BY Zenon DEF Travels
<1>2. n \in Nat /\ n > 0 OBVIOUS
<1>3. h = Q[1] /\ Len(R) = n - 1 /\ \A x \in 1..(n - 1) : R[x] = Q[x + 1]
  BY HeadTailProperties
<1>4. Len(G) \in Nat /\ Len(S) \in Nat BY LenProperties, Zenon
<1> DEFINE j == at[1]
           p == part[1]
           m == S[j]
<1>5. /\ j \in 1..Len(S) /\ p \in 1..Pcs(m, c) /\ h = Fragments(m, c)[p]
      /\ IF p < Pcs(m, c) THEN at[2] = j /\ part[2] = p + 1 ELSE at[2] = j + 1 /\ part[2] = 1
  <2>1. 1 \in 1..n /\ 1 + 1 = 2 BY <1>2
  <2>. QED BY <1>1, <1>3, <2>1 DEF Labels
<1>6. m \in ByteSeqs BY <1>5
<1>7. Labels(S, R, c, Later(at), Later(part))
  BY <1>1, <1>2, <1>3, LabelsTail
<1>8. /\ Later(at) \in Indices /\ Later(part) \in Indices
      /\ Later(at)[1] = at[2] /\ Later(part)[1] = part[2]
  <2>1. Later(at) \in Indices /\ Later(at)[1] = at[1 + 1] BY LaterIs
  <2>2. Later(part) \in Indices /\ Later(part)[1] = part[1 + 1] BY LaterIs
  <2>. QED BY <2>1, <2>2
<1>9. j = Len(G) + 1 /\ (p > 1 => B = SubSeq(m, 1, (p - 1) * Room)) BY <1>1
<1> HIDE DEF h, R, C, n, j, p, m
<1>10. IF p < Pcs(m, c)
       THEN MessagesOf(B, h) = <<>> /\ C = SubSeq(m, 1, p * Room)
       ELSE MessagesOf(B, h) = <<m>>
  <2>1. Comes(m, c, p, B, h) BY <1>5, <1>6, <1>9, Zenon DEF Comes
  <2>2. Taken(m, c, p, B, h) BY <2>1, PacketDone, Zenon
  <2>. QED BY <2>2, Zenon DEF Taken, C
<1>11. CASE p < Pcs(m, c)
  <2>1. H = G BY <1>10, <1>11, ConcatEmptySeq
  <2>2. at[2] = j /\ part[2] - 1 = p
    <3>1. at[2] = j /\ part[2] = p + 1 BY <1>5, <1>11
    <3>2. p \in Int BY <1>5
    <3>. QED BY <3>1, <3>2
  <2>3. C = SubSeq(S[at[2]], 1, (part[2] - 1) * Room) BY <1>10, <1>11, <2>2 DEF m
  <2> HIDE DEF H
  <2>4. Len(H) + 1 = Later(at)[1] /\ \A x \in 1..Len(H) : H[x] = S[x]
    BY <1>1, <1>8, <1>9, <2>1, <2>2, Zenon
  <2>5. Travels(S, R, H, C, c) BY <1>7, <1>8, <2>3, <2>4, Zenon DEF Travels
  <2>6. H \in Seq(ByteSeqs) BY <2>1
  <2>. QED BY <2>5, <2>6 DEF H, R, C, h
<1>12. CASE ~(p < Pcs(m, c))
  <2>1. MessagesOf(B, h) = <<m>> BY <1>10, <1>12
  <2>2. <<m>> \in Seq(ByteSeqs) /\ Len(<<m>>) = 1 /\ <<m>>[1] = m BY <1>6
  <2>3. /\ H \in Seq(ByteSeqs) /\ Len(H) = Len(G) + 1
        /\ \A x \in 1..(Len(G) + 1) : H[x] = IF x <= Len(G) THEN G[x] ELSE <<m>>[x - Len(G)]
    BY <2>1, <2>2, ConcatProperties
  <2> HIDE DEF H
  <2>4. at[2] = j + 1 /\ part[2] = 1 BY <1>5, <1>12
  <2>5. Len(H) + 1 = Later(at)[1] BY <1>8, <1>9, <2>3, <2>4
  <2>6. \A x \in 1..Len(H) : H[x] = S[x]
    <3> SUFFICES ASSUME NEW x \in 1..(Len(G) + 1) PROVE H[x] = S[x]
      BY <2>3
    <3>1. CASE x <= Len(G)
      <4>1. x \in 1..Len(G) BY <1>4, <3>1
      <4>. QED BY <1>1, <2>3, <3>1, <4>1
    <3>2. CASE ~(x <= Len(G))
      <4>1. x = j /\ x - Len(G) = 1 BY <1>4, <1>9, <3>2
      <4>. QED BY <2>2, <2>3, <3>2, <4>1 DEF m
    <3>. QED BY <3>1, <3>2
  <2>7. ~(Later(part)[1] > 1) BY <1>8, <2>4
  <2>8. Travels(S, R, H, C, c) BY <1>7, <1>8, <2>5, <2>6, <2>7, Zenon DEF Travels
  <2>. QED BY <2>3, <2>8 DEF H, R, C, h
<1>. QED BY <1>11, <1>12

-----------------------------------------------------------------------------
\* G holds the first messages of S.
Prefixed(G, S) == Len(G) <= Len(S) /\ \A x \in 1..Len(G) : G[x] = S[x]

\* What the robot has not received yet of what is being written or queued.
Pending == IF writing = <<>> \/ arrived THEN writeQueue ELSE writing \o writeQueue

\* The link is up and the queue still moves.
Flows == connected /\ (writeReady \/ writing # <<>>)

(* What got holds of each connection was sent over it; d is the last one.   *)
InOrder(sent, got, d) ==
    /\ sent \in [Conns -> Seq(ByteSeqs)] /\ got \in [Conns -> Seq(ByteSeqs)]
    /\ \A c \in Conns : Prefixed(got[c], sent[c])
    /\ \A c \in Conns : c > d => sent[c] = <<>> /\ got[c] = <<>>

\* From the page to the robot.  Once a write was rejected nothing moves, and
\* the packets that were lost with it are never missed.
OutInv ==
    /\ conn \in Conns
    /\ writing # <<>> => writing = <<writing[1]>>
    /\ InOrder(clientSent, robotGot, conn)
    /\ Flows => Travels(clientSent[conn], Pending, robotGot[conn], robotBuffer, conn)

\* From the robot to the page.
InInv ==
    /\ conn \in Conns
    /\ notified \in Seq(Packet)
    /\ InOrder(robotSent, clientGot, conn)
    /\ connected => Travels(robotSent[conn], notified, clientGot[conn], buffer, conn)
    /\ ~connected => notified = <<>>

\* What has arrived is the beginning of what was sent.
LEMMA TravelsPrefixed ==
    ASSUME NEW S \in Seq(ByteSeqs), NEW Q \in Seq(Packet), NEW G \in Seq(ByteSeqs), NEW B, NEW c,
           Travels(S, Q, G, B, c)
    PROVE  Prefixed(G, S)
<1>1. PICK at \in Indices, part \in Indices :
        /\ Labels(S, Q, c, at, part)
        /\ Len(G) + 1 = at[1]
        /\ \A x \in 1..Len(G) : G[x] = S[x]
  BY Zenon DEF Travels
<1>2. Len(Q) \in Nat /\ Len(S) \in Nat /\ Len(G) \in Nat BY LenProperties, Zenon
<1>3. at[1] <= Len(S) + 1 BY <1>1, <1>2, FirstLabel, Zenon
<1>4. Len(G) <= Len(S) BY <1>1, <1>2, <1>3
<1>. QED BY <1>1, <1>4, Zenon DEF Prefixed

\* It stays so when more is sent.
LEMMA PrefixedAppend ==
    ASSUME NEW S \in Seq(ByteSeqs), NEW G \in Seq(ByteSeqs), NEW m \in ByteSeqs, Prefixed(G, S)
    PROVE  Prefixed(G, Append(S, m))
<1>1. /\ Len(Append(S, m)) = Len(S) + 1
      /\ \A x \in 1..Len(S) : Append(S, m)[x] = S[x]
  OBVIOUS
<1>2. Len(G) \in Nat /\ Len(S) \in Nat BY LenProperties, Zenon
<1>3. Len(G) <= Len(S) /\ \A x \in 1..Len(G) : G[x] = S[x] BY DEF Prefixed
<1>4. \A x \in 1..Len(G) : x \in 1..Len(S) BY <1>2, <1>3
<1>5. \A x \in 1..Len(G) : G[x] = Append(S, m)[x] BY <1>1, <1>3, <1>4, Zenon
<1>. QED BY <1>1, <1>2, <1>3, <1>5 DEF Prefixed

LEMMA ConnIsOne == \A c \in Conns : c \in Nat \ {0}
BY ConnsAssumption DEF Conns

LEMMA MessageIsBytes == \A m \in Message : m \in ByteSeqs
BY ByteAssumption DEF ByteSeqs

\* The logs of the connections after one step of connection d.
WithSent(sent, d, m) == [sent EXCEPT ![d] = Append(@, m)]
WithGot(got, d, H) == [got EXCEPT ![d] = H]

\* One message more is sent over the present connection.
LEMMA OneSent ==
    ASSUME NEW sent, NEW got, NEW d \in Conns, NEW m \in ByteSeqs, InOrder(sent, got, d)
    PROVE  /\ InOrder(WithSent(sent, d, m), got, d)
           /\ WithSent(sent, d, m)[d] = Append(sent[d], m)
<1> DEFINE s == Append(sent[d], m)
           sent2 == [sent EXCEPT ![d] = s]
<1>1. /\ sent \in [Conns -> Seq(ByteSeqs)] /\ got \in [Conns -> Seq(ByteSeqs)]
      /\ \A c \in Conns : Prefixed(got[c], sent[c])
      /\ \A c \in Conns : c > d => sent[c] = <<>> /\ got[c] = <<>>
  BY DEF InOrder
<1>2. s \in Seq(ByteSeqs) BY <1>1
<1>3. \A c \in Conns : sent[c] \in Seq(ByteSeqs) /\ got[c] \in Seq(ByteSeqs) BY <1>1
<1>4. Prefixed(got[d], s) BY <1>1, <1>3, PrefixedAppend
<1> HIDE DEF s
<1>5. sent2 \in [Conns -> Seq(ByteSeqs)] BY <1>1, <1>2
<1>6. \A c \in Conns : sent2[c] = IF c = d THEN s ELSE sent[c] BY <1>1
<1>7. \A c \in Conns : c > d => c # d BY ConnIsOne
<1>8. sent2[d] = s BY <1>6
<1> HIDE DEF sent2
<1>9. InOrder(sent2, got, d) BY <1>1, <1>4, <1>5, <1>6, <1>7 DEF InOrder
<1>. QED BY <1>8, <1>9 DEF s, sent2, WithSent

\* The messages that a packet ends are received over the present connection.
LEMMA SomeGot ==
    ASSUME NEW sent, NEW got, NEW d \in Conns, NEW H \in Seq(ByteSeqs), Prefixed(H, sent[d]),
           InOrder(sent, got, d)
    PROVE  InOrder(sent, WithGot(got, d, H), d) /\ WithGot(got, d, H)[d] = H
<1> DEFINE got2 == [got EXCEPT ![d] = H]
<1>1. /\ sent \in [Conns -> Seq(ByteSeqs)] /\ got \in [Conns -> Seq(ByteSeqs)]
      /\ \A c \in Conns : Prefixed(got[c], sent[c])
      /\ \A c \in Conns : c > d => sent[c] = <<>> /\ got[c] = <<>>
  BY DEF InOrder
<1>2. got2 \in [Conns -> Seq(ByteSeqs)] BY <1>1
<1>3. \A c \in Conns : got2[c] = IF c = d THEN H ELSE got[c] BY <1>1
<1>4. \A c \in Conns : c > d => c # d BY ConnIsOne
<1> HIDE DEF got2
<1>5. InOrder(sent, got2, d) /\ got2[d] = H BY <1>1, <1>2, <1>3, <1>4 DEF InOrder
<1>. QED BY <1>5 DEF got2, WithGot

-----------------------------------------------------------------------------
(* From the robot to the page.                                              *)
LEMMA RobotSendKeepsIn ==
    ASSUME InInv, NEW m \in Message, RobotSend(m)
    PROVE  InInv'
<1>1. /\ conn \in Conns /\ conn \in Nat /\ m \in ByteSeqs /\ connected
      /\ notified' = notified \o Fragments(m, conn)
      /\ robotSent' = [robotSent EXCEPT ![conn] = Append(@, m)]
      /\ conn' = conn /\ connected' = connected /\ buffer' = buffer /\ clientGot' = clientGot
  BY ConnIsOne, MessageIsBytes DEF InInv, RobotSend
<1>2. /\ notified \in Seq(Packet)
      /\ InOrder(robotSent, clientGot, conn)
      /\ Travels(robotSent[conn], notified, clientGot[conn], buffer, conn)
  BY <1>1 DEF InInv
<1>3. InOrder(robotSent', clientGot, conn) /\ robotSent'[conn] = Append(robotSent[conn], m)
  <2>1. robotSent' = WithSent(robotSent, conn, m) BY <1>1 DEF WithSent
  <2>2. conn \in Conns /\ m \in ByteSeqs /\ InOrder(robotSent, clientGot, conn) BY <1>1, <1>2
  <2>. QED BY <2>1, <2>2, OneSent, Zenon
<1>4. notified' \in Seq(Packet)
  <2>1. Fragments(m, conn) \in Seq(Packet) BY <1>1, FragmentsType DEF ByteSeqs
  <2>. QED BY <1>1, <1>2, <2>1, ConcatProperties
<1>5. robotSent[conn] \in Seq(ByteSeqs) /\ clientGot[conn] \in Seq(ByteSeqs)
  BY <1>1, <1>2 DEF InOrder
<1>6. Travels(robotSent'[conn], notified', clientGot[conn], buffer, conn)
  BY <1>1, <1>2, <1>3, <1>5, TravelsSends
<1>. QED BY <1>1, <1>2, <1>3, <1>4, <1>6 DEF InInv

\* A notification reaches the page.
LEMMA NotifyKeepsIn ==
    ASSUME InInv, Notify
    PROVE  InInv'
<1> DEFINE H == clientGot[conn] \o MessagesOf(buffer, Head(notified))
<1>1. /\ conn \in Conns /\ conn \in Nat /\ connected /\ notified # <<>>
      /\ notified' = Tail(notified) /\ buffer' = BufferAfter(buffer, Head(notified))
      /\ clientGot' = [clientGot EXCEPT ![conn] = H]
      /\ conn' = conn /\ connected' = connected /\ robotSent' = robotSent
  BY ConnIsOne DEF InInv, Notify
<1>2. /\ notified \in Seq(Packet)
      /\ InOrder(robotSent, clientGot, conn)
      /\ Travels(robotSent[conn], notified, clientGot[conn], buffer, conn)
  BY <1>1 DEF InInv
<1>3. robotSent[conn] \in Seq(ByteSeqs) /\ clientGot[conn] \in Seq(ByteSeqs)
  BY <1>1, <1>2 DEF InOrder
<1>4. H \in Seq(ByteSeqs) /\ Travels(robotSent[conn], notified', H, buffer', conn)
  BY <1>1, <1>2, <1>3, TravelsArrives
<1> HIDE DEF H
<1>5. notified' \in Seq(Packet) BY <1>1, <1>2
<1>6. Prefixed(H, robotSent[conn]) BY <1>3, <1>4, <1>5, TravelsPrefixed
<1>7. InOrder(robotSent, clientGot', conn) /\ clientGot'[conn] = H
  <2>1. clientGot' = WithGot(clientGot, conn, H) BY <1>1 DEF WithGot
  <2>2. conn \in Conns /\ InOrder(robotSent, clientGot, conn) BY <1>1, <1>2
  <2>3. /\ InOrder(robotSent, WithGot(clientGot, conn, H), conn)
        /\ WithGot(clientGot, conn, H)[conn] = H
    <3>1. H \in Seq(ByteSeqs) /\ conn \in Conns /\ Prefixed(H, robotSent[conn])
          /\ InOrder(robotSent, clientGot, conn)
      BY <1>4, <1>6, <2>2, Zenon
    <3>. QED BY <3>1, SomeGot
  <2>. QED BY <2>1, <2>3
<1>8. conn' \in Conns /\ connected' /\ notified' \in Seq(Packet)
      /\ InOrder(robotSent', clientGot', conn')
  BY <1>1, <1>5, <1>7, Zenon
<1>9. Travels(robotSent'[conn'], notified', clientGot'[conn'], buffer', conn')
  BY <1>1, <1>4, <1>7, Zenon
<1>. QED BY <1>8, <1>9, Zenon DEF InInv

\* A new connection begins with nothing sent and nothing on its way.
LEMMA ConnectKeepsIn ==
    ASSUME InInv, Connect
    PROVE  InInv'
<1>1. /\ conn \in Conns /\ ~connected /\ conn < MaxConns /\ conn' = conn + 1
      /\ connected' = TRUE /\ UNCHANGED <<notified, buffer, robotSent, clientGot>>
  BY DEF InInv, Connect, inVars
<1>2. conn' \in Conns /\ conn' > conn /\ \A c \in Conns : c > conn' => c > conn
  BY <1>1, ConnsAssumption DEF Conns
<1>3. /\ notified = <<>> /\ robotSent[conn'] = <<>> /\ clientGot[conn'] = <<>>
      /\ InOrder(robotSent, clientGot, conn')
  BY <1>1, <1>2 DEF InInv, InOrder
<1>4. Travels(robotSent[conn'], notified, clientGot[conn'], buffer, conn')
  BY <1>3, TravelsStarts
<1>. QED BY <1>1, <1>2, <1>3, <1>4 DEF InInv

\* Every step.
LEMMA InKeeps ==
    ASSUME InInv, [LinkNext]_linkVars
    PROVE  InInv'
<1>1. ASSUME NEW m \in Message, RobotSend(m) PROVE InInv' BY <1>1, RobotSendKeepsIn
<1>2. CASE Notify BY <1>2, NotifyKeepsIn
<1>3. CASE Connect BY <1>3, ConnectKeepsIn
<1>4. CASE Disconnect
  <2>1. /\ ~connected' /\ notified' = <<>> /\ conn' = conn
        /\ UNCHANGED <<buffer, robotSent, clientGot>>
    BY <1>4 DEF Disconnect
  <2>. QED BY <2>1 DEF InInv
<1>5. CASE UNCHANGED <<conn, connected, inVars>> BY <1>5 DEF InInv, inVars
<1>6. ASSUME NEW m \in Message, ClientSend(m) PROVE UNCHANGED <<conn, connected, inVars>>
  BY <1>6 DEF ClientSend
<1>7. Tick \/ RobotReceives \/ WriteResolves \/ WriteRejects
        => UNCHANGED <<conn, connected, inVars>>
  BY DEF Tick, RobotReceives, WriteResolves, WriteRejects
<1>. QED BY <1>1, <1>2, <1>3, <1>4, <1>5, <1>6, <1>7 DEF LinkNext, LinkStep, linkVars

-----------------------------------------------------------------------------
(* From the page to the robot.                                              *)
LEMMA HeadThenTail ==
    ASSUME NEW q \in Seq(Packet), q # <<>>
    PROVE  <<Head(q)>> \o Tail(q) = q
<1>1. /\ Head(q) \in Packet /\ Head(q) = q[1] /\ Tail(q) \in Seq(Packet)
      /\ Len(Tail(q)) = Len(q) - 1 /\ Len(q) \in Nat /\ Len(q) > 0
      /\ \A i \in 1..(Len(q) - 1) : Tail(q)[i] = q[i + 1]
  OBVIOUS
<1> DEFINE h == <<Head(q)>>
           t == Tail(q)
<1>2. h \in Seq(Packet) /\ Len(h) = 1 /\ h[1] = q[1] BY <1>1
<1>3. t \in Seq(Packet) /\ Len(t) = Len(q) - 1 /\ \A i \in 1..(Len(q) - 1) : t[i] = q[i + 1]
  BY <1>1
<1> HIDE DEF h, t
<1>4. /\ h \o t \in Seq(Packet) /\ Len(h \o t) = Len(h) + Len(t)
      /\ \A i \in 1..(Len(h) + Len(t)) :
            (h \o t)[i] = IF i <= Len(h) THEN h[i] ELSE t[i - Len(h)]
  <2>1. h \in Seq(Packet) /\ t \in Seq(Packet) BY <1>2, <1>3
  <2>. QED BY <2>1, ConcatProperties, Zenon
<1>5. Len(h) + Len(t) = Len(q) BY <1>1, <1>2, <1>3
<1>6. ASSUME NEW i \in 1..Len(q) PROVE (h \o t)[i] = q[i]
  <2>1. CASE i = 1 BY <1>1, <1>2, <1>4, <1>5, <2>1
  <2>2. CASE i # 1
    <3>1. i - 1 \in 1..(Len(q) - 1) /\ i - 1 + 1 = i /\ ~(i <= 1) BY <1>1, <2>2
    <3>2. (h \o t)[i] = t[i - 1] BY <1>2, <1>4, <1>5, <3>1
    <3>3. t[i - 1] = q[i] BY <1>3, <3>1
    <3>. QED BY <3>2, <3>3
  <2>. QED BY <2>1, <2>2
<1>7. h \o t = q BY <1>4, <1>5, <1>6, SeqEqual
<1>. QED BY <1>7 DEF h, t

LEMMA Associative ==
    ASSUME NEW a \in Seq(Packet), NEW b \in Seq(Packet), NEW d \in Seq(Packet)
    PROVE  a \o (b \o d) = (a \o b) \o d
BY ConcatAssociative, SMTT(30)

\* Taking the first packet from the queue loses none.
LEMMA ForceSendPending ==
    ASSUME NEW q \in Seq(Packet), q # <<>>, ForceSend(q)
    PROVE  Pending' = q /\ writing' = <<writing'[1]>> /\ writing' # <<>>
<1>1. writing' = <<Head(q)>> /\ arrived' = FALSE /\ writeQueue' = Tail(q) BY DEF ForceSend
<1>2. writing' # <<>> /\ writing' = <<writing'[1]>> BY <1>1
<1>3. Pending' = <<Head(q)>> \o Tail(q) BY <1>1, <1>2 DEF Pending
<1>. QED BY <1>2, <1>3, HeadThenTail

LEMMA PendingType ==
    ASSUME LinkTypeOK
    PROVE  Pending \in Seq(Packet)
<1>1. writeQueue \in Seq(Packet) /\ writing \in Seq(Packet) BY DEF LinkTypeOK
<1>2. writing \o writeQueue \in Seq(Packet) BY <1>1, ConcatProperties
<1>. QED BY <1>1, <1>2 DEF Pending

\* The page sends: at once, or behind what is queued.  A message sent while
\* there is no connection is queued and starts a write that is rejected.
LEMMA ClientSendKeepsOut ==
    ASSUME LinkInv, OutInv, NEW m \in Message, ClientSend(m)
    PROVE  OutInv'
<1> DEFINE c == IF connected THEN conn ELSE Nobody
           F == Fragments(m, c)
           q == writeQueue \o F
<1>1. /\ conn \in Conns /\ conn \in Nat /\ m \in ByteSeqs /\ c \in Nat
      /\ InOrder(clientSent, robotGot, conn)
      /\ writeQueue \in Seq(Packet) /\ writing \in Seq(Packet) /\ Pending \in Seq(Packet)
  BY ConnIsOne, MessageIsBytes, PendingType DEF OutInv, Nobody, LinkInv, LinkTypeOK
<1>2. F \in Seq(Packet) /\ F # <<>> BY <1>1, FragmentsType DEF ByteSeqs
<1>3. q \in Seq(Packet) /\ q # <<>> BY <1>1, <1>2
<1>4. /\ IF writeReady THEN ForceSend(q)
         ELSE writeQueue' = q /\ UNCHANGED <<writeReady, writing, arrived>>
      /\ clientSent' = IF connected THEN WithSent(clientSent, conn, m) ELSE clientSent
      /\ UNCHANGED <<conn, connected, robotBuffer, robotGot>>
  BY DEF ClientSend, WithSent
<1>5. connected => F = Fragments(m, conn) OBVIOUS
<1> HIDE DEF F
<1>6. CASE ~connected
  <2>1. ~Flows' BY <1>4, <1>6 DEF Flows
  <2>2. (writing # <<>> => writing = <<writing[1]>>)'
    <3>1. CASE writeReady BY <1>3, <1>4, <3>1, ForceSendPending
    <3>2. CASE ~writeReady BY <1>4, <3>2 DEF OutInv
    <3>. QED BY <3>1, <3>2
  <2>3. InOrder(clientSent, robotGot, conn)' BY <1>1, <1>4, <1>6
  <2>. QED BY <1>1, <1>4, <2>1, <2>2, <2>3 DEF OutInv
<1>7. CASE connected
  <2>1. InOrder(clientSent', robotGot, conn) /\ clientSent'[conn] = Append(clientSent[conn], m)
    <3>1. clientSent' = WithSent(clientSent, conn, m) BY <1>4, <1>7
    <3>. QED BY <1>1, <3>1, OneSent, Zenon
  <2>2. clientSent[conn] \in Seq(ByteSeqs) /\ robotGot[conn] \in Seq(ByteSeqs)
    BY <1>1 DEF InOrder
  <2>3. ASSUME Flows
        PROVE  Travels(clientSent'[conn], Pending \o F, robotGot[conn], robotBuffer, conn)
    <3>1. Travels(clientSent[conn], Pending, robotGot[conn], robotBuffer, conn)
      BY <2>3 DEF OutInv
    <3>. QED BY <1>1, <1>5, <1>7, <2>1, <2>2, <3>1, TravelsSends
  <2>4. CASE writeReady
    <3>1. Flows /\ writing = <<>> BY <1>7, <2>4 DEF Flows, LinkInv, BusyMeansNotReady
    <3>2. Pending = writeQueue BY <3>1 DEF Pending
    <3>3. Pending' = q /\ writing' = <<writing'[1]>> BY <1>3, <1>4, <2>4, ForceSendPending
    <3>4. Travels(clientSent'[conn], Pending', robotGot[conn], robotBuffer, conn)
      BY <2>3, <3>1, <3>2, <3>3
    <3>. QED BY <1>1, <1>4, <2>1, <3>3, <3>4 DEF OutInv
  <2>5. CASE ~writeReady
    <3>1. writeQueue' = q /\ UNCHANGED <<writeReady, writing, arrived>> BY <1>4, <2>5
    <3>2. Flows' => Flows BY <1>4, <3>1 DEF Flows
    <3>3. Pending' = Pending \o F
      <4>1. writing \o (writeQueue \o F) = (writing \o writeQueue) \o F
        BY <1>1, <1>2, Associative, Zenon
      <4>2. CASE writing = <<>> \/ arrived BY <3>1, <4>2 DEF Pending
      <4>3. CASE ~(writing = <<>> \/ arrived) BY <3>1, <4>1, <4>3 DEF Pending
      <4>. QED BY <4>2, <4>3, Zenon
    <3>4. Flows' => Travels(clientSent'[conn], Pending', robotGot[conn], robotBuffer, conn)
      BY <2>3, <3>2, <3>3
    <3>. QED BY <1>1, <1>4, <2>1, <3>1, <3>4 DEF OutInv
  <2>. QED BY <2>4, <2>5
<1>. QED BY <1>6, <1>7

\* The timer.
LEMMA TickKeepsOut ==
    ASSUME LinkInv, OutInv, Tick
    PROVE  OutInv'
<1>1. UNCHANGED <<conn, connected, robotBuffer, clientSent, robotGot>> BY DEF Tick
<1>2. CASE writeReady /\ writeQueue # <<>>
  <2>1. writeQueue \in Seq(Packet) /\ ForceSend(writeQueue)
    BY <1>2 DEF Tick, LinkInv, LinkTypeOK
  <2>2. Pending' = writeQueue /\ writing' = <<writing'[1]>>
    BY <1>2, <2>1, ForceSendPending
  <2>3. writing = <<>> BY <1>2 DEF LinkInv, BusyMeansNotReady
  <2>4. Pending' = Pending /\ (Flows' => Flows)
    BY <1>1, <1>2, <2>2, <2>3 DEF Pending, Flows
  <2>. QED BY <1>1, <2>2, <2>4 DEF OutInv
<1>3. CASE ~(writeReady /\ writeQueue # <<>>)
  <2>1. UNCHANGED <<writeQueue, writeReady, writing, arrived>> BY <1>3 DEF Tick
  <2>2. Pending' = Pending /\ Flows' = Flows BY <1>1, <2>1 DEF Pending, Flows
  <2>. QED BY <1>1, <2>1, <2>2 DEF OutInv
<1>. QED BY <1>2, <1>3

\* The robot receives the packet being written.
LEMMA RobotReceivesKeepsOut ==
    ASSUME LinkInv, OutInv, RobotReceives
    PROVE  OutInv'
<1> DEFINE w == writing[1]
           H == robotGot[conn] \o MessagesOf(robotBuffer, w)
<1>1. /\ conn \in Conns /\ conn \in Nat /\ connected /\ writing # <<>> /\ ~arrived
      /\ writing = <<w>> /\ arrived' = TRUE /\ robotBuffer' = BufferAfter(robotBuffer, w)
      /\ robotGot' = WithGot(robotGot, conn, H)
      /\ UNCHANGED <<conn, connected, writeQueue, writeReady, writing, clientSent>>
      /\ InOrder(clientSent, robotGot, conn)
  BY ConnIsOne DEF OutInv, RobotReceives, WithGot
<1>2. writeQueue \in Seq(Packet) /\ writing \in Seq(Packet) BY DEF LinkInv, LinkTypeOK
<1>3. Travels(clientSent[conn], Pending, robotGot[conn], robotBuffer, conn)
  BY <1>1 DEF OutInv, Flows
<1>4. clientSent[conn] \in Seq(ByteSeqs) /\ robotGot[conn] \in Seq(ByteSeqs)
  BY <1>1 DEF InOrder
<1>5. Pending = <<w>> \o writeQueue BY <1>1 DEF Pending
<1>6. w \in Packet BY <1>1, <1>2
<1> HIDE DEF w
<1>7. /\ Pending \in Seq(Packet) /\ Pending # <<>>
      /\ Head(Pending) = w /\ Tail(Pending) = writeQueue
  BY <1>2, <1>5, <1>6
<1>8. H \in Seq(ByteSeqs) /\ Travels(clientSent[conn], writeQueue, H, robotBuffer', conn)
  BY <1>1, <1>3, <1>4, <1>7, TravelsArrives
<1> HIDE DEF H
<1>9. Prefixed(H, clientSent[conn]) BY <1>2, <1>4, <1>8, TravelsPrefixed
<1>10. InOrder(clientSent, robotGot', conn) /\ robotGot'[conn] = H
  <2>1. robotGot' = WithGot(robotGot, conn, H) BY <1>1, Zenon
  <2>2. H \in Seq(ByteSeqs) /\ conn \in Conns /\ Prefixed(H, clientSent[conn])
        /\ InOrder(clientSent, robotGot, conn)
    BY <1>1, <1>8, <1>9, Zenon
  <2>3. /\ InOrder(clientSent, WithGot(robotGot, conn, H), conn)
        /\ WithGot(robotGot, conn, H)[conn] = H
    BY <2>2, SomeGot
  <2>. QED BY <2>1, <2>3, Zenon
<1>11. Pending' = writeQueue BY <1>1 DEF Pending
<1>12. (writing # <<>> => writing = <<writing[1]>>)' BY <1>1 DEF OutInv
<1>. QED BY <1>1, <1>8, <1>10, <1>11, <1>12 DEF OutInv

\* A link that is still ready after a cut has an empty queue, so a new
\* connection begins with nothing pending; one that is not ready never moves.
LEMMA ConnectKeepsOut ==
    ASSUME LinkInv, OutInv, Connect
    PROVE  OutInv'
<1>1. /\ conn \in Conns /\ ~connected /\ conn < MaxConns /\ conn' = conn + 1
      /\ ticked /\ writing = <<>>
      /\ UNCHANGED <<writeQueue, writeReady, writing, arrived, robotBuffer, clientSent, robotGot>>
  BY DEF OutInv, Connect, outVars
<1>2. conn' \in Conns /\ conn' > conn /\ \A c \in Conns : c > conn' => c > conn
  BY <1>1, ConnsAssumption DEF Conns
<1>3. InOrder(clientSent, robotGot, conn') /\ clientSent[conn'] = <<>> /\ robotGot[conn'] = <<>>
  BY <1>1, <1>2 DEF OutInv, InOrder
<1>4. writeReady => Pending' = <<>>
  BY <1>1 DEF LinkInv, ReadyMeansEmpty, Pending
<1>5. Flows' => writeReady BY <1>1 DEF Flows
<1>6. Travels(<<>>, <<>>, <<>>, robotBuffer, conn') BY TravelsStarts
<1>7. Flows' => Travels(clientSent[conn'], Pending', robotGot[conn'], robotBuffer, conn')
  BY <1>3, <1>4, <1>5, <1>6
<1>. QED BY <1>1, <1>2, <1>3, <1>7 DEF OutInv

\* Every step.
LEMMA OutKeeps ==
    ASSUME LinkInv, OutInv, [LinkNext]_linkVars
    PROVE  OutInv'
<1>1. ASSUME NEW m \in Message, ClientSend(m) PROVE OutInv' BY <1>1, ClientSendKeepsOut
<1>2. CASE Tick BY <1>2, TickKeepsOut
<1>3. CASE RobotReceives BY <1>3, RobotReceivesKeepsOut
<1>4. CASE Connect BY <1>4, ConnectKeepsOut
<1>5. CASE WriteResolves
  <2>1. /\ connected /\ writing # <<>> /\ arrived /\ writing' = <<>>
        /\ UNCHANGED <<conn, connected, writeQueue, robotBuffer, clientSent, robotGot>>
    BY <1>5 DEF WriteResolves
  <2>2. Flows /\ Pending' = Pending BY <2>1 DEF Flows, Pending
  <2>. QED BY <2>1, <2>2 DEF OutInv
<1>6. CASE WriteRejects
  <2>1. /\ writing # <<>> /\ writing' = <<>> /\ writeReady' = writeReady
        /\ UNCHANGED <<conn, clientSent, robotGot>>
    BY <1>6 DEF WriteRejects
  <2>2. ~Flows' BY <2>1 DEF Flows, LinkInv, BusyMeansNotReady
  <2>. QED BY <2>1, <2>2 DEF OutInv
<1>7. CASE Disconnect
  <2>1. ~connected' /\ UNCHANGED <<conn, writing, clientSent, robotGot>>
    BY <1>7 DEF Disconnect, outVars
  <2>2. ~Flows' BY <2>1 DEF Flows
  <2>. QED BY <2>1, <2>2 DEF OutInv
<1>8. CASE UNCHANGED <<conn, connected, outVars>>
  <2>1. Flows' = Flows /\ Pending' = Pending BY <1>8 DEF Flows, Pending, outVars
  <2>. QED BY <1>8, <2>1 DEF OutInv, outVars
<1>9. Notify \/ (\E m \in Message : RobotSend(m)) => UNCHANGED <<conn, connected, outVars>>
  BY DEF Notify, RobotSend
<1>. QED BY <1>1, <1>2, <1>3, <1>4, <1>5, <1>6, <1>7, <1>8, <1>9
         DEF LinkNext, LinkStep, linkVars

-----------------------------------------------------------------------------
LEMMA FlowInit == LinkInit => OutInv /\ InInv
<1> SUFFICES ASSUME LinkInit PROVE OutInv /\ InInv
    OBVIOUS
<1>1. conn = 1 /\ 1 \in Conns BY ConnsAssumption DEF LinkInit, Conns
<1> DEFINE none == [c \in Conns |-> <<>>]
<1>2. InOrder(none, none, 1)
  <2>1. <<>> \in Seq(ByteSeqs) /\ Prefixed(<<>>, <<>>) BY DEF Prefixed
  <2>2. none \in [Conns -> Seq(ByteSeqs)] /\ \A c \in Conns : none[c] = <<>> BY <2>1
  <2> HIDE DEF none
  <2>. QED BY <2>1, <2>2 DEF InOrder
<1>3. none[1] = <<>> BY <1>1
<1>4. Pending = <<>> BY DEF LinkInit, Pending
<1>5. \A B : Travels(<<>>, <<>>, <<>>, B, 1) BY TravelsStarts
<1>6. /\ clientSent = none /\ robotGot = none /\ robotSent = none /\ clientGot = none
      /\ writing = <<>> /\ notified = <<>> /\ connected
  BY DEF LinkInit
<1> HIDE DEF none
<1>7. OutInv BY <1>1, <1>2, <1>3, <1>4, <1>5, <1>6 DEF OutInv
<1>8. notified \in Seq(Packet) BY <1>6
<1>9. InInv BY <1>1, <1>2, <1>3, <1>5, <1>6, <1>8 DEF InInv
<1>. QED BY <1>7, <1>9

LEMMA FlowAlways == LinkSpec => [](OutInv /\ InInv)
<1>1. LinkInit => LinkInv /\ OutInv /\ InInv BY LinkInvInit, FlowInit
<1>2. (LinkInv /\ OutInv /\ InInv) /\ [LinkNext]_linkVars => (LinkInv /\ OutInv /\ InInv)'
  BY LinkInvStep, OutKeeps, InKeeps
<1>. QED BY <1>1, <1>2, PTL DEF LinkSpec

\* The form of the properties.
LEMMA InOrderPrefixes ==
    ASSUME NEW sent, NEW got, NEW d, InOrder(sent, got, d)
    PROVE  \A c \in DOMAIN got : IsPrefixOf(got[c], sent[c])
<1> SUFFICES ASSUME NEW c \in DOMAIN got PROVE IsPrefixOf(got[c], sent[c])
    OBVIOUS
<1>1. /\ sent[c] \in Seq(ByteSeqs) /\ got[c] \in Seq(ByteSeqs)
      /\ Prefixed(got[c], sent[c])
  BY DEF InOrder
<1>. QED BY <1>1, PrefixIs DEF Prefixed

(***************************************************************************)
(* Over every connection the robot receives exactly the messages the page  *)
(* sent over it, whole and in order, up to some point: for any messages,   *)
(* any packet size from 2 to 63, any cuts and any number of connections    *)
(* (BleMessageProtocol.sendMessage, handleSend, VectorBluetooth.send,      *)
(* forceSendMsg, handleDisconnected, connectToDevice).                     *)
(***************************************************************************)
THEOREM RobotGetsAlways == LinkSpec => []RobotGetsWhatWasSent
<1>1. OutInv => RobotGetsWhatWasSent BY InOrderPrefixes DEF OutInv, RobotGetsWhatWasSent
<1>. QED BY <1>1, FlowAlways, PTL

(***************************************************************************)
(* The same for what the robot sends and the page receives                 *)
(* (BleMessageProtocol.receiveRawBuffer): the buffer left by a cut is      *)
(* never joined to a packet of a later connection.                         *)
(***************************************************************************)
THEOREM PageGetsAlways == LinkSpec => []PageGetsWhatWasSent
<1>1. InInv => PageGetsWhatWasSent BY InOrderPrefixes DEF InInv, PageGetsWhatWasSent
<1>. QED BY <1>1, FlowAlways, PTL

-----------------------------------------------------------------------------
(* Induction, as a statement about sets of naturals.                        *)
LEMMA SetInduction ==
    ASSUME NEW S, 0 \in S, \A n \in Nat : n \in S => n + 1 \in S
    PROVE  \A n \in Nat : n \in S
<1> SUFFICES ASSUME NEW T, T = Nat \ S, T # {} PROVE FALSE OBVIOUS
<1>1. PICK x \in T : \A y \in T : <<y, x>> \notin OpToRel(<, Nat)
  BY WFMin, NatLessThanWellFounded, Zenon
<1>2. \A y \in T : ~(y < x)
  <2>1. T \subseteq Nat OBVIOUS
  <2>. QED BY <1>1, <2>1, Zenon DEF OpToRel
<1>3. x \in Nat /\ x # 0 /\ x \notin S OBVIOUS
<1>4. x - 1 \in Nat /\ x - 1 \notin T BY <1>2, <1>3
<1>. QED BY <1>3, <1>4


\* A sequence of steps, each of which takes a value of S to a value of S, can be
\* made n times.
AreSteps(step, n, S, start) == n \in Nat /\ start \in S /\ step \in [1..n -> [S -> S]]
Made(f, step, n, S, start) ==
    /\ f \in [0..n -> S] /\ f[0] = start
    /\ \A i \in 1..n : f[i] = step[i][f[i - 1]]

\* The steps can be made: a function holds what each of them reaches.
LEMMA StepsExist ==
    ASSUME NEW step, NEW n, NEW S, NEW start, AreSteps(step, n, S, start)
    PROVE  \E f : Made(f, step, n, S, start)
<1> DEFINE Good == {m \in Nat : m <= n => \E f : Made(f, step, m, S, start)}
<1>1. 0 \in Good
  <2>1. Made([i \in 0..0 |-> start], step, 0, S, start) BY DEF Made, AreSteps
  <2>. QED BY <2>1
<1>2. ASSUME NEW m \in Nat, m \in Good PROVE m + 1 \in Good
  <2> SUFFICES ASSUME m + 1 <= n PROVE \E f : Made(f, step, m + 1, S, start) OBVIOUS
  <2>0. n \in Nat BY DEF AreSteps
  <2>1. PICK f : Made(f, step, m, S, start) BY <1>2, <2>0
  <2> DEFINE g == [i \in 0..(m + 1) |-> IF i = m + 1 THEN step[m + 1][f[m]] ELSE f[i]]
  <2>2. f[m] \in S /\ step[m + 1] \in [S -> S] BY <2>0, <2>1 DEF Made, AreSteps
  <2>3. \A i \in 0..(m + 1) : g[i] \in S BY <2>1, <2>2 DEF Made
  <2>4. g \in [0..(m + 1) -> S] BY <2>3
  <2>5. g[0] = start BY <2>1 DEF Made
  <2>6. ASSUME NEW i \in 1..(m + 1) PROVE g[i] = step[i][g[i - 1]]
    <3>1. i - 1 \in 0..m /\ i \in 0..(m + 1) /\ i - 1 \in 0..(m + 1) /\ i - 1 # m + 1
      OBVIOUS
    <3>2. g[i - 1] = f[i - 1] BY <3>1
    <3>3. CASE i = m + 1
      <4>1. g[i] = step[m + 1][f[m]] BY <3>1, <3>3
      <4>2. i - 1 = m BY <3>3
      <4>. QED BY <3>2, <3>3, <4>1, <4>2
    <3>4. CASE i # m + 1
      <4>1. i \in 1..m BY <3>4
      <4>2. f[i] = step[i][f[i - 1]] BY <2>1, <4>1, Zenon DEF Made
      <4>3. g[i] = f[i] BY <3>1, <3>4
      <4>. QED BY <3>2, <4>2, <4>3
    <3>. QED BY <3>3, <3>4
  <2>7. Made(g, step, m + 1, S, start) BY <2>4, <2>5, <2>6 DEF Made
  <2>. QED BY <2>7
<1> HIDE DEF Good
<1>3. n \in Good /\ n \in Nat BY <1>1, <1>2, SetInduction DEF AreSteps
<1>. QED BY <1>3 DEF Good

\* The sequences that parts make when they are joined one after the other.
AreParts(parts, n, S) == n \in Nat /\ parts \in [1..n -> Seq(S)]
Chained(f, parts, n, S) ==
    /\ f \in [0..n -> Seq(S)] /\ f[0] = <<>>
    /\ \A i \in 1..n : f[i] = f[i - 1] \o parts[i]

\* Parts can be joined.
LEMMA JoinedExists ==
    ASSUME NEW n, NEW S, NEW parts, AreParts(parts, n, S)
    PROVE  \E f : Chained(f, parts, n, S)
<1> USE DEF AreParts
<1> DEFINE step == [i \in 1..n |-> [s \in Seq(S) |-> s \o parts[i]]]
<1>1. step \in [1..n -> [Seq(S) -> Seq(S)]]
  <2>1. \A i \in 1..n : \A s \in Seq(S) : s \o parts[i] \in Seq(S) OBVIOUS
  <2>. QED BY <2>1
<1>2. <<>> \in Seq(S) OBVIOUS
<1>3. \A i \in 1..n : \A s \in Seq(S) : step[i][s] = s \o parts[i] OBVIOUS
<1> HIDE DEF step
<1>4. AreSteps(step, n, Seq(S), <<>>) BY <1>1, <1>2 DEF AreSteps
<1>5. PICK f : Made(f, step, n, Seq(S), <<>>) BY <1>4, StepsExist, Zenon
<1>6. ASSUME NEW i \in 1..n PROVE f[i] = f[i - 1] \o parts[i]
  <2>1. i - 1 \in 0..n /\ f[i - 1] \in Seq(S) BY <1>5 DEF Made
  <2>. QED BY <1>3, <1>5, <2>1 DEF Made
<1>. QED BY <1>5, <1>6 DEF Chained, Made

Flattens(g, parts, n) ==
    g = [i \in 1..n |-> IF i = 1 THEN parts[i] ELSE g[i - 1] \o parts[i]]

\* What they make when joined is a function of the form FlattenSeq chooses.
LEMMA JoinedFlattens ==
    ASSUME NEW n, NEW S, NEW parts, AreParts(parts, n, S), NEW f, Chained(f, parts, n, S)
    PROVE  \E g : Flattens(g, parts, n)
<1> USE DEF AreParts
<1> DEFINE h == [i \in 1..n |-> f[i]]
<1>1. ASSUME NEW i \in 1..n
      PROVE  h[i] = IF i = 1 THEN parts[i] ELSE h[i - 1] \o parts[i]
  <2>1. h[i] = f[i - 1] \o parts[i] BY DEF Chained
  <2>2. CASE i = 1
    <3>1. f[i - 1] = <<>> BY <2>2 DEF Chained
    <3>2. parts[i] \in Seq(S) OBVIOUS
    <3>. QED BY <2>1, <2>2, <3>1, <3>2
  <2>3. CASE i # 1
    <3>1. i - 1 \in 1..n /\ h[i - 1] = f[i - 1] BY <2>3
    <3>. QED BY <2>1, <2>3, <3>1
  <2>. QED BY <2>2, <2>3
<1> DEFINE k == [i \in 1..n |-> IF i = 1 THEN parts[i] ELSE h[i - 1] \o parts[i]]
<1>2. \A i \in 1..n : h[i] = k[i]
  <2> HIDE DEF h
  <2>. QED BY <1>1
<1>3. h = k
  <2>1. DOMAIN h = 1..n /\ DOMAIN k = 1..n /\ h = [i \in DOMAIN h |-> h[i]]
        /\ k = [i \in DOMAIN k |-> k[i]]
    OBVIOUS
  <2> HIDE DEF h, k
  <2>. QED BY <1>2, <2>1
<1>. QED BY <1>3 DEF Flattens

Agree(g, f, n) == \A i \in 1..n : g[i] = f[i]

\* And every function of that form holds the joined parts.
LEMMA FlattensUnique ==
    ASSUME NEW n, NEW S, NEW parts, AreParts(parts, n, S), NEW f, Chained(f, parts, n, S),
           NEW g, Flattens(g, parts, n)
    PROVE  Agree(g, f, n)
<1> USE DEF AreParts
<1>1. \A i \in 1..n : g[i] = IF i = 1 THEN parts[i] ELSE g[i - 1] \o parts[i]
  BY DEF Flattens
<1> DEFINE Same == {i \in Nat : i \in 1..n => g[i] = f[i]}
<1>2. 0 \in Same OBVIOUS
<1>3. ASSUME NEW i \in Nat, i \in Same PROVE i + 1 \in Same
  <2> SUFFICES ASSUME i + 1 \in 1..n PROVE g[i + 1] = f[i + 1] OBVIOUS
  <2> DEFINE j == i + 1
  <2>0. j \in 1..n /\ j - 1 = i OBVIOUS
  <2> HIDE DEF j
  <2>1. f[j] = f[i] \o parts[j] BY <2>0, Zenon DEF Chained
  <2>2. CASE i = 0
    <3>1. f[0] = <<>> /\ parts[j] \in Seq(S) BY <2>0 DEF Chained
    <3>2. f[j] = parts[j] BY <2>1, <2>2, <3>1
    <3>3. g[j] = parts[j] BY <1>1, <2>0, <2>2
    <3>. QED BY <3>2, <3>3 DEF j
  <2>3. CASE i # 0
    <3>1. g[i] = f[i] BY <1>3, <2>0, <2>3
    <3>2. j # 1 BY <2>0, <2>3
    <3>3. g[j] = g[j - 1] \o parts[j] BY <1>1, <2>0, <3>2, Zenon
    <3>. QED BY <2>0, <2>1, <3>1, <3>3 DEF j
  <2>. QED BY <2>2, <2>3
<1> HIDE DEF Same
<1>4. \A i \in Nat : i \in Same BY <1>2, <1>3, SetInduction
<1>. QED BY <1>4 DEF Same, Agree

\* FlattenSeq joins one sequence after the other.
LEMMA FlattenJoins ==
    ASSUME NEW S, NEW parts \in Seq(Seq(S))
    PROVE  \E f : /\ Chained(f, parts, Len(parts), S)
                  /\ f[Len(parts)] = FlattenSeq(parts)
<1> DEFINE n == Len(parts)
           flatten == CHOOSE g : Flattens(g, parts, n)
<1>1. AreParts(parts, n, S) BY DEF AreParts
<1>2. n \in Nat /\ (n = 0 => parts = <<>>) OBVIOUS
<1>3. n # 0 => FlattenSeq(parts) = flatten[n] BY Zenon DEF FlattenSeq, Flattens
<1>4. n = 0 => FlattenSeq(parts) = parts BY Zenon DEF FlattenSeq
<1> HIDE DEF n, flatten
<1>5. PICK f : Chained(f, parts, n, S) BY <1>1, JoinedExists, Zenon
<1>6. Flattens(flatten, parts, n)
  <2>1. \E g : Flattens(g, parts, n) BY <1>1, <1>5, JoinedFlattens, Zenon
  <2>. QED BY <2>1, Zenon DEF flatten
<1>7. Agree(flatten, f, n) BY <1>1, <1>5, <1>6, FlattensUnique, Zenon
<1>8. f[n] = FlattenSeq(parts)
  <2>1. CASE n = 0 BY <1>2, <1>4, <1>5, <2>1 DEF Chained
  <2>2. CASE n # 0 BY <1>2, <1>3, <1>7, <2>2 DEF Agree
  <2>. QED BY <2>1, <2>2
<1>. QED BY <1>5, <1>8 DEF n

-----------------------------------------------------------------------------
(* Reading values one after the other.                                      *)
\* The i-th value is read at pos[i], and the next index is pos[i + 1].
ReadsAt(read, n, at, vals, pos) ==
    /\ n \in Nat /\ pos[1] = at
    /\ \A i \in 1..n : read[i][pos[i]] = <<vals[i], pos[i + 1]>>

Indexes(g, read, n, at) ==
    g = [i \in 1..(n + 1) |-> IF i = 1 THEN at ELSE read[i - 1][g[i - 1]][2]]

\* The indexes at which ReadEach reads are those of pos.
LEMMA IndexesExist ==
    ASSUME NEW read, NEW n, NEW at, NEW vals, NEW pos, ReadsAt(read, n, at, vals, pos)
    PROVE  \E g : Indexes(g, read, n, at)
<1> DEFINE h == [i \in 1..(n + 1) |-> pos[i]]
           k == [i \in 1..(n + 1) |-> IF i = 1 THEN at ELSE read[i - 1][h[i - 1]][2]]
<1>0. n \in Nat BY DEF ReadsAt
<1>1. ASSUME NEW i \in 1..(n + 1) PROVE h[i] = k[i]
  <2>1. CASE i = 1 BY <1>0, <2>1 DEF ReadsAt
  <2>2. CASE i # 1
    <3> DEFINE j == i - 1
    <3>1. j \in 1..n /\ j + 1 = i BY <1>0, <2>2
    <3> HIDE DEF j
    <3>2. read[j][pos[j]] = <<vals[j], pos[i]>> BY <3>1 DEF ReadsAt
    <3>3. h[j] = pos[j] BY <1>0, <3>1
    <3>4. k[i] = read[j][h[j]][2] BY <2>2 DEF j
    <3>. QED BY <3>2, <3>3, <3>4
  <2>. QED BY <2>1, <2>2
<1>2. h = k
  <2>1. h = [i \in 1..(n + 1) |-> h[i]] /\ k = [i \in 1..(n + 1) |-> k[i]] OBVIOUS
  <2> HIDE DEF h, k
  <2>. QED BY <1>1, <2>1
<1>. QED BY <1>2 DEF Indexes

\* And no others.
LEMMA IndexesUnique ==
    ASSUME NEW read, NEW n, NEW at, NEW vals, NEW pos, ReadsAt(read, n, at, vals, pos),
           NEW g, Indexes(g, read, n, at)
    PROVE  Agree(g, pos, n + 1)
<1>0. n \in Nat BY DEF ReadsAt
<1>1. \A i \in 1..(n + 1) : g[i] = IF i = 1 THEN at ELSE read[i - 1][g[i - 1]][2]
  BY DEF Indexes
<1> DEFINE Same == {i \in Nat : i \in 1..(n + 1) => g[i] = pos[i]}
<1>2. 0 \in Same OBVIOUS
<1>3. ASSUME NEW i \in Nat, i \in Same PROVE i + 1 \in Same
  <2> SUFFICES ASSUME i + 1 \in 1..(n + 1) PROVE g[i + 1] = pos[i + 1] OBVIOUS
  <2> DEFINE j == i + 1
  <2>0. j \in 1..(n + 1) /\ j - 1 = i /\ (i # 0 => i \in 1..n) BY <1>0
  <2> HIDE DEF j
  <2>1. CASE i = 0
    <3>1. j = 1 BY <2>0, <2>1
    <3>. QED BY <1>1, <2>0, <3>1 DEF j, ReadsAt
  <2>2. CASE i # 0
    <3>1. g[i] = pos[i] BY <1>0, <1>3, <2>0, <2>2
    <3>2. j # 1 BY <2>0, <2>2
    <3>3. g[j] = read[i][g[i]][2] BY <1>1, <2>0, <3>2
    <3>4. read[i][pos[i]] = <<vals[i], pos[j]>> BY <2>0, <2>2 DEF ReadsAt, j
    <3>. QED BY <3>1, <3>3, <3>4 DEF j
  <2>. QED BY <2>1, <2>2
<1> HIDE DEF Same
<1>4. \A i \in Nat : i \in Same BY <1>2, <1>3, SetInduction
<1>. QED BY <1>4 DEF Same, Agree

\* Reading each of them yields the values vals, and the index next.
Yields(read, n, at, vals, next) ==
    ReadEach(read, n, at) = <<[i \in 1..n |-> vals[i]], next>>

\* So it reads what lies there.
LEMMA EachRead ==
    ASSUME NEW read, NEW n, NEW at, NEW vals, NEW pos, ReadsAt(read, n, at, vals, pos)
    PROVE  Yields(read, n, at, vals, pos[n + 1])
<1> DEFINE index == CHOOSE g : Indexes(g, read, n, at)
<1>1. ReadEach(read, n, at) = <<[i \in 1..n |-> read[i][index[i]][1]], index[n + 1]>>
  BY Zenon DEF ReadEach, Indexes
<1> HIDE DEF index
<1>2. Indexes(index, read, n, at)
  <2>1. \E g : Indexes(g, read, n, at) BY IndexesExist, Zenon
  <2>. QED BY <2>1, Zenon DEF index
<1>3. Agree(index, pos, n + 1) BY <1>2, IndexesUnique, Zenon
<1>4. n \in Nat BY DEF ReadsAt
<1>5. index[n + 1] = pos[n + 1] BY <1>3, <1>4 DEF Agree
<1>6. ASSUME NEW i \in 1..n PROVE read[i][index[i]][1] = vals[i]
  <2>1. index[i] = pos[i] BY <1>3, <1>4 DEF Agree
  <2>2. read[i][pos[i]] = <<vals[i], pos[i + 1]>> BY DEF ReadsAt
  <2>. QED BY <2>1, <2>2
<1>. QED BY <1>1, <1>5, <1>6 DEF Yields

-----------------------------------------------------------------------------
(* What a buffer holds at an index.                                         *)
Holds(buf, p, s) ==
    /\ buf \in Seq(Int) /\ s \in Seq(Int) /\ p \in Nat \ {0}
    /\ p + Len(s) - 1 <= Len(buf)
    /\ \A i \in 1..Len(s) : buf[p + i - 1] = s[i]

\* A buffer that holds s and t, one after the other, holds each.
LEMMA HoldsBoth ==
    ASSUME NEW buf, NEW p, NEW s \in Seq(Int), NEW t \in Seq(Int), Holds(buf, p, s \o t)
    PROVE  Holds(buf, p, s) /\ Holds(buf, p + Len(s), t)
<1>1. /\ Len(s \o t) = Len(s) + Len(t) /\ Len(s) \in Nat /\ Len(t) \in Nat
      /\ \A i \in 1..Len(s) : (s \o t)[i] = s[i]
      /\ \A i \in 1..Len(t) : (s \o t)[Len(s) + i] = t[i]
  <2>1. Len(s) \in Nat /\ Len(t) \in Nat BY LenProperties, Zenon
  <2>2. /\ Len(s \o t) = Len(s) + Len(t)
        /\ \A i \in 1..(Len(s) + Len(t)) :
              (s \o t)[i] = IF i <= Len(s) THEN s[i] ELSE t[i - Len(s)]
    BY ConcatProperties
  <2>3. \A i \in 1..Len(s) : (s \o t)[i] = s[i] BY <2>1, <2>2
  <2>4. ASSUME NEW i \in 1..Len(t) PROVE (s \o t)[Len(s) + i] = t[i]
    <3>1. /\ Len(s) + i \in 1..(Len(s) + Len(t)) /\ ~(Len(s) + i <= Len(s))
          /\ (Len(s) + i) - Len(s) = i
      BY <2>1
    <3>. QED BY <2>2, <3>1
  <2>. QED BY <2>1, <2>2, <2>3, <2>4
<1>2. /\ buf \in Seq(Int) /\ p \in Nat \ {0} /\ Len(buf) \in Nat
      /\ p + (Len(s) + Len(t)) - 1 <= Len(buf)
      /\ \A i \in 1..(Len(s) + Len(t)) : buf[p + i - 1] = (s \o t)[i]
  <2>1. /\ buf \in Seq(Int) /\ p \in Nat \ {0}
        /\ p + Len(s \o t) - 1 <= Len(buf)
        /\ \A i \in 1..Len(s \o t) : buf[p + i - 1] = (s \o t)[i]
    BY Zenon DEF Holds
  <2>2. Len(buf) \in Nat BY <2>1, LenProperties, Zenon
  <2>. QED BY <1>1, <2>1, <2>2, Zenon
<1>3. ASSUME NEW i \in 1..Len(t) PROVE buf[(p + Len(s)) + i - 1] = t[i]
  <2> DEFINE j == Len(s) + i
  <2>1. j \in 1..(Len(s) + Len(t)) /\ p + j - 1 = (p + Len(s)) + i - 1 BY <1>1, <1>2
  <2>2. buf[p + j - 1] = (s \o t)[j] BY <1>2, <2>1
  <2>. QED BY <1>1, <2>1, <2>2
<1>4. ASSUME NEW i \in 1..Len(s) PROVE buf[p + i - 1] = s[i]
  <2>1. i \in 1..(Len(s) + Len(t)) BY <1>1
  <2>. QED BY <1>1, <1>2, <2>1
<1>. QED BY <1>1, <1>2, <1>3, <1>4 DEF Holds

\* Where the parts are of which a buffer holds the joined sequence.
Lies(buf, at, parts, pos) ==
    /\ pos[1] = at /\ pos[Len(parts) + 1] = at + Len(FlattenSeq(parts))
    /\ \A i \in 1..Len(parts) :
          Holds(buf, pos[i], parts[i]) /\ pos[i + 1] = pos[i] + Len(parts[i])

\* A buffer that holds joined parts holds each part after the one before it.
LEMMA HoldsParts ==
    ASSUME NEW parts \in Seq(Seq(Int)), NEW buf, NEW at, Holds(buf, at, FlattenSeq(parts))
    PROVE  \E pos : Lies(buf, at, parts, pos)
<1> DEFINE n == Len(parts)
<1>1. n \in Nat /\ at \in Nat \ {0} BY DEF Holds
<1>2. PICK f : Chained(f, parts, n, Int) /\ f[n] = FlattenSeq(parts)
  BY FlattenJoins, Zenon
<1>3. \A i \in 1..n : parts[i] \in Seq(Int) OBVIOUS
<1> HIDE DEF n
<1>4. ASSUME NEW i \in 1..n
      PROVE  f[i] = f[i - 1] \o parts[i] /\ f[i - 1] \in Seq(Int) /\ i \in 0..n
  <2>1. f[i] = f[i - 1] \o parts[i] BY <1>2, Zenon DEF Chained
  <2>2. i - 1 \in 0..n /\ i \in 0..n BY <1>1
  <2>3. f[i - 1] \in Seq(Int) BY <1>2, <2>2, Zenon DEF Chained
  <2>. QED BY <2>1, <2>2, <2>3
<1> DEFINE Held == {m \in Nat : m <= n => Holds(buf, at, f[n - m])}
<1>5. 0 \in Held BY <1>1, <1>2
<1>6. ASSUME NEW m \in Nat, m \in Held PROVE m + 1 \in Held
  <2> SUFFICES ASSUME m + 1 <= n PROVE Holds(buf, at, f[n - (m + 1)]) OBVIOUS
  <2> DEFINE i == n - m
  <2>1. i \in 1..n /\ n - (m + 1) = i - 1 /\ m <= n BY <1>1
  <2>2. Holds(buf, at, f[i]) BY <1>6, <2>1
  <2> HIDE DEF i
  <2>3. Holds(buf, at, f[i - 1] \o parts[i]) BY <1>4, <2>1, <2>2
  <2>4. Holds(buf, at, f[i - 1]) BY <1>3, <1>4, <2>1, <2>3, HoldsBoth
  <2>. QED BY <2>1, <2>4
<1> HIDE DEF Held
<1>7. \A m \in Nat : m \in Held BY <1>5, <1>6, SetInduction
<1>8. ASSUME NEW i \in 0..n PROVE Holds(buf, at, f[i])
  <2>1. n - i \in Nat /\ n - i <= n /\ n - (n - i) = i BY <1>1
  <2>2. n - i \in Held BY <1>7, <2>1
  <2>. QED BY <2>1, <2>2 DEF Held
<1> DEFINE pos == [i \in 1..(n + 1) |-> at + Len(f[i - 1])]
<1>9. pos[1] = at
  <2>1. f[0] = <<>> BY <1>2 DEF Chained
  <2>2. Len(f[0]) = 0 BY <2>1
  <2>3. 1 \in 1..(n + 1) /\ 1 - 1 = 0 BY <1>1
  <2>4. pos[1] = at + Len(f[0]) BY <2>3
  <2>. QED BY <1>1, <2>2, <2>4
<1>10. pos[n + 1] = at + Len(FlattenSeq(parts))
  <2>1. n + 1 \in 1..(n + 1) /\ (n + 1) - 1 = n BY <1>1
  <2>. QED BY <1>2, <2>1
<1>11. ASSUME NEW i \in 1..n
       PROVE  Holds(buf, pos[i], parts[i]) /\ pos[i + 1] = pos[i] + Len(parts[i])
  <2>0. f[i] = f[i - 1] \o parts[i] /\ i \in 0..n BY <1>4
  <2>1. Holds(buf, at, f[i - 1] \o parts[i]) BY <1>8, <2>0, Zenon
  <2>2. Holds(buf, at + Len(f[i - 1]), parts[i]) BY <1>3, <1>4, <2>1, HoldsBoth
  <2>3. Len(f[i]) = Len(f[i - 1]) + Len(parts[i]) /\ Len(f[i - 1]) \in Nat
        /\ Len(parts[i]) \in Nat
    <3>1. f[i - 1] \in Seq(Int) /\ parts[i] \in Seq(Int) BY <1>3, <1>4
    <3>. QED BY <2>0, <3>1
  <2>4. i \in 1..(n + 1) /\ i + 1 \in 1..(n + 1) /\ (i + 1) - 1 = i BY <1>1
  <2>5. pos[i] = at + Len(f[i - 1]) /\ pos[i + 1] = at + Len(f[i]) BY <2>4
  <2> HIDE DEF pos
  <2>6. pos[i + 1] = pos[i] + Len(parts[i])
    <3>1. \A a, b \in Nat : at + (a + b) = (at + a) + b BY <1>1
    <3>. QED BY <2>3, <2>5, <3>1, Zenon
  <2>. QED BY <2>2, <2>5, <2>6
<1> HIDE DEF pos
<1>. QED BY <1>9, <1>10, <1>11 DEF Lies, n

\* Reading what was written part by part.
ReadsParts(read, vals, parts, buf) ==
    \A i \in 1..Len(parts) : \A p \in Nat :
        Holds(buf, p, parts[i]) => read[i][p] = <<vals[i], p + Len(parts[i])>>

\* Joined parts are read one by one, when each is read as its value.
LEMMA PartsRead ==
    ASSUME NEW parts \in Seq(Seq(Int)), NEW buf, NEW at, Holds(buf, at, FlattenSeq(parts)),
           NEW read, NEW vals, ReadsParts(read, vals, parts, buf)
    PROVE  Yields(read, Len(parts), at, vals, at + Len(FlattenSeq(parts)))
<1>1. PICK pos : Lies(buf, at, parts, pos) BY HoldsParts, Zenon
<1>2. ReadsAt(read, Len(parts), at, vals, pos)
  <2>1. Len(parts) \in Nat /\ pos[1] = at BY <1>1 DEF Lies
  <2>2. ASSUME NEW i \in 1..Len(parts) PROVE read[i][pos[i]] = <<vals[i], pos[i + 1]>>
    <3>1. Holds(buf, pos[i], parts[i]) /\ pos[i + 1] = pos[i] + Len(parts[i])
      BY <1>1 DEF Lies
    <3>2. pos[i] \in Nat BY <3>1 DEF Holds
    <3>. QED BY <3>1, <3>2, Zenon DEF ReadsParts
  <2>. QED BY <2>1, <2>2 DEF ReadsAt
<1>3. Yields(read, Len(parts), at, vals, pos[Len(parts) + 1]) BY <1>2, EachRead, Zenon
<1>. QED BY <1>1, <1>3, Zenon DEF Lies

\* Sequences of integers joined.
LEMMA ConcatInts ==
    ASSUME NEW s \in Seq(Int), NEW t \in Seq(Int)
    PROVE  s \o t \in Seq(Int) /\ Len(s \o t) = Len(s) + Len(t)
OBVIOUS

\* Parts that a function numbers.
LEMMA PartsAre ==
    ASSUME NEW n \in Nat, NEW parts \in [1..n -> Seq(Int)]
    PROVE  parts \in Seq(Seq(Int)) /\ Len(parts) = n
OBVIOUS

\* Bytes are integers.
LEMMA BytesAreInts ==
    ASSUME NEW s \in Seq(Byte256)
    PROVE  s \in Seq(Int) /\ Len(s) \in Nat
<1>1. Len(s) \in Nat /\ \A i \in 1..Len(s) : s[i] \in Byte256 OBVIOUS
<1>2. Byte256 \subseteq Int BY DEF Byte256
<1>3. \A i \in 1..Len(s) : s[i] \in Int BY <1>1, <1>2
<1>. QED BY <1>1, <1>3

\* The bytes of an integer.
LEMMA LittleEndianType ==
    ASSUME NEW x \in Nat, NEW n \in {1, 2, 4}
    PROVE  LittleEndian(x, n) \in Seq(Int) /\ Len(LittleEndian(x, n)) = n
<1>1. \A i \in 1..n : (x \div Weight[i]) % 256 \in Int
  BY SMT DEF Weight
<1>. QED BY <1>1 DEF LittleEndian

\* An integer reads as what was written.
LEMMA NumberRead ==
    ASSUME NEW x, NEW n \in {1, 2, 4}, IsWord(x, n),
           NEW buf, NEW p, Holds(buf, p, LittleEndian(x, n))
    PROVE  Number(buf, p, n) = x
<1>1. x \in Nat /\ p \in Nat \ {0} BY DEF IsWord, Holds
<1>2. Len(LittleEndian(x, n)) = n BY <1>1, LittleEndianType
<1>3. \A i \in 1..n : LittleEndian(x, n)[i] = (x \div Weight[i]) % 256
  BY DEF LittleEndian
<1>4. \A i \in 1..n : p + i - 1 <= Len(buf) /\ buf[p + i - 1] = (x \div Weight[i]) % 256
  BY <1>1, <1>2, <1>3 DEF Holds
<1>5. CASE n = 1
  <2>1. 1 <= Len(buf) - p + 1 /\ buf[p + 1 - 1] = x % 256 /\ x < 256
    BY SMT, <1>1, <1>4, <1>5 DEF Weight, IsWord
  <2>. QED BY SMT, <1>1, <1>5, <2>1 DEF Number, Weight
<1>6. CASE n = 2
  <2>1. buf[p + 1 - 1] = x % 256 /\ buf[p + 2 - 1] = (x \div 256) % 256
        /\ p + 1 - 1 <= Len(buf) /\ p + 2 - 1 <= Len(buf) /\ x \div 256 < 256
    BY SMT, <1>1, <1>4, <1>6 DEF Weight, IsWord
  <2>2. Number(buf, p, n) = (x % 256) + ((x \div 256) % 256) * 256
    BY SMT, <1>1, <1>6, <2>1 DEF Number, Weight
  <2>. QED BY SMT, <1>1, <2>1, <2>2
<1>7. CASE n = 4
  <2>1. /\ buf[p + 1 - 1] = x % 256 /\ buf[p + 2 - 1] = (x \div 256) % 256
        /\ buf[p + 3 - 1] = (x \div 65536) % 256
        /\ buf[p + 4 - 1] = (x \div 16777216) % 256
        /\ p + 1 - 1 <= Len(buf) /\ p + 2 - 1 <= Len(buf)
        /\ p + 3 - 1 <= Len(buf) /\ p + 4 - 1 <= Len(buf)
        /\ x \div 16777216 < 256
    BY SMT, <1>1, <1>4, <1>7 DEF Weight, IsWord
  <2>2. Number(buf, p, n) = (x % 256) + ((x \div 256) % 256) * 256
            + ((x \div 65536) % 256) * 65536 + ((x \div 16777216) % 256) * 16777216
    BY SMT, <1>1, <1>7, <2>1 DEF Number, Weight
  <2>3. x = 256 * (x \div 256) + (x % 256) BY SMT, <1>1
  <2>4. x \div 256 = 256 * (x \div 65536) + ((x \div 256) % 256) BY SMT, <1>1
  <2>5. x \div 65536 = 256 * (x \div 16777216) + ((x \div 65536) % 256) BY SMT, <1>1
  <2>6. (x \div 16777216) % 256 = x \div 16777216 BY SMT, <1>1, <2>1
  <2>. QED BY SMT, <1>1, <2>2, <2>3, <2>4, <2>5, <2>6
<1>. QED BY <1>5, <1>6, <1>7

\* A slice of the buffer is the sequence that lies there.
LEMMA SliceRead ==
    ASSUME NEW buf, NEW p, NEW s, Holds(buf, p, s)
    PROVE  Slice(buf, p, Len(s)) = s
<1>1. /\ buf \in Seq(Int) /\ s \in Seq(Int) /\ p \in Nat \ {0} /\ Len(s) \in Nat
      /\ p + Len(s) - 1 <= Len(buf) /\ Len(buf) \in Nat
      /\ \A i \in 1..Len(s) : buf[p + i - 1] = s[i]
  BY DEF Holds
<1>2. Slice(buf, p, Len(s)) = SubSeq(buf, p, p + Len(s) - 1) BY <1>1 DEF Slice
<1> DEFINE t == SubSeq(buf, p, p + Len(s) - 1)
<1>3. t \in Seq(Int) /\ Len(t) = Len(s) /\ \A i \in 1..Len(s) : t[i] = buf[p + i - 1]
  <2>1. p + Len(s) - 1 \in Int /\ (p <= p + Len(s) - 1 => p \in 1..Len(buf))
    BY <1>1
  <2>. QED BY <1>1, <2>1
<1>4. \A i \in 1..Len(s) : t[i] = s[i] BY <1>1, <1>3
<1> HIDE DEF t
<1>5. t = s
  <2>1. t = [i \in 1..Len(s) |-> t[i]] /\ s = [i \in 1..Len(s) |-> s[i]] BY <1>1, <1>3
  <2>. QED BY <1>4, <2>1
<1>. QED BY <1>2, <1>5 DEF t

\* A string is written as its length and its characters.
LEMMA StringType ==
    ASSUME NEW s \in Seq(Byte256), NEW n \in {1, 2}
    PROVE  /\ WriteString(s, n) \in Seq(Int)
           /\ WriteString(s, n) = LittleEndian(Len(s), n) \o s
           /\ LittleEndian(Len(s), n) \in Seq(Int) /\ Len(LittleEndian(Len(s), n)) = n
           /\ s \in Seq(Int) /\ Len(s) \in Nat
<1> DEFINE size == LittleEndian(Len(s), n)
<1>1. s \in Seq(Int) /\ Len(s) \in Nat BY BytesAreInts
<1>2. size \in Seq(Int) /\ Len(size) = n BY <1>1, LittleEndianType
<1>3. [i \in DOMAIN s |-> s[i] % 256] = s
  <2>1. \A b \in Byte256 : b % 256 = b BY DEF Byte256
  <2>2. \A i \in DOMAIN s : s[i] \in Byte256 OBVIOUS
  <2>. QED BY <2>1, <2>2
<1> HIDE DEF size
<1>4. WriteString(s, n) = size \o s BY <1>3 DEF WriteString, size
<1>. QED BY <1>1, <1>2, <1>4 DEF size

\* A string reads as what was written.
LEMMA StringRead ==
    ASSUME NEW s \in Seq(Byte256), NEW n \in {1, 2}, IsWord(Len(s), n),
           NEW buf, NEW p, Holds(buf, p, WriteString(s, n))
    PROVE  ReadString(buf, p, n) = <<s, p + Len(WriteString(s, n))>>
<1> DEFINE size == LittleEndian(Len(s), n)
<1>1. s \in Seq(Int) /\ Len(s) \in Nat BY StringType
<1>2. size \in Seq(Int) /\ Len(size) = n BY StringType
<1>4. WriteString(s, n) = size \o s BY StringType
<1> HIDE DEF size
<1>5. Holds(buf, p, size) /\ Holds(buf, p + n, s)
  BY <1>1, <1>2, <1>4, HoldsBoth
<1>6. Number(buf, p, n) = Len(s) BY <1>5, NumberRead DEF size
<1>7. Slice(buf, p + n, Len(s)) = s BY <1>5, SliceRead
<1>8. p \in Nat /\ Len(size \o s) = n + Len(s) BY <1>1, <1>2 DEF Holds
<1>9. p + n + Len(s) = p + (n + Len(s)) BY <1>1, <1>8
<1>. QED BY <1>4, <1>6, <1>7, <1>8, <1>9 DEF ReadString

\* Wherever a buffer holds w, a field of kind k reads as x, and the index moves on
\* behind w.
Reads(k, x, w) ==
    /\ w \in Seq(Int)
    /\ \A buf : \A p \in Nat :
          Holds(buf, p, w) => ReadField(k, buf, p) = <<x, p + Len(w)>>

\* Integers of one, two and four bytes.
LEMMA IntegerReads ==
    ASSUME NEW n \in {1, 2, 4}, NEW x, FitsField(UInt(n), x)
    PROVE  Reads(UInt(n), x, WriteField(UInt(n), x))
<1> DEFINE k == UInt(n)
<1>1. k.kind = "uint" /\ k.n = n BY DEF UInt
<1>2. IsWord(x, n) /\ x \in Nat BY <1>1 DEF FitsField, IsWord
<1>3. WriteField(k, x) = LittleEndian(x, n) BY <1>1 DEF WriteField
<1>4. LittleEndian(x, n) \in Seq(Int) /\ Len(LittleEndian(x, n)) = n
  BY <1>2, LittleEndianType
<1> HIDE DEF k
<1>5. ASSUME NEW buf, NEW p \in Nat, Holds(buf, p, LittleEndian(x, n))
      PROVE  ReadField(k, buf, p) = <<x, p + n>>
  <2>1. Number(buf, p, n) = x BY <1>2, <1>5, NumberRead
  <2>. QED BY <1>1, <2>1 DEF ReadField
<1>. QED BY <1>3, <1>4, <1>5 DEF Reads, k

\* Integers of eight bytes.
LEMMA BigReads ==
    ASSUME NEW x, FitsField(U64, x)
    PROVE  Reads(U64, x, WriteField(U64, x))
<1>1. U64.kind = "big" BY DEF U64
<1>2. x = <<x[1], x[2]>> /\ IsWord(x[1], 4) /\ IsWord(x[2], 4) BY <1>1 DEF FitsField
<1>3. x[1] \in Nat /\ x[2] \in Nat BY <1>2 DEF IsWord
<1> DEFINE lo == LittleEndian(x[1], 4)
           hi == LittleEndian(x[2], 4)
<1>4. WriteField(U64, x) = lo \o hi BY <1>1 DEF WriteField
<1>5. lo \in Seq(Int) /\ Len(lo) = 4 /\ hi \in Seq(Int) /\ Len(hi) = 4
  BY <1>3, LittleEndianType
<1>6. ASSUME NEW buf, NEW p \in Nat, Holds(buf, p, lo \o hi)
      PROVE  ReadField(U64, buf, p) = <<x, p + 8>>
  <2> HIDE DEF lo, hi
  <2>1. Holds(buf, p, lo) /\ Holds(buf, p + 4, hi) BY <1>5, <1>6, HoldsBoth
  <2>2. Number(buf, p, 4) = x[1] /\ Number(buf, p + 4, 4) = x[2]
    BY <1>2, <2>1, NumberRead DEF lo, hi
  <2>. QED BY <1>1, <1>2, <2>2, Zenon DEF ReadField
<1> HIDE DEF lo, hi
<1>7. lo \o hi \in Seq(Int) /\ Len(lo \o hi) = 8
  <2>1. lo \o hi \in Seq(Int) /\ Len(lo \o hi) = Len(lo) + Len(hi)
    BY <1>5, ConcatInts, Zenon
  <2>2. 4 + 4 = 8 OBVIOUS
  <2>. QED BY <1>5, <2>1, <2>2, Zenon
<1>. QED BY <1>4, <1>6, <1>7 DEF Reads

\* Booleans.
LEMMA BoolReads ==
    ASSUME NEW x, FitsField(Bool, x)
    PROVE  Reads(Bool, x, WriteField(Bool, x))
<1>1. Bool.kind = "bool" BY DEF Bool
<1>2. x \in BOOLEAN BY <1>1 DEF FitsField
<1> DEFINE w == <<IF x THEN 1 ELSE 0>>
<1>3. WriteField(Bool, x) = w BY <1>1 DEF WriteField
<1>4. w \in Seq(Int) /\ Len(w) = 1 /\ w[1] = IF x THEN 1 ELSE 0 BY <1>2
<1> HIDE DEF w
<1>5. ASSUME NEW buf, NEW p \in Nat, Holds(buf, p, w)
      PROVE  ReadField(Bool, buf, p) = <<x, p + 1>>
  <2>1. buf[p] = w[1] /\ p <= Len(buf) /\ buf \in Seq(Int)
    <3>1. p \in Nat /\ 1 \in 1..Len(w) /\ p + 1 - 1 = p BY <1>4
    <3>. QED BY <1>4, <1>5, <3>1 DEF Holds
  <2>2. Number(buf, p, 1) = w[1] BY <1>4, <2>1, SMT DEF Number, Weight
  <2>3. (Number(buf, p, 1) # 0) = x BY <1>2, <1>4, <2>2
  <2>. QED BY <1>1, <2>3 DEF ReadField
<1>. QED BY <1>3, <1>4, <1>5 DEF Reads

\* Strings.
LEMMA TextReads ==
    ASSUME NEW n \in {1, 2}, NEW x, FitsField(Str(n), x), IsWord(Len(x), n)
    PROVE  Reads(Str(n), x, WriteField(Str(n), x))
<1> DEFINE k == Str(n)
<1>1. k.kind = "string" /\ k.n = n BY DEF Str
<1>2. x \in Seq(Byte256) BY <1>1 DEF FitsField
<1>3. WriteField(k, x) = WriteString(x, n) BY <1>1 DEF WriteField
<1>4. WriteString(x, n) \in Seq(Int) BY <1>2, StringType
<1> HIDE DEF k
<1>5. ASSUME NEW buf, NEW p \in Nat, Holds(buf, p, WriteString(x, n))
      PROVE  ReadField(k, buf, p) = <<x, p + Len(WriteString(x, n))>>
  <2>1. ReadField(k, buf, p) = ReadString(buf, p, n) BY <1>1 DEF ReadField
  <2>. QED BY <1>2, <1>5, <2>1, StringRead, Zenon
<1>. QED BY <1>3, <1>4, <1>5 DEF Reads, k

\* Fixed arrays.
LEMMA ArrayReads ==
    ASSUME NEW n, NEW x, FitsField(Array(n), x)
    PROVE  Reads(Array(n), x, WriteField(Array(n), x))
<1> DEFINE k == Array(n)
<1>1. k.kind = "array" /\ k.n = n BY DEF Array
<1>2. x \in Seq(Byte256) /\ Len(x) = n BY <1>1 DEF FitsField
<1>3. WriteField(k, x) = x BY <1>1 DEF WriteField
<1>4. x \in Seq(Int) BY <1>2, BytesAreInts
<1> HIDE DEF k
<1>5. ASSUME NEW buf, NEW p \in Nat, Holds(buf, p, x)
      PROVE  ReadField(k, buf, p) = <<x, p + n>>
  <2>1. Slice(buf, p, n) = x BY <1>2, <1>5, SliceRead
  <2>. QED BY <1>1, <2>1 DEF ReadField
<1>. QED BY <1>2, <1>3, <1>4, <1>5 DEF Reads, k

\* Arrays of bytes.
LEMMA BytesReads ==
    ASSUME NEW x, FitsField(Bytes, x)
    PROVE  Reads(Bytes, x, WriteField(Bytes, x))
<1>1. Bytes.kind = "bytes" BY DEF Bytes
<1>2. x \in Seq(Byte256) /\ IsWord(Len(x), 2) BY <1>1 DEF FitsField
<1> DEFINE size == LittleEndian(Len(x), 2)
<1>3. WriteField(Bytes, x) = size \o x BY <1>1 DEF WriteField
<1>4. size \in Seq(Int) /\ Len(size) = 2 /\ x \in Seq(Int) /\ Len(x) \in Nat
  BY <1>2, BytesAreInts, LittleEndianType
<1>5. ASSUME NEW buf, NEW p \in Nat, Holds(buf, p, size \o x)
      PROVE  ReadField(Bytes, buf, p) = <<x, p + 2 + Len(x)>>
  <2> HIDE DEF size
  <2>1. Holds(buf, p, size) /\ Holds(buf, p + 2, x) BY <1>4, <1>5, HoldsBoth
  <2>2. Number(buf, p, 2) = Len(x) BY <1>2, <2>1, NumberRead DEF size
  <2>3. Slice(buf, p + 2, Len(x)) = x BY <2>1, SliceRead
  <2>. QED BY <1>1, <2>2, <2>3, Zenon DEF ReadField
<1> HIDE DEF size
<1>6. size \o x \in Seq(Int) /\ Len(size \o x) = 2 + Len(x)
  BY <1>4, ConcatInts, Zenon
<1>7. \A p \in Nat : p + 2 + Len(x) = p + (2 + Len(x)) BY <1>4
<1>. QED BY <1>3, <1>5, <1>6, <1>7 DEF Reads

\* Arrays of two-byte integers: the i-th lies 2 * i bytes after the count.
LEMMA WordsReads ==
    ASSUME NEW x, FitsField(Words, x)
    PROVE  Reads(Words, x, WriteField(Words, x))
<1>1. Words.kind = "words" BY DEF Words
<1>2. /\ x \in Seq(Nat) /\ IsWord(Len(x), 2) /\ Len(x) \in Nat
      /\ \A i \in 1..Len(x) : IsWord(x[i], 2) /\ x[i] \in Nat
  BY <1>1 DEF FitsField
<1> DEFINE size == LittleEndian(Len(x), 2)
           parts == [i \in DOMAIN x |-> LittleEndian(x[i], 2)]
           n == Len(x)
<1>3. WriteField(Words, x) = size \o FlattenSeq(parts) BY <1>1 DEF WriteField
<1>4. size \in Seq(Int) /\ Len(size) = 2 BY <1>2, LittleEndianType
<1>5. /\ parts \in Seq(Seq(Int)) /\ Len(parts) = n
      /\ \A i \in 1..n : parts[i] = LittleEndian(x[i], 2) /\ Len(parts[i]) = 2
  <2>0. n \in Nat BY <1>2
  <2>1. \A i \in 1..n : LittleEndian(x[i], 2) \in Seq(Int) /\ Len(LittleEndian(x[i], 2)) = 2
    BY <1>2, LittleEndianType
  <2>2. parts = [i \in 1..n |-> LittleEndian(x[i], 2)] BY <1>2
  <2> HIDE DEF parts, n
  <2>3. parts \in [1..n -> Seq(Int)] BY <2>1, <2>2, Zenon
  <2>4. parts \in Seq(Seq(Int)) /\ Len(parts) = n BY <2>0, <2>3, PartsAre, Zenon
  <2>. QED BY <2>1, <2>2, <2>4
<1>6. n \in Nat BY <1>2
<1> HIDE DEF parts, size
<1>7. FlattenSeq(parts) \in Seq(Int)
  <2>1. PICK f : Chained(f, parts, Len(parts), Int) /\ f[Len(parts)] = FlattenSeq(parts)
    BY <1>5, FlattenJoins, Zenon
  <2>2. Len(parts) \in 0..Len(parts) BY <1>5, <1>6
  <2>. QED BY <2>1, <2>2, Zenon DEF Chained
<1>8. ASSUME NEW buf, NEW p \in Nat, Holds(buf, p, size \o FlattenSeq(parts))
      PROVE  /\ ReadField(Words, buf, p) = <<x, p + 2 + 2 * n>>
             /\ Len(FlattenSeq(parts)) = 2 * n
  <2>1. Holds(buf, p, size) /\ Holds(buf, p + 2, FlattenSeq(parts))
    BY <1>4, <1>7, <1>8, HoldsBoth
  <2>2. Number(buf, p, 2) = n BY <1>2, <2>1, NumberRead DEF size
  <2>3. PICK pos : Lies(buf, p + 2, parts, pos) BY <1>5, <2>1, HoldsParts, Zenon
  <2> HIDE DEF n
  <2>4. /\ pos[1] = p + 2 /\ pos[n + 1] = (p + 2) + Len(FlattenSeq(parts))
        /\ \A i \in 1..n : Holds(buf, pos[i], parts[i]) /\ pos[i + 1] = pos[i] + 2
    BY <1>5, <2>3 DEF Lies
  <2> DEFINE Good == {i \in Nat : i <= n => pos[i + 1] = p + 2 * (i + 1)}
  <2>5. 0 \in Good BY <2>4
  <2>6. ASSUME NEW i \in Nat, i \in Good PROVE i + 1 \in Good BY <1>6, <2>4, <2>6
  <2> HIDE DEF Good
  <2>7. \A i \in Nat : i \in Good BY <2>5, <2>6, SetInduction
  <2>8. \A i \in Nat : i <= n => pos[i + 1] = p + 2 * (i + 1) BY <2>7 DEF Good
  <2>9. ASSUME NEW i \in 1..n PROVE Number(buf, p + 2 * i, 2) = x[i]
    <3>1. i - 1 \in Nat /\ i - 1 <= n /\ (i - 1) + 1 = i BY <1>6
    <3>2. pos[i] = p + 2 * i BY <2>8, <3>1
    <3>3. Holds(buf, pos[i], LittleEndian(x[i], 2)) BY <1>5, <2>4
    <3>. QED BY <1>2, <3>2, <3>3, NumberRead DEF n
  <2>10. [i \in 1..n |-> Number(buf, p + 2 * i, 2)] = x
    <3>1. x = [i \in 1..n |-> x[i]] BY <1>2 DEF n
    <3>. QED BY <2>9, <3>1
  <2>11. ReadField(Words, buf, p) = <<x, p + 2 + 2 * n>>
    BY <1>1, <2>2, <2>10, Zenon DEF ReadField
  <2>12. Len(FlattenSeq(parts)) \in Nat BY <1>7
  <2>13. pos[n + 1] = p + 2 * (n + 1) BY <1>6, <2>8
  <2>14. Len(FlattenSeq(parts)) = 2 * n BY <1>6, <2>4, <2>12, <2>13
  <2>. QED BY <2>11, <2>14
<1> DEFINE w == size \o FlattenSeq(parts)
<1>9. w \in Seq(Int) /\ Len(w) = 2 + Len(FlattenSeq(parts))
  BY <1>4, <1>7, ConcatInts, Zenon
<1> HIDE DEF w
<1>10. \A p \in Nat : p + 2 + 2 * n = p + (2 + 2 * n) BY <1>6
<1>11. ASSUME NEW buf, NEW p \in Nat, Holds(buf, p, w)
       PROVE  ReadField(Words, buf, p) = <<x, p + Len(w)>>
  <2>1. /\ ReadField(Words, buf, p) = <<x, p + 2 + 2 * n>>
        /\ Len(FlattenSeq(parts)) = 2 * n
    BY <1>8, <1>11, Zenon DEF w
  <2>. QED BY <1>9, <1>10, <2>1, Zenon
<1>. QED BY <1>3, <1>9, <1>11, Zenon DEF Reads, w

\* A sequence of Seq(Int) joined of others.
LEMMA FlattenType ==
    ASSUME NEW parts \in Seq(Seq(Int))
    PROVE  FlattenSeq(parts) \in Seq(Int)
<1>1. PICK f : Chained(f, parts, Len(parts), Int) /\ f[Len(parts)] = FlattenSeq(parts)
  BY FlattenJoins, Zenon
<1>2. Len(parts) \in 0..Len(parts) OBVIOUS
<1>. QED BY <1>1, <1>2, Zenon DEF Chained

\* A buffer holds a count at p, and behind it the parts that it counts.
CountAndParts(buf, p, size, parts) ==
    /\ size \in Seq(Int) /\ parts \in Seq(Seq(Int)) /\ p \in Nat
    /\ Holds(buf, p, size \o FlattenSeq(parts))

CountThenParts(buf, p, size, parts) ==
    /\ Holds(buf, p, size)
    /\ Holds(buf, p + Len(size), FlattenSeq(parts))
    /\ p + Len(size) + Len(FlattenSeq(parts)) = p + Len(size \o FlattenSeq(parts))

\* The parts lie behind their count.
LEMMA CountThenPartsHeld ==
    ASSUME NEW buf, NEW p, NEW size, NEW parts, CountAndParts(buf, p, size, parts)
    PROVE  CountThenParts(buf, p, size, parts)
<1> DEFINE rest == FlattenSeq(parts)
<1>1. size \in Seq(Int) /\ rest \in Seq(Int) /\ p \in Nat
  BY FlattenType DEF CountAndParts
<1>2. Holds(buf, p, size \o rest) BY DEF CountAndParts
<1> HIDE DEF rest
<1>3. Holds(buf, p, size) /\ Holds(buf, p + Len(size), rest) BY <1>1, <1>2, HoldsBoth
<1>4. size \o rest \in Seq(Int) /\ Len(size \o rest) = Len(size) + Len(rest)
  BY <1>1, ConcatInts, Zenon
<1>5. Len(size) \in Nat /\ Len(rest) \in Nat BY <1>1
<1>6. p + Len(size) + Len(rest) = p + (Len(size) + Len(rest)) BY <1>1, <1>5
<1>. QED BY <1>3, <1>4, <1>6, Zenon DEF CountThenParts, rest

\* Arrays of strings: each is read behind the one before it.
LEMMA StringsReads ==
    ASSUME NEW x, FitsField(Strings, x)
    PROVE  Reads(Strings, x, WriteField(Strings, x))
<1>1. Strings.kind = "strings" BY DEF Strings
<1>2. /\ x \in Seq(Seq(Byte256)) /\ IsWord(Len(x), 2) /\ Len(x) \in Nat
      /\ \A i \in 1..Len(x) : IsWord(Len(x[i]), 1) /\ x[i] \in Seq(Byte256)
  BY <1>1 DEF FitsField
<1> DEFINE size == LittleEndian(Len(x), 2)
           parts == [i \in DOMAIN x |-> WriteString(x[i], 1)]
           n == Len(x)
<1>3. WriteField(Strings, x) = size \o FlattenSeq(parts) BY <1>1 DEF WriteField
<1>4. size \in Seq(Int) /\ Len(size) = 2 BY <1>2, LittleEndianType
<1>5. /\ parts \in Seq(Seq(Int)) /\ Len(parts) = n
      /\ \A i \in 1..n : parts[i] = WriteString(x[i], 1)
  <2>0. n \in Nat BY <1>2
  <2>1. \A i \in 1..n : WriteString(x[i], 1) \in Seq(Int) BY <1>2, StringType
  <2>2. parts = [i \in 1..n |-> WriteString(x[i], 1)] BY <1>2
  <2> HIDE DEF parts, n
  <2>3. parts \in [1..n -> Seq(Int)] BY <2>1, <2>2, Zenon
  <2>4. parts \in Seq(Seq(Int)) /\ Len(parts) = n BY <2>0, <2>3, PartsAre, Zenon
  <2>. QED BY <2>1, <2>2, <2>4
<1>6. n \in Nat /\ x = [i \in 1..n |-> x[i]] BY <1>2
<1> DEFINE w == size \o FlattenSeq(parts)
<1> HIDE DEF parts, size, n
<1>7. ASSUME NEW buf, NEW p \in Nat, Holds(buf, p, w)
      PROVE  ReadField(Strings, buf, p) = <<x, p + Len(w)>>
  <2> DEFINE read == [i \in 1..n |-> [q \in Nat |-> ReadString(buf, q, 1)]]
  <2>0. CountAndParts(buf, p, size, parts) BY <1>4, <1>5, <1>7 DEF CountAndParts
  <2>1. /\ Holds(buf, p, size) /\ Holds(buf, p + 2, FlattenSeq(parts))
        /\ p + 2 + Len(FlattenSeq(parts)) = p + Len(w)
    <3>1. CountThenParts(buf, p, size, parts) BY <2>0, CountThenPartsHeld, Zenon
    <3>. QED BY <1>4, <3>1 DEF CountThenParts, w
  <2>2. Number(buf, p, 2) = n BY <1>2, <2>1, NumberRead DEF size, n
  <2>3. ReadField(Strings, buf, p) = ReadEach(read, n, p + 2)
    BY <1>1, <2>2, Zenon DEF ReadField
  <2>4. \A i \in 1..n : \A q \in Nat : read[i][q] = ReadString(buf, q, 1) OBVIOUS
  <2> HIDE DEF read
  <2>5. ReadsParts(read, x, parts, buf)
    <3> SUFFICES ASSUME NEW i \in 1..n, NEW q \in Nat, Holds(buf, q, parts[i])
                 PROVE  read[i][q] = <<x[i], q + Len(parts[i])>>
      BY <1>5 DEF ReadsParts
    <3>1. x[i] \in Seq(Byte256) /\ IsWord(Len(x[i]), 1) BY <1>2 DEF n
    <3>2. parts[i] = WriteString(x[i], 1) BY <1>5
    <3>3. ReadString(buf, q, 1) = <<x[i], q + Len(parts[i])>>
      BY <3>1, <3>2, StringRead
    <3>. QED BY <2>4, <3>3
  <2>6. Yields(read, Len(parts), p + 2, x, p + 2 + Len(FlattenSeq(parts)))
    BY <1>5, <2>1, <2>5, PartsRead, Zenon
  <2>7. ReadEach(read, n, p + 2) = <<x, p + Len(w)>>
    BY <1>5, <1>6, <2>1, <2>6, Zenon DEF Yields
  <2>. QED BY <2>3, <2>7
<1>8. w \in Seq(Int) BY <1>4, <1>5, FlattenType, ConcatInts
<1>. QED BY <1>3, <1>7, <1>8, Zenon DEF Reads

\* The kinds of the fields of a record, and those of the fields of a message.
FieldKinds ==
    {UInt(n) : n \in {1, 2, 4}} \cup {Str(n) : n \in {1, 2}} \cup {Array(n) : n \in Nat}
    \cup {U64, Bool, Bytes, Words, Strings}

\* A string is no longer than the length in front of it can say.
HasRoom(k, x) == k.kind = "string" => Len(x) < Weight[k.n + 1]

\* Every field of a record is read as what was written.
LEMMA FieldReads ==
    ASSUME NEW k \in FieldKinds, NEW x, FitsField(k, x), HasRoom(k, x)
    PROVE  Reads(k, x, WriteField(k, x))
<1>1. CASE k \in {UInt(n) : n \in {1, 2, 4}} BY <1>1, IntegerReads
<1>2. CASE k \in {Str(n) : n \in {1, 2}}
  <2>1. PICK n \in {1, 2} : k = Str(n) BY <1>2
  <2>2. k.kind = "string" /\ k.n = n BY <2>1 DEF Str
  <2>3. x \in Seq(Byte256) /\ Len(x) \in Nat BY <2>2 DEF FitsField
  <2>4. Len(x) < Weight[n + 1] BY <2>2 DEF HasRoom
  <2>5. IsWord(Len(x), n) BY <2>3, <2>4, SMT DEF Weight, IsWord
  <2>. QED BY <2>1, <2>5, TextReads
<1>3. CASE k \in {Array(n) : n \in Nat} BY <1>3, ArrayReads
<1>4. CASE k \in {U64, Bool, Bytes, Words, Strings}
  BY <1>4, BigReads, BoolReads, BytesReads, WordsReads, StringsReads
<1>. QED BY <1>1, <1>2, <1>3, <1>4, Zenon DEF FieldKinds

\* Fields whose kinds are of K.
AreFields(fs, K) ==
    Len(fs) \in Nat /\ DOMAIN fs = 1..Len(fs) /\ \A i \in DOMAIN fs : fs[i][2] \in K

\* No field of a record is a list.
LEMMA FieldKindsAreNotLists ==
    \A k \in FieldKinds : k.kind # "list"
BY DEF FieldKinds, UInt, Str, Array, U64, Bool, Bytes, Words, Strings

\* What the fields fs with the values vals are written as reads as vals.
FieldsRead(fs, vals, w) ==
    /\ w \in Seq(Int)
    /\ \A buf : \A p \in Nat :
          Holds(buf, p, w) => UnpackFields(fs, buf, p) = <<vals, p + Len(w)>>

\* A record is read as what was written.
LEMMA RecordReads ==
    ASSUME NEW fs, NEW vals, AreFields(fs, FieldKinds), FitFields(fs, vals),
           StringsFit(fs, vals)
    PROVE  FieldsRead(fs, vals, PackFields(fs, vals))
<1> DEFINE n == Len(fs)
           parts == [i \in DOMAIN fs |-> WriteField(fs[i][2], vals[i])]
<1>1. /\ n \in Nat /\ DOMAIN fs = 1..n
      /\ \A i \in 1..n : fs[i][2] \in FieldKinds
  BY DEF AreFields
<1>2. vals = [i \in 1..n |-> vals[i]]
  <2>1. vals = [i \in DOMAIN fs |-> vals[i]] BY DEF FitFields
  <2>. QED BY <1>1, <2>1, Zenon
<1>3. ASSUME NEW i \in 1..n
      PROVE  Reads(fs[i][2], vals[i], WriteField(fs[i][2], vals[i]))
  <2>1. FitsField(fs[i][2], vals[i]) BY <1>1 DEF FitFields
  <2>2. HasRoom(fs[i][2], vals[i]) BY <1>1 DEF HasRoom, StringsFit
  <2>. QED BY <1>1, <2>1, <2>2, FieldReads, Zenon
<1>4. /\ parts \in Seq(Seq(Int)) /\ Len(parts) = n
      /\ \A i \in 1..n : parts[i] = WriteField(fs[i][2], vals[i])
  <2>1. \A i \in 1..n : WriteField(fs[i][2], vals[i]) \in Seq(Int) BY <1>3 DEF Reads
  <2>2. parts = [i \in 1..n |-> WriteField(fs[i][2], vals[i])] BY <1>1
  <2> HIDE DEF parts, n
  <2>3. parts \in [1..n -> Seq(Int)] BY <2>1, <2>2, Zenon
  <2>4. parts \in Seq(Seq(Int)) /\ Len(parts) = n BY <1>1, <2>3, PartsAre, Zenon
  <2>. QED BY <2>1, <2>2, <2>4
<1>5. PackFields(fs, vals) = FlattenSeq(parts) BY DEF PackFields
<1> HIDE DEF parts, n
<1>6. FlattenSeq(parts) \in Seq(Int) BY <1>4, FlattenType
<1>7. ASSUME NEW buf, NEW p \in Nat, Holds(buf, p, FlattenSeq(parts))
      PROVE  UnpackFields(fs, buf, p) = <<vals, p + Len(FlattenSeq(parts))>>
  <2> DEFINE read == [i \in DOMAIN fs |-> [q \in Nat |-> ReadField(fs[i][2], buf, q)]]
  <2>1. UnpackFields(fs, buf, p) = ReadEach(read, n, p) BY Zenon DEF UnpackFields, n
  <2>2. \A i \in 1..n : \A q \in Nat : read[i][q] = ReadField(fs[i][2], buf, q)
    BY <1>1
  <2> HIDE DEF read
  <2>3. ReadsParts(read, vals, parts, buf)
    <3> SUFFICES ASSUME NEW i \in 1..n, NEW q \in Nat, Holds(buf, q, parts[i])
                 PROVE  read[i][q] = <<vals[i], q + Len(parts[i])>>
      BY <1>4 DEF ReadsParts
    <3>1. Reads(fs[i][2], vals[i], parts[i]) BY <1>3, <1>4
    <3>2. ReadField(fs[i][2], buf, q) = <<vals[i], q + Len(parts[i])>>
      BY <3>1, Zenon DEF Reads
    <3>. QED BY <2>2, <3>2
  <2>4. Yields(read, Len(parts), p, vals, p + Len(FlattenSeq(parts)))
    BY <1>4, <1>7, <2>3, PartsRead, Zenon
  <2>. QED BY <1>2, <1>4, <2>1, <2>4, Zenon DEF Yields
<1>. QED BY <1>5, <1>6, <1>7, Zenon DEF FieldsRead

\* What a field of a message is written as reads as its value.
MemberReads(k, x, w) ==
    /\ w \in Seq(Int)
    /\ \A buf : \A p \in Nat :
          Holds(buf, p, w) => UnpackField(k, buf, p) = <<x, p + Len(w)>>

\* A list of records is read as what was written.
LEMMA ListReads ==
    ASSUME NEW class, NEW x, AreFields(class.fields, FieldKinds), FitsList(class, x)
    PROVE  MemberReads(List(class), x, PackField(List(class), x))
<1> DEFINE k == List(class)
           fs == class.fields
           n == Len(x)
           size == LittleEndian(n, 1)
           parts == [i \in DOMAIN x |-> PackFields(fs, x[i])]
<1>1. k.kind = "list" /\ k.n = 1 /\ k.of = class BY DEF List
<1>2. AreFields(fs, FieldKinds) OBVIOUS
<1>3. /\ n \in Nat /\ DOMAIN x = 1..n /\ IsWord(n, 1)
      /\ x = [i \in 1..n |-> x[i]]
  <2>1. x = [i \in 1..n |-> x[i]] /\ IsWord(n, 1) BY DEF FitsList
  <2>2. DOMAIN x = DOMAIN [i \in 1..n |-> x[i]] BY <2>1, Zenon
  <2>. QED BY <2>1, <2>2 DEF IsWord
<1>4. \A i \in 1..n : FieldsRead(fs, x[i], PackFields(fs, x[i]))
  <2>1. \A i \in 1..n : FitFields(fs, x[i]) /\ StringsFit(fs, x[i])
    BY <1>3 DEF FitsList, CanPack
  <2> HIDE DEF fs, n
  <2>. QED BY <1>2, <2>1, RecordReads, Zenon
<1>5. PackField(k, x) = size \o FlattenSeq(parts) BY <1>1 DEF PackField
<1>6. size \in Seq(Int) /\ Len(size) = 1 BY <1>3, LittleEndianType
<1>7. /\ parts \in Seq(Seq(Int)) /\ Len(parts) = n
      /\ \A i \in 1..n : parts[i] = PackFields(fs, x[i])
  <2> HIDE DEF fs, n
  <2>1. \A i \in 1..n : PackFields(fs, x[i]) \in Seq(Int) BY <1>4 DEF FieldsRead
  <2>2. parts = [i \in 1..n |-> PackFields(fs, x[i])] BY <1>3
  <2> HIDE DEF parts
  <2>3. parts \in [1..n -> Seq(Int)] BY <2>1, <2>2, Zenon
  <2>4. parts \in Seq(Seq(Int)) /\ Len(parts) = n BY <1>3, <2>3, PartsAre, Zenon
  <2>. QED BY <2>1, <2>2, <2>4
<1> DEFINE w == size \o FlattenSeq(parts)
<1> HIDE DEF k, fs, n, size, parts
<1>8. ASSUME NEW buf, NEW p \in Nat, Holds(buf, p, w)
      PROVE  UnpackField(k, buf, p) = <<x, p + Len(w)>>
  <2> DEFINE read == [i \in 1..n |-> [q \in Nat |-> UnpackFields(fs, buf, q)]]
  <2>0. CountAndParts(buf, p, size, parts) BY <1>6, <1>7, <1>8 DEF CountAndParts
  <2>1. /\ Holds(buf, p, size) /\ Holds(buf, p + 1, FlattenSeq(parts))
        /\ p + 1 + Len(FlattenSeq(parts)) = p + Len(w)
    <3>1. CountThenParts(buf, p, size, parts) BY <2>0, CountThenPartsHeld, Zenon
    <3>. QED BY <1>6, <3>1 DEF CountThenParts, w
  <2>2. Number(buf, p, 1) = n BY <1>3, <2>1, NumberRead DEF size
  <2>3. UnpackField(k, buf, p) = ReadEach(read, n, p + 1)
    BY <1>1, <2>2, Zenon DEF UnpackField, fs
  <2>4. \A i \in 1..n : \A q \in Nat : read[i][q] = UnpackFields(fs, buf, q) OBVIOUS
  <2> HIDE DEF read
  <2>5. ReadsParts(read, x, parts, buf)
    <3> SUFFICES ASSUME NEW i \in 1..n, NEW q \in Nat, Holds(buf, q, parts[i])
                 PROVE  read[i][q] = <<x[i], q + Len(parts[i])>>
      BY <1>7 DEF ReadsParts
    <3>1. FieldsRead(fs, x[i], parts[i]) BY <1>4, <1>7
    <3>2. UnpackFields(fs, buf, q) = <<x[i], q + Len(parts[i])>>
      BY <3>1, Zenon DEF FieldsRead
    <3>. QED BY <2>4, <3>2
  <2>6. Yields(read, Len(parts), p + 1, x, p + 1 + Len(FlattenSeq(parts)))
    BY <1>7, <2>1, <2>5, PartsRead, Zenon
  <2>7. ReadEach(read, n, p + 1) = <<x, p + Len(w)>>
    BY <1>3, <1>7, <2>1, <2>6, Zenon DEF Yields
  <2>. QED BY <2>3, <2>7
<1>9. w \in Seq(Int) BY <1>6, <1>7, FlattenType, ConcatInts
<1>. QED BY <1>5, <1>8, <1>9, Zenon DEF MemberReads, k

\* The kinds of the fields of a message: some are lists of records.
Records ==
    {RtsWifiScanResult, RtsWifiScanResult_2, RtsWifiScanResult_3, RtsWifiScanResult_7}
Kinds == FieldKinds \cup {List(class) : class \in Records}
IsClass(class) == AreFields(class.fields, Kinds)

\* The kinds by their names.
LEMMA KindsOfFields ==
    /\ {U8, U16, U32, U64, Bool, Str8, Str16, Bytes, Words, Strings} \subseteq FieldKinds
    /\ \A n \in Nat : Array(n) \in FieldKinds
<1>1. {U8, U16, U32} \subseteq FieldKinds BY DEF FieldKinds, U8, U16, U32
<1>2. {Str8, Str16} \subseteq FieldKinds BY DEF FieldKinds, Str8, Str16
<1>3. \A n \in Nat : Array(n) \in FieldKinds BY DEF FieldKinds
<1>4. {U64, Bool, Bytes, Words, Strings} \subseteq FieldKinds BY DEF FieldKinds
<1>. QED BY <1>1, <1>2, <1>3, <1>4

\* The records hold no lists.
LEMMA RecordsAre == \A class \in Records : AreFields(class.fields, FieldKinds)
<1>1. U8 \in FieldKinds /\ Str8 \in FieldKinds /\ Bool \in FieldKinds
  BY KindsOfFields
<1>2. AreFields(RtsWifiScanResult.fields, FieldKinds)
  BY <1>1 DEF AreFields, RtsWifiScanResult, Class
<1>3. AreFields(RtsWifiScanResult_2.fields, FieldKinds)
  BY <1>1 DEF AreFields, RtsWifiScanResult_2, RtsWifiScanResult, Class, Extend
<1>4. AreFields(RtsWifiScanResult_3.fields, FieldKinds)
  BY <1>1 DEF AreFields, RtsWifiScanResult_3, RtsWifiScanResult_2, RtsWifiScanResult,
              Class, Extend
<1>5. AreFields(RtsWifiScanResult_7.fields, FieldKinds)
  BY <1>1 DEF AreFields, RtsWifiScanResult_7, RtsWifiScanResult_3, RtsWifiScanResult_2,
              RtsWifiScanResult, Class, Extend
<1>. QED BY <1>2, <1>3, <1>4, <1>5, Zenon DEF Records

\* Message.unpack(message.pack()) has the values of the message.
LEMMA MessageReads ==
    ASSUME NEW class, NEW vals, IsClass(class), Fits(class, vals), CanPack(class, vals)
    PROVE  Pack(class, vals) \in Seq(Int) /\ Unpack(class, Pack(class, vals)) = vals
<1> DEFINE fs == class.fields
           n == Len(fs)
           parts == [i \in DOMAIN fs |-> PackField(fs[i][2], vals[i])]
<1>1. AreFields(fs, Kinds) BY DEF IsClass
<1>2. /\ n \in Nat /\ DOMAIN fs = 1..n
      /\ \A i \in 1..n : fs[i][2] \in Kinds
  BY <1>1 DEF AreFields
<1>3. vals = [i \in 1..n |-> vals[i]]
  <2>1. vals = [i \in DOMAIN fs |-> vals[i]] BY DEF Fits
  <2>. QED BY <1>2, <2>1, Zenon
<1>4. ASSUME NEW i \in 1..n
      PROVE  MemberReads(fs[i][2], vals[i], PackField(fs[i][2], vals[i]))
  <2> DEFINE k == fs[i][2]
             x == vals[i]
  <2>1. IF k.kind = "list" THEN FitsList(k.of, x) ELSE FitsField(k, x)
    BY <1>2 DEF Fits
  <2>2. HasRoom(k, x) BY <1>2 DEF HasRoom, CanPack, StringsFit
  <2>3. k \in Kinds BY <1>2
  <2> HIDE DEF k, x
  <2>4. CASE k \in FieldKinds
    <3>1. k.kind # "list" BY <2>4, FieldKindsAreNotLists
    <3>2. Reads(k, x, WriteField(k, x)) BY <2>1, <2>2, <2>4, <3>1, FieldReads
    <3>3. PackField(k, x) = WriteField(k, x) BY <3>1, Zenon DEF PackField
    <3>4. \A buf, p : UnpackField(k, buf, p) = ReadField(k, buf, p)
      BY <3>1, Zenon DEF UnpackField
    <3>. QED BY <3>2, <3>3, <3>4, Zenon DEF Reads, MemberReads, k, x
  <2>5. CASE k \in {List(c) : c \in Records}
    <3>1. PICK c \in Records : k = List(c) BY <2>5
    <3>2. k.kind = "list" /\ k.of = c BY <3>1 DEF List
    <3>3. FitsList(c, x) BY <2>1, <3>2
    <3>4. AreFields(c.fields, FieldKinds) BY RecordsAre
    <3>. QED BY <3>1, <3>3, <3>4, ListReads, Zenon DEF k, x
  <2>. QED BY <2>3, <2>4, <2>5, Zenon DEF Kinds
<1>5. /\ parts \in Seq(Seq(Int)) /\ Len(parts) = n
      /\ \A i \in 1..n : parts[i] = PackField(fs[i][2], vals[i])
  <2> HIDE DEF n
  <2>1. \A i \in 1..n : PackField(fs[i][2], vals[i]) \in Seq(Int)
    BY <1>4 DEF MemberReads
  <2>2. parts = [i \in 1..n |-> PackField(fs[i][2], vals[i])] BY <1>2
  <2> HIDE DEF parts, fs
  <2>3. parts \in [1..n -> Seq(Int)] BY <2>1, <2>2, Zenon
  <2>4. parts \in Seq(Seq(Int)) /\ Len(parts) = n BY <1>2, <2>3, PartsAre, Zenon
  <2>. QED BY <2>1, <2>2, <2>4
<1> DEFINE buf == FlattenSeq(parts)
           read == [i \in DOMAIN fs |-> [q \in Nat |-> UnpackField(fs[i][2], buf, q)]]
<1>6. Pack(class, vals) = buf BY Zenon DEF Pack
<1>7. Unpack(class, buf) = ReadEach(read, n, 1)[1] BY Zenon DEF Unpack
<1> HIDE DEF parts
<1>8. buf \in Seq(Int) BY <1>5, FlattenType
<1> HIDE DEF buf
<1>9. Holds(buf, 1, buf) BY <1>8 DEF Holds
<1>10. \A i \in 1..n : \A q \in Nat : read[i][q] = UnpackField(fs[i][2], buf, q)
  BY <1>2
<1> HIDE DEF read, n
<1>11. ReadsParts(read, vals, parts, buf)
  <2> SUFFICES ASSUME NEW i \in 1..n, NEW q \in Nat, Holds(buf, q, parts[i])
               PROVE  read[i][q] = <<vals[i], q + Len(parts[i])>>
    BY <1>5 DEF ReadsParts
  <2>1. MemberReads(fs[i][2], vals[i], parts[i]) BY <1>4, <1>5
  <2>2. UnpackField(fs[i][2], buf, q) = <<vals[i], q + Len(parts[i])>>
    BY <2>1, Zenon DEF MemberReads
  <2>. QED BY <1>10, <2>2
<1>12. Yields(read, Len(parts), 1, vals, 1 + Len(FlattenSeq(parts)))
  BY <1>5, <1>9, <1>11, PartsRead, Zenon DEF buf
<1>13. ReadEach(read, n, 1) = <<vals, 1 + Len(FlattenSeq(parts))>>
  BY <1>3, <1>5, <1>12, Zenon DEF Yields
<1>14. ReadEach(read, n, 1)[1] = vals BY <1>13
<1>. QED BY <1>6, <1>7, <1>8, <1>14

\* A set of naturals that has a member has a least one.
LEMMA LeastExists ==
    ASSUME NEW S \in SUBSET Nat, S # {}
    PROVE  Min(S) \in S
<1>1. PICK x \in S : \A y \in S : <<y, x>> \notin OpToRel(<, Nat)
  BY WFMin, NatLessThanWellFounded, Zenon
<1>2. \A y \in S : x <= y
  <2>1. \A y \in S : ~(y < x) BY <1>1, Zenon DEF OpToRel
  <2>. QED BY <2>1
<1>3. \E z \in S : \A y \in S : z <= y BY <1>2
<1>. QED BY <1>3, Zenon DEF Min

\* The tag of a member leads back to it.
LEMMA TagLeadsBack ==
    ASSUME NEW v, NEW S, Union(v) \in Seq(S), NEW class \in ToSet(Union(v))
    PROVE  /\ TagOf(v, class) \in Nat /\ TagOf(v, class) < Len(Union(v))
           /\ Union(v)[TagOf(v, class) + 1] = class
<1> DEFINE u == Union(v)
           I == {i \in 1..Len(u) : u[i] = class}
<1>1. TagOf(v, class) = (IF I # {} THEN Min(I) ELSE 0) - 1
  BY Zenon DEF TagOf, SelectInSeq
<1> HIDE DEF u
<1>2. Len(u) \in Nat /\ DOMAIN u = 1..Len(u) BY DEF u
<1>3. PICK i \in 1..Len(u) : u[i] = class
  BY <1>2 DEF ToSet, u
<1>4. I # {} /\ I \in SUBSET Nat BY <1>3
<1>5. Min(I) \in I BY <1>4, LeastExists
<1>6. Min(I) \in 1..Len(u) /\ u[Min(I)] = class BY <1>5
<1> DEFINE m == Min(I)
<1>7. TagOf(v, class) = m - 1 BY <1>1, <1>4
<1> HIDE DEF m, I
<1>8. m \in 1..Len(u) /\ u[m] = class BY <1>6 DEF m, I
<1>9. m - 1 \in Nat /\ m - 1 < Len(u) /\ (m - 1) + 1 = m BY <1>2, <1>8
<1>. QED BY <1>7, <1>8, <1>9 DEF u

\* Every class of a member of a union.
AllClasses ==
    {RtsConnRequest, RtsConnRequest_6, RtsConnResponse, RtsNonceMessage,
     RtsAck, RtsChallengeMessage, RtsChallengeSuccessMessage,
     RtsWifiForgetRequest, RtsWifiForgetResponse, RtsWifiConnectRequest,
     RtsWifiConnectResponse, RtsWifiConnectResponse_3, RtsWifiIpRequest,
     RtsWifiIpResponse, RtsStatusRequest, RtsStatusResponse,
     RtsStatusResponse_2, RtsStatusResponse_3, RtsStatusResponse_4,
     RtsStatusResponse_5, RtsWifiScanRequest, RtsWifiScanResponse,
     RtsWifiScanResponse_2, RtsWifiScanResponse_3, RtsOtaUpdateRequest,
     RtsOtaCancelRequest, RtsOtaUpdateResponse, RtsWifiAccessPointRequest,
     RtsWifiAccessPointResponse, RtsCancelPairing, RtsForceDisconnect,
     RtsSshRequest, RtsSshResponse, RtsLogRequest, RtsLogResponse,
     RtsFileDownload, RtsCloudSessionRequest, RtsCloudSessionRequest_5,
     RtsCloudSessionResponse, RtsAppConnectionIdRequest,
     RtsAppConnectionIdResponse, RtsResponse, RtsSdkProxyRequest,
     RtsSdkProxyResponse, RtsVersionListRequest, RtsVersionListResponse,
     RtsBleshConnectRequest, RtsBleshConnectResponse,
     RtsBleshDisconnectRequest, RtsBleshDisconnectResponse,
     RtsBleshToServerRequest, RtsBleshToServerResponse,
     RtsBleshToClientRequest, RtsBleshToClientResponse, Error,
     DeprecatedAndReserved, RtsStatusResponse_7, RtsWifiScanResponse_7,
     RtsWifiConnectResponse_7, RtsCloudSessionRequest_7}

\* Every class has fields of those kinds.
LEMMA ClassesAre == \A class \in AllClasses : IsClass(class)
<1>1. /\ {U8, U16, U32, U64, Bool, Str8, Str16, Bytes, Words, Strings} \subseteq Kinds
      /\ \A n \in Nat : Array(n) \in Kinds
  BY KindsOfFields DEF Kinds
<1>2. /\ List(RtsWifiScanResult) \in Kinds /\ List(RtsWifiScanResult_2) \in Kinds
      /\ List(RtsWifiScanResult_3) \in Kinds /\ List(RtsWifiScanResult_7) \in Kinds
  BY DEF Kinds, Records
<1>3. /\ IsClass(RtsConnRequest) /\ IsClass(RtsConnResponse)
      /\ IsClass(RtsNonceMessage) /\ IsClass(RtsAck)
  BY <1>1, <1>2 DEF RtsConnRequest, RtsConnResponse, RtsNonceMessage, RtsAck,
                    IsClass, AreFields, Class
<1>4. /\ IsClass(RtsChallengeMessage) /\ IsClass(RtsChallengeSuccessMessage)
      /\ IsClass(RtsWifiForgetRequest) /\ IsClass(RtsWifiForgetResponse)
  BY <1>1, <1>2 DEF RtsChallengeMessage, RtsChallengeSuccessMessage,
                    RtsWifiForgetRequest, RtsWifiForgetResponse, IsClass,
                    AreFields, Class
<1>5. /\ IsClass(RtsWifiConnectRequest) /\ IsClass(RtsWifiConnectResponse)
      /\ IsClass(RtsWifiIpRequest) /\ IsClass(RtsWifiIpResponse)
  BY <1>1, <1>2 DEF RtsWifiConnectRequest, RtsWifiConnectResponse,
                    RtsWifiIpRequest, RtsWifiIpResponse, IsClass, AreFields,
                    Class
<1>6. /\ IsClass(RtsStatusRequest) /\ IsClass(RtsStatusResponse)
      /\ IsClass(RtsWifiScanRequest) /\ IsClass(RtsOtaUpdateRequest)
  BY <1>1, <1>2 DEF RtsStatusRequest, RtsStatusResponse, RtsWifiScanRequest,
                    RtsOtaUpdateRequest, IsClass, AreFields, Class
<1>7. /\ IsClass(RtsOtaCancelRequest) /\ IsClass(RtsOtaUpdateResponse)
      /\ IsClass(RtsWifiAccessPointRequest) /\ IsClass(RtsWifiAccessPointResponse)
  BY <1>1, <1>2 DEF RtsOtaCancelRequest, RtsOtaUpdateResponse,
                    RtsWifiAccessPointRequest, RtsWifiAccessPointResponse,
                    IsClass, AreFields, Class
<1>8. /\ IsClass(RtsCancelPairing) /\ IsClass(RtsForceDisconnect)
      /\ IsClass(RtsSshRequest) /\ IsClass(RtsSshResponse)
  BY <1>1, <1>2 DEF RtsCancelPairing, RtsForceDisconnect, RtsSshRequest,
                    RtsSshResponse, IsClass, AreFields, Class
<1>9. /\ IsClass(RtsLogRequest) /\ IsClass(RtsLogResponse)
      /\ IsClass(RtsFileDownload) /\ IsClass(RtsCloudSessionRequest)
  BY <1>1, <1>2 DEF RtsLogRequest, RtsLogResponse, RtsFileDownload,
                    RtsCloudSessionRequest, IsClass, AreFields, Class
<1>10. /\ IsClass(RtsCloudSessionResponse) /\ IsClass(RtsAppConnectionIdRequest)
       /\ IsClass(RtsAppConnectionIdResponse) /\ IsClass(RtsResponse)
  BY <1>1, <1>2 DEF RtsCloudSessionResponse, RtsAppConnectionIdRequest,
                    RtsAppConnectionIdResponse, RtsResponse, IsClass, AreFields,
                    Class
<1>11. /\ IsClass(RtsSdkProxyRequest) /\ IsClass(RtsSdkProxyResponse)
       /\ IsClass(RtsVersionListRequest) /\ IsClass(RtsVersionListResponse)
  BY <1>1, <1>2 DEF RtsSdkProxyRequest, RtsSdkProxyResponse,
                    RtsVersionListRequest, RtsVersionListResponse, IsClass,
                    AreFields, Class
<1>12. /\ IsClass(RtsBleshConnectRequest) /\ IsClass(RtsBleshConnectResponse)
       /\ IsClass(RtsBleshDisconnectRequest) /\ IsClass(RtsBleshDisconnectResponse)
  BY <1>1, <1>2 DEF RtsBleshConnectRequest, RtsBleshConnectResponse,
                    RtsBleshDisconnectRequest, RtsBleshDisconnectResponse,
                    IsClass, AreFields, Class
<1>13. /\ IsClass(RtsBleshToServerRequest) /\ IsClass(RtsBleshToServerResponse)
       /\ IsClass(RtsBleshToClientRequest) /\ IsClass(RtsBleshToClientResponse)
  BY <1>1, <1>2 DEF RtsBleshToServerRequest, RtsBleshToServerResponse,
                    RtsBleshToClientRequest, RtsBleshToClientResponse, IsClass,
                    AreFields, Class
<1>14. IsClass(Error) /\ IsClass(DeprecatedAndReserved)
  BY <1>1, <1>2 DEF Error, DeprecatedAndReserved, IsClass, AreFields, Class
<1>15. IsClass(RtsConnRequest_6)
  BY <1>1, <1>2 DEF RtsConnRequest_6, RtsConnRequest, IsClass, AreFields, Class,
                    Extend
<1>16. IsClass(RtsWifiConnectResponse_3)
  BY <1>1, <1>2 DEF RtsWifiConnectResponse_3, RtsWifiConnectResponse, IsClass,
                    AreFields, Class, Extend
<1>17. IsClass(RtsStatusResponse_2)
  BY <1>1, <1>2 DEF RtsStatusResponse_2, RtsStatusResponse, IsClass, AreFields,
                    Class, Extend
<1>18. IsClass(RtsStatusResponse_3)
  BY <1>1, <1>2 DEF RtsStatusResponse_3, RtsStatusResponse_2, RtsStatusResponse,
                    IsClass, AreFields, Class, Extend
<1>19. IsClass(RtsStatusResponse_4)
  BY <1>1, <1>2 DEF RtsStatusResponse_4, RtsStatusResponse, IsClass, AreFields,
                    Class, Extend
<1>20. IsClass(RtsStatusResponse_5)
  BY <1>1, <1>2 DEF RtsStatusResponse_5, RtsStatusResponse_4, RtsStatusResponse,
                    IsClass, AreFields, Class, Extend
<1>21. IsClass(RtsCloudSessionRequest_5)
  BY <1>1, <1>2 DEF RtsCloudSessionRequest_5, RtsCloudSessionRequest, IsClass,
                    AreFields, Class, Extend
<1>22. IsClass(RtsStatusResponse_7)
  BY <1>1, <1>2 DEF RtsStatusResponse_7, RtsStatusResponse_5,
                    RtsStatusResponse_4, RtsStatusResponse, IsClass, AreFields,
                    Class, Extend
<1>23. IsClass(RtsWifiConnectResponse_7)
  BY <1>1, <1>2 DEF RtsWifiConnectResponse_7, RtsWifiConnectResponse_3,
                    RtsWifiConnectResponse, IsClass, AreFields, Class, Extend
<1>24. IsClass(RtsCloudSessionRequest_7)
  BY <1>1, <1>2 DEF RtsCloudSessionRequest_7, RtsCloudSessionRequest_5,
                    RtsCloudSessionRequest, IsClass, AreFields, Class, Extend
<1>25. /\ IsClass(RtsWifiScanResponse) /\ IsClass(RtsWifiScanResponse_2)
       /\ IsClass(RtsWifiScanResponse_3) /\ IsClass(RtsWifiScanResponse_7)
  BY <1>1, <1>2 DEF RtsWifiScanResponse, RtsWifiScanResponse_2,
                    RtsWifiScanResponse_3, RtsWifiScanResponse_7, IsClass,
                    AreFields, Class
<1>. QED BY <1>3, <1>4, <1>5, <1>6, <1>7, <1>8, <1>9, <1>10, <1>11, <1>12,
             <1>13, <1>14, <1>15, <1>16, <1>17, <1>18, <1>19, <1>20, <1>21,
             <1>22, <1>23, <1>24, <1>25, Zenon DEF AllClasses

\* The members all unions share.
LEMMA CommonMembers ==
    ASSUME NEW a \in AllClasses, NEW b \in AllClasses, NEW c \in AllClasses,
           NEW d \in AllClasses
    PROVE  Common(a, b, c, d) \in Seq(AllClasses)
<1>1. {Error, RtsConnResponse, RtsNonceMessage, RtsChallengeMessage,
       RtsChallengeSuccessMessage, RtsWifiConnectRequest, RtsWifiIpRequest,
       RtsWifiIpResponse, RtsStatusRequest, RtsWifiScanRequest,
       RtsOtaUpdateRequest, RtsOtaUpdateResponse, RtsCancelPairing,
       RtsForceDisconnect, RtsAck, RtsWifiAccessPointRequest,
       RtsWifiAccessPointResponse, RtsSshRequest, RtsSshResponse}
       \subseteq AllClasses
  BY Zenon DEF AllClasses
<1>. QED BY <1>1 DEF Common

\* Every union has such classes as members.
LEMMA UnionsAre == \A v \in 1..7 : Union(v) \in Seq(AllClasses)
<1>1. {RtsConnRequest, RtsConnRequest_6, RtsWifiConnectResponse,
       RtsWifiConnectResponse_3, RtsWifiConnectResponse_7, RtsStatusResponse,
       RtsStatusResponse_2, RtsStatusResponse_3, RtsStatusResponse_4,
       RtsStatusResponse_5, RtsStatusResponse_7, RtsWifiScanResponse,
       RtsWifiScanResponse_2, RtsWifiScanResponse_3, RtsWifiScanResponse_7,
       RtsCloudSessionRequest, RtsCloudSessionRequest_5, RtsCloudSessionRequest_7}
       \subseteq AllClasses
  BY Zenon DEF AllClasses
<1>2. LogMembers \in Seq(AllClasses)
  <2>1. {RtsOtaCancelRequest, RtsLogRequest, RtsLogResponse, RtsFileDownload}
          \subseteq AllClasses
    BY Zenon DEF AllClasses
  <2>. QED BY <2>1 DEF LogMembers
<1>3. \A c \in AllClasses : ForgetMembers(c) \in Seq(AllClasses)
  <2>1. {RtsWifiForgetRequest, RtsWifiForgetResponse, RtsCloudSessionResponse}
          \subseteq AllClasses
    BY Zenon DEF AllClasses
  <2>. QED BY <2>1 DEF ForgetMembers
<1>4. AppIdMembers \in Seq(AllClasses)
  <2>1. {RtsAppConnectionIdRequest, RtsAppConnectionIdResponse, RtsResponse}
          \subseteq AllClasses
    BY Zenon DEF AllClasses
  <2>. QED BY <2>1 DEF AppIdMembers
<1>5. SdkMembers \in Seq(AllClasses)
  <2>1. {RtsSdkProxyRequest, RtsSdkProxyResponse} \subseteq AllClasses
    BY Zenon DEF AllClasses
  <2>. QED BY <2>1 DEF SdkMembers
<1>6. <<RtsVersionListRequest, RtsVersionListResponse,
         RtsBleshConnectRequest, RtsBleshConnectResponse,
         RtsBleshToServerRequest, RtsBleshToServerResponse,
         RtsBleshToClientRequest, RtsBleshToClientResponse,
         RtsBleshDisconnectRequest, RtsBleshDisconnectResponse>> \in Seq(AllClasses)
  <2>1. {RtsVersionListRequest, RtsVersionListResponse,
         RtsBleshConnectRequest, RtsBleshConnectResponse,
         RtsBleshToServerRequest, RtsBleshToServerResponse,
         RtsBleshToClientRequest, RtsBleshToClientResponse,
         RtsBleshDisconnectRequest, RtsBleshDisconnectResponse} \subseteq AllClasses
    BY Zenon DEF AllClasses
  <2>. QED BY <2>1
<1>7. \A s, t \in Seq(AllClasses) : s \o t \in Seq(AllClasses) OBVIOUS
<1>8. \A a, b, c, d \in AllClasses : Common(a, b, c, d) \in Seq(AllClasses)
  BY CommonMembers
<1>9. RtsConnection_1 \in Seq(AllClasses) BY <1>1, <1>8 DEF RtsConnection_1
<1>10. RtsConnection_2 \in Seq(AllClasses)
  BY <1>1, <1>2, <1>7, <1>8 DEF RtsConnection_2
<1>11. RtsConnection_3 \in Seq(AllClasses)
  BY <1>1, <1>2, <1>3, <1>7, <1>8 DEF RtsConnection_3
<1>12. RtsConnection_4 \in Seq(AllClasses)
  BY <1>1, <1>2, <1>3, <1>4, <1>7, <1>8 DEF RtsConnection_4
<1>13. RtsConnection_5 \in Seq(AllClasses)
  BY <1>1, <1>2, <1>3, <1>4, <1>5, <1>7, <1>8 DEF RtsConnection_5
<1>14. RtsConnection_6 \in Seq(AllClasses)
  BY <1>1, <1>2, <1>3, <1>4, <1>5, <1>6, <1>7, <1>8 DEF RtsConnection_6
<1>15. RtsConnection_7 \in Seq(AllClasses)
  BY <1>1, <1>2, <1>3, <1>4, <1>5, <1>7, <1>8 DEF RtsConnection_7
<1>. QED BY <1>9, <1>10, <1>11, <1>12, <1>13, <1>14, <1>15 DEF Union

(***************************************************************************)
(* Whatever goes out as a message of a version is read as that message: of *)
(* its version, its class and with its values, for every class of the      *)
(* union and all values its fields can hold (ExternalComms, RtsConnection, *)
(* RtsConnection_1 to _7 and the classes of rts.js, pack and unpack).      *)
(***************************************************************************)
THEOREM EveryMessageReadsBack ==
    ASSUME NEW v \in 1..7, NEW class \in ToSet(Union(v)), NEW vals,
           Fits(class, vals), CanPack(class, vals)
    PROVE  OpenEnvelope(Envelope(v, class, vals))
              = [version |-> v, class |-> class.name, vals |-> vals]
<1> DEFINE u == Union(v)
           tag == TagOf(v, class)
           packed == Pack(class, vals)
           buf == Envelope(v, class, vals)
           opened == [version |-> v, class |-> class.name, vals |-> vals]
<1>1. u \in Seq(AllClasses) BY UnionsAre
<1>2. tag \in Nat /\ tag < Len(u) /\ u[tag + 1] = class BY <1>1, TagLeadsBack
<1>3. IsClass(class)
  <2>1. class \in AllClasses BY <1>1 DEF ToSet
  <2>. QED BY <2>1, ClassesAre
<1>4. packed \in Seq(Int) /\ Unpack(class, packed) = vals BY <1>3, MessageReads
<1> DEFINE rest == <<tag>> \o packed
<1>5. buf = (IF v = 1 THEN <<1>> ELSE <<4, v>>) \o <<tag>> \o packed
  BY Zenon DEF Envelope
<1> HIDE DEF u, tag, packed, buf, opened
<1>6. rest # <<>> /\ rest[1] = tag /\ Tail(rest) = packed BY <1>2, <1>4
<1> HIDE DEF rest
<1>7. UnpackUnion(v, rest) = opened
  <2>1. UnpackUnion(v, rest)
           = [version |-> v, class |-> class.name, vals |-> Unpack(class, packed)]
    BY <1>2, <1>6, Zenon DEF UnpackUnion, u
  <2>. QED BY <1>4, <2>1 DEF opened
<1>8. CASE v = 1
  <2>1. buf = <<1>> \o <<tag>> \o packed BY <1>5, <1>8
  <2>2. Len(buf) > 1 /\ buf[1] = 1 /\ Tail(buf) = rest BY <1>2, <1>4, <2>1 DEF rest
  <2>3. buf[1] # 4 BY <2>2
  <2>4. OpenEnvelope(buf) = UnpackUnion(1, rest) BY <2>2, <2>3, Zenon DEF OpenEnvelope
  <2>. QED BY <1>7, <1>8, <2>4 DEF buf, opened
<1>9. CASE v # 1
  <2>1. buf = <<4, v>> \o <<tag>> \o packed BY <1>5, <1>9
  <2>2. Len(buf) > 2 /\ buf[1] = 4 /\ buf[2] = v /\ SubSeq(buf, 3, Len(buf)) = rest
    BY <1>2, <1>4, <2>1 DEF rest
  <2>3. buf[1] # 1 /\ buf[2] \in 2..7 BY <1>9, <2>2
  <2>4. OpenEnvelope(buf) = UnpackUnion(v, rest)
    BY <2>2, <2>3, Zenon DEF OpenEnvelope
  <2>. QED BY <1>7, <2>4 DEF buf, opened
<1>. QED BY <1>8, <1>9

-----------------------------------------------------------------------------
(* Scripts of messages over the link.                                       *)
\* What a script sends, of each message that can be packed, is its packed form.
PacksOneOf(buf, messages) ==
    \E j \in DOMAIN messages :
        /\ IsMessage(messages[j])
        /\ CanPack(messages[j].class, messages[j].vals)
        /\ buf = PackOf(messages[j])

\* The inductive invariant.
ScriptInv == script \in Scripts /\ outs \in Nat /\ ins \in Nat

SentInv ==
    \A c \in Conns :
        /\ \A i \in DOMAIN clientSent[c] : PacksOneOf(clientSent[c][i], script.out)
        /\ \A i \in DOMAIN robotSent[c] : PacksOneOf(robotSent[c][i], script.in)

\* The next message of a script.
LEMMA NextOut ==
    ASSUME ScriptInv, outs < Len(script.out)
    PROVE  /\ outs + 1 \in DOMAIN script.out /\ IsMessage(script.out[outs + 1])
<1>1. /\ Len(script.out) \in Nat /\ DOMAIN script.out = 1..Len(script.out)
      /\ \A i \in DOMAIN script.out : IsMessage(script.out[i])
  BY ScriptsAssumption, Zenon DEF ScriptInv
<1>2. outs \in Nat BY DEF ScriptInv
<1>3. outs + 1 \in 1..Len(script.out) BY <1>1, <1>2
<1>. QED BY <1>1, <1>3

\* The next message of the robot, which can be packed.
LEMMA NextIn ==
    ASSUME ScriptInv, ins < Len(script.in)
    PROVE  /\ ins + 1 \in DOMAIN script.in /\ IsMessage(script.in[ins + 1])
           /\ CanPack(script.in[ins + 1].class, script.in[ins + 1].vals)
<1>1. /\ Len(script.in) \in Nat /\ DOMAIN script.in = 1..Len(script.in)
      /\ \A i \in DOMAIN script.in : /\ IsMessage(script.in[i])
                                     /\ CanPack(script.in[i].class, script.in[i].vals)
  BY ScriptsAssumption, Zenon DEF ScriptInv
<1>2. ins \in Nat BY DEF ScriptInv
<1>3. ins + 1 \in 1..Len(script.in) BY <1>1, <1>2
<1>. QED BY <1>1, <1>3

\* A step of a script is a step of the link, or the link stands still.
LEMMA WireStep ==
    ScriptInv /\ [WireNext]_wireVars => [LinkNext]_linkVars /\ ScriptInv'
<1> SUFFICES ASSUME ScriptInv, [WireNext]_wireVars
             PROVE  [LinkNext]_linkVars /\ ScriptInv'
    OBVIOUS
<1>1. CASE PageSends
  <2> DEFINE m == script.out[outs + 1]
  <2>0. ScriptInv' BY <1>1 DEF PageSends, ScriptInv
  <2>1. IsMessage(m) BY <1>1, NextOut DEF PageSends
  <2>2. IF CanPack(m.class, m.vals) THEN ClientSend(PackOf(m)) ELSE UNCHANGED linkVars
    BY <1>1, Zenon DEF PageSends
  <2>3. CanPack(m.class, m.vals) => PackOf(m) \in Message BY <2>1, Zenon DEF IsMessage
  <2>. QED BY <2>0, <2>2, <2>3, Zenon DEF LinkNext
<1>2. CASE RobotAnswers
  <2> DEFINE m == script.in[ins + 1]
  <2>0. ScriptInv' BY <1>2 DEF RobotAnswers, ScriptInv
  <2>1. IsMessage(m) /\ CanPack(m.class, m.vals) BY <1>2, NextIn DEF RobotAnswers
  <2>2. PackOf(m) \in Message BY <2>1, Zenon DEF IsMessage
  <2>3. RobotSend(PackOf(m)) BY <1>2, Zenon DEF RobotAnswers
  <2>. QED BY <2>0, <2>2, <2>3, Zenon DEF LinkNext
<1>3. CASE Timer \/ Arrival \/ Settled \/ Notified \/ Cut \/ Reconnect
  <2>1. script' = script /\ outs' = outs /\ ins' = ins
    BY <1>3, Zenon DEF Timer, Arrival, Settled, Notified, Cut, Reconnect, scriptVars
  <2>2. LinkStep
    BY <1>3, Zenon DEF Timer, Arrival, Settled, Notified, Cut, Reconnect, LinkStep
  <2>. QED BY <2>1, <2>2, Zenon DEF LinkNext, ScriptInv
<1>4. CASE UNCHANGED wireVars
  <2>1. UNCHANGED linkVars /\ UNCHANGED <<script, outs, ins>> BY <1>4, Zenon DEF wireVars
  <2>. QED BY <2>1, Zenon DEF ScriptInv
<1>. QED BY <1>1, <1>2, <1>3, <1>4, Zenon DEF WireNext

\* A script starts with the link as it is at first.
LEMMA ScriptInit == WireInit => LinkInit /\ ScriptInv
BY DEF WireInit, ScriptInv

\* A script is played in order, and stays the same.
LEMMA ScriptAlways == WireSpec => []ScriptInv
<1>1. WireInit => ScriptInv BY ScriptInit
<1>2. ScriptInv /\ [WireNext]_wireVars => ScriptInv' BY WireStep
<1>. QED BY <1>1, <1>2, PTL DEF WireSpec

(***************************************************************************)
(* The messages of a script travel over the link of BleLink: whatever is   *)
(* true of the link, for any messages, is true of it when handlers send    *)
(* theirs (VectorBluetooth.send called by the send of RtsV2Handler and     *)
(* its successors).                                                        *)
(***************************************************************************)
THEOREM WireImplementsLink == WireSpec => LinkSpec
<1>1. WireInit => LinkInit BY ScriptInit
<1>2. ScriptInv /\ [WireNext]_wireVars => [LinkNext]_linkVars BY WireStep
<1>. QED BY <1>1, <1>2, ScriptAlways, PTL DEF WireSpec, LinkSpec

\* One message more in the log of a connection.
LEMMA OneMorePacked ==
    ASSUME NEW sent \in [Conns -> Seq(ByteSeqs)], NEW d \in Conns, NEW m \in ByteSeqs,
           NEW messages, PacksOneOf(m, messages),
           \A c \in Conns : \A i \in DOMAIN sent[c] : PacksOneOf(sent[c][i], messages)
    PROVE  \A c \in Conns : \A i \in DOMAIN WithSent(sent, d, m)[c] :
              PacksOneOf(WithSent(sent, d, m)[c][i], messages)
<1> DEFINE s == Append(sent[d], m)
<1>1. sent[d] \in Seq(ByteSeqs) OBVIOUS
<1>2. /\ DOMAIN s = 1..(Len(sent[d]) + 1) /\ Len(sent[d]) \in Nat
      /\ DOMAIN sent[d] = 1..Len(sent[d]) /\ s[Len(sent[d]) + 1] = m
      /\ \A i \in 1..Len(sent[d]) : s[i] = sent[d][i]
  BY <1>1
<1> HIDE DEF s
<1>3. \A i \in DOMAIN s : PacksOneOf(s[i], messages)
  <2> TAKE i \in DOMAIN s
  <2>1. CASE i = Len(sent[d]) + 1 BY <1>2, <2>1
  <2>2. CASE i # Len(sent[d]) + 1
    <3>1. i \in 1..Len(sent[d]) BY <1>2, <2>2
    <3>. QED BY <1>2, <3>1
  <2>. QED BY <2>1, <2>2
<1>4. \A c \in Conns : WithSent(sent, d, m)[c] = IF c = d THEN s ELSE sent[c]
  BY DEF WithSent, s
<1>. QED BY <1>3, <1>4

\* Only packed messages of the script are sent.
LEMMA SentKeeps ==
    ASSUME ScriptInv, SentInv, OutInv, InInv, [WireNext]_wireVars
    PROVE  SentInv'
<1>1. /\ conn \in Conns
      /\ clientSent \in [Conns -> Seq(ByteSeqs)] /\ robotSent \in [Conns -> Seq(ByteSeqs)]
  BY Zenon DEF OutInv, InInv, InOrder
<1>2. script' = script
  BY Zenon DEF WireNext, PageSends, RobotAnswers, Timer, Arrival, Settled, Notified, Cut,
               Reconnect, scriptVars, wireVars
<1>3. CASE UNCHANGED <<clientSent, robotSent>> BY <1>2, <1>3 DEF SentInv
<1>4. CASE PageSends
  <2> DEFINE m == script.out[outs + 1]
             p == PackOf(m)
  <2>1. outs + 1 \in DOMAIN script.out /\ IsMessage(m) BY <1>4, NextOut DEF PageSends
  <2>2. CASE CanPack(m.class, m.vals)
    <3>1. PacksOneOf(p, script.out) BY <2>1, <2>2, Zenon DEF PacksOneOf
    <3>2. p \in ByteSeqs BY <2>1, <2>2, MessageIsBytes, Zenon DEF IsMessage
    <3>3. ClientSend(p) BY <1>4, <2>2, Zenon DEF PageSends
    <3>4. robotSent' = robotSent BY <3>3, Zenon DEF ClientSend, inVars
    <3>5. clientSent' = IF connected THEN WithSent(clientSent, conn, p) ELSE clientSent
      BY <3>3, Zenon DEF ClientSend, WithSent
    <3> HIDE DEF p, m
    <3>6. CASE ~connected BY <1>3, <3>4, <3>5, <3>6
    <3>7. CASE connected
      <4>1. \A c \in Conns : \A i \in DOMAIN clientSent[c] :
                PacksOneOf(clientSent[c][i], script.out)
        BY DEF SentInv
      <4>2. \A c \in Conns : \A i \in DOMAIN WithSent(clientSent, conn, p)[c] :
                PacksOneOf(WithSent(clientSent, conn, p)[c][i], script.out)
        BY <1>1, <3>1, <3>2, <4>1, OneMorePacked
      <4>. QED BY <1>2, <3>4, <3>5, <3>7, <4>2 DEF SentInv
    <3>. QED BY <3>6, <3>7
  <2>3. CASE ~CanPack(m.class, m.vals)
    <3>1. UNCHANGED linkVars BY <1>4, <2>3, Zenon DEF PageSends
    <3>. QED BY <1>3, <3>1, Zenon DEF linkVars, outVars, inVars
  <2>. QED BY <2>2, <2>3
<1>5. CASE RobotAnswers
  <2> DEFINE m == script.in[ins + 1]
             p == PackOf(m)
  <2>1. /\ ins + 1 \in DOMAIN script.in /\ IsMessage(m) /\ CanPack(m.class, m.vals)
    BY <1>5, NextIn DEF RobotAnswers
  <2>2. PacksOneOf(p, script.in) BY <2>1, Zenon DEF PacksOneOf
  <2>3. p \in ByteSeqs BY <2>1, MessageIsBytes, Zenon DEF IsMessage
  <2>4. RobotSend(p) BY <1>5, Zenon DEF RobotAnswers
  <2>5. clientSent' = clientSent BY <2>4, Zenon DEF RobotSend, outVars
  <2>6. robotSent' = WithSent(robotSent, conn, p) BY <2>4, Zenon DEF RobotSend, WithSent
  <2> HIDE DEF p, m
  <2>7. \A c \in Conns : \A i \in DOMAIN robotSent[c] : PacksOneOf(robotSent[c][i], script.in)
    BY DEF SentInv
  <2>8. \A c \in Conns : \A i \in DOMAIN WithSent(robotSent, conn, p)[c] :
            PacksOneOf(WithSent(robotSent, conn, p)[c][i], script.in)
    BY <1>1, <2>2, <2>3, <2>7, OneMorePacked
  <2>. QED BY <1>2, <2>5, <2>6, <2>8 DEF SentInv
<1>6. CASE Timer \/ Arrival \/ Settled \/ Notified \/ Cut \/ Reconnect
  <2>1. CASE Timer \/ Arrival \/ Settled
    BY <1>3, <2>1, Zenon DEF Timer, Arrival, Settled, Tick, RobotReceives, WriteResolves,
                             WriteRejects, inVars
  <2>2. CASE Notified \/ Cut \/ Reconnect
    BY <1>3, <2>2, Zenon DEF Notified, Cut, Reconnect, Notify, Disconnect, Connect,
                             inVars, outVars
  <2>. QED BY <1>6, <2>1, <2>2
<1>7. CASE UNCHANGED wireVars
  BY <1>3, <1>7, Zenon DEF wireVars, linkVars, outVars, inVars
<1>. QED BY <1>4, <1>5, <1>6, <1>7, Zenon DEF WireNext

\* At first nothing is sent.
LEMMA SentInit == WireInit => SentInv
<1> SUFFICES ASSUME WireInit PROVE SentInv OBVIOUS
<1>1. \A c \in Conns : clientSent[c] = <<>> /\ robotSent[c] = <<>>
  BY DEF WireInit, LinkInit
<1>2. DOMAIN <<>> = {} OBVIOUS
<1>. QED BY <1>1, <1>2 DEF SentInv

\* What is packed opens as the message it was.
LEMMA PackedOpens ==
    ASSUME NEW buf, NEW messages, PacksOneOf(buf, messages)
    PROVE  OpensToOneOf(buf, messages)
<1>1. PICK j \in DOMAIN messages :
        /\ IsMessage(messages[j])
        /\ CanPack(messages[j].class, messages[j].vals)
        /\ buf = PackOf(messages[j])
  BY Zenon DEF PacksOneOf
<1> DEFINE m == messages[j]
<1>2. m.v \in 1..7 /\ m.class \in ToSet(Union(m.v)) /\ Fits(m.class, m.vals)
  BY <1>1, Zenon DEF IsMessage, HasMember
<1>3. OpenEnvelope(buf) = Opened(m)
  BY <1>1, <1>2, EveryMessageReadsBack, Zenon DEF PackOf, Opened
<1>4. Opened(m).class = m.class.name BY DEF Opened
<1>. QED BY <1>3, <1>4, Zenon DEF OpensToOneOf

\* What has come out is the beginning of what was sent, and opens as that does.
LEMMA OpensWhatWasSent ==
    ASSUME NEW sent, NEW got, NEW d, InOrder(sent, got, d), NEW messages, NEW c \in Conns,
           \A i \in DOMAIN sent[c] : PacksOneOf(sent[c][i], messages)
    PROVE  \A i \in DOMAIN got[c] : OpensToOneOf(got[c][i], messages)
<1>1. /\ sent[c] \in Seq(ByteSeqs) /\ got[c] \in Seq(ByteSeqs)
      /\ Len(got[c]) <= Len(sent[c])
      /\ \A i \in 1..Len(got[c]) : got[c][i] = sent[c][i]
  BY DEF InOrder, Prefixed
<1>2. \A i \in DOMAIN got[c] : i \in DOMAIN sent[c] /\ got[c][i] = sent[c][i]
  BY <1>1
<1>. QED BY <1>2, PackedOpens

(***************************************************************************)
(* The robot and the page read the very values that were packed, for every *)
(* message of every version with any values that its fields can hold, over *)
(* any number of connections cut at any time (pack and unpack of the       *)
(* classes and unions of rts.js, BleMessageProtocol).                      *)
(***************************************************************************)
THEOREM ReadsWhatWasPackedAlways == WireSpec => []ReadsWhatWasPacked
<1>1. WireInit => SentInv BY SentInit
<1>2. ScriptInv /\ SentInv /\ OutInv /\ InInv /\ [WireNext]_wireVars => SentInv'
  BY SentKeeps
<1>3. SentInv /\ OutInv /\ InInv => ReadsWhatWasPacked
  <2> SUFFICES ASSUME SentInv, OutInv, InInv, NEW c \in Conns
               PROVE  /\ \A i \in DOMAIN robotGot[c] :
                            OpensToOneOf(robotGot[c][i], script.out)
                      /\ \A i \in DOMAIN clientGot[c] :
                            OpensToOneOf(clientGot[c][i], script.in)
      BY DEF ReadsWhatWasPacked
  <2>1. /\ \A i \in DOMAIN clientSent[c] : PacksOneOf(clientSent[c][i], script.out)
        /\ \A i \in DOMAIN robotSent[c] : PacksOneOf(robotSent[c][i], script.in)
    BY DEF SentInv
  <2>2. InOrder(clientSent, robotGot, conn) /\ InOrder(robotSent, clientGot, conn)
    BY DEF OutInv, InInv
  <2>. QED BY <2>1, <2>2, OpensWhatWasSent
<1>. QED BY <1>1, <1>2, <1>3, WireImplementsLink, FlowAlways, ScriptAlways, PTL
         DEF WireSpec

=============================================================================
