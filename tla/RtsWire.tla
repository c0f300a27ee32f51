------------------------------ MODULE RtsWire ------------------------------
(***************************************************************************)
(* Messages over the link: RtsMessages packs what BleLink carries, and     *)
(* what comes out at the other end is unpacked.  A script says which       *)
(* messages the page (out) and the robot (in) send, in order, and how many *)
(* times the connection may be cut; a message is [v, class, vals], v its   *)
(* version.                                                                *)
(***************************************************************************)
EXTENDS BleLink, RtsMessages

CONSTANT Scripts

PackOf(m) == Envelope(m.v, m.class, m.vals)
Opened(m) == [version |-> m.v, class |-> m.class.name, vals |-> m.vals]

\* The messages of a script are of the union of their version, with values that
\* their fields can hold.  The page may be asked to send a string that is too long
\* for its length field (CanPack).
IsMessage(m) ==
    /\ m.v \in 1..7 /\ HasMember(m.v, m.class) /\ Fits(m.class, m.vals)
    /\ CanPack(m.class, m.vals) => PackOf(m) \in Message

ASSUME ScriptsAssumption ==
    \A s \in Scripts :
        /\ Len(s.out) \in Nat /\ DOMAIN s.out = 1..Len(s.out)
        /\ Len(s.in) \in Nat /\ DOMAIN s.in = 1..Len(s.in)
        /\ \A i \in DOMAIN s.out : IsMessage(s.out[i])
        /\ \A i \in DOMAIN s.in : /\ IsMessage(s.in[i])
                                  /\ CanPack(s.in[i].class, s.in[i].vals)

VARIABLES
    script,       \* the script that is played
    outs, ins,    \* how many of its messages have been sent
    cuts          \* how many cuts there have been

wireVars == <<linkVars, script, outs, ins, cuts>>
scriptVars == <<script, outs, ins, cuts>>

WireInit ==
    /\ LinkInit
    /\ script \in Scripts
    /\ outs = 0 /\ ins = 0 /\ cuts = 0

\* send() of a handler.  A message that cannot be packed throws before
\* anything is queued.
PageSends ==
    /\ outs < Len(script.out)
    /\ outs' = outs + 1
    /\ LET m == script.out[outs + 1]
       IN  IF CanPack(m.class, m.vals)
           THEN ClientSend(PackOf(m))
           ELSE UNCHANGED linkVars
    /\ UNCHANGED <<script, ins, cuts>>

RobotAnswers ==
    /\ ins < Len(script.in)
    /\ RobotSend(PackOf(script.in[ins + 1]))
    /\ ins' = ins + 1
    /\ UNCHANGED <<script, outs, cuts>>

Timer     == Tick /\ UNCHANGED scriptVars
Arrival   == RobotReceives /\ UNCHANGED scriptVars
Settled   == (WriteResolves \/ WriteRejects) /\ UNCHANGED scriptVars
Notified  == Notify /\ UNCHANGED scriptVars
Reconnect == Connect /\ UNCHANGED scriptVars

Cut ==
    /\ cuts < script.cuts /\ Disconnect
    /\ cuts' = cuts + 1
    /\ UNCHANGED <<script, outs, ins>>

WireNext ==
    \/ PageSends \/ RobotAnswers \/ Timer \/ Arrival \/ Settled \/ Notified
    \/ Cut \/ Reconnect

\* The timer fires, a packet arrives or not, a write is settled one way or the
\* other, and a notification is delivered.
WireFairness ==
    /\ WF_wireVars(Timer)
    /\ WF_wireVars(Arrival)
    /\ WF_wireVars(Settled)
    /\ WF_wireVars(Notified)

WireSpec == WireInit /\ [][WireNext]_wireVars /\ WireFairness

-----------------------------------------------------------------------------
\* The robot and the page read the very values that were packed, for every
\* message of every version.
OpensToOneOf(buf, messages) ==
    LET o == OpenEnvelope(buf)
    IN  \E j \in DOMAIN messages :
            /\ o.class = messages[j].class.name
            /\ o = Opened(messages[j])

ReadsWhatWasPacked ==
    \A c \in Conns :
        /\ \A i \in DOMAIN robotGot[c] : OpensToOneOf(robotGot[c][i], script.out)
        /\ \A i \in DOMAIN clientGot[c] : OpensToOneOf(clientGot[c][i], script.in)

\* Unless a write is rejected, what is queued goes out: the resolution of a
\* write does not start the next one, the timer does (forceSendMsg, tick).
LinkIsDead == ~writeReady /\ writing = <<>>
QueueDrains == (writeQueue # <<>>) ~> (writeQueue = <<>> \/ LinkIsDead)
=============================================================================
