----------------------------- MODULE SignalSend -----------------------------
(***************************************************************************)
(* What goes out to the Signal group: the texts that intercom-relay.js     *)
(* takes from the robot, and the photos of robot-commands.js.  Either      *)
(* writes a payload file, copies it into the gateway container, removes    *)
(* the local file, has curl send the copy, and removes the copy when all   *)
(* is over.  Sends run side by side.  The file of a text is named after    *)
(* the millisecond; that of a photo is always the same.                    *)
(*                                                                         *)
(* Files and the container are external; a payload is the number of its    *)
(* send.                                                                   *)
(***************************************************************************)
EXTENDS Naturals, Sequences, FiniteSets

CONSTANTS MaxClock   \* bound on the milliseconds that go by

ASSUME ClockAssumption == MaxClock \in Nat

VARIABLES
    clock,      \* Date.now()
    sends,      \* sends[s]: path of the payload, stage, and who else used it
    local,      \* local[path]: the payload in the file, or NoFile
    container,  \* container[path]: the same in the gateway container
    delivered   \* <<s, payload>>: what the curl of send s has delivered

signalVars == <<clock, sends, local, container, delivered>>

NoFile == 0
PhotoPath == MaxClock + 1
Paths == 0..PhotoPath
Sends == DOMAIN sends
At(s, stage) == sends[s].stage = stage
To(s, stage) == sends' = [sends EXCEPT ![s].stage = stage]

\* clashed is history: the path was used by two sends at a time.
Users(path) == {s \in Sends : sends[s].path = path /\ ~At(s, "over")
                                /\ ~At(s, "fetching")}

Write(s, path, all) ==
    /\ local' = [local EXCEPT ![path] = s]
    /\ sends' = [t \in DOMAIN all |->
                    IF t = s \/ t \in Users(path)
                    THEN [all[t] EXCEPT !.clashed = @ \/ Users(path) # {},
                             !.stage = IF t = s THEN "copying" ELSE @]
                    ELSE all[t]]

New(path) == [path |-> path, stage |-> "fetching", clashed |-> FALSE,
              sent |-> FALSE]

\* POST /intercom/receive with a text: sendSignalText().
Relay ==
    /\ Write(Len(sends) + 1, clock, Append(sends, New(clock)))
    /\ UNCHANGED <<clock, container, delivered>>

\* captureAndSendPhoto(): the picture first.
Capture ==
    /\ sends' = Append(sends, New(PhotoPath))
    /\ UNCHANGED <<clock, local, container, delivered>>

\* fetchBridgePhoto() and the copy of the picture end.
Captured(s) ==
    /\ At(s, "fetching")
    /\ \/ Write(s, PhotoPath, sends)
       \/ To(s, "over") /\ UNCHANGED local
    /\ UNCHANGED <<clock, container, delivered>>

\* docker cp ends, and may have copied though it failed or was stopped; the
\* local file is removed whatever came of it.
Copied(s) ==
    LET path == sends[s].path
        copies == local[path] # NoFile
                  /\ container' = [container EXCEPT ![path] = local[path]]
    IN  /\ At(s, "copying")
        /\ \/ copies /\ To(s, "sending")
           \/ (copies \/ UNCHANGED container) /\ To(s, "over")
        /\ local' = [local EXCEPT ![path] = NoFile]
        /\ UNCHANGED <<clock, delivered>>

\* curl takes the file and sends it.
Delivers(s) ==
    /\ At(s, "sending") /\ container[sends[s].path] # NoFile
    /\ delivered' = delivered \cup {<<s, container[sends[s].path]>>}
    /\ To(s, "answering")
    /\ UNCHANGED <<clock, local, container>>

\* Mutant: an error of curl is taken for success.
SentAnyway(s) ==
    /\ At(s, "answering") \/ At(s, "sending")
    /\ sends' = [sends EXCEPT ![s].stage = "removing", ![s].sent = TRUE]
    /\ UNCHANGED <<clock, local, container, delivered>>

\* It ends: sent, or failed, before or after it was delivered.  Removing the
\* copy is not waited for.
Sent(s) ==
    /\ At(s, "answering") \/ At(s, "sending")
    /\ \E ok \in BOOLEAN :
          /\ ok => At(s, "answering")
          /\ sends' = [sends EXCEPT ![s].stage = "removing", ![s].sent = ok]
    /\ UNCHANGED <<clock, local, container, delivered>>

Removed(s) ==
    /\ At(s, "removing") /\ To(s, "over")
    /\ container' \in {container, [container EXCEPT ![sends[s].path] = NoFile]}
    /\ UNCHANGED <<clock, local, delivered>>

Passes ==   \* a millisecond
    /\ clock < MaxClock /\ clock' = clock + 1
    /\ UNCHANGED <<sends, local, container, delivered>>

SignalInit ==
    /\ clock = 0 /\ sends = <<>> /\ delivered = {}
    /\ local = [p \in Paths |-> NoFile] /\ container = [p \in Paths |-> NoFile]

SignalNext ==
    \/ Passes
    \/ \E s \in Sends :
          Captured(s) \/ Copied(s) \/ Delivers(s) \/ Sent(s) \/ Removed(s)

-----------------------------------------------------------------------------
\* A send whose payload file was its own delivers its own payload and no other,
\* it alone delivers it, and it has done so if it says so (200 of the relay,
\* "Photo sent!"), though an earlier copy may have been left in the container.
SendsItsOwn(s) ==
    ~sends[s].clashed =>
        /\ \A d \in delivered : (d[1] = s) <=> (d[2] = s)
        /\ sends[s].sent => <<s, s>> \in delivered
=============================================================================
