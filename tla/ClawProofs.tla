----------------------------- MODULE ClawProofs -----------------------------
(***************************************************************************)
(* Proofs about what goes out to the Signal group and about what the robot *)
(* is made to do, for any clock, any texts, any transport and any number   *)
(* of messages, photos and relayed texts.                                  *)
(*                                                                         *)
(* The sends.  A payload file belongs to the last send that wrote it.      *)
(* While a send that has its file for itself is copying, the local file is *)
(* its own; while it is sending, so is the copy in the container; and a    *)
(* copy that an earlier send left behind is never taken for its own,       *)
(* because every send copies before curl reads.                            *)
(***************************************************************************)
EXTENDS OpenClaw, SequenceTheorems, TLAPS

SendStages == {"fetching", "copying", "sending", "answering", "removing", "over"}
Send == [path : Paths, stage : SendStages, clashed : BOOLEAN, sent : BOOLEAN]

\* The types.
SendTypes ==
    /\ clock \in 0..MaxClock
    /\ sends \in Seq(Send)
    /\ local \in [Paths -> Nat] /\ container \in [Paths -> Nat]
    /\ \A p \in Paths : local[p] \in Sends \cup {NoFile}
                        /\ container[p] \in Sends \cup {NoFile}
    /\ \A d \in delivered : d[1] \in Sends /\ d[2] \in Sends

\* s had its payload file for itself all along; s is at work on a file.
Own(s) == ~sends[s].clashed
Uses(s) == ~At(s, "over") /\ ~At(s, "fetching")

\* Two sends at work on one path are both marked.
SharedIsClashed ==
    \A s, t \in Sends : s # t /\ sends[s].path = sends[t].path /\ Uses(s) /\ Uses(t)
                            => sends[s].clashed
\* A local file of a send of its own is there only while it is copied.
LocalIsCopied ==
    \A p \in Paths : local[p] \in Sends /\ Own(local[p]) =>
                        At(local[p], "copying") /\ sends[local[p]].path = p
\* What such a send copies, and what curl then finds, is its own payload.
CopiesItsOwn ==
    \A s \in Sends : At(s, "copying") /\ Own(s) => local[sends[s].path] = s
HasItsOwn ==
    \A s \in Sends : At(s, "sending") /\ Own(s) => container[sends[s].path] = s
\* Nor does curl ever find the payload of another send of its own there.
NoOtherHasIt ==
    \A s \in Sends :
        LET x == container[sends[s].path]
        IN  At(s, "sending") /\ x \in Sends /\ Own(x) => x = s
\* It delivers its own payload and nobody else does; once curl has it, it was
\* delivered.
DeliversItsOwn ==
    \A s \in Sends : Own(s) =>
        /\ \A d \in delivered : (d[1] = s) <=> (d[2] = s)
        /\ At(s, "answering") \/ sends[s].sent => <<s, s>> \in delivered

\* A picture is fetched for a photo alone.
FetchesPhotos == \A s \in Sends : At(s, "fetching") => sends[s].path = PhotoPath

\* The inductive invariant.
SignalInv ==
    /\ SendTypes /\ SharedIsClashed /\ LocalIsCopied /\ CopiesItsOwn
    /\ HasItsOwn /\ NoOtherHasIt /\ DeliversItsOwn /\ FetchesPhotos

-----------------------------------------------------------------------------
\* What the types say of one send.
LEMMA SendsAre ==
    ASSUME SendTypes
    PROVE  /\ sends \in Seq(Send) /\ Len(sends) \in Nat /\ Sends = 1..Len(sends)
           /\ \A s \in Sends : /\ sends[s] \in Send /\ sends[s].path \in Paths
                               /\ sends[s].stage \in SendStages
                               /\ sends[s].clashed \in BOOLEAN
                               /\ sends[s].sent \in BOOLEAN
<1>1. sends \in Seq(Send) BY Zenon DEF SendTypes
<1>2. Len(sends) \in Nat /\ Sends = 1..Len(sends) BY <1>1 DEF Sends
<1>3. \A s \in Sends : sends[s] \in Send BY <1>1, <1>2
<1>4. \A r \in Send : /\ r.path \in Paths /\ r.stage \in SendStages
                      /\ r.clashed \in BOOLEAN /\ r.sent \in BOOLEAN
  BY DEF Send
<1>. QED BY <1>1, <1>2, <1>3, <1>4

(* Send s moves to another stage and nothing else happens to sends. *)
Moves(s, stage) ==
    /\ sends' \in Seq(Send) /\ Sends' = Sends
    /\ \A t \in Sends : /\ sends'[t].path = sends[t].path
                        /\ sends'[t].clashed = sends[t].clashed
                        /\ t # s => sends'[t].stage = sends[t].stage
                                    /\ sends'[t].sent = sends[t].sent
    /\ sends'[s].stage = stage

\* To and Sent move a send.
LEMMA ToMoves ==
    ASSUME SendTypes, NEW s \in Sends, NEW stage \in SendStages, To(s, stage)
    PROVE  Moves(s, stage) /\ sends'[s].sent = sends[s].sent
<1> DEFINE q == [sends[s] EXCEPT !.stage = stage]
<1>1. sends \in Seq(Send) /\ Sends = 1..Len(sends) /\ sends[s] \in Send BY SendsAre
<1>2. sends' = [sends EXCEPT ![s] = q] BY <1>1 DEF To
<1>3. /\ q \in Send /\ q.path = sends[s].path /\ q.stage = stage
      /\ q.clashed = sends[s].clashed /\ q.sent = sends[s].sent
  BY <1>1 DEF Send
<1> HIDE DEF q
<1>4. /\ sends' \in Seq(Send) /\ Len(sends') = Len(sends)
      /\ \A t \in 1..Len(sends) : sends'[t] = IF t = s THEN q ELSE sends[t]
  <2>1. s \in 1..Len(sends) /\ sends \in Seq(Send) /\ q \in Send
    BY <1>1, <1>3, Zenon
  <2> DEFINE r == [sends EXCEPT ![s] = q]
  <2>2. /\ r \in Seq(Send) /\ Len(r) = Len(sends)
        /\ \A t \in 1..Len(sends) : r[t] = IF t = s THEN q ELSE sends[t]
    BY <2>1, ExceptSeq
  <2> HIDE DEF r
  <2>3. sends' = r BY <1>2 DEF r
  <2>. QED BY <2>2, <2>3, Zenon
<1>5. Sends' = Sends BY <1>1, <1>4 DEF Sends
<1>6. \A t \in Sends : sends'[t] = IF t = s THEN q ELSE sends[t]
  BY <1>1, <1>4, Zenon
<1>. QED BY <1>3, <1>4, <1>5, <1>6 DEF Moves

LEMMA SentMoves ==
    ASSUME SendTypes, NEW s \in Sends, NEW ok \in BOOLEAN,
           sends' = [sends EXCEPT ![s].stage = "removing", ![s].sent = ok]
    PROVE  Moves(s, "removing") /\ sends'[s].sent = ok
<1> DEFINE q == [sends[s] EXCEPT !.stage = "removing", !.sent = ok]
<1>1. sends \in Seq(Send) /\ Sends = 1..Len(sends) /\ sends[s] \in Send BY SendsAre
<1>2. sends' = [sends EXCEPT ![s] = q] BY <1>1
<1>3. /\ q \in Send /\ q.path = sends[s].path /\ q.stage = "removing"
      /\ q.clashed = sends[s].clashed /\ q.sent = ok
  <2>1. "removing" \in SendStages BY DEF SendStages
  <2>. QED BY <1>1, <2>1 DEF Send
<1> HIDE DEF q
<1>4. /\ sends' \in Seq(Send) /\ Len(sends') = Len(sends)
      /\ \A t \in 1..Len(sends) : sends'[t] = IF t = s THEN q ELSE sends[t]
  <2>1. s \in 1..Len(sends) /\ sends \in Seq(Send) /\ q \in Send
    BY <1>1, <1>3, Zenon
  <2> DEFINE r == [sends EXCEPT ![s] = q]
  <2>2. /\ r \in Seq(Send) /\ Len(r) = Len(sends)
        /\ \A t \in 1..Len(sends) : r[t] = IF t = s THEN q ELSE sends[t]
    BY <2>1, ExceptSeq
  <2> HIDE DEF r
  <2>3. sends' = r BY <1>2 DEF r
  <2>. QED BY <2>2, <2>3, Zenon
<1>5. Sends' = Sends BY <1>1, <1>4 DEF Sends
<1>6. \A t \in Sends : sends'[t] = IF t = s THEN q ELSE sends[t]
  BY <1>1, <1>4, Zenon
<1>. QED BY <1>3, <1>4, <1>5, <1>6 DEF Moves

(* What a write of s to path does to the sends, all being the sends before it *)
(* and s.                                                                     *)
LEMMA WriteMoves ==
    ASSUME SendTypes, NEW all \in Seq(Send), NEW s \in DOMAIN all, NEW path,
           Write(s, path, all)
    PROVE  /\ sends' \in Seq(Send) /\ Sends' = DOMAIN all
           /\ \A t \in DOMAIN all :
                 /\ sends'[t].path = all[t].path
                 /\ sends'[t].sent = all[t].sent
                 /\ sends'[t].stage = IF t = s THEN "copying" ELSE all[t].stage
                 /\ ~sends'[t].clashed =>
                       ~all[t].clashed /\ ~(t \in Users(path))
                       /\ (t = s => Users(path) = {})
<1> DEFINE q(t) == [all[t] EXCEPT !.clashed = all[t].clashed \/ Users(path) # {},
                                  !.stage = IF t = s THEN "copying" ELSE all[t].stage]
           f == [t \in DOMAIN all |-> IF t = s \/ t \in Users(path) THEN q(t) ELSE all[t]]
<1>1. sends' = f BY DEF Write
<1>2. DOMAIN all = 1..Len(all) /\ Len(all) \in Nat OBVIOUS
<1>3. ASSUME NEW t \in DOMAIN all
      PROVE  /\ all[t] \in Send /\ q(t) \in Send
             /\ q(t).path = all[t].path /\ q(t).sent = all[t].sent
             /\ q(t).stage = IF t = s THEN "copying" ELSE all[t].stage
             /\ q(t).clashed = (all[t].clashed \/ Users(path) # {})
  <2>1. all[t] \in Send BY <1>2
  <2>2. all[t].stage \in SendStages /\ all[t].clashed \in BOOLEAN BY <2>1 DEF Send
  <2> DEFINE b == all[t].clashed \/ Users(path) # {}
             g == IF t = s THEN "copying" ELSE all[t].stage
  <2>3. b \in BOOLEAN OBVIOUS
  <2>4. g \in SendStages BY <2>2 DEF SendStages
  <2>5. q(t) = [all[t] EXCEPT !.clashed = b, !.stage = g] OBVIOUS
  <2> HIDE DEF b, g
  <2>6. /\ q(t) \in Send /\ q(t).path = all[t].path /\ q(t).sent = all[t].sent
        /\ q(t).stage = g /\ q(t).clashed = b
    BY <2>1, <2>3, <2>4, <2>5 DEF Send
  <2>. QED BY <2>1, <2>6 DEF b, g
<1> HIDE DEF q
<1>4. \A t \in DOMAIN all : f[t] = IF t = s \/ t \in Users(path) THEN q(t) ELSE all[t]
  OBVIOUS
<1>5. f \in Seq(Send) /\ DOMAIN f = DOMAIN all
  <2>1. \A t \in 1..Len(all) : f[t] \in Send BY <1>2, <1>3, <1>4
  <2>. QED BY <1>2, <2>1
<1> HIDE DEF f
<1>6. Sends' = DOMAIN all BY <1>1, <1>5 DEF Sends
<1>. QED BY <1>1, <1>3, <1>4, <1>5, <1>6

-----------------------------------------------------------------------------
\* A send writes its file: those at work on the same file are marked.
LEMMA WriteKeeps ==
    ASSUME SignalInv, NEW all \in Seq(Send), NEW s \in DOMAIN all, NEW path \in Paths,
           Write(s, path, all), UNCHANGED <<clock, container, delivered>>,
           DOMAIN all = Sends \cup {s}, \A t \in Sends : all[t] = sends[t],
           all[s].path = path, all[s].stage = "fetching", s \notin Sends => ~all[s].sent
    PROVE  SignalInv'
<1>1. SendTypes BY DEF SignalInv
<1>2. /\ sends' \in Seq(Send) /\ Sends' = Sends \cup {s}
      /\ \A t \in Sends \cup {s} :
            /\ sends'[t].path = all[t].path
            /\ sends'[t].sent = all[t].sent
            /\ sends'[t].stage = IF t = s THEN "copying" ELSE all[t].stage
            /\ ~sends'[t].clashed =>
                  ~all[t].clashed /\ ~(t \in Users(path))
                  /\ (t = s => Users(path) = {})
  BY <1>1, WriteMoves
<1>3. \A t \in Sends :
         /\ sends'[t].path = sends[t].path /\ sends'[t].sent = sends[t].sent
         /\ t # s => sends'[t].stage = sends[t].stage
         /\ ~sends'[t].clashed =>
               ~sends[t].clashed /\ ~(sends[t].path = path /\ Uses(t))
  BY <1>2 DEF Users, Uses
<1>4. sends'[s].path = path /\ sends'[s].stage = "copying"
      /\ (~sends'[s].clashed => \A t \in Sends : ~(sends[t].path = path /\ Uses(t)))
  BY <1>2 DEF Users, Uses
<1>5. s \in Sends => At(s, "fetching") /\ ~Uses(s) BY DEF At, Uses
<1>6. s \in Nat \ {0} /\ local' = [local EXCEPT ![path] = s]
  <2>1. \A q \in Seq(Send) : DOMAIN q \subseteq Nat \ {0} OBVIOUS
  <2>2. s \in Nat \ {0} BY <2>1
  <2>. QED BY <2>2, Zenon DEF Write
<1>7. /\ \A q \in Paths : local'[q] = IF q = path THEN s ELSE local[q]
      /\ local \in [Paths -> Nat]
  BY <1>1, <1>6 DEF SendTypes
<1>8. SendTypes'
  <2>1. local' \in [Paths -> Nat] BY <1>6, <1>7
  <2>2. \A q \in Paths : local'[q] \in Sends' \cup {NoFile'}
                         /\ container'[q] \in Sends' \cup {NoFile'}
    BY <1>1, <1>2, <1>7 DEF SendTypes, NoFile
  <2>. QED BY <1>1, <1>2, <2>1, <2>2 DEF SendTypes
<1>9. SharedIsClashed'
  <2> SUFFICES ASSUME NEW t \in Sends', NEW u \in Sends', t # u,
                      sends'[t].path = sends'[u].path, Uses(t)', Uses(u)'
               PROVE  sends'[t].clashed
    BY DEF SharedIsClashed
  <2>1. CASE t # s /\ u # s
    <3>1. t \in Sends /\ u \in Sends BY <1>2, <2>1
    <3>2. Uses(t) /\ Uses(u) /\ sends[t].path = sends[u].path
      BY <1>3, <2>1, <3>1 DEF Uses, At
    <3>3. sends[t].clashed BY <2>1, <3>1, <3>2 DEF SignalInv, SharedIsClashed
    <3>. QED BY <1>3, <3>1, <3>3
  <2>2. CASE t = s
    <3>1. u \in Sends /\ u # s BY <1>2, <2>2
    <3>2. Uses(u) /\ sends[u].path = path BY <1>3, <1>4, <2>2, <3>1 DEF Uses, At
    <3>. QED BY <1>4, <2>2, <3>1, <3>2
  <2>3. CASE u = s
    <3>1. t \in Sends /\ t # s BY <1>2, <2>3
    <3>2. Uses(t) /\ sends[t].path = path BY <1>3, <1>4, <2>3, <3>1 DEF Uses, At
    <3>. QED BY <1>3, <3>1, <3>2
  <2>. QED BY <2>1, <2>2, <2>3
<1>10. LocalIsCopied'
  <2> SUFFICES ASSUME NEW q \in Paths, local'[q] \in Sends', ~sends'[local'[q]].clashed
               PROVE  sends'[local'[q]].stage = "copying" /\ sends'[local'[q]].path = q
    BY DEF LocalIsCopied, Own, At
  <2>1. CASE q = path BY <1>4, <1>7, <2>1
  <2>2. CASE q # path
    <3>1. local'[q] = local[q] /\ local[q] \in Sends
      BY <1>1, <1>2, <1>6, <1>7, <2>2 DEF SendTypes, NoFile
    <3>2. At(local[q], "copying") /\ sends[local[q]].path = q
      BY <1>3, <3>1 DEF SignalInv, LocalIsCopied, Own
    <3>3. local[q] # s BY <1>5, <3>1, <3>2 DEF At
    <3>. QED BY <1>3, <3>1, <3>2, <3>3 DEF At
  <2>. QED BY <2>1, <2>2
<1>11. CopiesItsOwn'
  <2> SUFFICES ASSUME NEW t \in Sends', sends'[t].stage = "copying", ~sends'[t].clashed
               PROVE  local'[sends'[t].path] = t
    BY DEF CopiesItsOwn, Own, At
  <2>1. CASE t = s BY <1>4, <1>7, <2>1
  <2>2. CASE t # s
    <3>1. t \in Sends /\ At(t, "copying") /\ ~sends[t].clashed /\ sends'[t].path = sends[t].path
      BY <1>2, <1>3, <2>2 DEF At
    <3>2. sends[t].path # path BY <1>3, <3>1 DEF Uses, At
    <3>3. sends[t].path \in Paths BY <1>1, <3>1, SendsAre
    <3>4. local[sends[t].path] = t BY <3>1 DEF SignalInv, CopiesItsOwn, Own
    <3>. QED BY <1>7, <3>1, <3>2, <3>3, <3>4
  <2>. QED BY <2>1, <2>2
<1>12. HasItsOwn'
  <2> SUFFICES ASSUME NEW t \in Sends', sends'[t].stage = "sending", ~sends'[t].clashed
               PROVE  container'[sends'[t].path] = t
    BY DEF HasItsOwn, Own, At
  <2>1. t \in Sends /\ At(t, "sending") /\ ~sends[t].clashed /\ sends'[t].path = sends[t].path
    BY <1>2, <1>3, <1>4 DEF At
  <2>. QED BY <2>1 DEF SignalInv, HasItsOwn, Own
<1>13. NoOtherHasIt'
  <2> SUFFICES ASSUME NEW t \in Sends', sends'[t].stage = "sending",
                      NEW x \in Sends', x = container'[sends'[t].path], ~sends'[x].clashed
               PROVE  x = t
    BY DEF NoOtherHasIt, Own, At
  <2>1. t \in Sends /\ At(t, "sending") /\ sends'[t].path = sends[t].path
    BY <1>2, <1>3, <1>4 DEF At
  <2>2. x \in Sends
    <3>1. sends[t].path \in Paths BY <1>1, <2>1, SendsAre
    <3>. QED BY <1>1, <1>2, <1>6, <2>1, <3>1 DEF SendTypes, NoFile
  <2>. QED BY <1>3, <2>1, <2>2 DEF SignalInv, NoOtherHasIt, Own
<1>14. DeliversItsOwn'
  <2> SUFFICES ASSUME NEW t \in Sends', ~sends'[t].clashed
               PROVE  /\ \A d \in delivered : (d[1] = t) <=> (d[2] = t)
                      /\ sends'[t].stage = "answering" \/ sends'[t].sent
                           => <<t, t>> \in delivered
    BY DEF DeliversItsOwn, Own, At
  <2>1. CASE t \in Sends
    <3>1. Own(t) /\ sends'[t].sent = sends[t].sent
          /\ (sends'[t].stage = "answering" => At(t, "answering"))
      BY <1>3, <1>4, <2>1 DEF Own, At
    <3>. QED BY <2>1, <3>1 DEF SignalInv, DeliversItsOwn
  <2>2. CASE t \notin Sends
    <3>1. t = s BY <1>2, <2>2
    <3>2. ~sends'[t].sent /\ sends'[t].stage # "answering" BY <1>2, <1>4, <2>2, <3>1
    <3>. QED BY <1>1, <2>2, <3>2 DEF SendTypes
  <2>. QED BY <2>1, <2>2
<1>15. FetchesPhotos'
  BY <1>2, <1>3, <1>4 DEF SignalInv, FetchesPhotos, At, PhotoPath
<1>. QED BY <1>8, <1>9, <1>10, <1>11, <1>12, <1>13, <1>14, <1>15 DEF SignalInv

\* A text is relayed.
LEMMA RelayKeeps ==
    ASSUME SignalInv, Relay
    PROVE  SignalInv'
<1> DEFINE new == New(clock)
           all == Append(sends, new)
           s == Len(sends) + 1
<1>1. Write(s, clock, all) /\ UNCHANGED <<clock, container, delivered>> BY DEF Relay
<1>2. /\ sends \in Seq(Send) /\ Len(sends) \in Nat /\ Sends = 1..Len(sends)
      /\ clock \in Paths
  <2>1. clock \in 0..MaxClock BY DEF SignalInv, SendTypes
  <2>2. clock \in Paths BY <2>1, ClockAssumption DEF Paths, PhotoPath
  <2>. QED BY <2>2, SendsAre DEF SignalInv
<1>3. /\ new \in Send /\ new.path = clock /\ new.stage = "fetching" /\ new.sent = FALSE
  BY <1>2 DEF New, Send, SendStages
<1> HIDE DEF new
<1>4. /\ all \in Seq(Send) /\ DOMAIN all = 1..s /\ all[s] = new
      /\ \A t \in 1..Len(sends) : all[t] = sends[t]
  BY <1>2, <1>3
<1> HIDE DEF all
<1>5. s \in DOMAIN all /\ DOMAIN all = Sends \cup {s} /\ s \notin Sends BY <1>2, <1>4
<1>6. \A t \in Sends : all[t] = sends[t] BY <1>2, <1>4
<1> HIDE DEF s
<1>. QED BY <1>1, <1>2, <1>3, <1>4, <1>5, <1>6, WriteKeeps

\* A picture is there.
LEMMA CapturedWrites ==
    ASSUME SignalInv, NEW s \in Sends, At(s, "fetching"), Write(s, PhotoPath, sends),
           UNCHANGED <<clock, container, delivered>>
    PROVE  SignalInv'
<1>1. sends \in Seq(Send) BY SendsAre DEF SignalInv
<1>2. DOMAIN sends = Sends \cup {s} /\ s \in DOMAIN sends BY DEF Sends
<1>3. PhotoPath \in Paths BY ClockAssumption DEF Paths, PhotoPath
<1>4. sends[s].stage = "fetching" /\ sends[s].path = PhotoPath
  BY DEF At, SignalInv, FetchesPhotos
<1>. QED BY <1>1, <1>2, <1>3, <1>4, WriteKeeps

\* A photo is asked for.
LEMMA CaptureKeeps ==
    ASSUME SignalInv, Capture
    PROVE  SignalInv'
<1> DEFINE new == New(PhotoPath)
           n == Len(sends) + 1
<1>1. sends' = Append(sends, new) /\ UNCHANGED <<clock, local, container, delivered>>
  BY DEF Capture
<1>2. /\ sends \in Seq(Send) /\ Len(sends) \in Nat /\ Sends = 1..Len(sends)
  BY SendsAre DEF SignalInv
<1>3. /\ new \in Send /\ new.path = PhotoPath /\ new.stage = "fetching" /\ new.sent = FALSE
  BY ClockAssumption DEF New, Send, SendStages, Paths, PhotoPath
<1> HIDE DEF new
<1>4. /\ sends' \in Seq(Send) /\ DOMAIN sends' = 1..n /\ sends'[n] = new
      /\ \A s \in 1..Len(sends) : sends'[s] = sends[s]
  BY <1>1, <1>2, <1>3
<1>5. /\ Sends' = Sends \cup {n} /\ n \notin Sends /\ n # NoFile
      /\ \A s \in Sends : sends'[s] = sends[s]
  BY <1>2, <1>4 DEF Sends, NoFile
<1> HIDE DEF n
<1>6. SendTypes'
  BY <1>1, <1>4, <1>5 DEF SignalInv, SendTypes, NoFile
<1>7. sends'[n].stage = "fetching" /\ sends'[n].sent = FALSE BY <1>3, <1>4
<1>8. \A t \in Sends' : t \in Sends \/ sends'[t].stage = "fetching" BY <1>5, <1>7
<1>9. \A p \in Paths : local[p] # n /\ container[p] # n
  BY <1>5 DEF SignalInv, SendTypes
<1>10. \A s \in Sends : sends[s].path \in Paths BY SendsAre DEF SignalInv
<1>11. SharedIsClashed'
  <2> SUFFICES ASSUME NEW t \in Sends', NEW u \in Sends', t # u,
                      sends'[t].path = sends'[u].path, Uses(t)', Uses(u)'
               PROVE  sends'[t].clashed
    BY DEF SharedIsClashed
  <2>1. t \in Sends /\ u \in Sends BY <1>8 DEF Uses, At
  <2>2. sends'[t] = sends[t] /\ sends'[u] = sends[u] BY <1>5, <2>1
  <2>. QED BY <2>1, <2>2 DEF SignalInv, SharedIsClashed, Uses, At
<1>12. LocalIsCopied'
  BY <1>1, <1>5, <1>9 DEF SignalInv, LocalIsCopied, Own, At
<1>13. CopiesItsOwn'
  <2> SUFFICES ASSUME NEW t \in Sends', sends'[t].stage = "copying", ~sends'[t].clashed
               PROVE  local[sends'[t].path] = t
    BY <1>1 DEF CopiesItsOwn, Own, At
  <2>1. t \in Sends /\ sends'[t] = sends[t] BY <1>5, <1>8
  <2>. QED BY <2>1 DEF SignalInv, CopiesItsOwn, Own, At
<1>14. HasItsOwn'
  <2> SUFFICES ASSUME NEW t \in Sends', sends'[t].stage = "sending", ~sends'[t].clashed
               PROVE  container[sends'[t].path] = t
    BY <1>1 DEF HasItsOwn, Own, At
  <2>1. t \in Sends /\ sends'[t] = sends[t] BY <1>5, <1>8
  <2>. QED BY <2>1 DEF SignalInv, HasItsOwn, Own, At
<1>15. NoOtherHasIt'
  <2> SUFFICES ASSUME NEW t \in Sends', sends'[t].stage = "sending",
                      NEW x \in Sends', x = container[sends'[t].path], ~sends'[x].clashed
               PROVE  x = t
    BY <1>1 DEF NoOtherHasIt, Own, At
  <2>1. t \in Sends /\ sends'[t] = sends[t] BY <1>5, <1>8
  <2>2. x \in Sends /\ sends'[x] = sends[x] BY <1>5, <1>9, <1>10, <2>1
  <2>. QED BY <2>1, <2>2 DEF SignalInv, NoOtherHasIt, Own, At
<1>16. DeliversItsOwn'
  <2> SUFFICES ASSUME NEW t \in Sends', ~sends'[t].clashed
               PROVE  /\ \A d \in delivered : (d[1] = t) <=> (d[2] = t)
                      /\ sends'[t].stage = "answering" \/ sends'[t].sent
                           => <<t, t>> \in delivered
    BY <1>1 DEF DeliversItsOwn, Own, At
  <2>1. CASE t \in Sends
    <3>1. sends'[t] = sends[t] BY <1>5, <2>1
    <3>. QED BY <2>1, <3>1 DEF SignalInv, DeliversItsOwn, Own, At
  <2>2. CASE t = n
    <3>1. sends'[t].stage # "answering" /\ ~sends'[t].sent BY <1>7, <2>2
    <3>2. \A d \in delivered : d[1] # t /\ d[2] # t
      BY <1>5, <2>2 DEF SignalInv, SendTypes
    <3>. QED BY <3>1, <3>2
  <2>. QED BY <1>5, <2>1, <2>2
<1>17. FetchesPhotos'
  BY <1>3, <1>4, <1>5 DEF SignalInv, FetchesPhotos, At, PhotoPath
<1>. QED BY <1>6, <1>11, <1>12, <1>13, <1>14, <1>15, <1>16, <1>17 DEF SignalInv

(* A stage that is entered without touching files or deliveries. *)
LEMMA MovesKeep ==
    ASSUME SignalInv, NEW s \in Sends, NEW stage \in {"over", "removing"}, Moves(s, stage),
           ~At(s, "copying"), ~At(s, "over"), stage = "removing" => Uses(s),
           sends'[s].sent => sends[s].sent \/ At(s, "answering"),
           clock' = clock, local' = local, delivered' = delivered,
           \/ container' = container
           \/ Uses(s) /\ container' = [container EXCEPT ![sends[s].path] = NoFile]
    PROVE  SignalInv'
<1>1. /\ sends' \in Seq(Send) /\ Sends' = Sends /\ sends'[s].stage = stage
      /\ \A t \in Sends : /\ sends'[t].path = sends[t].path
                          /\ sends'[t].clashed = sends[t].clashed
                          /\ t # s => sends'[t].stage = sends[t].stage
                                      /\ sends'[t].sent = sends[t].sent
  BY DEF Moves
<1>2. /\ container \in [Paths -> Nat] /\ \A t \in Sends : sends[t].path \in Paths
  BY SendsAre DEF SignalInv, SendTypes
<1>3. \A p \in Paths : /\ container'[p] = container[p] \/ container'[p] = NoFile
                       /\ container'[p] # container[p] => Uses(s) /\ p = sends[s].path
  BY <1>2
<1>4. \A t \in Sends : /\ Uses(t)' => Uses(t)
                       /\ \A g \in {"copying", "sending", "answering", "fetching"} :
                             At(t, g)' => At(t, g)
                       /\ Own(t)' = Own(t)
  BY <1>1 DEF Uses, At, Own
<1>5. SendTypes'
  <2>1. container' \in [Paths -> Nat] BY <1>2 DEF NoFile
  <2>. QED BY <1>1, <1>3, <2>1 DEF SignalInv, SendTypes, NoFile
<1>6. SharedIsClashed'
  BY <1>1, <1>4 DEF SignalInv, SharedIsClashed
<1>7. LocalIsCopied'
  <2> SUFFICES ASSUME NEW p \in Paths, local[p] \in Sends, Own(local[p])
               PROVE  sends'[local[p]].stage = "copying" /\ sends'[local[p]].path = p
    BY <1>1, <1>4 DEF LocalIsCopied, At
  <2>1. At(local[p], "copying") /\ sends[local[p]].path = p
    BY DEF SignalInv, LocalIsCopied
  <2>2. local[p] # s BY <2>1
  <2>. QED BY <1>1, <2>1, <2>2 DEF At
<1>8. CopiesItsOwn'
  BY <1>1, <1>4 DEF SignalInv, CopiesItsOwn
<1>9. HasItsOwn'
  <2> SUFFICES ASSUME NEW t \in Sends, At(t, "sending"), Own(t), t # s
               PROVE  container'[sends[t].path] = t
    BY <1>1, <1>4 DEF HasItsOwn, At
  <2>1. container[sends[t].path] = t BY DEF SignalInv, HasItsOwn
  <2>2. ~(Uses(s) /\ sends[t].path = sends[s].path)
    BY DEF SignalInv, SharedIsClashed, Own, Uses, At
  <2>. QED BY <1>2, <1>3, <2>1, <2>2
<1>10. NoOtherHasIt'
  <2> SUFFICES ASSUME NEW t \in Sends, At(t, "sending"), NEW x \in Sends,
                      x = container'[sends[t].path], Own(x)
               PROVE  x = t
    BY <1>1, <1>4 DEF NoOtherHasIt
  <2>1. x = container[sends[t].path]
    <3>1. x # NoFile BY <1>1, SendsAre DEF NoFile, SignalInv
    <3>. QED BY <1>2, <1>3, <3>1
  <2>. QED BY <2>1 DEF SignalInv, NoOtherHasIt
<1>11. DeliversItsOwn'
  BY <1>1, <1>4 DEF SignalInv, DeliversItsOwn
<1>12. FetchesPhotos'
  BY <1>1, <1>4 DEF SignalInv, FetchesPhotos, PhotoPath
<1>. QED BY <1>5, <1>6, <1>7, <1>8, <1>9, <1>10, <1>11, <1>12 DEF SignalInv

\* The picture cannot be had.
LEMMA FailKeeps ==
    ASSUME SignalInv, NEW s \in Sends, At(s, "fetching"), To(s, "over"),
           UNCHANGED <<clock, local, container, delivered>>
    PROVE  SignalInv'
<1>1. SendTypes BY DEF SignalInv
<1>2. "over" \in SendStages BY DEF SendStages
<1>3. Moves(s, "over") /\ sends'[s].sent = sends[s].sent BY <1>1, <1>2, ToMoves
<1>4. ~At(s, "copying") /\ ~At(s, "over") BY DEF At
<1>5. sends'[s].sent => sends[s].sent \/ At(s, "answering") BY <1>3
<1>6. "over" \in {"over", "removing"} /\ "over" # "removing" OBVIOUS
<1>7. clock' = clock /\ local' = local /\ container' = container /\ delivered' = delivered
  OBVIOUS
<1>. QED BY <1>3, <1>4, <1>5, <1>6, <1>7, MovesKeep, Zenon

\* The copy is removed, or stays behind.
LEMMA RemovedKeeps ==
    ASSUME SignalInv, NEW s \in Sends, Removed(s)
    PROVE  SignalInv'
<1>1. SendTypes BY DEF SignalInv
<1>2. "over" \in SendStages BY DEF SendStages
<1>3. /\ At(s, "removing") /\ To(s, "over")
      /\ clock' = clock /\ local' = local /\ delivered' = delivered
      /\ \/ container' = container
         \/ container' = [container EXCEPT ![sends[s].path] = NoFile]
  BY DEF Removed
<1>4. Moves(s, "over") /\ sends'[s].sent = sends[s].sent BY <1>1, <1>2, <1>3, ToMoves
<1>5. ~At(s, "copying") /\ ~At(s, "over") /\ Uses(s) BY <1>3 DEF At, Uses
<1>6. sends'[s].sent => sends[s].sent \/ At(s, "answering") BY <1>4
<1>7. "over" \in {"over", "removing"} /\ "over" # "removing" OBVIOUS
<1>. QED BY <1>3, <1>4, <1>5, <1>6, <1>7, MovesKeep, Zenon

\* curl has ended.
LEMMA SentKeeps ==
    ASSUME SignalInv, NEW s \in Sends, Sent(s)
    PROVE  SignalInv'
<1>1. SendTypes BY DEF SignalInv
<1>2. clock' = clock /\ local' = local /\ container' = container /\ delivered' = delivered
  BY DEF Sent
<1>3. PICK ok \in BOOLEAN :
          /\ ok => At(s, "answering")
          /\ sends' = [sends EXCEPT ![s].stage = "removing", ![s].sent = ok]
  BY Zenon DEF Sent
<1>4. Moves(s, "removing") /\ sends'[s].sent = ok BY <1>1, <1>3, SentMoves
<1>5. ~At(s, "copying") /\ ~At(s, "over") /\ Uses(s) BY DEF Sent, At, Uses
<1>6. sends'[s].sent => sends[s].sent \/ At(s, "answering") BY <1>3, <1>4
<1>7. "removing" \in {"over", "removing"} OBVIOUS
<1>. QED BY <1>2, <1>4, <1>5, <1>6, <1>7, MovesKeep, Zenon

\* docker cp has ended.
LEMMA CopiedKeeps ==
    ASSUME SignalInv, NEW s \in Sends, Copied(s)
    PROVE  SignalInv'
<1> DEFINE path == sends[s].path
<1>1. SendTypes BY DEF SignalInv
<1>2. /\ At(s, "copying") /\ UNCHANGED <<clock, delivered>>
      /\ local' = [local EXCEPT ![path] = NoFile]
  BY DEF Copied
<1>3. PICK stage \in {"over", "sending"}, copied \in BOOLEAN :
          /\ To(s, stage)
          /\ stage = "sending" => copied
          /\ copied => /\ local[path] # NoFile
                       /\ container' = [container EXCEPT ![path] = local[path]]
          /\ ~copied => container' = container
  <2> DEFINE copies == /\ local[path] # NoFile
                       /\ container' = [container EXCEPT ![path] = local[path]]
  <2>1. \/ copies /\ To(s, "sending")
        \/ (copies \/ container' = container) /\ To(s, "over")
    BY DEF Copied
  <2> HIDE DEF copies
  <2>2. CASE copies /\ To(s, "sending") BY <2>2 DEF copies
  <2>3. CASE copies /\ To(s, "over") BY <2>3 DEF copies
  <2>4. CASE container' = container /\ To(s, "over") BY <2>4
  <2>. QED BY <2>1, <2>2, <2>3, <2>4
<1>4. Moves(s, stage) /\ sends'[s].sent = sends[s].sent
  BY <1>1, <1>3, ToMoves DEF SendStages
<1>5. /\ sends' \in Seq(Send) /\ Sends' = Sends /\ sends'[s].stage = stage
      /\ \A t \in Sends : /\ sends'[t].path = sends[t].path
                          /\ sends'[t].clashed = sends[t].clashed
                          /\ sends'[t].sent = sends[t].sent
                          /\ t # s => sends'[t].stage = sends[t].stage
  BY <1>4 DEF Moves
<1>6. /\ local \in [Paths -> Nat] /\ container \in [Paths -> Nat]
      /\ \A t \in Sends : sends[t].path \in Paths
      /\ path \in Paths
  BY <1>1, SendsAre DEF SendTypes
<1>7. \A p \in Paths : local'[p] = IF p = path THEN NoFile ELSE local[p]
  BY <1>2, <1>6
<1>8. \A p \in Paths :
         container'[p] = IF copied /\ p = path THEN local[path] ELSE container[p]
  BY <1>3, <1>6
<1>9. /\ Uses(s)
      /\ \A t \in Sends : /\ Uses(t)' => Uses(t)
                          /\ \A g \in {"copying", "answering", "fetching"} :
                                At(t, g)' => At(t, g)
                          /\ Own(t)' = Own(t)
  BY <1>2, <1>3, <1>5 DEF Uses, At, Own
<1>10. \A t \in Sends : t # s /\ Uses(t) /\ sends[t].path = path => ~Own(t) /\ ~Own(s)
  BY <1>9 DEF SignalInv, SharedIsClashed, Own
<1>11. local[path] \in Sends /\ Own(local[path]) => local[path] = s
  BY <1>6, <1>10 DEF SignalInv, LocalIsCopied, Uses, At
<1> HIDE DEF path
<1>12. SendTypes'
  <2>1. local' \in [Paths -> Nat] BY <1>2, <1>6 DEF NoFile
  <2>2. container' \in [Paths -> Nat] BY <1>3, <1>6
  <2>. QED BY <1>1, <1>2, <1>5, <1>6, <1>7, <1>8, <2>1, <2>2 DEF SendTypes, NoFile
<1>13. SharedIsClashed'
  BY <1>5, <1>9 DEF SignalInv, SharedIsClashed
<1>14. LocalIsCopied'
  <2> SUFFICES ASSUME NEW p \in Paths, local'[p] \in Sends, Own(local'[p])
               PROVE  sends'[local'[p]].stage = "copying" /\ sends'[local'[p]].path = p
    BY <1>5, <1>9 DEF LocalIsCopied, At
  <2>1. p # path /\ local'[p] = local[p] BY <1>1, <1>7, SendsAre DEF NoFile
  <2>2. At(local[p], "copying") /\ sends[local[p]].path = p
    BY <2>1 DEF SignalInv, LocalIsCopied
  <2>3. local[p] # s BY <2>1, <2>2 DEF path
  <2>. QED BY <1>5, <2>1, <2>2, <2>3 DEF At
<1>15. CopiesItsOwn'
  <2> SUFFICES ASSUME NEW t \in Sends, At(t, "copying")', Own(t)
               PROVE  local'[sends[t].path] = t
    BY <1>5, <1>9 DEF CopiesItsOwn
  <2>1. t # s /\ At(t, "copying") BY <1>3, <1>5, <1>9 DEF At
  <2>2. sends[t].path # path BY <1>10, <2>1 DEF Uses, At
  <2>. QED BY <1>6, <1>7, <2>1, <2>2 DEF SignalInv, CopiesItsOwn
<1>16. HasItsOwn'
  <2> SUFFICES ASSUME NEW t \in Sends, At(t, "sending")', Own(t)
               PROVE  container'[sends[t].path] = t
    BY <1>5, <1>9 DEF HasItsOwn
  <2>1. CASE t = s
    <3>1. stage = "sending" BY <1>5, <2>1 DEF At
    <3>2. local[path] = s BY <1>2, <2>1 DEF SignalInv, CopiesItsOwn, path
    <3>. QED BY <1>3, <1>6, <1>8, <2>1, <3>1, <3>2 DEF path
  <2>2. CASE t # s
    <3>1. At(t, "sending") BY <1>5, <2>2 DEF At
    <3>2. sends[t].path # path BY <1>10, <2>2, <3>1 DEF Uses, At
    <3>. QED BY <1>6, <1>8, <3>1, <3>2 DEF SignalInv, HasItsOwn
  <2>. QED BY <2>1, <2>2
<1>17. NoOtherHasIt'
  <2> SUFFICES ASSUME NEW t \in Sends, At(t, "sending")', NEW x \in Sends,
                      x = container'[sends[t].path], Own(x)
               PROVE  x = t
    BY <1>5, <1>9 DEF NoOtherHasIt
  <2>1. CASE copied /\ sends[t].path = path
    <3>1. x = s BY <1>6, <1>8, <1>11, <2>1
    <3>2. t = s \/ Uses(t) BY <1>5 DEF Uses, At
    <3>. QED BY <1>10, <2>1, <3>1, <3>2
  <2>2. CASE ~(copied /\ sends[t].path = path)
    <3>1. t # s BY <1>3, <1>5, <2>2 DEF At, path
    <3>2. At(t, "sending") /\ x = container[sends[t].path]
      BY <1>5, <1>6, <1>8, <2>2, <3>1 DEF At
    <3>. QED BY <3>2 DEF SignalInv, NoOtherHasIt
  <2>. QED BY <2>1, <2>2
<1>18. DeliversItsOwn'
  BY <1>2, <1>5, <1>9 DEF SignalInv, DeliversItsOwn
<1>19. FetchesPhotos'
  BY <1>5, <1>9 DEF SignalInv, FetchesPhotos, PhotoPath
<1>. QED BY <1>12, <1>13, <1>14, <1>15, <1>16, <1>17, <1>18, <1>19 DEF SignalInv

\* curl delivers what it finds.
LEMMA DeliversKeeps ==
    ASSUME SignalInv, NEW s \in Sends, Delivers(s)
    PROVE  SignalInv'
<1> DEFINE c == container[sends[s].path]
<1>1. SendTypes BY DEF SignalInv
<1>2. /\ At(s, "sending") /\ c # NoFile /\ To(s, "answering")
      /\ delivered' = delivered \cup {<<s, c>>}
      /\ UNCHANGED <<clock, local, container>>
  BY DEF Delivers
<1>3. Moves(s, "answering") /\ sends'[s].sent = sends[s].sent
  BY <1>1, <1>2, ToMoves DEF SendStages
<1>4. /\ sends' \in Seq(Send) /\ Sends' = Sends /\ sends'[s].stage = "answering"
      /\ \A t \in Sends : /\ sends'[t].path = sends[t].path
                          /\ sends'[t].clashed = sends[t].clashed
                          /\ sends'[t].sent = sends[t].sent
                          /\ t # s => sends'[t].stage = sends[t].stage
  BY <1>3 DEF Moves
<1>5. c \in Sends
  <2>1. sends[s].path \in Paths BY <1>1, SendsAre
  <2>. QED BY <1>1, <1>2, <2>1 DEF SendTypes
<1>6. \A t \in Sends : /\ Uses(t)' => Uses(t)
                       /\ \A g \in {"copying", "sending", "fetching"} :
                             At(t, g)' => At(t, g)
                       /\ Own(t)' = Own(t)
  BY <1>2, <1>4 DEF Uses, At, Own
<1>7. Own(s) => c = s BY <1>2 DEF SignalInv, HasItsOwn
<1>8. Own(c) => c = s BY <1>2, <1>5 DEF SignalInv, NoOtherHasIt
<1> HIDE DEF c
<1>9. SendTypes' BY <1>1, <1>2, <1>4, <1>5 DEF SendTypes, NoFile
<1>10. SharedIsClashed' BY <1>4, <1>6 DEF SignalInv, SharedIsClashed
<1>11. LocalIsCopied'
  <2> SUFFICES ASSUME NEW p \in Paths, local[p] \in Sends, Own(local[p])
               PROVE  sends'[local[p]].stage = "copying" /\ sends'[local[p]].path = p
    BY <1>2, <1>4, <1>6 DEF LocalIsCopied, At
  <2>1. At(local[p], "copying") /\ sends[local[p]].path = p
    BY DEF SignalInv, LocalIsCopied
  <2>2. local[p] # s BY <1>2, <2>1 DEF At
  <2>. QED BY <1>4, <2>1, <2>2 DEF At
<1>12. CopiesItsOwn' BY <1>2, <1>4, <1>6 DEF SignalInv, CopiesItsOwn
<1>13. HasItsOwn' BY <1>2, <1>4, <1>6 DEF SignalInv, HasItsOwn
<1>14. NoOtherHasIt' BY <1>2, <1>4, <1>6 DEF SignalInv, NoOtherHasIt
<1>15. DeliversItsOwn'
  <2> SUFFICES ASSUME NEW t \in Sends, Own(t)
               PROVE  /\ \A d \in delivered' : (d[1] = t) <=> (d[2] = t)
                      /\ sends'[t].stage = "answering" \/ sends'[t].sent
                           => <<t, t>> \in delivered'
    BY <1>4, <1>6 DEF DeliversItsOwn, At
  <2>1. /\ \A d \in delivered : (d[1] = t) <=> (d[2] = t)
        /\ At(t, "answering") \/ sends[t].sent => <<t, t>> \in delivered
    BY DEF SignalInv, DeliversItsOwn
  <2>2. (s = t) <=> (c = t) BY <1>7, <1>8
  <2>3. \A d \in delivered' : (d[1] = t) <=> (d[2] = t) BY <1>2, <2>1, <2>2
  <2>4. t = s => <<t, t>> \in delivered' BY <1>2, <1>7
  <2>5. t # s => (sends'[t].stage = "answering" \/ sends'[t].sent
                    => <<t, t>> \in delivered')
    BY <1>2, <1>4, <2>1 DEF At
  <2>. QED BY <2>3, <2>4, <2>5
<1>16. FetchesPhotos' BY <1>4, <1>6 DEF SignalInv, FetchesPhotos, PhotoPath
<1>. QED BY <1>9, <1>10, <1>11, <1>12, <1>13, <1>14, <1>15, <1>16 DEF SignalInv

\* A millisecond goes by, or the robot commands alone take a step.
LEMMA SignalStays ==
    ASSUME SignalInv, UNCHANGED <<sends, local, container, delivered>>,
           clock' \in 0..MaxClock
    PROVE  SignalInv'
<1>1. Sends' = Sends BY DEF Sends
<1>2. SendTypes' BY <1>1 DEF SignalInv, SendTypes, NoFile
<1>3. SharedIsClashed' BY <1>1 DEF SignalInv, SharedIsClashed, Uses, At
<1>4. LocalIsCopied' /\ CopiesItsOwn'
  BY <1>1 DEF SignalInv, LocalIsCopied, CopiesItsOwn, Own, At
<1>5. HasItsOwn' /\ NoOtherHasIt'
  BY <1>1 DEF SignalInv, HasItsOwn, NoOtherHasIt, Own, At
<1>6. DeliversItsOwn' BY <1>1 DEF SignalInv, DeliversItsOwn, Own, At
<1>7. FetchesPhotos' BY <1>1 DEF SignalInv, FetchesPhotos, At, PhotoPath
<1>. QED BY <1>2, <1>3, <1>4, <1>5, <1>6, <1>7 DEF SignalInv

LEMMA SignalKeeps ==
    ASSUME SignalInv, SignalNext
    PROVE  SignalInv'
<1>1. CASE Passes
  <2>1. clock' \in 0..MaxClock BY <1>1, ClockAssumption DEF Passes, SignalInv, SendTypes
  <2>. QED BY <1>1, <2>1, SignalStays DEF Passes
<1>2. ASSUME NEW s \in Sends, Captured(s)
      PROVE  SignalInv'
  <2>1. At(s, "fetching") /\ UNCHANGED <<clock, container, delivered>>
    BY <1>2 DEF Captured
  <2>2. CASE Write(s, PhotoPath, sends) BY <2>1, <2>2, CapturedWrites
  <2>3. CASE To(s, "over") /\ UNCHANGED local BY <2>1, <2>3, FailKeeps
  <2>. QED BY <1>2, <2>2, <2>3 DEF Captured
<1>. QED BY <1>1, <1>2, CopiedKeeps, DeliversKeeps, SentKeeps, RemovedKeeps DEF SignalNext

LEMMA SignalInvInit == SignalInit => SignalInv
<1> SUFFICES ASSUME SignalInit PROVE SignalInv OBVIOUS
<1>1. Sends = {} BY DEF SignalInit, Sends
<1>2. sends \in Seq(Send) BY DEF SignalInit
<1>3. \A p \in Paths : local[p] \notin Sends BY <1>1
<1>. QED
  BY <1>1, <1>2, <1>3, ClockAssumption
  DEF SignalInit, SignalInv, SendTypes, SharedIsClashed, LocalIsCopied, CopiesItsOwn,
      HasItsOwn, NoOtherHasIt, DeliversItsOwn, FetchesPhotos, NoFile

LEMMA ClawKeeps ==
    ASSUME SignalInv, [ClawNext]_vars
    PROVE  SignalInv'
<1>1. CASE UNCHANGED signalVars
  BY <1>1, SignalStays DEF signalVars, SignalInv, SendTypes
<1>2. CASE SignalNext BY <1>2, SignalKeeps
<1>3. ASSUME NEW text, Says(text)
      PROVE  SignalInv'
  BY <1>1, <1>3, CaptureKeeps DEF Says
<1>4. CASE Relays BY <1>4, RelayKeeps DEF Relays
<1>. QED BY <1>1, <1>2, <1>3, <1>4 DEF ClawNext, vars

LEMMA SignalInvAlways == ClawSpec => []SignalInv
<1>1. ClawInit => SignalInv BY SignalInvInit DEF ClawInit
<1>2. SignalInv /\ [ClawNext]_vars => SignalInv' BY ClawKeeps
<1>. QED BY <1>1, <1>2, PTL DEF ClawSpec

(***************************************************************************)
(* A relayed text or a photo whose payload file no other send used at the  *)
(* same time is delivered as itself, by its own send alone, and the answer *)
(* "sent" is only given after that: in any interleaving of sends, with any *)
(* failure of docker cp, curl and rm (sendSignalText,                      *)
(* captureAndSendPhoto).                                                   *)
(***************************************************************************)
THEOREM SendsWhatWasMeantAlways == ClawSpec => []SendsWhatWasMeant
<1>1. SignalInv => SendsWhatWasMeant
  BY DEF SignalInv, DeliversItsOwn, Own, SendsWhatWasMeant, SendsItsOwn
<1>. QED BY <1>1, SignalInvAlways, PTL

-----------------------------------------------------------------------------
(***************************************************************************)
(* The commands.  Of a message at step s nothing beyond s has been carried *)
(* out or is on its way (NotBeyond).  What has been carried out over HTTP  *)
(* rises, what is on its way over HTTP is s alone and would be the next    *)
(* (Rising).  Where all goes over HTTP the steps before s have been        *)
(* carried out, and s unless it is still on its way or has failed          *)
(* (Orderly).                                                              *)
(***************************************************************************)
Vias == {"http", "mqtt"}
Did == Nat \X Vias
First(m) == IF m = "http" THEN "http" ELSE "mqtt"

\* q is what the robot carried out, on is what is on its way.
Shape(s, v, st, q, on) ==
    /\ s \in Nat \ {0} /\ v \in Vias /\ st \in {"running", "done", "failed"}
    /\ q \in Seq(Did) /\ on \subseteq Did
Ways(m, v, on) == m # "auto" => v = First(m) /\ \A x \in on : x[2] = First(m)
NotBeyond(s, q, on) ==
    (\A i \in DOMAIN q : q[i][1] <= s) /\ \A x \in on : x[1] <= s
OverHttp(q) == {i \in DOMAIN q : q[i][2] = "http"}
HttpBefore(s, q) == \A a \in OverHttp(q) : q[a][1] < s
Rising(s, v, q, on) ==
    /\ \A a, b \in OverHttp(q) : a < b => q[a][1] < q[b][1]
    /\ \A x \in on : x[2] = "http" => x[1] = s /\ v = "http"
    /\ v = "mqtt" \/ <<s, "http">> \in on => HttpBefore(s, q)
Orderly(n, s, st, q, on) ==
    /\ \A i \in DOMAIN q : q[i][1] = i
    /\ IF <<s, "http">> \in on THEN Len(q) = s - 1 /\ st # "done"
       ELSE Len(q) = s \/ (Len(q) = s - 1 /\ st = "failed")
    /\ st = "done" => s = n

Good(m, n, s, v, st, q, on) ==
    /\ Shape(s, v, st, q, on) /\ Ways(m, v, on)
    /\ NotBeyond(s, q, on) /\ Rising(s, v, q, on)
    /\ m = "http" => Orderly(n, s, st, q, on)

\* A message begins with its first step.
LEMMA GoodFirst ==
    ASSUME NEW m, NEW n
    PROVE  Good(m, n, 1, First(m), "running", <<>>, {<<1, First(m)>>})
<1> DEFINE f == First(m)
           on == {<<1, f>>}
<1>1. f \in Vias /\ (f = "http" <=> m = "http") BY DEF First, Vias
<1>2. Ways(m, f, on) BY DEF Ways
<1> HIDE DEF f
<1>3. Shape(1, f, "running", <<>>, on) BY <1>1 DEF Shape, Did
<1>4. NotBeyond(1, <<>>, on) BY DEF NotBeyond
<1>5. OverHttp(<<>>) = {} BY DEF OverHttp
<1>6. Rising(1, f, <<>>, on) BY <1>5 DEF Rising, HttpBefore
<1>7. m = "http" => Orderly(n, 1, "running", <<>>, on) BY <1>1 DEF Orderly
<1>. QED BY <1>2, <1>3, <1>4, <1>6, <1>7 DEF Good, f

\* What is carried out comes last.
LEMMA DidMore ==
    ASSUME NEW q \in Seq(Did), NEW x \in Did
    PROVE  /\ Append(q, x) \in Seq(Did) /\ Len(Append(q, x)) = Len(q) + 1
           /\ Len(q) \in Nat /\ DOMAIN q = 1..Len(q)
           /\ \A i \in DOMAIN Append(q, x) :
                 IF i \in DOMAIN q THEN Append(q, x)[i] = q[i] /\ i <= Len(q)
                 ELSE i = Len(q) + 1 /\ Append(q, x)[i] = x
<1>1. Append(q, x) \in Seq(Did) /\ Len(Append(q, x)) = Len(q) + 1 OBVIOUS
<1>2. /\ Len(q) \in Nat /\ DOMAIN q = 1..Len(q)
      /\ DOMAIN Append(q, x) = 1..(Len(q) + 1)
  BY <1>1
<1>3. /\ \A i \in 1..Len(q) : Append(q, x)[i] = q[i]
      /\ Append(q, x)[Len(q) + 1] = x
  OBVIOUS
<1>. QED BY <1>1, <1>2, <1>3

\* The robot carries out a step; a publication may stay on its way.
LEMMA GoodRuns ==
    ASSUME NEW m, NEW n, NEW s, NEW v, NEW st, NEW q, NEW on, Good(m, n, s, v, st, q, on),
           NEW x \in on, NEW left, left = on \ {x} \/ (left = on /\ x[2] = "mqtt")
    PROVE  Good(m, n, s, v, st, Append(q, x), left)
<1> DEFINE p == Append(q, x)
<1>1. /\ Shape(s, v, st, q, on) /\ Ways(m, v, on) /\ NotBeyond(s, q, on)
      /\ Rising(s, v, q, on) /\ (m = "http" => Orderly(n, s, st, q, on))
  BY DEF Good
<1>2. /\ s \in Nat \ {0} /\ q \in Seq(Did) /\ on \subseteq Did /\ x \in Did
      /\ x[1] \in Nat /\ x[2] \in Vias /\ x = <<x[1], x[2]>>
      /\ left \subseteq on
  BY <1>1 DEF Shape, Did
<1>3. /\ p \in Seq(Did) /\ Len(p) = Len(q) + 1 /\ Len(q) \in Nat /\ DOMAIN q = 1..Len(q)
      /\ \A i \in DOMAIN p : IF i \in DOMAIN q THEN p[i] = q[i] /\ i <= Len(q)
                             ELSE i = Len(q) + 1 /\ p[i] = x
  BY <1>2, DidMore
<1>4. /\ \A i \in DOMAIN q : q[i][1] <= s
      /\ x[1] <= s
  BY <1>1 DEF NotBeyond
<1>5. x[2] = "http" => x[1] = s /\ v = "http" /\ HttpBefore(s, q) /\ x = <<s, "http">>
                       /\ <<s, "http">> \notin left
  BY <1>1, <1>2 DEF Rising
<1>6. \A i \in OverHttp(p) : \/ i \in OverHttp(q) /\ p[i] = q[i] /\ i <= Len(q)
                             \/ i = Len(q) + 1 /\ p[i] = x /\ x[2] = "http"
  BY <1>3 DEF OverHttp
<1> HIDE DEF p
<1>7. Shape(s, v, st, p, left) /\ Ways(m, v, left)
  BY <1>1, <1>2, <1>3 DEF Shape, Ways
<1>8. NotBeyond(s, p, left)
  <2>1. \A i \in DOMAIN p : p[i][1] <= s BY <1>3, <1>4
  <2>. QED BY <1>1, <1>2, <2>1 DEF NotBeyond
<1>9. Rising(s, v, p, left)
  <2>1. ASSUME NEW a \in OverHttp(p), NEW b \in OverHttp(p), a < b
        PROVE  p[a][1] < p[b][1]
    <3>1. CASE b \in OverHttp(q) /\ p[b] = q[b] /\ b <= Len(q)
      <4>1. a \in OverHttp(q) /\ p[a] = q[a]
        <5>1. a # Len(q) + 1
          <6>1. b \in 1..Len(q) BY <1>3, <3>1 DEF OverHttp
          <6>. QED BY <1>3, <2>1, <3>1, <6>1
        <5>. QED BY <1>6, <5>1
      <4>. QED BY <1>1, <2>1, <3>1, <4>1 DEF Rising
    <3>2. CASE b = Len(q) + 1 /\ p[b] = x /\ x[2] = "http"
      <4>1. a # Len(q) + 1 BY <1>3, <2>1, <3>2
      <4>2. a \in OverHttp(q) /\ p[a] = q[a] BY <1>6, <4>1
      <4>. QED BY <1>5, <3>2, <4>2 DEF HttpBefore
    <3>. QED BY <1>6, <3>1, <3>2
  <2>2. \A y \in left : y[2] = "http" => y[1] = s /\ v = "http"
    BY <1>1, <1>2 DEF Rising
  <2>3. v = "mqtt" \/ <<s, "http">> \in left => HttpBefore(s, p)
    <3> SUFFICES ASSUME v = "mqtt" \/ <<s, "http">> \in left PROVE HttpBefore(s, p)
        OBVIOUS
    <3>1. x[2] # "http" BY <1>5
    <3>2. HttpBefore(s, q) BY <1>1, <1>2 DEF Rising
    <3>. QED BY <1>6, <3>1, <3>2 DEF HttpBefore
  <2>. QED BY <2>1, <2>2, <2>3 DEF Rising
<1>10. ASSUME m = "http" PROVE Orderly(n, s, st, p, left)
  <2>1. Orderly(n, s, st, q, on) BY <1>1, <1>10
  <2>2. x[2] = "http" BY <1>1, <1>10 DEF Ways, First
  <2>3. x = <<s, "http">> /\ x[1] = s /\ <<s, "http">> \notin left BY <1>5, <2>2
  <2>4. Len(q) = s - 1 /\ st # "done" BY <2>1, <2>3 DEF Orderly
  <2>5. Len(p) = s BY <1>2, <1>3, <2>4
  <2>6. \A i \in DOMAIN p : p[i][1] = i
    BY <1>2, <1>3, <2>1, <2>3, <2>4 DEF Orderly
  <2>. QED BY <2>3, <2>4, <2>5, <2>6 DEF Orderly
<1>. QED BY <1>7, <1>8, <1>9, <1>10 DEF Good, p

\* A step on its way is lost.
LEMMA GoodLost ==
    ASSUME NEW m, NEW n, NEW s, NEW v, NEW st, NEW q, NEW on, Good(m, n, s, v, st, q, on),
           NEW x \in on, ~(st = "running" /\ v = "http" /\ s = x[1])
    PROVE  Good(m, n, s, v, st, q, on \ {x})
<1> DEFINE left == on \ {x}
<1>1. /\ Shape(s, v, st, q, on) /\ Ways(m, v, on) /\ NotBeyond(s, q, on)
      /\ Rising(s, v, q, on) /\ (m = "http" => Orderly(n, s, st, q, on))
  BY DEF Good
<1>2. Shape(s, v, st, q, left) /\ Ways(m, v, left) /\ NotBeyond(s, q, left)
  BY <1>1 DEF Shape, Ways, NotBeyond
<1>3. Rising(s, v, q, left) BY <1>1 DEF Rising
<1>4. ASSUME m = "http" PROVE Orderly(n, s, st, q, left)
  <2>1. Orderly(n, s, st, q, on) /\ v = "http" /\ x[2] = "http"
    BY <1>1, <1>4 DEF Ways, First
  <2>2. x[1] = s /\ x = <<s, "http">> BY <1>1, <2>1 DEF Rising, Shape, Did
  <2>3. Len(q) = s - 1 /\ st = "failed"
    BY <1>1, <2>1, <2>2 DEF Orderly, Shape
  <2>4. <<s, "http">> \notin left BY <2>2
  <2>. QED BY <2>1, <2>3, <2>4 DEF Orderly
<1>. QED BY <1>2, <1>3, <1>4 DEF Good

\* A step is over, or has failed, and no other is tried.
LEMMA GoodEnds ==
    ASSUME NEW m, NEW n, NEW s, NEW v, NEW q, NEW on, Good(m, n, s, v, "running", q, on)
    PROVE  /\ Good(m, n, s, v, "failed", q, on)
           /\ s = n /\ <<s, "http">> \notin on => Good(m, n, s, v, "done", q, on)
<1>1. /\ Shape(s, v, "running", q, on) /\ Ways(m, v, on) /\ NotBeyond(s, q, on)
      /\ Rising(s, v, q, on) /\ (m = "http" => Orderly(n, s, "running", q, on))
  BY DEF Good
<1>2. Shape(s, v, "failed", q, on) /\ Shape(s, v, "done", q, on) BY <1>1 DEF Shape
<1>3. ASSUME m = "http" PROVE Orderly(n, s, "failed", q, on)
  BY <1>1, <1>3 DEF Orderly
<1>4. ASSUME m = "http", <<s, "http">> \notin on, s = n
      PROVE  Orderly(n, s, "done", q, on)
  BY <1>1, <1>4 DEF Orderly
<1>. QED BY <1>1, <1>2, <1>3, <1>4 DEF Good

\* It goes on with the next step.
LEMMA GoodNext ==
    ASSUME NEW m, NEW n, NEW s, NEW v, NEW q, NEW on, Good(m, n, s, v, "running", q, on),
           <<s, "http">> \notin on
    PROVE  Good(m, n, s + 1, First(m), "running", q, on \cup {<<s + 1, First(m)>>})
<1> DEFINE f == First(m)
           t == s + 1
           more == on \cup {<<t, f>>}
<1>1. /\ Shape(s, v, "running", q, on) /\ Ways(m, v, on) /\ NotBeyond(s, q, on)
      /\ Rising(s, v, q, on) /\ (m = "http" => Orderly(n, s, "running", q, on))
  BY DEF Good
<1>2. /\ s \in Nat \ {0} /\ q \in Seq(Did) /\ on \subseteq Did BY <1>1 DEF Shape
<1>3. f \in Vias /\ (f = "http" <=> m = "http") BY DEF First, Vias
<1>4. t \in Nat \ {0} /\ t > s /\ t - 1 = s BY <1>2
<1>5. Ways(m, f, more) BY <1>1 DEF Ways, f
<1> HIDE DEF f, t
<1>6. Shape(t, f, "running", q, more) BY <1>2, <1>3, <1>4 DEF Shape, Did
<1>7. \A i \in DOMAIN q : q[i][1] \in Nat
  <2>1. \A i \in DOMAIN q : q[i] \in Did BY <1>2
  <2>. QED BY <2>1 DEF Did
<1>8. \A x \in on : x[2] # "http"
  <2>1. \A x \in on : x = <<x[1], x[2]>> BY <1>2 DEF Did
  <2>. QED BY <1>1, <2>1 DEF Rising
<1>9. NotBeyond(t, q, more)
  <2>1. \A i \in DOMAIN q : q[i][1] <= t BY <1>1, <1>2, <1>4, <1>7 DEF NotBeyond
  <2>2. \A x \in on : x[1] <= t BY <1>1, <1>2, <1>4 DEF NotBeyond, Did
  <2>3. \A x \in more : x[1] <= t BY <1>4, <2>2
  <2>. QED BY <2>1, <2>3 DEF NotBeyond
<1>10. Rising(t, f, q, more)
  <2>1. HttpBefore(t, q)
    BY <1>1, <1>2, <1>4, <1>7 DEF NotBeyond, HttpBefore, OverHttp
  <2>2. \A x \in more : x[2] = "http" => x[1] = t /\ f = "http" BY <1>8
  <2>. QED BY <1>1, <2>1, <2>2 DEF Rising
<1>11. ASSUME m = "http" PROVE Orderly(n, t, "running", q, more)
  <2>1. Orderly(n, s, "running", q, on) /\ f = "http" BY <1>1, <1>3, <1>11
  <2>2. Len(q) = s BY <2>1 DEF Orderly
  <2>3. <<t, "http">> \in more BY <2>1
  <2>. QED BY <1>4, <2>1, <2>2, <2>3 DEF Orderly
<1>. QED BY <1>5, <1>6, <1>9, <1>10, <1>11 DEF Good, f, t

\* What failed over MQTT is tried over HTTP.
LEMMA GoodFallsBack ==
    ASSUME NEW n, NEW s, NEW st, NEW q, NEW on, Good("auto", n, s, "mqtt", st, q, on)
    PROVE  Good("auto", n, s, "http", st, q, on \cup {<<s, "http">>})
<1> DEFINE more == on \cup {<<s, "http">>}
<1>1. /\ Shape(s, "mqtt", st, q, on) /\ NotBeyond(s, q, on) /\ Rising(s, "mqtt", q, on)
      /\ s \in Nat
  BY DEF Good, Shape
<1>2. Shape(s, "http", st, q, more) /\ Ways("auto", "http", more)
  BY <1>1 DEF Shape, Ways, Vias, Did
<1>3. NotBeyond(s, q, more)
  <2>1. \A x \in more : x[1] <= s BY <1>1 DEF NotBeyond
  <2>. QED BY <1>1, <2>1 DEF NotBeyond
<1>4. Rising(s, "http", q, more) BY <1>1 DEF Rising
<1>. QED BY <1>2, <1>3, <1>4 DEF Good

-----------------------------------------------------------------------------
(* All jobs.                                                                *)
Texts == UNION {c.texts : c \in Scenes}
Job == [text : Texts, steps : {parseCommand(t) : t \in Texts}, step : Nat, via : Vias,
        state : {"running", "done", "failed"}]
Wire == Nat \X Nat \X Vias
\* The steps of job j that are on their way.
WiresOf(W, j) == {x \in Did : <<j, x[1], x[2]>> \in W}
GoodJob(m, r, q, on) == Good(m, Len(r.steps), r.step, r.via, r.state, q, on)

\* The inductive invariant.
JobsInv ==
    /\ scene \in Scenes
    /\ jobs \in Seq(Job) /\ ran \in Seq(Seq(Did)) /\ Len(ran) = Len(jobs)
    /\ wires \subseteq Wire /\ \A w \in wires : w[1] \in DOMAIN jobs
    /\ \A j \in DOMAIN jobs : GoodJob(mode, jobs[j], ran[j], WiresOf(wires, j))

IsWire(w, j, k, v) == j \in Nat /\ k \in Nat /\ v \in Vias /\ w = <<j, k, v>>
Others(V, W, j) == \A i : i # j => WiresOf(V, i) = WiresOf(W, i)

WireAdds(W, w, j, k, v) ==
    WiresOf(W \cup {w}, j) = WiresOf(W, j) \cup {<<k, v>>} /\ Others(W \cup {w}, W, j)
WireGoes(W, w, j, k, v) ==
    WiresOf(W \ {w}, j) = WiresOf(W, j) \ {<<k, v>>} /\ Others(W \ {w}, W, j)

\* A wire more or less concerns its own job.
LEMMA WiresChange ==
    ASSUME NEW W, NEW j, NEW k, NEW v, NEW w, IsWire(w, j, k, v)
    PROVE  WireAdds(W, w, j, k, v) /\ WireGoes(W, w, j, k, v)
<1>1. w = <<j, k, v>> /\ <<k, v>> \in Did BY DEF IsWire, Did
<1>2. \A x \in Did : x = <<x[1], x[2]>> BY DEF Did
<1>3. \A i : \A x \in Did : <<i, x[1], x[2]>> = w <=> i = j /\ x = <<k, v>>
  BY <1>1, <1>2
<1> DEFINE more == W \cup {w}
           less == W \ {w}
<1>4. \A i : WiresOf(more, i) = {x \in Did : x \in WiresOf(W, i) \/ (i = j /\ x = <<k, v>>)}
  BY <1>3 DEF WiresOf
<1>5. \A i : WiresOf(less, i) = {x \in Did : x \in WiresOf(W, i) /\ ~(i = j /\ x = <<k, v>>)}
  BY <1>3 DEF WiresOf
<1>6. \A i : WiresOf(W, i) \subseteq Did BY DEF WiresOf
<1> HIDE DEF more, less
<1>7. WiresOf(more, j) = WiresOf(W, j) \cup {<<k, v>>} BY <1>1, <1>4, <1>6
<1>8. WiresOf(less, j) = WiresOf(W, j) \ {<<k, v>>} BY <1>1, <1>5, <1>6
<1>9. \A i : i # j => WiresOf(more, i) = WiresOf(W, i) BY <1>4, <1>6
<1>10. \A i : i # j => WiresOf(less, i) = WiresOf(W, i) BY <1>5, <1>6
<1>. QED BY <1>7, <1>8, <1>9, <1>10 DEF Others, WireAdds, WireGoes, more, less

\* What the invariant says of the jobs.
LEMMA JobsAre ==
    ASSUME JobsInv
    PROVE  /\ jobs \in Seq(Job) /\ DOMAIN jobs = 1..Len(jobs) /\ Len(jobs) \in Nat
           /\ ran \in Seq(Seq(Did)) /\ DOMAIN ran = 1..Len(jobs)
           /\ \A j \in DOMAIN jobs :
                 /\ j \in Nat /\ jobs[j] \in Job /\ ran[j] \in Seq(Did)
                 /\ jobs[j].step \in Nat \ {0} /\ jobs[j].via \in Vias
                 /\ GoodJob(mode, jobs[j], ran[j], WiresOf(wires, j))
<1>1. jobs \in Seq(Job) /\ ran \in Seq(Seq(Did)) /\ Len(ran) = Len(jobs)
      /\ \A j \in DOMAIN jobs : GoodJob(mode, jobs[j], ran[j], WiresOf(wires, j))
  BY DEF JobsInv
<1>2. DOMAIN jobs = 1..Len(jobs) /\ Len(jobs) \in Nat /\ DOMAIN ran = 1..Len(jobs)
  BY <1>1
<1>3. \A j \in DOMAIN jobs : jobs[j].step \in Nat \ {0} /\ jobs[j].via \in Vias
  BY <1>1 DEF GoodJob, Good, Shape
<1>4. \A j \in DOMAIN jobs : j \in Nat /\ jobs[j] \in Job /\ ran[j] \in Seq(Did)
  BY <1>1, <1>2
<1>. QED BY <1>1, <1>2, <1>3, <1>4

\* One job changes, and wires of its own.
LEMMA OneJob ==
    ASSUME JobsInv, NEW j \in DOMAIN jobs, NEW r \in Job, NEW q \in Seq(Did),
           jobs' = [jobs EXCEPT ![j] = r], ran' = [ran EXCEPT ![j] = q],
           mode' = mode, scene' = scene,
           wires' \subseteq Wire, \A w \in wires' : w \in wires \/ w[1] = j,
           \A i : i # j => WiresOf(wires', i) = WiresOf(wires, i),
           GoodJob(mode, r, q, WiresOf(wires', j))
    PROVE  JobsInv'
<1>1. /\ jobs \in Seq(Job) /\ ran \in Seq(Seq(Did)) /\ Len(ran) = Len(jobs)
      /\ DOMAIN jobs = 1..Len(jobs) /\ j \in 1..Len(jobs) /\ j \in 1..Len(ran)
      /\ \A i \in DOMAIN jobs : GoodJob(mode, jobs[i], ran[i], WiresOf(wires, i))
      /\ \A w \in wires : w[1] \in DOMAIN jobs
      /\ scene \in Scenes
  BY JobsAre DEF JobsInv
<1>2. /\ jobs' \in Seq(Job) /\ Len(jobs') = Len(jobs)
      /\ \A i \in 1..Len(jobs) : jobs'[i] = IF i = j THEN r ELSE jobs[i]
  <2> DEFINE f == [jobs EXCEPT ![j] = r]
  <2>1. /\ f \in Seq(Job) /\ Len(f) = Len(jobs)
        /\ \A i \in 1..Len(jobs) : f[i] = IF i = j THEN r ELSE jobs[i]
    BY <1>1, ExceptSeq
  <2> HIDE DEF f
  <2>2. jobs' = f BY DEF f
  <2>. QED BY <2>1, <2>2, Zenon
<1>3. /\ ran' \in Seq(Seq(Did)) /\ Len(ran') = Len(ran)
      /\ \A i \in 1..Len(ran) : ran'[i] = IF i = j THEN q ELSE ran[i]
  <2> DEFINE f == [ran EXCEPT ![j] = q]
  <2>1. /\ f \in Seq(Seq(Did)) /\ Len(f) = Len(ran)
        /\ \A i \in 1..Len(ran) : f[i] = IF i = j THEN q ELSE ran[i]
    BY <1>1, ExceptSeq
  <2> HIDE DEF f
  <2>2. ran' = f BY DEF f
  <2>. QED BY <2>1, <2>2, Zenon
<1>4. DOMAIN jobs' = DOMAIN jobs BY <1>1, <1>2
<1>5. \A i \in DOMAIN jobs' : GoodJob(mode', jobs'[i], ran'[i], WiresOf(wires', i))
  <2> SUFFICES ASSUME NEW i \in DOMAIN jobs
               PROVE  GoodJob(mode, jobs'[i], ran'[i], WiresOf(wires', i))
    BY <1>4
  <2>1. CASE i = j BY <1>1, <1>2, <1>3, <2>1
  <2>2. CASE i # j BY <1>1, <1>2, <1>3, <2>2
  <2>. QED BY <2>1, <2>2
<1>6. \A w \in wires' : w[1] \in DOMAIN jobs' BY <1>1, <1>4
<1>. QED BY <1>1, <1>2, <1>3, <1>5, <1>6 DEF JobsInv

\* Job j stands at another step, is tried another way or is over.
Stands(j, s, v, st) == [jobs[j] EXCEPT !.step = s, !.via = v, !.state = st]

LEMMA StandsIs ==
    ASSUME JobsInv, NEW j \in DOMAIN jobs, NEW s \in Nat, NEW v \in Vias,
           NEW st \in {"running", "done", "failed"}
    PROVE  /\ Stands(j, s, v, st) \in Job
           /\ Stands(j, s, v, st).steps = jobs[j].steps /\ Stands(j, s, v, st).step = s
           /\ Stands(j, s, v, st).via = v /\ Stands(j, s, v, st).state = st
<1>1. jobs[j] \in Job BY JobsAre
<1>. QED BY <1>1 DEF Stands, Job

LEMMA JobFields ==
    ASSUME JobsInv, NEW j \in DOMAIN jobs
    PROVE  /\ jobs = [jobs EXCEPT ![j] = jobs[j]] /\ ran = [ran EXCEPT ![j] = ran[j]]
           /\ jobs[j] = Stands(j, jobs[j].step, jobs[j].via, jobs[j].state)
<1>1. jobs[j] \in Job /\ jobs \in Seq(Job) /\ ran \in Seq(Seq(Did)) BY JobsAre
<1>2. jobs = [jobs EXCEPT ![j] = jobs[j]] /\ ran = [ran EXCEPT ![j] = ran[j]] BY <1>1
<1>3. jobs[j] = Stands(j, jobs[j].step, jobs[j].via, jobs[j].state)
  BY <1>1 DEF Stands, Job
<1>. QED BY <1>2, <1>3

\* The job of a wire, and what is on its way for it.
LEMMA WireOf ==
    ASSUME JobsInv, NEW w \in wires
    PROVE  /\ w = <<w[1], w[2], w[3]>> /\ w[1] \in DOMAIN jobs /\ w[1] \in Nat
           /\ w[2] \in Nat /\ w[3] \in Vias
           /\ <<w[2], w[3]>> \in WiresOf(wires, w[1])
           /\ wires \ {w} \subseteq Wire
           /\ WiresOf(wires \ {w}, w[1]) = WiresOf(wires, w[1]) \ {<<w[2], w[3]>>}
           /\ \A i : i # w[1] => WiresOf(wires \ {w}, i) = WiresOf(wires, i)
<1>1. w \in Wire /\ w[1] \in DOMAIN jobs /\ wires \subseteq Wire BY DEF JobsInv
<1>2. w = <<w[1], w[2], w[3]>> /\ w[1] \in Nat /\ w[2] \in Nat /\ w[3] \in Vias
  BY <1>1 DEF Wire
<1>3. <<w[2], w[3]>> \in WiresOf(wires, w[1])
  <2> DEFINE x == <<w[2], w[3]>>
  <2>1. x \in Did /\ x[1] = w[2] /\ x[2] = w[3] BY <1>2 DEF Did
  <2>2. <<w[1], x[1], x[2]>> \in wires BY <1>2, <2>1
  <2>. QED BY <2>1, <2>2 DEF WiresOf
<1>4. IsWire(w, w[1], w[2], w[3]) BY <1>2 DEF IsWire
<1>5. WireGoes(wires, w, w[1], w[2], w[3]) BY <1>4, WiresChange, Zenon
<1>. QED BY <1>1, <1>2, <1>3, <1>5 DEF WireGoes, Others

\* The steps of Next.
LEMMA RunsKeeps ==
    ASSUME JobsInv, NEW w \in wires, RobotRuns(w), scene' = scene
    PROVE  JobsInv'
<1> DEFINE j == w[1]
           x == <<w[2], w[3]>>
           q == Append(ran[j], x)
<1>1. /\ wires' = wires \ {w} \/ (wires' = wires /\ w[3] = "mqtt")
      /\ ran' = [ran EXCEPT ![j] = q] /\ mode' = mode /\ jobs' = jobs
  BY DEF RobotRuns
<1>2. /\ j \in DOMAIN jobs /\ x \in Did /\ x \in WiresOf(wires, j)
      /\ wires' \subseteq Wire
      /\ \/ WiresOf(wires', j) = WiresOf(wires, j) \ {x}
         \/ WiresOf(wires', j) = WiresOf(wires, j) /\ x[2] = "mqtt"
      /\ \A i : i # j => WiresOf(wires', i) = WiresOf(wires, i)
  BY <1>1, WireOf DEF Did, JobsInv
<1>3. /\ jobs[j] \in Job /\ ran[j] \in Seq(Did) /\ jobs' = [jobs EXCEPT ![j] = jobs[j]]
      /\ GoodJob(mode, jobs[j], ran[j], WiresOf(wires, j))
  BY <1>1, <1>2, JobsAre, JobFields
<1>4. q \in Seq(Did) BY <1>2, <1>3, DidMore
<1>5. GoodJob(mode, jobs[j], q, WiresOf(wires', j))
  <2> DEFINE r == jobs[j]
             on == WiresOf(wires, j)
             left == WiresOf(wires', j)
  <2> HIDE DEF r, on, left, x
  <2>1. Good(mode, Len(r.steps), r.step, r.via, r.state, ran[j], on)
        /\ x \in on /\ (left = on \ {x} \/ (left = on /\ x[2] = "mqtt"))
    BY <1>2, <1>3 DEF GoodJob, r, on, left
  <2>2. Good(mode, Len(r.steps), r.step, r.via, r.state, Append(ran[j], x), left)
    BY ONLY <2>1, GoodRuns
  <2>. QED BY <2>2 DEF GoodJob, r, left
<1>6. \A u \in wires' : u \in wires \/ u[1] = j BY <1>1
<1> HIDE DEF j, q, x
<1>. QED BY <1>1, <1>2, <1>3, <1>4, <1>5, <1>6, OneJob

LEMMA LostKeeps ==
    ASSUME JobsInv, NEW w \in wires, WireLost(w), scene' = scene
    PROVE  JobsInv'
<1> DEFINE j == w[1]
           x == <<w[2], w[3]>>
<1>1. /\ wires' = wires \ {w} /\ mode' = mode /\ jobs' = jobs /\ ran' = ran
      /\ ~(jobs[j].state = "running" /\ jobs[j].via = "http" /\ jobs[j].step = w[2])
  BY DEF WireLost, Running
<1>2. /\ j \in DOMAIN jobs /\ w[2] \in Nat /\ x \in WiresOf(wires, j) /\ x[1] = w[2]
      /\ wires' \subseteq Wire /\ WiresOf(wires', j) = WiresOf(wires, j) \ {x}
      /\ \A i : i # j => WiresOf(wires', i) = WiresOf(wires, i)
  BY <1>1, WireOf
<1>3. /\ jobs[j] \in Job /\ ran[j] \in Seq(Did)
      /\ jobs' = [jobs EXCEPT ![j] = jobs[j]] /\ ran' = [ran EXCEPT ![j] = ran[j]]
      /\ GoodJob(mode, jobs[j], ran[j], WiresOf(wires, j))
  BY <1>1, <1>2, JobsAre, JobFields
<1>4. GoodJob(mode, jobs[j], ran[j], WiresOf(wires', j))
  <2> DEFINE r == jobs[j]
             on == WiresOf(wires, j)
  <2>1. ~(r.state = "running" /\ r.via = "http" /\ r.step = x[1]) BY <1>1, <1>2
  <2>2. Good(mode, Len(r.steps), r.step, r.via, r.state, ran[j], on \ {x})
    BY <1>2, <1>3, <2>1, GoodLost, Zenon DEF GoodJob
  <2>. QED BY <1>2, <2>2 DEF GoodJob
<1>5. \A u \in wires' : u \in wires \/ u[1] = j BY <1>1
<1> HIDE DEF j, x
<1>. QED BY <1>1, <1>2, <1>3, <1>4, <1>5, OneJob

\* A wire more for job j.
LEMMA WireMore ==
    ASSUME JobsInv, NEW j \in DOMAIN jobs, NEW k \in Nat, NEW v \in Vias,
           wires' = wires \cup {<<j, k, v>>}
    PROVE  /\ wires' \subseteq Wire /\ \A w \in wires' : w \in wires \/ w[1] = j
           /\ WiresOf(wires', j) = WiresOf(wires, j) \cup {<<k, v>>}
           /\ \A i : i # j => WiresOf(wires', i) = WiresOf(wires, i)
<1>1. j \in Nat /\ wires \subseteq Wire BY JobsAre DEF JobsInv
<1> DEFINE u == <<j, k, v>>
<1>2. u \in Wire /\ u[1] = j BY <1>1 DEF Wire
<1>3. IsWire(u, j, k, v) BY <1>1 DEF IsWire
<1> HIDE DEF u
<1>4. WireAdds(wires, u, j, k, v) BY <1>3, WiresChange, Zenon
<1>5. wires' = wires \cup {u} BY DEF u
<1>. QED BY <1>1, <1>2, <1>4, <1>5 DEF WireAdds, Others

LEMMA DoneKeeps ==
    ASSUME JobsInv, NEW j \in DOMAIN jobs, Running(j), StepDone(j),
           <<j, jobs[j].step, "http">> \notin wires,
           mode' = mode, ran' = ran, scene' = scene
    PROVE  JobsInv'
<1> DEFINE s == jobs[j].step
           v == jobs[j].via
           n == Len(jobs[j].steps)
           on == WiresOf(wires, j)
           f == First(mode)
<1>1. /\ jobs[j] \in Job /\ ran[j] \in Seq(Did) /\ ran' = [ran EXCEPT ![j] = ran[j]]
      /\ s \in Nat \ {0} /\ v \in Vias /\ s + 1 \in Nat /\ f \in Vias
      /\ jobs[j].state = "running" /\ wires \subseteq Wire
  BY JobsAre, JobFields DEF First, Vias, Running, JobsInv
<1>2. Good(mode, n, s, v, "running", ran[j], on) BY <1>1, JobsAre DEF GoodJob
<1>3. <<s, "http">> \notin on BY DEF WiresOf
<1>4. CASE s = n
  <2> DEFINE r == Stands(j, s, v, "done")
  <2>1. jobs' = [jobs EXCEPT ![j].state = "done"] /\ wires' = wires BY <1>4 DEF StepDone
  <2>2. jobs' = [jobs EXCEPT ![j] = r] BY <1>1, <2>1 DEF Stands, Job
  <2>3. /\ r \in Job /\ r.steps = jobs[j].steps /\ r.step = s /\ r.via = v
        /\ r.state = "done"
    BY <1>1, StandsIs
  <2>4. GoodJob(mode, r, ran[j], WiresOf(wires', j))
    BY <1>2, <1>3, <1>4, <2>1, <2>3, GoodEnds DEF GoodJob
  <2> HIDE DEF r
  <2>. QED BY <1>1, <2>1, <2>2, <2>3, <2>4, OneJob
<1>5. CASE s # n
  <2> DEFINE r == Stands(j, s + 1, f, "running")
  <2>1. /\ jobs' = [jobs EXCEPT ![j].step = s + 1, ![j].via = f]
        /\ wires' = wires \cup {<<j, s + 1, f>>}
    BY <1>5 DEF StepDone, FirstVia, First
  <2>2. jobs' = [jobs EXCEPT ![j] = r]
    <3>1. jobs' = [jobs EXCEPT ![j] = [jobs[j] EXCEPT !.step = s + 1, !.via = f]]
      BY <2>1
    <3>2. [jobs[j] EXCEPT !.step = s + 1, !.via = f] = r
      BY <1>1 DEF Stands, Job
    <3>. QED BY <3>1, <3>2, Zenon
  <2>3. /\ r \in Job /\ r.steps = jobs[j].steps /\ r.step = s + 1 /\ r.via = f
        /\ r.state = "running"
    BY <1>1, StandsIs
  <2>4. /\ wires' \subseteq Wire /\ \A w \in wires' : w \in wires \/ w[1] = j
        /\ WiresOf(wires', j) = on \cup {<<s + 1, f>>}
        /\ \A i : i # j => WiresOf(wires', i) = WiresOf(wires, i)
    BY <1>1, <2>1, WireMore
  <2>5. GoodJob(mode, r, ran[j], WiresOf(wires', j))
    BY <1>2, <1>3, <2>3, <2>4, GoodNext DEF GoodJob
  <2> HIDE DEF r
  <2>. QED BY <1>1, <2>2, <2>3, <2>4, <2>5, OneJob
<1>. QED BY <1>4, <1>5

LEMMA FailedKeeps ==
    ASSUME JobsInv, NEW j \in DOMAIN jobs, Running(j), StepFailed(j),
           mode' = mode, ran' = ran, scene' = scene
    PROVE  JobsInv'
<1> DEFINE s == jobs[j].step
           v == jobs[j].via
           n == Len(jobs[j].steps)
           on == WiresOf(wires, j)
<1>1. /\ jobs[j] \in Job /\ ran[j] \in Seq(Did) /\ ran' = [ran EXCEPT ![j] = ran[j]]
      /\ s \in Nat \ {0} /\ v \in Vias
      /\ jobs[j].state = "running" /\ wires \subseteq Wire
  BY JobsAre, JobFields DEF Running, JobsInv
<1>2. Good(mode, n, s, v, "running", ran[j], on) BY <1>1, JobsAre DEF GoodJob
<1>3. CASE mode = "auto" /\ v = "mqtt"
  <2> DEFINE r == Stands(j, s, "http", "running")
  <2>0. "http" \in Vias BY DEF Vias
  <2>1. /\ jobs' = [jobs EXCEPT ![j].via = "http"]
        /\ wires' = wires \cup {<<j, s, "http">>}
    BY <1>3 DEF StepFailed
  <2>2. jobs' = [jobs EXCEPT ![j] = r] BY <1>1, <2>1 DEF Stands, Job
  <2>3. /\ r \in Job /\ r.steps = jobs[j].steps /\ r.step = s /\ r.via = "http"
        /\ r.state = "running"
    BY <1>1, <2>0, StandsIs
  <2>4. /\ wires' \subseteq Wire /\ \A w \in wires' : w \in wires \/ w[1] = j
        /\ WiresOf(wires', j) = on \cup {<<s, "http">>}
        /\ \A i : i # j => WiresOf(wires', i) = WiresOf(wires, i)
    BY <1>1, <2>0, <2>1, WireMore
  <2>5. GoodJob(mode, r, ran[j], WiresOf(wires', j))
    BY <1>2, <1>3, <2>3, <2>4, GoodFallsBack DEF GoodJob
  <2> HIDE DEF r
  <2>. QED BY <1>1, <2>2, <2>3, <2>4, <2>5, OneJob
<1>4. CASE ~(mode = "auto" /\ v = "mqtt")
  <2> DEFINE r == Stands(j, s, v, "failed")
  <2>1. jobs' = [jobs EXCEPT ![j].state = "failed"] /\ wires' = wires
    BY <1>4 DEF StepFailed
  <2>2. jobs' = [jobs EXCEPT ![j] = r] BY <1>1, <2>1 DEF Stands, Job
  <2>3. /\ r \in Job /\ r.steps = jobs[j].steps /\ r.step = s /\ r.via = v
        /\ r.state = "failed"
    BY <1>1, StandsIs
  <2>4. GoodJob(mode, r, ran[j], WiresOf(wires', j))
    BY <1>2, <2>1, <2>3, GoodEnds DEF GoodJob
  <2> HIDE DEF r
  <2>. QED BY <1>1, <2>1, <2>2, <2>3, <2>4, OneJob
<1>. QED BY <1>3, <1>4

\* A message that is not a photo.
LEMMA HandleKeeps ==
    ASSUME JobsInv, NEW text \in scene.texts, HandleMessage(text), scene' = scene
    PROVE  JobsInv'
<1> DEFINE steps == parseCommand(text)
           j == Len(jobs) + 1
           f == First(mode)
           r == [text |-> text, steps |-> steps, step |-> 1, via |-> f, state |-> "running"]
           u == <<j, 1, f>>
<1>1. /\ jobs' = Append(jobs, r) /\ wires' = wires \cup {u} /\ ran' = Append(ran, <<>>)
      /\ mode' = mode
  BY DEF HandleMessage, FirstVia, First
<1>2. /\ jobs \in Seq(Job) /\ Len(jobs) \in Nat /\ DOMAIN jobs = 1..Len(jobs)
      /\ ran \in Seq(Seq(Did)) /\ DOMAIN ran = 1..Len(jobs) /\ Len(ran) = Len(jobs)
      /\ wires \subseteq Wire /\ scene \in Scenes
      /\ \A w \in wires : w[1] \in DOMAIN jobs
      /\ \A i \in DOMAIN jobs : GoodJob(mode, jobs[i], ran[i], WiresOf(wires, i))
  BY JobsAre DEF JobsInv
<1>3. f \in Vias /\ text \in Texts /\ j \in Nat BY <1>2 DEF First, Vias, Texts
<1>4. /\ r \in Job /\ r.step = 1 /\ r.via = f /\ r.state = "running"
  BY <1>3 DEF Job
<1>5. u \in Wire /\ u[1] = j /\ IsWire(u, j, 1, f) BY <1>3 DEF Wire, IsWire
<1>6. Good(mode, Len(r.steps), 1, f, "running", <<>>, {<<1, f>>}) BY GoodFirst
<1> HIDE DEF r, u, f, steps
<1>7. /\ WiresOf(wires \cup {u}, j) = WiresOf(wires, j) \cup {<<1, f>>}
      /\ Others(wires \cup {u}, wires, j)
  <2>1. WireAdds(wires, u, j, 1, f) BY <1>5, WiresChange, Zenon
  <2>. QED BY <2>1, Zenon DEF WireAdds
<1>8. WiresOf(wires, j) = {}
  <2>1. \A w \in wires : w[1] # j BY <1>2
  <2>2. \A x \in WiresOf(wires, j) : <<j, x[1], x[2]>> \in wires BY DEF WiresOf
  <2>3. \A x : <<j, x[1], x[2]>>[1] = j OBVIOUS
  <2>. QED BY <2>1, <2>2, <2>3
<1>9. GoodJob(mode, r, <<>>, WiresOf(wires', j))
  BY <1>1, <1>4, <1>6, <1>7, <1>8 DEF GoodJob
<1>10. /\ jobs' \in Seq(Job) /\ Len(jobs') = j /\ DOMAIN jobs' = 1..j
       /\ jobs'[j] = r /\ \A i \in 1..Len(jobs) : jobs'[i] = jobs[i]
  BY <1>1, <1>2, <1>4
<1>11. /\ ran' \in Seq(Seq(Did)) /\ Len(ran') = j
       /\ ran'[j] = <<>> /\ \A i \in 1..Len(jobs) : ran'[i] = ran[i]
  BY <1>1, <1>2
<1>12. \A i \in DOMAIN jobs' : GoodJob(mode', jobs'[i], ran'[i], WiresOf(wires', i))
  <2> SUFFICES ASSUME NEW i \in 1..j
               PROVE  GoodJob(mode, jobs'[i], ran'[i], WiresOf(wires', i))
    BY <1>1, <1>10
  <2>1. CASE i = j BY <1>9, <1>10, <1>11, <2>1
  <2>2. CASE i # j
    <3>1. i \in 1..Len(jobs) BY <1>2, <2>2
    <3>2. WiresOf(wires', i) = WiresOf(wires, i) BY <1>1, <1>7, <2>2 DEF Others
    <3>. QED BY <1>2, <1>10, <1>11, <3>1, <3>2
  <2>. QED BY <2>1, <2>2
<1>13. wires' \subseteq Wire /\ \A w \in wires' : w[1] \in DOMAIN jobs'
  BY <1>1, <1>2, <1>5, <1>10
<1>. QED BY <1>2, <1>10, <1>11, <1>12, <1>13 DEF JobsInv

LEMMA CommandKeeps ==
    ASSUME JobsInv, CommandNext, scene' = scene
    PROVE  JobsInv'
<1>1. ASSUME NEW w \in wires, RobotRuns(w) \/ WireLost(w)
      PROVE  JobsInv'
  BY <1>1, RunsKeeps, LostKeeps
<1>2. ASSUME NEW j \in DOMAIN jobs,
             HttpAnswers(j) \/ HttpGivesUp(j) \/ MqttPublished(j) \/ MqttFails(j)
      PROVE  JobsInv'
  <2>1. CASE HttpAnswers(j)
    <3>1. /\ Running(j) /\ <<j, jobs[j].step, "http">> \notin wires
          /\ StepDone(j) \/ StepFailed(j)
      BY <2>1 DEF HttpAnswers
    <3>2. mode' = mode /\ ran' = ran BY <2>1 DEF HttpAnswers
    <3>. QED BY <3>1, <3>2, DoneKeeps, FailedKeeps
  <2>2. CASE HttpGivesUp(j) \/ MqttFails(j)
    BY <2>2, FailedKeeps DEF HttpGivesUp, MqttFails
  <2>3. CASE MqttPublished(j)
    <3>1. Running(j) /\ StepDone(j) /\ jobs[j].via = "mqtt" /\ mode' = mode /\ ran' = ran
      BY <2>3 DEF MqttPublished
    <3>2. <<j, jobs[j].step, "http">> \notin wires
      <4>1. Good(mode, Len(jobs[j].steps), jobs[j].step, jobs[j].via, jobs[j].state,
                 ran[j], WiresOf(wires, j)) /\ jobs[j].step \in Nat
        BY JobsAre DEF GoodJob
      <4>2. <<jobs[j].step, "http">> \notin WiresOf(wires, j)
        BY <3>1, <4>1 DEF Good, Rising
      <4>. QED BY <4>1, <4>2 DEF WiresOf, Did, Vias
    <3>. QED BY <3>1, <3>2, DoneKeeps
  <2>. QED BY <1>2, <2>1, <2>2, <2>3
<1>. QED BY <1>1, <1>2 DEF CommandNext

LEMMA JobsStep == JobsInv /\ [ClawNext]_vars => JobsInv'
<1> SUFFICES ASSUME JobsInv, [ClawNext]_vars PROVE JobsInv'
    OBVIOUS
<1>1. CASE UNCHANGED <<commandVars, scene>>
  BY <1>1 DEF JobsInv, commandVars
<1>2. ASSUME NEW text \in scene.texts, Says(text)
      PROVE  JobsInv'
  BY <1>1, <1>2, HandleKeeps DEF Says, Turn
<1>3. CASE Relays BY <1>1, <1>3 DEF Relays, Turn
<1>4. CASE CommandNext /\ UNCHANGED scene BY <1>4, CommandKeeps
<1>. QED BY <1>1, <1>2, <1>3, <1>4 DEF ClawNext, vars

\* What the invariant says of one job.
LEMMA GoodCarriesOut ==
    ASSUME JobsInv, NEW j \in DOMAIN jobs
    PROVE  CarriesOutWhatWasAsked(j)
<1> DEFINE s == jobs[j].step
           n == Len(jobs[j].steps)
           st == jobs[j].state
           q == ran[j]
<1>1. Good(mode, n, s, jobs[j].via, st, q, WiresOf(wires, j)) BY JobsAre DEF GoodJob
<1>2. /\ \A i \in DOMAIN q : q[i][1] <= s
      /\ \A a, b \in OverHttp(q) : a < b => q[a][1] < q[b][1]
  BY <1>1 DEF Good, NotBeyond, Rising
<1>3. ASSUME mode = "http"
      PROVE  /\ \A i \in DOMAIN q : q[i][1] = i
             /\ st = "done" => Len(q) = n
  BY <1>1, <1>3 DEF Good, Orderly, Shape
<1>. QED BY <1>2, <1>3 DEF CarriesOutWhatWasAsked, OverHttp

(***************************************************************************)
(* Whatever fails, is late, is lost, comes again or happens beside it, the *)
(* robot carries out no step of a message before those that precede it     *)
(* have been reported as done; over HTTP none twice and none out of order; *)
(* and where all goes over HTTP, all of them if success is reported: for   *)
(* any messages, any number of steps and of jobs, each transport and any   *)
(* number of times that a publication comes again (executeSequence,        *)
(* executeCommand, executeHttpCommand, executeMqttCommand).                *)
(***************************************************************************)
THEOREM DoesNoMoreThanAskedAlways == ClawSpec => []DoesNoMoreThanAsked
<1>1. ClawInit => JobsInv
  <2> SUFFICES ASSUME ClawInit PROVE JobsInv
      OBVIOUS
  <2>1. scene \in Scenes /\ jobs = <<>> /\ ran = <<>> /\ wires = {}
    BY DEF ClawInit, CommandInit
  <2>2. DOMAIN jobs = {} BY <2>1
  <2>. QED BY <2>1, <2>2 DEF JobsInv
<1>2. JobsInv => DoesNoMoreThanAsked BY GoodCarriesOut DEF DoesNoMoreThanAsked
<1>. QED BY <1>1, <1>2, JobsStep, PTL DEF ClawSpec
=============================================================================
