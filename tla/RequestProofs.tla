--------------------------- MODULE RequestProofs ---------------------------
(***************************************************************************)
(* Proofs about the requests of the web setup page and its terminal, for   *)
(* any scenes: any version, any keys and pastes, any forms, any number of  *)
(* requests and of packets of a log.                                       *)
(*                                                                         *)
(* Every step of the robot and of the timers is of one shape, Progress: it *)
(* counts messages, settles at most one request that was pending, empties  *)
(* only the slot of a request that is no longer pending, and touches the   *)
(* terminal only as the end of a command.  A step of the user either asks  *)
(* (Asks) or leaves the requests alone (AskingNothing).                    *)
(***************************************************************************)
EXTENDS RtsRequests, SequenceTheorems, WellFoundedInduction, TLAPS

-----------------------------------------------------------------------------
(* Least and greatest elements.                                             *)
\* A set of naturals has a least element, and Min is it.
LEMMA MinOf ==
    ASSUME NEW S, S \subseteq Nat, S # {}
    PROVE  Min(S) \in S /\ \A y \in S : Min(S) <= y
<1>1. PICK x \in S : \A y \in S : <<y, x>> \notin OpToRel(<, Nat)
  BY WFMin, NatLessThanWellFounded, Zenon
<1>2. \A y \in S : x <= y
  <2>1. \A y \in S : ~(y < x) BY <1>1, Zenon DEF OpToRel
  <2>. QED BY <2>1
<1>. QED BY <1>2 DEF Min

\* A set below a bound has a greatest element, and Max is it.
LEMMA MaxOf ==
    ASSUME NEW n \in Nat, NEW S, S \subseteq 0..n, S # {}
    PROVE  Max(S) \in S /\ \A y \in S : y <= Max(S)
<1> DEFINE T == {n - x : x \in S}
<1>1. T \subseteq Nat /\ T # {}
  <2>1. \A x \in S : n - x \in Nat OBVIOUS
  <2>. QED BY <2>1
<1>2. Min(T) \in T /\ \A y \in T : Min(T) <= y BY <1>1, MinOf
<1>3. PICK x \in S : Min(T) = n - x BY <1>2
<1>4. \A y \in S : x >= y BY <1>2, <1>3
<1>5. Max(S) \in S /\ \A y \in S : Max(S) >= y BY <1>4 DEF Max
<1>. QED BY <1>5

\* Alt-Left and Alt-Right keep the cursor within the line.
LEMMA WordsMove ==
    ASSUME NEW C, NEW l \in Seq(C), NEW p \in 0..Len(l)
    PROVE  WordLeft(l, p) \in 0..Len(l) /\ WordRight(l, p) \in 0..Len(l)
<1> DEFINE Back(q, stop) == Max({0} \cup {i \in 0..q : (CharAt(l, i) = Blank) = stop})
           Ahead(q, stop) == Min({Len(l)} \cup
                  {i \in q..(Len(l) - 1) : (CharAt(l, i) = Blank) = stop})
<1>0. Len(l) \in Nat /\ p \in Nat /\ p <= Len(l) OBVIOUS
<1>1. ASSUME NEW q \in Nat, NEW stop \in BOOLEAN PROVE Back(q, stop) \in 0..q
  <2> DEFINE S == {0} \cup {i \in 0..q : (CharAt(l, i) = Blank) = stop}
  <2>1. S \subseteq 0..q /\ S # {} OBVIOUS
  <2> HIDE DEF S
  <2>2. Max(S) \in 0..q BY <2>1, MaxOf
  <2>. QED BY <2>2 DEF S
<1>2. ASSUME NEW q \in Nat, NEW stop \in BOOLEAN PROVE Ahead(q, stop) \in 0..Len(l)
  <2> DEFINE S == {Len(l)} \cup {i \in q..(Len(l) - 1) : (CharAt(l, i) = Blank) = stop}
  <2>1. S \subseteq Nat /\ S # {} /\ Len(l) \in S BY <1>0
  <2> HIDE DEF S
  <2>2. Min(S) \in Nat /\ Min(S) <= Len(l) BY <2>1, MinOf
  <2>3. Min(S) \in 0..Len(l) BY <1>0, <2>2
  <2>. QED BY <2>3 DEF S
<1>3. WordRight(l, p) = Ahead(Ahead(p, TRUE), FALSE) BY DEF WordRight
<1>4. WordLeft(l, p) =
          IF p = 0 THEN 0
          ELSE IF Back(Back(p - 1, FALSE), TRUE) # 0 \/ CharAt(l, 0) = Blank
               THEN Back(Back(p - 1, FALSE), TRUE) + 1
               ELSE Back(Back(p - 1, FALSE), TRUE)
  BY DEF WordLeft
<1> HIDE DEF Back, Ahead
<1>5. WordRight(l, p) \in 0..Len(l)
  <2> DEFINE a == Ahead(p, TRUE)
  <2>1. a \in 0..Len(l) BY <1>0, <1>2
  <2>2. WordRight(l, p) = Ahead(a, FALSE) BY <1>3
  <2> HIDE DEF a
  <2>3. a \in Nat BY <2>1
  <2>. QED BY <1>2, <2>2, <2>3
<1>6. WordLeft(l, p) \in 0..Len(l)
  <2>1. CASE p = 0 BY <1>0, <1>4, <2>1
  <2>2. CASE p # 0
    <3> DEFINE b == Back(p - 1, FALSE)
               c == Back(b, TRUE)
    <3>1. p - 1 \in Nat BY <1>0, <2>2
    <3>2. b \in 0..(p - 1) BY <1>1, <3>1
    <3>3. WordLeft(l, p) = IF p = 0 THEN 0
                           ELSE IF c # 0 \/ CharAt(l, 0) = Blank THEN c + 1 ELSE c
      BY <1>4
    <3> HIDE DEF b
    <3>4. b \in Nat BY <3>2
    <3>5. c \in 0..b BY <1>1, <3>4
    <3> HIDE DEF c
    <3>6. c \in 0..(p - 1) BY <3>1, <3>2, <3>5
    <3>. QED BY <1>0, <2>2, <3>3, <3>6
  <2>. QED BY <2>1, <2>2
<1>. QED BY <1>5, <1>6

-----------------------------------------------------------------------------
(* The terminal: besides TerminalTypeOK, lines are made of what was typed.  *)
Characters == scene.keys \cup UNION {Range(text) : text \in scene.pastes}
TermInv ==
    /\ line \in Seq(Characters) /\ history \in Seq(Seq(Characters))
    /\ TerminalTypeOK

\* A key or a paste goes in at the cursor.
LEMMA Inserts ==
    ASSUME TermInv, NEW text \in Seq(Characters), Insert(text), UNCHANGED scene
    PROVE  TermInv'
<1> DEFINE before == SubSeq(line, 1, pos)
           after == SubSeq(line, pos + 1, Len(line))
<1>1. pos \in 0..Len(line) /\ line \in Seq(Characters) BY DEF TermInv, TerminalTypeOK
<1>2. before \in Seq(Characters) /\ Len(before) = pos
  BY <1>1, SubSeqProperties
<1>3. after \in Seq(Characters) /\ Len(after) = Len(line) - pos
  BY <1>1, SubSeqProperties
<1>4. line' = (before \o text) \o after BY Zenon DEF Insert, Rewrite
<1> HIDE DEF before, after
<1>5. line' \in Seq(Characters) /\ Len(line') = pos + Len(text) + (Len(line) - pos)
  BY <1>2, <1>3, <1>4, ConcatProperties
<1>6. Len(text) \in Nat /\ Len(line) \in Nat BY <1>1
<1>7. pos' \in 0..Len(line')
  <2>1. pos' = pos + Len(text) BY Zenon DEF Insert, Rewrite
  <2>. QED BY <1>1, <1>5, <1>6, <2>1
<1>8. UNCHANGED <<history, historyPos, editing>> BY Zenon DEF Insert, Rewrite
<1>9. Characters' = Characters BY DEF Characters
<1>. QED BY <1>5, <1>7, <1>8, <1>9 DEF TermInv, TerminalTypeOK

\* What is left of the line when a part of it is cut out.
LEMMA Cuts ==
    ASSUME TermInv, NEW from \in 0..Len(line), NEW to \in from..Len(line)
    PROVE  Cut(from, to) \in Seq(Characters) /\ Len(Cut(from, to)) = Len(line) - (to - from)
<1> DEFINE before == SubSeq(line, 1, from)
           after == SubSeq(line, to + 1, Len(line))
<1>1. line \in Seq(Characters) BY DEF TermInv
<1>2. before \in Seq(Characters) /\ Len(before) = from BY <1>1, SubSeqProperties
<1>3. after \in Seq(Characters) /\ Len(after) = Len(line) - to
  BY <1>1, SubSeqProperties
<1>4. Cut(from, to) = before \o after BY DEF Cut
<1> HIDE DEF before, after
<1>5. before \o after \in Seq(Characters) /\ Len(before \o after) = Len(before) + Len(after)
  BY <1>2, <1>3, ConcatProperties
<1>6. from + (Len(line) - to) = Len(line) - (to - from) BY <1>1
<1>. QED BY <1>2, <1>3, <1>4, <1>5, <1>6

\* Every key keeps the terminal's invariant.
LEMMA Presses ==
    ASSUME TermInv, NEW key \in scene.keys, Press(key), UNCHANGED scene
    PROVE  TermInv'
<1>1. /\ line \in Seq(Characters) /\ history \in Seq(Seq(Characters))
      /\ pos \in 0..Len(line) /\ historyPos \in 0..Len(history) /\ Len(line) \in Nat
      /\ Characters' = Characters
  BY DEF TermInv, TerminalTypeOK, Characters
<1>2. ASSUME NEW p \in 0..Len(line), MoveTo(p) PROVE TermInv'
  BY <1>1, <1>2 DEF TermInv, TerminalTypeOK, MoveTo
<1>3. ASSUME NEW h \in 0..(Len(history) - 1), Recall(h) PROVE TermInv'
  <2>1. history[h + 1] \in Seq(Characters) BY <1>1
  <2>. QED BY <1>1, <1>3, <2>1 DEF TermInv, TerminalTypeOK, Recall
<1>4. ASSUME NEW from \in 0..(Len(line) - 1), Rewrite(Cut(from, from + 1), from)
      PROVE  TermInv'
  <2>1. from \in 0..Len(line) /\ from + 1 \in from..Len(line) BY <1>1
  <2>2. Cut(from, from + 1) \in Seq(Characters)
        /\ Len(Cut(from, from + 1)) = Len(line) - ((from + 1) - from)
    BY <2>1, Cuts
  <2>3. Len(line) - ((from + 1) - from) = Len(line) - 1 BY <1>1
  <2>. QED BY <1>1, <1>4, <2>2, <2>3 DEF TermInv, TerminalTypeOK, Rewrite
<1>5. \/ \E p \in 0..Len(line) : MoveTo(p)
      \/ \E h \in 0..(Len(history) - 1) : Recall(h)
      \/ \E from \in 0..(Len(line) - 1) : Rewrite(Cut(from, from + 1), from)
      \/ Insert(<<key>>)
  <2>1. WordLeft(line, pos) \in 0..Len(line) /\ WordRight(line, pos) \in 0..Len(line)
    BY <1>1, WordsMove
  <2>2. CASE key = "Alt-Left"
    <3>1. MoveTo(WordLeft(line, pos)) BY <2>2 DEF Press
    <3>. QED BY <2>1, <3>1
  <2>3. CASE key = "Alt-Right"
    <3>1. MoveTo(WordRight(line, pos)) BY <2>3 DEF Press
    <3>. QED BY <2>1, <3>1
  <2>4. CASE key = "Ctrl-a"
    <3>1. MoveTo(0) BY <2>4 DEF Press
    <3>. QED BY <1>1, <3>1
  <2>5. CASE key = "Ctrl-e"
    <3>1. MoveTo(Len(line)) BY <2>5 DEF Press
    <3>. QED BY <1>1, <3>1
  <2>6. CASE key = "ArrowLeft"
    <3>1. pos > 0 /\ MoveTo(pos - 1) BY <2>6 DEF Press
    <3>2. pos - 1 \in 0..Len(line) BY <1>1, <3>1
    <3>. QED BY <3>1, <3>2
  <2>7. CASE key = "ArrowRight"
    <3>1. pos < Len(line) /\ MoveTo(pos + 1) BY <2>7 DEF Press
    <3>2. pos + 1 \in 0..Len(line) BY <1>1, <3>1
    <3>. QED BY <3>1, <3>2
  <2>8. CASE key = "ArrowUp"
    <3>1. historyPos # 0 /\ Recall(historyPos - 1) BY <2>8 DEF Press
    <3>2. historyPos - 1 \in 0..(Len(history) - 1) BY <1>1, <3>1
    <3>. QED BY <3>1, <3>2
  <2>9. CASE key = "ArrowDown"
    <3>1. historyPos < Len(history) - 1 /\ Recall(historyPos + 1) BY <2>9 DEF Press
    <3>2. historyPos + 1 \in 0..(Len(history) - 1) BY <1>1, <3>1
    <3>. QED BY <3>1, <3>2
  <2>10. CASE key = "Delete"
    <3>1. pos < Len(line) /\ Rewrite(Cut(pos, pos + 1), pos) BY <2>10 DEF Press
    <3>2. pos \in 0..(Len(line) - 1) BY <1>1, <3>1
    <3>. QED BY <3>1, <3>2
  <2>11. CASE key = "Backspace"
    <3>1. pos - 1 \in 0..(Len(line) - 1) /\ Rewrite(Cut(pos - 1, pos), pos - 1)
      BY <1>1, <2>11 DEF Press
    <3>2. pos = (pos - 1) + 1 BY <1>1
    <3>. QED BY <3>1, <3>2
  <2>12. CASE key \notin {"Alt-Left", "Alt-Right", "Ctrl-a", "Ctrl-e", "ArrowLeft",
                          "ArrowRight", "ArrowUp", "ArrowDown", "Delete", "Backspace"}
    BY <2>12 DEF Press
  <2>. QED BY <2>2, <2>3, <2>4, <2>5, <2>6, <2>7, <2>8, <2>9, <2>10, <2>11, <2>12
<1>6. CASE Insert(<<key>>)
  <2>1. <<key>> \in Seq(Characters) BY DEF Characters
  <2>. QED BY <1>6, <2>1, Inserts
<1>. QED BY <1>2, <1>3, <1>4, <1>5, <1>6

\* So does the end of a line, however it is run.
LEMMA Runs ==
    ASSUME TermInv, UNCHANGED scene,
           NewLine \/ RunBuiltIn \/ RunThrows \/ RunOther(TRUE) \/ RunOther(FALSE)
    PROVE  TermInv'
<1>1. /\ line \in Seq(Characters) /\ history \in Seq(Seq(Characters))
      /\ pos \in 0..Len(line) /\ historyPos \in 0..Len(history) /\ editing \in BOOLEAN
      /\ Characters' = Characters
  BY DEF TermInv, TerminalTypeOK, Characters
<1>2. Append(history, line) \in Seq(Seq(Characters))
      /\ Len(Append(history, line)) \in 0..Len(Append(history, line))
  <2>1. Append(history, line) \in Seq(Seq(Characters)) BY <1>1, AppendProperties
  <2>. QED BY <2>1, LenProperties
<1>3. <<>> \in Seq(Characters) /\ Len(<<>>) = 0 /\ Len(history) \in Nat BY <1>1
<1>4. CASE NewLine
  BY <1>1, <1>3, <1>4 DEF NewLine, NewLineAfter, TermInv, TerminalTypeOK
<1>5. CASE RunBuiltIn
  <2>1. history' = Append(history, line) /\ NewLineAfter(history')
    BY <1>5, Zenon DEF RunBuiltIn, InsertHistory
  <2>. QED BY <1>1, <1>2, <1>3, <2>1 DEF NewLineAfter, TermInv, TerminalTypeOK
<1>6. CASE RunThrows BY <1>1, <1>6 DEF RunThrows, TermInv, TerminalTypeOK
<1>7. CASE RunOther(TRUE)
  BY <1>1, <1>2, <1>3, <1>7 DEF RunOther, InsertHistory, NewLineAfter, TermInv, TerminalTypeOK
<1>8. CASE RunOther(FALSE)
  BY <1>1, <1>2, <1>8 DEF RunOther, InsertHistory, TermInv, TerminalTypeOK
<1>. QED BY <1>4, <1>5, <1>6, <1>7, <1>8

-----------------------------------------------------------------------------
(* The tables of RtsHandlers.                                               *)
\* What is needed of the tables of the five versions: no request has the empty
\* key, and no log is answered by the class of the answer alone.
LEMMA TablesOf ==
    ASSUME NEW w \in Versions
    PROVE  "" \notin DOMAIN Requests(w) /\ "logs" \notin DOMAIN Answers(w)
<1> DEFINE Rs == {"wifi-scan", "wifi-connect", "wifi-forget", "wifi-ap", "wifi-ip",
                  "status", "ota-start", "ota-cancel", "logs"}
           As == Rs \ {"logs", "ota-start", "ota-cancel"}
           Rs3 == {"anki-auth", "connection-id"}
           As3 == {"wifi-scan", "wifi-connect", "status", "anki-auth", "sdk", "connection-id"}
<1>1. DOMAIN Requests_2 = Rs BY DEF Requests_2, Table
<1>2. DOMAIN Answers_2 = As BY DEF Answers_2, Table
<1>3. DOMAIN Requests_3 = DOMAIN Requests_2 \cup Rs3
  BY DEF Requests_3, Extended, Table
<1>4. DOMAIN Requests_4 = DOMAIN Requests_3 \cup {"sdk"}
  BY DEF Requests_4, Extended, Table
<1>5. DOMAIN Requests_5 = DOMAIN Requests_4 BY DEF Requests_5
<1>6. DOMAIN Answers_3 = DOMAIN Answers_2 \cup As3
  BY DEF Answers_3, Extended, Table
<1>7. DOMAIN Answers_4 = DOMAIN Answers_3 /\ DOMAIN Answers_5 = DOMAIN Answers_4
  BY DEF Answers_4, Answers_5
<1>8. Requests(w) \in {Requests_2, Requests_3, Requests_4, Requests_5}
  BY DEF Requests, Requests_6, Versions
<1>9. Answers(w) \in {Answers_2, Answers_3, Answers_4, Answers_5}
  BY DEF Answers, Answers_6, Versions
<1>10. "" \notin DOMAIN Requests(w)
  <2>1. "" \notin DOMAIN Requests_2 BY <1>1
  <2>2. "" \notin DOMAIN Requests_3 BY <2>1, <1>3
  <2>3. "" \notin DOMAIN Requests_4 BY <2>2, <1>4
  <2>4. "" \notin DOMAIN Requests_5 BY <2>3, <1>5
  <2>. QED BY <1>8, <2>1, <2>2, <2>3, <2>4
<1>11. "logs" \notin DOMAIN Answers(w) BY <1>2, <1>6, <1>7, <1>9
<1>. QED BY <1>10, <1>11

-----------------------------------------------------------------------------
(* The inductive invariant, in parts.                                       *)
Askers == {"terminal", "form"}
Request == [key : Keys, from : Askers, state : States, owed : Nat]

Types ==
    /\ scene \in Scenes /\ strokes \in Nat
    /\ waitForResponse \in DOMAIN Commands(v) \cup {""}
    /\ requests \in Seq(Request)
    /\ promiseKeys \in [Keys -> Nat]
    /\ \A key \in Keys : promiseKeys[key] \in Ids \cup {NoRequest}

\* The log that is received has so far the packets that the robot no longer owes.
LogFileIsPrefix ==
    (logId # NoRequest) =>
        /\ logId \in Ids /\ requests[logId].key = "logs"
        /\ (requests[logId].owed # 0) =>
               /\ requests[logId].owed \in 1..Packets
               /\ logFile = [n \in 1..(Packets - requests[logId].owed) |-> <<logId, n>>]

\* The inductive invariant.
ReqInv ==
    /\ Types /\ TermInv /\ LogFileIsPrefix
    /\ OnlyANewerRequestTakesTheSlot /\ WaitsForTheLastCommand /\ SavedLogIsWhole

-----------------------------------------------------------------------------
(* The requests, and the last of the terminal's.                            *)
Commanded == {i \in Ids : requests[i].from = "terminal"}

\* The requests are records, numbered from 1.
LEMMA IdsAre ==
    ASSUME Types
    PROVE  /\ requests \in Seq(Request) /\ Ids = 1..Len(requests) /\ Len(requests) \in Nat
           /\ \A i \in Ids : /\ requests[i].key \in Keys /\ requests[i].from \in Askers
                             /\ requests[i].state \in States /\ requests[i].owed \in Nat
                             /\ requests[i] \in Request
<1>1. requests \in Seq(Request) BY Zenon DEF Types
<1>2. Ids = 1..Len(requests) /\ Len(requests) \in Nat BY <1>1 DEF Ids
<1>3. ASSUME NEW i \in Ids PROVE requests[i] \in Request BY <1>1, <1>2
<1>4. \A q \in Request : /\ q.key \in Keys /\ q.from \in Askers
                         /\ q.state \in States /\ q.owed \in Nat
  BY DEF Request
<1>. QED BY <1>1, <1>2, <1>3, <1>4

\* The last command is one of the terminal's and none comes after it.
LEMMA LastIsCommanded ==
    ASSUME Types
    PROVE  /\ LastCommand # NoRequest => LastCommand \in Commanded
           /\ \A i \in Commanded : LastCommand \in Commanded /\ i <= LastCommand
<1>1. Len(requests) \in Nat /\ Ids = 1..Len(requests) BY IdsAre
<1>2. Commanded \subseteq 0..Len(requests) BY <1>1 DEF Commanded
<1>3. LastCommand = IF Commanded = {} THEN NoRequest ELSE Max(Commanded)
  BY DEF LastCommand, Commanded
<1> HIDE DEF Commanded
<1>4. CASE Commanded = {} BY <1>3, <1>4
<1>5. CASE Commanded # {}
  <2>1. Max(Commanded) \in Commanded /\ \A y \in Commanded : y <= Max(Commanded)
    BY <1>1, <1>2, <1>5, MaxOf
  <2>. QED BY <1>3, <1>5, <2>1
<1>. QED BY <1>4, <1>5

\* It stays the last as long as no other is given.
LEMMA SameLast ==
    ASSUME Types, Types', Commanded' = Commanded
    PROVE  LastCommand' = LastCommand
<1>1. LastCommand = IF Commanded = {} THEN NoRequest ELSE Max(Commanded)
  BY DEF LastCommand, Commanded
<1>2. LastCommand' = IF Commanded' = {} THEN NoRequest ELSE Max(Commanded')
  BY DEF LastCommand, Commanded
<1>. QED BY <1>1, <1>2

\* The requests after the robot owes request i just n messages.
Recounted(i, n) == [requests EXCEPT ![i] = [requests[i] EXCEPT !.owed = n]]

\* The requests with other counts of messages owed.
Counted(reqs) ==
    /\ reqs \in Seq(Request) /\ Len(reqs) = Len(requests)
    /\ \A i \in Ids : /\ reqs[i].key = requests[i].key
                      /\ reqs[i].from = requests[i].from
                      /\ reqs[i].state = requests[i].state

\* Sent() and SentLast() count the messages of one request.
LEMMA Counts ==
    ASSUME Types, NEW i \in Ids, requests[i].owed > 0
    PROVE  /\ Counted(Sent(i)) /\ Counted(SentLast(i))
           /\ Sent(i)[i].owed = requests[i].owed - 1 /\ SentLast(i)[i].owed = 0
           /\ \A j \in Ids \ {i} : Sent(i)[j] = requests[j] /\ SentLast(i)[j] = requests[j]
<1>1. requests \in Seq(Request) /\ i \in 1..Len(requests) /\ Ids = 1..Len(requests)
  BY IdsAre
<1>2. requests[i] \in Request /\ requests[i].owed \in Nat BY IdsAre
<1>3. ASSUME NEW n \in Nat, NEW reqs, reqs = Recounted(i, n)
      PROVE  /\ Counted(reqs) /\ reqs[i].owed = n
             /\ \A j \in Ids \ {i} : reqs[j] = requests[j]
  <2> DEFINE q == [requests[i] EXCEPT !.owed = n]
  <2>1. /\ q \in Request /\ q.key = requests[i].key /\ q.from = requests[i].from
        /\ q.state = requests[i].state /\ q.owed = n
    BY <1>2 DEF Request
  <2>2. reqs = [requests EXCEPT ![i] = q] BY <1>3 DEF Recounted
  <2> HIDE DEF q
  <2>3. reqs \in Seq(Request) /\ Len(reqs) = Len(requests)
    BY <1>1, <2>1, <2>2, ExceptSeq
  <2>4. \A j \in Ids : reqs[j] = IF j = i THEN q ELSE requests[j]
    BY <1>1, <2>2
  <2>. QED BY <2>1, <2>3, <2>4 DEF Counted
<1>4. Sent(i) = Recounted(i, requests[i].owed - 1) /\ SentLast(i) = Recounted(i, 0)
  BY <1>1 DEF Sent, SentLast, Recounted
<1>5. requests[i].owed - 1 \in Nat BY <1>2
<1>6. Counted(Sent(i)) /\ Sent(i)[i].owed = requests[i].owed - 1
      /\ \A j \in Ids \ {i} : Sent(i)[j] = requests[j]
  BY <1>3, <1>4, <1>5
<1>7. Counted(SentLast(i)) /\ SentLast(i)[i].owed = 0
      /\ \A j \in Ids \ {i} : SentLast(i)[j] = requests[j]
  BY <1>3, <1>4
<1>. QED BY <1>6, <1>7

\* One request is settled, the others are as before.
LEMMA StateSet ==
    ASSUME Types, NEW reqs, Counted(reqs), NEW i \in Ids, NEW how \in States
    PROVE  LET after == [reqs EXCEPT ![i].state = how]
           IN  /\ after \in Seq(Request) /\ Len(after) = Len(requests)
               /\ \A j \in Ids : /\ after[j].key = requests[j].key
                                 /\ after[j].from = requests[j].from
                                 /\ after[j].owed = reqs[j].owed
                                 /\ after[j].state = IF j = i THEN how ELSE requests[j].state
<1> DEFINE q == [reqs[i] EXCEPT !.state = how]
           after == [reqs EXCEPT ![i] = q]
<1>1. /\ reqs \in Seq(Request) /\ i \in 1..Len(reqs) /\ Ids = 1..Len(reqs)
      /\ Len(reqs) = Len(requests)
  BY IdsAre DEF Counted
<1>2. reqs[i] \in Request BY <1>1
<1>3. /\ q \in Request /\ q.key = reqs[i].key /\ q.from = reqs[i].from
      /\ q.owed = reqs[i].owed /\ q.state = how
  BY <1>2 DEF Request
<1>4. [reqs EXCEPT ![i].state = how] = after BY <1>1
<1> HIDE DEF q
<1>5. after \in Seq(Request) /\ Len(after) = Len(reqs) BY <1>1, <1>3, ExceptSeq
<1>6. \A j \in Ids : after[j] = IF j = i THEN q ELSE reqs[j] BY <1>1
<1> HIDE DEF after
<1>7. \A j \in Ids : /\ reqs[j].key = requests[j].key /\ reqs[j].from = requests[j].from
                     /\ reqs[j].state = requests[j].state
  BY DEF Counted
<1>8. \A j \in Ids : /\ after[j].key = requests[j].key
                     /\ after[j].from = requests[j].from
                     /\ after[j].owed = reqs[j].owed
                     /\ after[j].state = IF j = i THEN how ELSE requests[j].state
  BY <1>3, <1>6, <1>7
<1>. QED BY <1>1, <1>4, <1>5, <1>8

-----------------------------------------------------------------------------
(* The shape of a step of the robot or of a timer.                          *)
StatesStay == \A j \in Ids : requests'[j].state = requests[j].state

StateChanges(i) ==
    /\ requests[i].state = "pending" /\ requests'[i].state # "pending"
    /\ \A j \in Ids \ {i} : requests'[j].state = requests[j].state
    /\ IF requests[i].from = "terminal"
       THEN NewLine /\ waitForResponse' = ""
       ELSE UNCHANGED <<termVars, waitForResponse>>

SlotsEmpty ==
    /\ promiseKeys' \in [Keys -> Nat]
    /\ \A key \in Keys :
          \/ promiseKeys'[key] = promiseKeys[key]
          \/ /\ promiseKeys'[key] = NoRequest
             /\ promiseKeys[key] \in Ids => requests'[promiseKeys[key]].state # "pending"

Progress(reqs) ==
    /\ requests' \in Seq(Request) /\ Len(requests') = Len(requests)
    /\ \A j \in Ids : /\ requests'[j].key = requests[j].key
                      /\ requests'[j].from = requests[j].from
                      /\ requests'[j].owed = reqs[j].owed
    /\ SlotsEmpty
    /\ \/ StatesStay /\ UNCHANGED <<termVars, waitForResponse>>
       \/ \E i \in Ids : StateChanges(i)

\* A message that settles nothing.
LEMMA Quiets ==
    ASSUME Types, NEW reqs, Counted(reqs), requests' = reqs,
           UNCHANGED <<promiseKeys, termVars, waitForResponse>>
    PROVE  Progress(reqs)
<1>1. promiseKeys' \in [Keys -> Nat] /\ promiseKeys' = promiseKeys BY DEF Types
<1>2. SlotsEmpty BY <1>1 DEF SlotsEmpty
<1>3. StatesStay BY DEF StatesStay, Counted
<1>. QED BY <1>2, <1>3 DEF Progress, Counted

\* A promise that is settled, with the reactions of whoever asked.
LEMMA Reacts ==
    ASSUME Types, NEW reqs, Counted(reqs), NEW i \in Ids, NEW how \in States \ {"pending"},
           NEW resolved, requests' = [reqs EXCEPT ![i].state = how], React(i, resolved),
           requests[i].state = "pending", SlotsEmpty
    PROVE  Progress(reqs)
<1>1. /\ requests' \in Seq(Request) /\ Len(requests') = Len(requests)
      /\ \A j \in Ids : /\ requests'[j].key = requests[j].key
                        /\ requests'[j].from = requests[j].from
                        /\ requests'[j].owed = reqs[j].owed
                        /\ requests'[j].state = IF j = i THEN how ELSE requests[j].state
  BY StateSet
<1>2. StateChanges(i) BY <1>1 DEF StateChanges, React
<1>. QED BY <1>1, <1>2 DEF Progress

\* resolvePromise() and rejectPromise(), whatever the key.
LEMMA Settles ==
    ASSUME Types, NEW reqs, Counted(reqs), NEW key, NEW how \in {"resolved", "rejected"},
           Settle(key, how, reqs)
    PROVE  Progress(reqs)
<1> DEFINE i == IF key \in Keys THEN promiseKeys[key] ELSE NoRequest
<1>1. promiseKeys \in [Keys -> Nat] /\ \A k \in Keys : promiseKeys[k] \in Ids \cup {NoRequest}
  BY Zenon DEF Types
<1>2. CASE i = NoRequest
  <2>1. requests' = reqs /\ UNCHANGED <<promiseKeys, termVars, waitForResponse>>
    BY <1>2 DEF Settle
  <2>. QED BY <2>1, Quiets
<1>3. CASE i # NoRequest
  <2>1. key \in Keys /\ i = promiseKeys[key] /\ i \in Ids BY <1>1, <1>3
  <2>2. /\ promiseKeys' = [promiseKeys EXCEPT ![key] = NoRequest]
        /\ IF requests[i].state = "pending"
           THEN requests' = [reqs EXCEPT ![i].state = how] /\ React(i, how = "resolved")
           ELSE requests' = reqs /\ UNCHANGED <<termVars, waitForResponse>>
    BY <1>3, <2>1 DEF Settle
  <2>3. promiseKeys' \in [Keys -> Nat] /\ promiseKeys'[key] = NoRequest
        /\ \A k \in Keys \ {key} : promiseKeys'[k] = promiseKeys[k]
    BY <1>1, <2>1, <2>2 DEF NoRequest
  <2> HIDE DEF i
  <2>4. (requests'[i].state # "pending") => SlotsEmpty BY <2>1, <2>3 DEF SlotsEmpty
  <2>5. CASE requests[i].state = "pending"
    <3>1. requests' = [reqs EXCEPT ![i].state = how] /\ React(i, how = "resolved")
      BY <2>2, <2>5
    <3>2. how \in States \ {"pending"} BY DEF States
    <3>3. requests'[i].state = how BY <2>1, <3>1, <3>2, StateSet
    <3>4. SlotsEmpty BY <2>4, <3>2, <3>3
    <3>. QED BY <2>1, <2>5, <3>1, <3>2, <3>4, Reacts
  <2>6. CASE requests[i].state # "pending"
    <3>1. requests' = reqs /\ UNCHANGED <<termVars, waitForResponse>> BY <2>2, <2>6
    <3>2. StatesStay BY <3>1 DEF StatesStay, Counted
    <3>3. SlotsEmpty BY <2>1, <2>4, <2>6, <3>2 DEF StatesStay
    <3>. QED BY <3>1, <3>2, <3>3 DEF Progress, Counted
  <2>. QED BY <2>5, <2>6
<1>. QED BY <1>2, <1>3

\* The scene fixes the version, the keys and the characters.
LEMMA SceneKeeps ==
    ASSUME UNCHANGED scene
    PROVE  v' = v /\ Keys' = Keys /\ Request' = Request /\ Characters' = Characters
BY DEF v, Keys, Request, Characters

\* TablesOf, for the version of the scene.
LEMMA NoKeyIsEmpty ==
    ASSUME Types
    PROVE  "" \notin Keys /\ "logs" \notin DOMAIN Answers(v)
<1>1. v \in Versions BY ScenesAssumption DEF Types, v
<1>. QED BY <1>1, TablesOf DEF Keys

\* Progress keeps all of the invariant but the log.
LEMMA Progresses ==
    ASSUME Types, TermInv, OnlyANewerRequestTakesTheSlot, WaitsForTheLastCommand,
           NEW reqs, Progress(reqs), UNCHANGED <<scene, strokes>>
    PROVE  Types' /\ TermInv' /\ OnlyANewerRequestTakesTheSlot' /\ WaitsForTheLastCommand'
<1>0. v' = v /\ Keys' = Keys /\ Request' = Request BY SceneKeeps
<1>1. /\ requests' \in Seq(Request) /\ Len(requests') = Len(requests)
      /\ \A j \in Ids : /\ requests'[j].key = requests[j].key
                        /\ requests'[j].from = requests[j].from
  BY DEF Progress
<1>2. Ids' = Ids
  <2>1. Ids = 1..Len(requests) BY IdsAre
  <2>2. Ids' = 1..Len(requests') BY <1>1 DEF Ids
  <2>. QED BY <1>1, <2>1, <2>2
<1>3. waitForResponse' \in {waitForResponse, ""} BY DEF Progress, StateChanges
<1>4. \A key \in Keys : promiseKeys[key] \in Ids \cup {NoRequest} BY Zenon DEF Types
<1>5. Types'
  <2>1. promiseKeys' \in [Keys -> Nat]
        /\ \A key \in Keys : promiseKeys'[key] \in {promiseKeys[key], NoRequest}
    BY DEF Progress, SlotsEmpty
  <2>2. \A key \in Keys' : promiseKeys'[key] \in Ids' \cup {NoRequest'}
    BY <1>0, <1>2, <1>4, <2>1 DEF NoRequest
  <2>3. waitForResponse' \in DOMAIN Commands(v) \cup {""} BY <1>3 DEF Types
  <2>4. scene \in Scenes /\ strokes \in Nat BY DEF Types
  <2>5. waitForResponse' \in DOMAIN Commands(v') \cup {""} BY <1>0, <2>3
  <2>6. promiseKeys' \in [Keys' -> Nat] /\ requests' \in Seq(Request') BY <1>0, <1>1, <2>1
  <2>. QED BY <2>2, <2>4, <2>5, <2>6 DEF Types
<1>6. TermInv'
  <2>1. CASE UNCHANGED termVars
    BY <2>1, SceneKeeps DEF TermInv, TerminalTypeOK, termVars
  <2>2. CASE NewLine BY <2>2, Runs
  <2>. QED BY <2>1, <2>2 DEF Progress, StateChanges
<1>7. OnlyANewerRequestTakesTheSlot'
  <2> SUFFICES ASSUME NEW i \in Ids, requests'[i].state = "pending"
               PROVE  \/ promiseKeys'[requests'[i].key] = i
                      \/ \E j \in Ids : j > i /\ requests'[j].key = requests'[i].key
    BY <1>2 DEF OnlyANewerRequestTakesTheSlot
  <2>1. requests[i].state = "pending" BY DEF Progress, StatesStay, StateChanges
  <2>2. CASE promiseKeys[requests[i].key] = i
    <3>1. requests[i].key \in Keys BY IdsAre
    <3>2. promiseKeys'[requests[i].key] = promiseKeys[requests[i].key]
      BY <2>2, <3>1 DEF Progress, SlotsEmpty
    <3>. QED BY <1>1, <2>2, <3>2
  <2>3. CASE \E j \in Ids : j > i /\ requests[j].key = requests[i].key
    BY <1>1, <2>3
  <2>. QED BY <2>1, <2>2, <2>3 DEF OnlyANewerRequestTakesTheSlot
<1>8. WaitsForTheLastCommand'
  <2> SUFFICES ASSUME waitForResponse' \in Keys
               PROVE  /\ LastCommand' # NoRequest
                      /\ requests'[LastCommand'].key = waitForResponse'
                      /\ requests'[LastCommand'].state \in {"pending", "failed"}
    BY <1>0 DEF WaitsForTheLastCommand, NoRequest
  <2>1. waitForResponse' = waitForResponse BY <1>3, NoKeyIsEmpty
  <2>2. /\ LastCommand # NoRequest
        /\ requests[LastCommand].key = waitForResponse
        /\ requests[LastCommand].state \in {"pending", "failed"}
    BY <2>1 DEF WaitsForTheLastCommand
  <2>3. Commanded' = Commanded BY <1>1, <1>2 DEF Commanded
  <2>4. LastCommand' = LastCommand BY <1>5, <2>3, SameLast
  <2>5. LastCommand \in Ids /\ requests[LastCommand].from = "terminal"
    BY <2>2, LastIsCommanded DEF Commanded
  <2>6. requests'[LastCommand].state = requests[LastCommand].state
    <3>1. ASSUME NEW i \in Ids, StateChanges(i) PROVE i # LastCommand
      BY <2>1, <2>5, <3>1, NoKeyIsEmpty DEF StateChanges
    <3>. QED BY <2>5, <3>1 DEF Progress, StatesStay, StateChanges
  <2>. QED BY <1>1, <2>1, <2>2, <2>4, <2>5, <2>6
<1>. QED BY <1>5, <1>6, <1>7, <1>8

\* A progress that changes the line has ended a command.
LEMMA ProgressLeavesTheLine ==
    ASSUME NEW reqs, Progress(reqs), line' # line
    PROVE  \E i \in Ids : /\ requests[i].from = "terminal"
                          /\ requests[i].state = "pending"
                          /\ requests'[i].state # "pending"
BY DEF Progress, StateChanges, termVars

-----------------------------------------------------------------------------
(* The steps.                                                               *)
\* The log invariants hold on where the log is left alone or its request dropped.
LEMMA LogStays ==
    ASSUME LogFileIsPrefix, SavedLogIsWhole, UNCHANGED <<logId, logFile, saved>>,
           \A i \in Ids : /\ i \in Ids' /\ requests'[i].key = requests[i].key
                          /\ requests[i].key = "logs" =>
                                requests'[i].owed \in {requests[i].owed, 0}
    PROVE  LogFileIsPrefix' /\ SavedLogIsWhole'
<1>1. LogFileIsPrefix'
  <2>1. CASE logId = NoRequest BY <2>1 DEF LogFileIsPrefix, NoRequest
  <2>2. CASE logId # NoRequest
    <3>1. /\ logId \in Ids /\ requests[logId].key = "logs"
          /\ (requests[logId].owed # 0) =>
               /\ requests[logId].owed \in 1..Packets
               /\ logFile = [n \in 1..(Packets - requests[logId].owed) |-> <<logId, n>>]
      BY <2>2 DEF LogFileIsPrefix
    <3>2. /\ logId \in Ids' /\ requests'[logId].key = "logs"
          /\ requests'[logId].owed \in {requests[logId].owed, 0}
      BY <3>1
    <3>3. CASE requests'[logId].owed = 0 BY <3>2, <3>3 DEF LogFileIsPrefix
    <3>4. CASE requests'[logId].owed = requests[logId].owed
      BY <3>1, <3>2, <3>4 DEF LogFileIsPrefix
    <3>. QED BY <3>2, <3>3, <3>4
  <2>. QED BY <2>1, <2>2
<1>2. SavedLogIsWhole' BY DEF SavedLogIsWhole
<1>. QED BY <1>1, <1>2

\* A new request takes the slot of its key; from the terminal, it is the last.
LEMMA Asks ==
    ASSUME ReqInv, NEW key \in Keys, NEW from \in Askers, NEW n, Ask(key, from, n),
           UNCHANGED <<scene, logId, logFile, saved>>, strokes' \in Nat, TermInv',
           \/ from = "form" /\ UNCHANGED waitForResponse
           \/ from = "terminal" /\ waitForResponse' = key /\ key \in DOMAIN Commands(v)
    PROVE  ReqInv'
<1>0. v' = v /\ Keys' = Keys /\ Request' = Request BY SceneKeeps
<1> DEFINE throws == SendThrows(v, key, n)
           new == [key |-> key, from |-> from,
                   state |-> IF throws THEN "failed" ELSE "pending",
                   owed |-> IF throws \/ ~up THEN 0 ELSE Owed(key)]
           id == Len(requests) + 1
<1>1. /\ requests' = Append(requests, new)
      /\ promiseKeys' = [promiseKeys EXCEPT ![key] = Len(requests')]
  BY DEF Ask
<1>2. /\ new \in Request /\ new.key = key /\ new.from = from
      /\ new.state \in {"pending", "failed"}
  <2>1. Owed(key) \in Nat BY PacketsAssumption DEF Owed
  <2>. QED BY <2>1 DEF Request, States
<1> HIDE DEF new
<1>3. /\ requests \in Seq(Request) /\ Ids = 1..Len(requests) /\ Len(requests) \in Nat
  BY IdsAre DEF ReqInv
<1>4. requests' \in Seq(Request) /\ Len(requests') = id
      /\ requests'[id] = new /\ \A i \in Ids : requests'[i] = requests[i]
  BY <1>1, <1>2, <1>3, AppendProperties
<1>5. Ids' = 1..id /\ Ids' = Ids \cup {id} /\ id \in Nat /\ \A i \in Ids : i < id
  <2>1. Ids' = 1..id BY <1>4 DEF Ids
  <2>. QED BY <1>3, <2>1
<1> HIDE DEF id
<1>6. Types'
  <2>1. promiseKeys \in [Keys -> Nat] /\ \A k \in Keys : promiseKeys[k] \in Ids \cup {NoRequest}
    BY Zenon DEF ReqInv, Types
  <2>2. promiseKeys' = [promiseKeys EXCEPT ![key] = id] BY <1>1, <1>4
  <2>3. promiseKeys' \in [Keys' -> Nat] BY <1>0, <1>5, <2>1, <2>2
  <2>4. \A k \in Keys' : promiseKeys'[k] \in Ids' \cup {NoRequest'}
    BY <1>0, <1>5, <2>1, <2>2 DEF NoRequest
  <2>5. waitForResponse' \in DOMAIN Commands(v') \cup {""} BY <1>0 DEF ReqInv, Types
  <2>6. scene' \in Scenes BY DEF ReqInv, Types
  <2>7. requests' \in Seq(Request') BY <1>0, <1>4
  <2>. QED BY <2>3, <2>4, <2>5, <2>6, <2>7 DEF Types
<1>7. OnlyANewerRequestTakesTheSlot'
  <2> SUFFICES ASSUME NEW i \in Ids', requests'[i].state = "pending"
               PROVE  \/ promiseKeys'[requests'[i].key] = i
                      \/ \E j \in Ids' : j > i /\ requests'[j].key = requests'[i].key
    BY DEF OnlyANewerRequestTakesTheSlot
  <2>0. promiseKeys \in [Keys -> Nat] BY DEF ReqInv, Types
  <2>1. promiseKeys'[key] = id BY <1>1, <1>4, <2>0
  <2>2. CASE i = id BY <1>2, <1>4, <2>1, <2>2
  <2>3. CASE i \in Ids
    <3>1. requests'[i] = requests[i] /\ requests[i].key \in Keys
      BY <1>4, <2>3, IdsAre DEF ReqInv
    <3>2. CASE requests[i].key = key
      <4>1. id \in Ids' /\ id > i BY <1>5, <2>3
      <4>2. requests'[id].key = requests'[i].key BY <1>2, <1>4, <3>1, <3>2
      <4>. QED BY <4>1, <4>2
    <3>3. CASE requests[i].key # key
      <4>1. promiseKeys'[requests[i].key] = promiseKeys[requests[i].key]
        BY <1>1, <2>0, <3>1, <3>3
      <4>2. \/ promiseKeys[requests[i].key] = i
            \/ \E j \in Ids : j > i /\ requests[j].key = requests[i].key
        BY <2>3, <3>1 DEF ReqInv, OnlyANewerRequestTakesTheSlot
      <4>. QED BY <1>4, <1>5, <3>1, <4>1, <4>2
    <3>. QED BY <3>2, <3>3
  <2>. QED BY <1>5, <2>2, <2>3
<1>8. WaitsForTheLastCommand'
  <2>1. CASE from = "form" /\ UNCHANGED waitForResponse
    <3> SUFFICES ASSUME waitForResponse \in Keys
                 PROVE  /\ LastCommand' # NoRequest
                        /\ requests'[LastCommand'].key = waitForResponse'
                        /\ requests'[LastCommand'].state \in {"pending", "failed"}
      BY <1>0, <2>1 DEF WaitsForTheLastCommand, NoRequest
    <3>1. /\ LastCommand # NoRequest
          /\ requests[LastCommand].key = waitForResponse
          /\ requests[LastCommand].state \in {"pending", "failed"}
      BY DEF ReqInv, WaitsForTheLastCommand
    <3>2. Commanded' = Commanded
      BY <1>2, <1>4, <1>5, <2>1 DEF Commanded
    <3>3. LastCommand' = LastCommand BY <1>6, <3>2, SameLast DEF ReqInv
    <3>4. LastCommand \in Ids BY <3>1, LastIsCommanded DEF ReqInv, Commanded
    <3>5. requests'[LastCommand] = requests[LastCommand] BY <1>4, <3>4
    <3>. QED BY <2>1, <3>1, <3>3, <3>5
  <2>2. CASE from = "terminal" /\ waitForResponse' = key
    <3>1. id \in Commanded' BY <1>2, <1>4, <1>5, <2>2 DEF Commanded
    <3>2. LastCommand' = Max(Commanded')
      BY <3>1 DEF LastCommand, Commanded
    <3>3. Commanded' \subseteq 1..id /\ Commanded' \subseteq 0..id
      BY <1>5 DEF Commanded
    <3>4. Max(Commanded') \in Commanded' /\ id <= Max(Commanded')
      BY <1>5, <3>1, <3>3, MaxOf
    <3>5. LastCommand' \in 1..id /\ id <= LastCommand' BY <3>2, <3>3, <3>4
    <3>6. LastCommand' = id /\ id # 0 BY <1>5, <3>5
    <3>. QED BY <1>2, <1>4, <2>2, <3>6 DEF WaitsForTheLastCommand, NoRequest
  <2>. QED BY <2>1, <2>2
<1>9. LogFileIsPrefix' /\ SavedLogIsWhole'
  <2>1. LogFileIsPrefix /\ SavedLogIsWhole BY DEF ReqInv
  <2>2. \A i \in Ids : /\ i \in Ids' /\ requests'[i].key = requests[i].key
                       /\ requests[i].key = "logs" =>
                             requests'[i].owed \in {requests[i].owed, 0}
    BY <1>4, <1>5
  <2>. QED BY <2>1, <2>2, LogStays
<1>. QED BY <1>6, <1>7, <1>8, <1>9 DEF ReqInv

\* A step of the user that asks nothing.
LEMMA AskingNothing ==
    ASSUME ReqInv, UNCHANGED <<scene, requests, promiseKeys, logId, logFile, saved>>,
           strokes' \in Nat, TermInv',
           \/ waitForResponse' \in {waitForResponse, ""}
           \/ waitForResponse' \in DOMAIN Commands(v) \ Keys
    PROVE  ReqInv'
<1>0. v' = v /\ Keys' = Keys /\ Request' = Request /\ Ids' = Ids
  BY SceneKeeps DEF Ids
<1>1. Types' BY <1>0, Zenon DEF ReqInv, Types, NoRequest
<1>2. OnlyANewerRequestTakesTheSlot'
  BY <1>0, Zenon DEF ReqInv, OnlyANewerRequestTakesTheSlot
<1>3. WaitsForTheLastCommand'
  <2>1. LastCommand' = LastCommand BY <1>0, Zenon DEF LastCommand, NoRequest
  <2>2. (waitForResponse' \in Keys') => waitForResponse' = waitForResponse
    BY <1>0, NoKeyIsEmpty DEF ReqInv
  <2>. QED BY <1>0, <2>1, <2>2, Zenon DEF ReqInv, WaitsForTheLastCommand, NoRequest
<1>4. LogFileIsPrefix' /\ SavedLogIsWhole'
  BY <1>0 DEF ReqInv, LogFileIsPrefix, SavedLogIsWhole, NoRequest
<1>. QED BY <1>1, <1>2, <1>3, <1>4 DEF ReqInv

\* The two parts of the invariant put together.
LEMMA ProgressesLog ==
    ASSUME ReqInv, NEW reqs, Progress(reqs), UNCHANGED <<scene, strokes>>,
           LogFileIsPrefix' /\ SavedLogIsWhole'
    PROVE  ReqInv'
BY Progresses DEF ReqInv

\* A step that neither begins nor continues a log.
LEMMA ProgressesOther ==
    ASSUME ReqInv, NEW reqs, Progress(reqs),
           UNCHANGED <<scene, strokes, logId, logFile, saved>>,
           \A i \in Ids : (requests[i].key = "logs") => reqs[i].owed \in {requests[i].owed, 0}
    PROVE  ReqInv'
<1>1. /\ requests' \in Seq(Request) /\ Len(requests') = Len(requests)
      /\ \A j \in Ids : /\ requests'[j].key = requests[j].key
                        /\ requests'[j].owed = reqs[j].owed
  BY DEF Progress
<1>2. Ids' = Ids
  <2>1. Ids = 1..Len(requests) BY IdsAre DEF ReqInv
  <2>2. Ids' = 1..Len(requests') BY <1>1 DEF Ids
  <2>. QED BY <1>1, <2>1, <2>2
<1>3. LogFileIsPrefix' /\ SavedLogIsWhole'
  <2>1. LogFileIsPrefix /\ SavedLogIsWhole BY DEF ReqInv
  <2>2. \A i \in Ids : /\ i \in Ids' /\ requests'[i].key = requests[i].key
                       /\ requests[i].key = "logs" =>
                             requests'[i].owed \in {requests[i].owed, 0}
    BY <1>1, <1>2
  <2>. QED BY <2>1, <2>2, LogStays
<1>. QED BY <1>3, ProgressesLog

\* An answer that is settled by its class.
LEMMA AnsweredProgresses ==
    ASSUME ReqInv, NEW i \in Ids, Answered(i)
    PROVE  ReqInv' /\ \E reqs : Progress(reqs)
<1>1. requests[i].owed > 0 /\ requests[i].key # "logs"
  BY NoKeyIsEmpty DEF Answered, Plain, ReqInv
<1>2. PICK key : Settle(key, "resolved", Sent(i)) BY Zenon DEF Answered
<1>3. Types BY DEF ReqInv
<1>4. Counted(Sent(i)) /\ \A j \in Ids \ {i} : Sent(i)[j] = requests[j]
  BY <1>1, <1>3, Counts
<1>5. Progress(Sent(i)) BY <1>2, <1>3, <1>4, Settles
<1>6. UNCHANGED <<scene, strokes, logId, logFile, saved>> BY Zenon DEF Answered
<1>7. \A j \in Ids : (requests[j].key = "logs") => Sent(i)[j].owed \in {requests[j].owed, 0}
  BY <1>1, <1>4
<1>. QED BY <1>5, <1>6, <1>7, ProgressesOther

\* A refusal, which goes to the key in waitForResponse.
LEMMA RefusedProgresses ==
    ASSUME ReqInv, NEW i \in Ids, Refused(i)
    PROVE  ReqInv' /\ \E reqs : Progress(reqs)
<1>1. requests[i].owed > 0 /\ Settle(waitForResponse, "rejected", SentLast(i))
      /\ UNCHANGED <<scene, strokes, logId, logFile, saved>>
  BY Zenon DEF Refused
<1>2. Types BY DEF ReqInv
<1>3. /\ Counted(SentLast(i)) /\ SentLast(i)[i].owed = 0
      /\ \A j \in Ids \ {i} : SentLast(i)[j] = requests[j]
  BY <1>1, <1>2, Counts
<1>4. Progress(SentLast(i)) BY <1>1, <1>2, <1>3, Settles
<1>5. \A j \in Ids : (requests[j].key = "logs") => SentLast(i)[j].owed \in {requests[j].owed, 0}
  BY <1>3
<1>. QED BY <1>1, <1>4, <1>5, ProgressesOther

\* The progress or the end of an update.
LEMMA OtaReportsProgresses ==
    ASSUME ReqInv, NEW i \in Ids, OtaReports(i)
    PROVE  ReqInv' /\ \E reqs : Progress(reqs)
<1>1. requests[i].owed > 0 /\ requests[i].key # "logs"
      /\ UNCHANGED <<scene, strokes, logId, logFile, saved>>
  BY DEF OtaReports
<1>2. PICK status : OtaSettles(status, Sent(i)) BY DEF OtaReports
<1>3. Types BY DEF ReqInv
<1>4. Counted(Sent(i)) /\ \A j \in Ids \ {i} : Sent(i)[j] = requests[j]
  BY <1>1, <1>3, Counts
<1>5. \/ \E key : \E how \in {"resolved", "rejected"} : Settle(key, how, Sent(i))
      \/ NothingSettled(Sent(i))
  BY <1>2, Zenon DEF OtaSettles
<1>6. Progress(Sent(i))
  <2>1. CASE NothingSettled(Sent(i)) BY <1>3, <1>4, <2>1, Quiets DEF NothingSettled
  <2>2. ASSUME NEW key, NEW how \in {"resolved", "rejected"}, Settle(key, how, Sent(i))
        PROVE  Progress(Sent(i))
    BY <1>3, <1>4, <2>2, Settles
  <2>. QED BY <1>5, <2>1, <2>2
<1>7. \A j \in Ids : (requests[j].key = "logs") => Sent(i)[j].owed \in {requests[j].owed, 0}
  BY <1>1, <1>4
<1>. QED BY <1>1, <1>6, <1>7, ProgressesOther

\* A timeout.
LEMMA TimesOutProgresses ==
    ASSUME ReqInv, NEW i \in Ids, TimesOut(i)
    PROVE  ReqInv' /\ \E reqs : Progress(reqs)
<1>1. /\ requests[i].state = "pending"
      /\ requests' = [requests EXCEPT ![i].state = "timed out"] /\ React(i, FALSE)
      /\ UNCHANGED <<scene, strokes, logId, logFile, saved, promiseKeys>>
  BY Zenon DEF TimesOut
<1>2. Types BY DEF ReqInv
<1>3. Counted(requests) BY <1>2, IdsAre DEF Counted
<1>4. SlotsEmpty
  <2>1. promiseKeys \in [Keys -> Nat] BY DEF ReqInv, Types
  <2>. QED BY <1>1, <2>1 DEF SlotsEmpty
<1>5. "timed out" \in States \ {"pending"} BY DEF States
<1>6. Progress(requests) BY <1>1, <1>2, <1>3, <1>4, <1>5, Reacts
<1>. QED BY <1>1, <1>6, ProgressesOther

\* The loss of the connection: nothing more is owed, nothing is settled.
LEMMA DisconnectedProgresses ==
    ASSUME ReqInv, Disconnected
    PROVE  ReqInv' /\ \E reqs : Progress(reqs)
<1> DEFINE reqs == [i \in Ids |-> [requests[i] EXCEPT !.owed = 0]]
<1>1. /\ requests' = reqs
      /\ UNCHANGED <<scene, strokes, waitForResponse, promiseKeys, logId, logFile,
                     saved, termVars>>
  BY Zenon DEF Disconnected
<1>2. Types BY DEF ReqInv
<1>3. Counted(reqs) /\ \A i \in Ids : reqs[i].owed = 0
  <2>1. Ids = 1..Len(requests) /\ Len(requests) \in Nat
        /\ \A i \in Ids : requests[i] \in Request
    BY <1>2, IdsAre
  <2>2. ASSUME NEW i \in Ids
        PROVE  /\ reqs[i] \in Request /\ reqs[i].owed = 0
               /\ reqs[i].key = requests[i].key /\ reqs[i].from = requests[i].from
               /\ reqs[i].state = requests[i].state
    BY <2>1 DEF Request
  <2>3. reqs \in Seq(Request) /\ Len(reqs) = Len(requests)
    <3>1. \A i \in 1..Len(requests) : [requests[i] EXCEPT !.owed = 0] \in Request
      BY <2>1, <2>2
    <3>. QED BY <2>1, <3>1
  <2> HIDE DEF reqs
  <2>. QED BY <2>2, <2>3 DEF Counted
<1> HIDE DEF reqs
<1>4. Progress(reqs) BY <1>1, <1>2, <1>3, Quiets
<1>. QED BY <1>1, <1>3, <1>4, ProgressesOther

\* A log begins, or there is none.
LEMMA LogAnnouncedProgresses ==
    ASSUME ReqInv, NEW i \in Ids, LogAnnounced(i)
    PROVE  ReqInv' /\ \E reqs : Progress(reqs)
<1>1. /\ requests[i].key = "logs" /\ requests[i].owed = Packets + 1
      /\ UNCHANGED <<scene, strokes, saved>>
  BY DEF LogAnnounced
<1>2. Types /\ LogFileIsPrefix /\ SavedLogIsWhole BY DEF ReqInv
<1>3. Packets \in Nat \ {0} /\ requests[i].owed > 0 BY <1>1, PacketsAssumption
<1>4. /\ Counted(Sent(i)) /\ Counted(SentLast(i))
      /\ Sent(i)[i].owed = requests[i].owed - 1 /\ SentLast(i)[i].owed = 0
      /\ \A j \in Ids \ {i} : Sent(i)[j] = requests[j] /\ SentLast(i)[j] = requests[j]
  BY <1>2, <1>3, Counts
<1>5. CASE logId' = i /\ logFile' = <<>> /\ NothingSettled(Sent(i))
  <2>1. requests' = Sent(i) /\ Progress(Sent(i))
    BY <1>2, <1>4, <1>5, Quiets DEF NothingSettled
  <2>2. requests'[i].key = "logs" /\ requests'[i].owed = Packets
    BY <1>1, <1>3, <1>4, <2>1 DEF Counted
  <2>3. i \in Ids'
    <3>1. Ids = 1..Len(requests) BY <1>2, IdsAre
    <3>2. Ids' = 1..Len(requests') BY <2>1 DEF Ids, Progress
    <3>. QED BY <2>1, <3>1, <3>2 DEF Progress
  <2>4. logFile' = [n \in 1..(Packets - requests'[i].owed) |-> <<i, n>>]
    <3>1. 1..(Packets - requests'[i].owed) = {} BY <1>3, <2>2
    <3>. QED BY <1>5, <3>1
  <2>5. LogFileIsPrefix' BY <1>3, <1>5, <2>2, <2>3, <2>4 DEF LogFileIsPrefix
  <2>6. SavedLogIsWhole'
    <3>1. Ids' = 1..Len(requests') BY <2>1 DEF Ids, Progress
    <3>2. Ids = 1..Len(requests) BY <1>2, IdsAre
    <3>. QED BY <1>1, <1>2, <2>1, <3>1, <3>2 DEF SavedLogIsWhole, Progress
  <2>. QED BY <1>1, <2>1, <2>5, <2>6, ProgressesLog
<1>6. CASE UNCHANGED <<logId, logFile>> /\ NothingSettled(SentLast(i))
  <2>1. Progress(SentLast(i)) BY <1>2, <1>4, <1>6, Quiets DEF NothingSettled
  <2>2. \A j \in Ids : (requests[j].key = "logs") => SentLast(i)[j].owed \in {requests[j].owed, 0}
    BY <1>4
  <2>. QED BY <1>1, <1>6, <2>1, <2>2, ProgressesOther
<1>. QED BY <1>5, <1>6 DEF LogAnnounced

\* One packet more of a log.
LEMMA PacketAppends ==
    ASSUME NEW i, NEW n \in Nat \ {0}
    PROVE  Append([m \in 1..(n - 1) |-> <<i, m>>], <<i, n>>) = [m \in 1..n |-> <<i, m>>]
<1> DEFINE before == [m \in 1..(n - 1) |-> <<i, m>>]
           after == [m \in 1..n |-> <<i, m>>]
           T == {<<i, m>> : m \in 1..n}
<1>1. before \in Seq(T) /\ Len(before) = n - 1
      /\ \A m \in 1..(n - 1) : before[m] = <<i, m>>
  OBVIOUS
<1>2. after \in Seq(T) /\ Len(after) = n /\ \A m \in 1..n : after[m] = <<i, m>> OBVIOUS
<1>3. <<i, n>> \in T OBVIOUS
<1> HIDE DEF before, after, T
<1>4. /\ Append(before, <<i, n>>) \in Seq(T) /\ Len(Append(before, <<i, n>>)) = n
      /\ Append(before, <<i, n>>)[n] = <<i, n>>
      /\ \A m \in 1..(n - 1) : Append(before, <<i, n>>)[m] = <<i, m>>
  <2>1. Len(before) + 1 = n BY <1>1
  <2>. QED BY <1>1, <1>3, <2>1, AppendProperties
<1>5. \A m \in 1..n : Append(before, <<i, n>>)[m] = after[m]
  <2>1. \A m \in 1..n : m = n \/ m \in 1..(n - 1) OBVIOUS
  <2>. QED BY <1>2, <1>4, <2>1
<1>6. Append(before, <<i, n>>) = after BY <1>2, <1>4, <1>5, SeqEqual
<1>. QED BY <1>6 DEF before, after

\* A packet of the log that is received, or of one that another has replaced.
LEMMA LogPacketProgresses ==
    ASSUME ReqInv, NEW i \in Ids, LogPacket(i)
    PROVE  ReqInv' /\ \E reqs : Progress(reqs)
<1> DEFINE n == Packets + 1 - requests[i].owed
           file == Append(logFile, <<i, n>>)
<1>1. /\ requests[i].key = "logs" /\ requests[i].owed \in 1..Packets
      /\ UNCHANGED <<scene, strokes, logId>>
  BY DEF LogPacket
<1>2. IF logId # i
      THEN UNCHANGED <<logFile, saved>> /\ NothingSettled(Sent(i))
      ELSE /\ logFile' = file
           /\ saved' = IF n = Packets THEN file ELSE saved
           /\ IF n = Packets THEN Settle("logs", "resolved", Sent(i))
              ELSE NothingSettled(Sent(i))
  BY DEF LogPacket
<1>3. Types /\ LogFileIsPrefix /\ SavedLogIsWhole BY DEF ReqInv
<1>4. Packets \in Nat \ {0} /\ requests[i].owed > 0 /\ n \in 1..Packets
  BY <1>1, PacketsAssumption
<1>5. /\ Counted(Sent(i)) /\ Sent(i)[i].owed = requests[i].owed - 1
      /\ \A j \in Ids \ {i} : Sent(i)[j] = requests[j]
  BY <1>3, <1>4, Counts
<1>6. Progress(Sent(i))
  <2>1. NothingSettled(Sent(i)) \/ Settle("logs", "resolved", Sent(i)) BY <1>2
  <2>2. CASE NothingSettled(Sent(i)) BY <1>3, <1>5, <2>2, Quiets DEF NothingSettled
  <2>3. CASE Settle("logs", "resolved", Sent(i)) BY <1>3, <1>5, <2>3, Settles
  <2>. QED BY <2>1, <2>2, <2>3
<1>7. Ids' = Ids
  <2>1. Ids = 1..Len(requests) BY <1>3, IdsAre
  <2>2. Ids' = 1..Len(requests') BY <1>6 DEF Ids, Progress
  <2>. QED BY <1>6, <2>1, <2>2 DEF Progress
<1>8. \A j \in Ids : requests'[j].key = requests[j].key /\ requests'[j].owed = Sent(i)[j].owed
  BY <1>6 DEF Progress
<1>9. CASE logId # i
  <2>1. LogFileIsPrefix' /\ SavedLogIsWhole'
    <3>1. CASE logId = NoRequest
      BY <1>1, <1>2, <1>3, <1>7, <1>9, <3>1 DEF LogFileIsPrefix, SavedLogIsWhole, NoRequest
    <3>2. CASE logId # NoRequest
      <4>1. /\ logId \in Ids /\ requests[logId].key = "logs"
            /\ (requests[logId].owed # 0) =>
                  /\ requests[logId].owed \in 1..Packets
                  /\ logFile = [k \in 1..(Packets - requests[logId].owed) |-> <<logId, k>>]
        BY <1>3, <3>2 DEF LogFileIsPrefix
      <4>2. logId \in Ids' /\ requests'[logId].key = "logs"
            /\ requests'[logId].owed = requests[logId].owed
        BY <1>5, <1>7, <1>8, <1>9, <4>1
      <4>3. UNCHANGED <<logFile, saved>> BY <1>2, <1>9
      <4>4. LogFileIsPrefix' BY <1>1, <4>1, <4>2, <4>3 DEF LogFileIsPrefix
      <4>. QED BY <1>3, <1>7, <4>3, <4>4 DEF SavedLogIsWhole
    <3>. QED BY <3>1, <3>2
  <2>. QED BY <1>1, <1>6, <2>1, ProgressesLog
<1>10. CASE logId = i
  <2>1. logFile = [k \in 1..(n - 1) |-> <<i, k>>]
    <3>1. i # NoRequest /\ requests[i].owed # 0 BY <1>3, <1>4, IdsAre DEF NoRequest
    <3>2. Packets - requests[i].owed = n - 1 BY <1>1, <1>4
    <3>. QED BY <1>3, <1>10, <3>1, <3>2 DEF LogFileIsPrefix
  <2>2. file = [k \in 1..n |-> <<i, k>>]
    <3>1. n \in Nat \ {0} BY <1>4
    <3> HIDE DEF n
    <3>2. Append([k \in 1..(n - 1) |-> <<i, k>>], <<i, n>>) = [k \in 1..n |-> <<i, k>>]
      BY <3>1, PacketAppends
    <3>. QED BY <2>1, <3>2
  <2>3. logFile' = file /\ saved' = IF n = Packets THEN file ELSE saved BY <1>2, <1>10
  <2>4. requests'[i].key = "logs" /\ requests'[i].owed = Packets - n
    BY <1>1, <1>4, <1>5, <1>8
  <2>5. LogFileIsPrefix'
    <3>1. Packets - requests'[i].owed = n BY <1>4, <2>4
    <3>2. (requests'[i].owed # 0) => requests'[i].owed \in 1..Packets BY <1>4, <2>4
    <3>3. logFile' = [k \in 1..(Packets - requests'[i].owed) |-> <<i, k>>]
      BY <2>2, <2>3, <3>1
    <3>. QED BY <1>1, <1>7, <1>10, <2>4, <3>2, <3>3 DEF LogFileIsPrefix
  <2>6. SavedLogIsWhole'
    <3>1. CASE n = Packets
      <4>1. saved' = [k \in 1..Packets |-> <<i, k>>] BY <2>2, <2>3, <3>1
      <4>. QED BY <1>7, <4>1 DEF SavedLogIsWhole
    <3>2. CASE n # Packets
      <4>1. saved' = saved BY <2>3, <3>2
      <4>. QED BY <1>3, <1>7, <4>1 DEF SavedLogIsWhole
    <3>. QED BY <3>1, <3>2
  <2>. QED BY <1>1, <1>6, <2>5, <2>6, ProgressesLog
<1>. QED BY <1>9, <1>10

\* The user's steps are counted; no other step is.
LEMMA StrokeCounts ==
    ASSUME ReqInv, Typing
    PROVE  strokes' = strokes + 1 /\ strokes \in Nat /\ strokes' \in Nat /\ UNCHANGED scene
<1>1. strokes \in Nat BY DEF ReqInv, Types
<1>2. strokes' = strokes + 1 /\ UNCHANGED scene
  BY Zenon DEF Typing, KeyPressed, Pasted, CtrlC, EnterBuiltIn, EnterRequest, EnterMissing,
     EnterQuiet, EnterLeaves, EnterUnknown, EnterAlone, Enter
<1>. QED BY <1>1, <1>2

\* The user types.
LEMMA TypingProgresses ==
    ASSUME ReqInv, Typing
    PROVE  ReqInv'
<1>1. strokes' \in Nat /\ UNCHANGED scene BY StrokeCounts
<1>2. TermInv /\ Types BY DEF ReqInv
<1>3. ASSUME NEW key \in scene.keys, KeyPressed(key) PROVE ReqInv'
  <2>1. Press(key) /\ UNCHANGED reqVars BY <1>3, Zenon DEF KeyPressed
  <2>2. TermInv' BY <1>1, <1>2, <2>1, Presses
  <2>. QED BY <1>1, <2>1, <2>2, AskingNothing DEF reqVars
<1>4. ASSUME NEW text \in scene.pastes, Pasted(text) PROVE ReqInv'
  <2>1. Insert(text) /\ UNCHANGED reqVars BY <1>4, Zenon DEF Pasted
  <2>2. text \in Seq(Range(text)) BY <1>2, ScenesAssumption DEF Types
  <2>3. Range(text) \subseteq Characters BY DEF Characters
  <2>4. text \in Seq(Characters) BY <2>2, <2>3, SeqMonotonic
  <2>5. TermInv' BY <1>1, <1>2, <2>1, <2>4, Inserts
  <2>. QED BY <1>1, <2>1, <2>5, AskingNothing DEF reqVars
<1>5. CASE CtrlC
  <2>1. NewLine /\ UNCHANGED reqVars BY <1>5, Zenon DEF CtrlC
  <2>2. TermInv' BY <1>1, <1>2, <2>1, Runs
  <2>. QED BY <1>1, <2>1, <2>2, AskingNothing DEF reqVars
<1>6. CASE EnterBuiltIn
  <2>1. RunBuiltIn /\ UNCHANGED reqVars BY <1>6, Zenon DEF EnterBuiltIn
  <2>2. TermInv' BY <1>1, <1>2, <2>1, Runs
  <2>. QED BY <1>1, <2>1, <2>2, AskingNothing DEF reqVars
<1>7. CASE EnterRequest
  <2>1. /\ Cmd \in Keys /\ Cmd \in DOMAIN Commands(v) /\ waitForResponse' = Cmd
        /\ Ask(Cmd, "terminal", Len(Args)) /\ RunOther(FALSE)
        /\ UNCHANGED <<logId, logFile, saved>>
    BY <1>7, Zenon DEF EnterRequest, Enter, HasArgs
  <2>2. TermInv' BY <1>1, <1>2, <2>1, Runs
  <2>3. "terminal" \in Askers BY DEF Askers
  <2>. QED BY <1>1, <2>1, <2>2, <2>3, Asks
<1>8. CASE EnterMissing
  <2>1. /\ Cmd \in DOMAIN Commands(v) \ Keys /\ waitForResponse' = Cmd /\ RunThrows
        /\ UNCHANGED <<requests, promiseKeys, logId, logFile, saved>>
    BY <1>8, Zenon DEF EnterMissing, Enter, HasArgs
  <2>2. TermInv' BY <1>1, <1>2, <2>1, Runs
  <2>. QED BY <1>1, <2>1, <2>2, AskingNothing
<1>9. CASE EnterQuiet \/ EnterLeaves \/ EnterUnknown \/ EnterAlone
  <2>1. RunOther(TRUE) \/ RunOther(FALSE)
    <3>1. CASE EnterQuiet
      <4>1. RunOther(waitForResponse = "") BY <3>1, Zenon DEF EnterQuiet
      <4>2. CASE waitForResponse = "" BY <4>1, <4>2 DEF RunOther
      <4>3. CASE waitForResponse # "" BY <4>1, <4>3 DEF RunOther
      <4>. QED BY <4>2, <4>3
    <3>2. CASE EnterLeaves \/ EnterUnknown \/ EnterAlone
      BY <3>2, Zenon DEF EnterLeaves, EnterUnknown, EnterAlone
    <3>. QED BY <1>9, <3>1, <3>2
  <2>2. /\ waitForResponse' \in {waitForResponse, ""}
        /\ UNCHANGED <<requests, promiseKeys, logId, logFile, saved>>
    BY <1>9, Zenon DEF EnterQuiet, EnterLeaves, EnterUnknown, EnterAlone, Enter
  <2>3. TermInv' BY <1>1, <1>2, <2>1, Runs
  <2>. QED BY <1>1, <2>2, <2>3, AskingNothing
<1>. QED BY <1>3, <1>4, <1>5, <1>6, <1>7, <1>8, <1>9 DEF Typing

\* A form asks, and leaves the line alone.
LEMMA FormAsksProgresses ==
    ASSUME ReqInv, NEW key, FormAsks(key)
    PROVE  ReqInv' /\ UNCHANGED line
<1>1. /\ key \in Keys /\ Ask(key, "form", 4)
      /\ UNCHANGED <<scene, strokes, waitForResponse, logId, logFile, saved, termVars>>
  BY Zenon DEF FormAsks
<1>2. TermInv' BY <1>1, SceneKeeps DEF ReqInv, TermInv, TerminalTypeOK, termVars
<1>3. strokes' \in Nat BY <1>1 DEF ReqInv, Types
<1>4. "form" \in Askers BY DEF Askers
<1>. QED BY <1>1, <1>2, <1>3, <1>4, Asks DEF termVars

-----------------------------------------------------------------------------
\* The invariant holds at first.
LEMMA ReqInitInv == ReqInit => ReqInv
<1> SUFFICES ASSUME ReqInit PROVE ReqInv OBVIOUS
<1>1. /\ scene \in Scenes /\ strokes = 0 /\ waitForResponse = "" /\ requests = <<>>
      /\ promiseKeys = [key \in Keys |-> NoRequest]
      /\ logId = NoRequest /\ saved = <<>> /\ TermInit
  BY DEF ReqInit
<1>2. Types
  <2>1. requests \in Seq(Request) BY <1>1, EmptySeq
  <2>2. promiseKeys \in [Keys -> Nat] /\ \A key \in Keys : promiseKeys[key] = NoRequest
    BY <1>1 DEF NoRequest
  <2>. QED BY <1>1, <2>1, <2>2 DEF Types
<1>3. TermInv
  <2>1. line = <<>> /\ history = <<>> /\ pos = 0 /\ historyPos = 0 /\ editing = TRUE
    BY <1>1 DEF TermInit
  <2>2. line \in Seq(Characters) /\ history \in Seq(Seq(Characters)) BY <2>1, EmptySeq
  <2>3. Len(line) = 0 /\ Len(history) = 0 BY <2>1, EmptySeq
  <2>. QED BY <2>1, <2>2, <2>3 DEF TermInv, TerminalTypeOK
<1>4. Ids = {}
  <2>1. Ids = 1..Len(requests) BY <1>2, IdsAre
  <2>2. Len(requests) = 0 BY <1>1, EmptySeq
  <2>. QED BY <2>1, <2>2
<1>5. WaitsForTheLastCommand BY <1>1, <1>2, NoKeyIsEmpty DEF WaitsForTheLastCommand
<1>6. OnlyANewerRequestTakesTheSlot BY <1>4 DEF OnlyANewerRequestTakesTheSlot
<1>7. LogFileIsPrefix /\ SavedLogIsWhole BY <1>1 DEF LogFileIsPrefix, SavedLogIsWhole
<1>. QED BY <1>2, <1>3, <1>5, <1>6, <1>7 DEF ReqInv

\* The steps of the robot and of the timers.
LEMMA RobotProgresses ==
    ASSUME ReqInv, (\E i \in Ids : Sends(i) \/ TimesOut(i)) \/ Disconnected
    PROVE  ReqInv' /\ \E reqs : Progress(reqs)
<1>1. ASSUME NEW i \in Ids, Sends(i) PROVE ReqInv' /\ \E reqs : Progress(reqs)
  BY <1>1, AnsweredProgresses, RefusedProgresses, OtaReportsProgresses,
     LogAnnouncedProgresses, LogPacketProgresses DEF Sends
<1>2. ASSUME NEW i \in Ids, TimesOut(i) PROVE ReqInv' /\ \E reqs : Progress(reqs)
  BY <1>2, TimesOutProgresses
<1>. QED BY <1>1, <1>2, DisconnectedProgresses

\* Every step keeps the invariant.
LEMMA ReqStepInv == ReqInv /\ [ReqNext]_vars => ReqInv'
<1> SUFFICES ASSUME ReqInv, [ReqNext]_vars PROVE ReqInv' OBVIOUS
<1>1. CASE Typing BY <1>1, TypingProgresses
<1>2. CASE \E key \in scene.forms : FormAsks(key) BY <1>2, FormAsksProgresses
<1>3. CASE (\E i \in Ids : Sends(i) \/ TimesOut(i)) \/ Disconnected
  BY <1>3, RobotProgresses
<1>4. CASE UNCHANGED vars
  <2>1. UNCHANGED <<scene, strokes, requests, promiseKeys, logId, logFile, saved,
                    waitForResponse, termVars>>
    BY <1>4, Zenon DEF vars, reqVars
  <2>2. TermInv' BY <2>1, SceneKeeps DEF ReqInv, TermInv, TerminalTypeOK, termVars
  <2>3. strokes' \in Nat BY <2>1 DEF ReqInv, Types
  <2>. QED BY <2>1, <2>2, <2>3, AskingNothing
<1>. QED BY <1>1, <1>2, <1>3, <1>4 DEF ReqNext

\* It holds in every state.
LEMMA ReqInvAlways == ReqSpec => []ReqInv
BY ReqInitInv, ReqStepInv, PTL DEF ReqSpec

\* It contains the type invariant.
LEMMA ReqTypes == ReqInv => ReqTypeOK
BY IdsAre DEF ReqInv, Types, TermInv, ReqTypeOK

-----------------------------------------------------------------------------
(* The theorems.                                                            *)
\* The types of the requests and of the terminal: each slot holds a request that
\* was made, waitForResponse a command, and the cursor stays within the line and
\* the history (promiseKeys, waitForResponse, pterm_current_pos).
THEOREM RequestTypesAlways == ReqSpec => []ReqTypeOK
BY ReqInvAlways, ReqTypes, PTL

\* A pending request loses its slot only to a newer one of its key, whatever is
\* answered, refused, timed out or lost (storePromiseMethods, resolvePromise,
\* rejectPromise).
THEOREM OnlyANewerRequestTakesTheSlotAlways ==
    ReqSpec => []OnlyANewerRequestTakesTheSlot
<1>1. ReqInv => OnlyANewerRequestTakesTheSlot BY DEF ReqInv
<1>. QED BY <1>1, ReqInvAlways, PTL

\* waitForResponse, by which receive() tells whom a refusal is for, is the key of
\* the last command, which then has not been answered.
THEOREM WaitsForTheLastCommandAlways == ReqSpec => []WaitsForTheLastCommand
<1>1. ReqInv => WaitsForTheLastCommand BY DEF ReqInv
<1>. QED BY <1>1, ReqInvAlways, PTL

\* A log that the user is given is whole, in order and of one request, however
\* many logs the robot sends at the same time (receive(): RtsLogResponse and
\* RtsFileDownload).
THEOREM SavedLogIsWholeAlways == ReqSpec => []SavedLogIsWhole
<1>1. ReqInv => SavedLogIsWhole BY DEF ReqInv
<1>. QED BY <1>1, ReqInvAlways, PTL

\* What is being typed is lost only to the user's own keys and to the end of a
\* command of the terminal (React: cliResolve and newLine).
THEOREM AnswersLeaveTheLineAlways == ReqSpec => AnswersLeaveTheLine
<1> DEFINE Ends == \E i \in Ids : /\ requests[i].from = "terminal"
                                  /\ requests[i].state = "pending"
                                  /\ requests'[i].state # "pending"
           Clears == line' = <<>> /\ line # <<>> /\ strokes' = strokes
<1>1. ReqInv /\ [ReqNext]_vars => [Clears => Ends]_vars
  <2> SUFFICES ASSUME ReqInv, ReqNext, Clears PROVE Ends
    BY DEF vars, termVars
  <2>1. CASE Typing
    <3>1. strokes' = strokes + 1 /\ strokes \in Nat BY <2>1, StrokeCounts
    <3>. QED BY <3>1
  <2>2. CASE \E key \in scene.forms : FormAsks(key) BY <2>2, FormAsksProgresses
  <2>3. CASE (\E i \in Ids : Sends(i) \/ TimesOut(i)) \/ Disconnected
    BY <2>3, RobotProgresses, ProgressLeavesTheLine
  <2>. QED BY <2>1, <2>2, <2>3 DEF ReqNext
<1>. QED BY <1>1, ReqInvAlways, PTL DEF ReqSpec, AnswersLeaveTheLine
=============================================================================
