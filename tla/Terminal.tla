------------------------------ MODULE Terminal ------------------------------
(***************************************************************************)
(* The terminal of the web setup page (pterm.js): a line editor with a     *)
(* history, and the commands it runs by itself.  A line is a sequence of   *)
(* characters; a whole word may stand for a character where its letters do *)
(* not matter.  What a command typed for the robot does is the business of *)
(* the modules that extend this one.                                       *)
(***************************************************************************)
EXTENDS Integers, Sequences, SequencesExt

CONSTANT NameChars   \* characters of the name of a variable

VARIABLES
    line, pos,            \* pterm_current_line and _pos, the cursor
    history, historyPos,  \* pterm_history_list and _pos
    env,                  \* pterm_env: a function from names to values
    editing               \* pterm_editing: a prompt follows the last command

termVars == <<line, pos, history, historyPos, env, editing>>

Blank == " "
Quotes == {"\"", "'"}
CharAt(l, i) == l[i + 1]     \* as in JavaScript, for i in 0..Len(l)-1

-----------------------------------------------------------------------------
(* Editing.                                                                 *)
\* Alt-Left: over blanks, then to just right of the blank before.
WordLeft(l, p) ==
    LET Back(q, stop) == Max({0} \cup {i \in 0..q : (CharAt(l, i) = Blank) = stop})
        q == Back(Back(p - 1, FALSE), TRUE)
    IN  IF p = 0 THEN 0
        ELSE IF q # 0 \/ CharAt(l, 0) = Blank THEN q + 1 ELSE q

\* Alt-Right: to the next blank, then over blanks.
WordRight(l, p) ==
    LET Ahead(q, stop) ==
            Min({Len(l)} \cup
                {i \in q..(Len(l) - 1) : (CharAt(l, i) = Blank) = stop})
    IN  Ahead(Ahead(p, TRUE), FALSE)

MoveTo(p) == pos' = p /\ UNCHANGED <<line, history, historyPos, env, editing>>
Rewrite(l, p) ==
    /\ line' = l /\ pos' = p
    /\ UNCHANGED <<history, historyPos, env, editing>>
\* Mutant: the cursor stays where it was in the line before.
RecallKeepsCursor(h) ==
    /\ line' = history[h + 1] /\ historyPos' = h
    /\ UNCHANGED <<pos, history, env, editing>>
Recall(h) ==
    /\ line' = history[h + 1] /\ pos' = Len(history[h + 1]) /\ historyPos' = h
    /\ UNCHANGED <<history, env, editing>>

Cut(from, to) == SubSeq(line, 1, from) \o SubSeq(line, to + 1, Len(line))
Insert(text) ==
    Rewrite(SubSeq(line, 1, pos) \o text \o SubSeq(line, pos + 1, Len(line)),
            pos + Len(text))

\* pterm_process_key(), but for Enter and Ctrl-c.
Press(key) ==
    CASE key = "Alt-Left"   -> MoveTo(WordLeft(line, pos))
      [] key = "Alt-Right"  -> MoveTo(WordRight(line, pos))
      [] key = "Ctrl-a"     -> MoveTo(0)
      [] key = "Ctrl-e"     -> MoveTo(Len(line))
      [] key = "ArrowLeft"  -> pos > 0 /\ MoveTo(pos - 1)
      [] key = "ArrowRight" -> pos < Len(line) /\ MoveTo(pos + 1)
      [] key = "ArrowUp"    -> historyPos # 0 /\ Recall(historyPos - 1)
      [] key = "ArrowDown"  -> historyPos < Len(history) - 1
                               /\ Recall(historyPos + 1)
      [] key = "Delete"     -> pos < Len(line) /\ Rewrite(Cut(pos, pos + 1), pos)
      [] key = "Backspace"  -> pos > 0 /\ Rewrite(Cut(pos - 1, pos), pos - 1)
      [] OTHER              -> Insert(<<key>>)

-----------------------------------------------------------------------------
(* From the line to arguments.                                              *)
\* Just after the character at i, or after the quoted text that starts there:
\* beyond the end of the line if the quote is not closed.
After(l, i) ==
    LET closing == {j \in (i + 1)..(Len(l) - 1) : CharAt(l, j) = CharAt(l, i)}
    IN  IF CharAt(l, i) \notin Quotes THEN i + 1
        ELSE IF closing = {} THEN Len(l) + 1 ELSE Min(closing) + 1

\* The words of a line; one that ends beyond the line is dropped.
WordsOf(l) ==
    LET n == Len(l)
        end[i \in 0..n] ==
            LET next == After(l, i)
            IN  IF next >= n \/ CharAt(l, next) = Blank THEN next ELSE end[next]
        words[i \in 0..n] ==
            IF i = n THEN <<>>
            ELSE IF CharAt(l, i) = Blank THEN words[i + 1]
            ELSE IF end[i] > n THEN <<>>
            ELSE <<SubSeq(l, i + 1, end[i])>> \o words[end[i]]
    IN  words[0]

\* pterm_quote_regex, for a word without a backslash.
Unquote(w) ==
    IF Len(w) > 1 /\ w[1] \in Quotes /\ w[Len(w)] = w[1]
    THEN SubSeq(w, 2, Len(w) - 1) ELSE w

Expand(w) ==
    IF w = <<>> \/ w[1] # "$" THEN w
    ELSE IF Tail(w) \in DOMAIN env THEN env[Tail(w)] ELSE <<>>

ArgsOf(l) == [i \in DOMAIN WordsOf(l) |-> Expand(Unquote(WordsOf(l)[i]))]

-----------------------------------------------------------------------------
(* Running a line.                                                          *)
\* newLine(), after the history has become h.
NewLineAfter(h) ==
    /\ line' = <<>> /\ pos' = 0
    /\ historyPos' = Len(h)
    /\ editing' = TRUE
NewLine == NewLineAfter(history) /\ UNCHANGED <<history, env>>

InsertHistory == history' = Append(history, line)

\* The name and value of an argument NAME=VALUE of export.
Assigns(w) ==
    {e \in DOMAIN w : /\ w[e] = "=" /\ e < Len(w)
                      /\ \A i \in 1..(e - 1) : w[i] \in NameChars}

Export(args) ==
    FoldLeft(LAMBDA vars, w :
                 IF Assigns(w) = {} THEN vars
                 ELSE LET e == Min(Assigns(w))
                      IN  (SubSeq(w, 1, e - 1) :> Unquote(SubSeq(w, e + 1, Len(w))))
                          @@ vars,
             env, Tail(args))

Unset(args) ==
    [name \in DOMAIN env \ {args[i] : i \in {2} \cap DOMAIN args} |-> env[name]]

BuiltIns == {<<"echo">>, <<"printenv">>, <<"export">>, <<"set">>, <<"unset">>}

Command(args) == IF args = <<>> THEN <<>> ELSE args[1]

\* processLine() of one of the terminal's own commands.
RunBuiltIn ==
    LET args == ArgsOf(line)
    IN  /\ Command(args) \in BuiltIns
        /\ env' = CASE Command(args) \in {<<"export">>, <<"set">>} -> Export(args)
                    [] Command(args) = <<"unset">> -> Unset(args)
                    [] OTHER -> env
        /\ InsertHistory
        /\ NewLineAfter(history')

\* The part of processLine() of any other command once `handled` is known.
RunOther(handled) ==
    /\ InsertHistory
    /\ IF handled
       THEN NewLineAfter(history')
       ELSE /\ historyPos' = Len(history') /\ editing' = FALSE
            /\ UNCHANGED <<line, pos>>
    /\ UNCHANGED env

\* A command that throws: the line is not put into the history.
RunThrows == editing' = FALSE /\ UNCHANGED <<line, pos, history, historyPos, env>>

TermInit ==
    /\ line = <<>> /\ pos = 0 /\ history = <<>> /\ historyPos = 0
    /\ env = <<>> /\ editing = TRUE

-----------------------------------------------------------------------------
\* The cursor stays within the line and the place in the history within the
\* history, whatever is typed, recalled, pasted or answered meanwhile.
TerminalTypeOK ==
    /\ pos \in 0..Len(line)
    /\ historyPos \in 0..Len(history)
    /\ editing \in BOOLEAN
=============================================================================
