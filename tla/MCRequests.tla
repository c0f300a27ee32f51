----------------------------- MODULE MCRequests -----------------------------
(***************************************************************************)
(* Three kinds of scenes.  Editing: every key on lines of a few letters,   *)
(* without a robot.  Variables: export, unset, $ and quotes.  Requests: for *)
(* each version, each command alone, and pairs of commands of every kind,   *)
(* typed and asked from the forms.                                         *)
(***************************************************************************)
EXTENDS RtsRequests

Names == {"X", "Y"}

Spaced(ws) ==
    FoldLeft(LAMBDA l, w : IF l = <<>> THEN <<w>> ELSE l \o <<Blank, w>>, <<>>, ws)

EditKeys == {"Alt-Left", "Alt-Right", "Ctrl-a", "Ctrl-e", "ArrowLeft",
             "ArrowRight", "ArrowUp", "ArrowDown", "Delete", "Backspace"}

Scene(version, isUp, keys, pastes, forms, n, m) ==
    [version |-> version, up |-> isUp, keys |-> keys, pastes |-> pastes,
     forms |-> forms, strokes |-> n, requests |-> m,
     tidy |-> n = 5 /\ isUp]   \* pastes onto an empty line only

EditingScenes == {Scene(6, FALSE, EditKeys \cup {"x", Blank}, {}, {}, 6, 0)}

VariableScenes ==
    {Scene(6, FALSE, {"ArrowUp", "ArrowDown"},
           {<<"export", " ", "X", "=", "x">>,
            <<"export", " ", "=", "\"", "y", " ", "x", "\"">>,
            <<"unset", " ", "X">>,
            <<"set", " ", "x", "=", "x">>,
            <<"'", "$", "X", "'">>,
            <<"echo", " ", "\"", "x">>}, {}, 4, 0)}

\* A command with just the words that version 6 requires; sdk with the GUID.
Line(cmd) ==
    Spaced(SubSeq(<<cmd, "a", "b", "c">>, 1,
                  IF cmd = "sdk" THEN 4 ELSE Commands_6[cmd]))

FormKeys == {"wifi-scan", "wifi-connect", "status", "ota-start", "anki-auth",
             "sdk", "logs"}
Kinds == {"status", "wifi-scan", "connection-id", "ota-start", "ota-cancel", "logs"}

OneCommandScenes ==
    {Scene(version, TRUE, {}, {Line(cmd)}, FormKeys \cap {cmd}, 3,
           IF cmd = "status" THEN 3 ELSE 2) :
        version \in 2..6, cmd \in DOMAIN Commands_6}

PairScenes ==
    {Scene(version, TRUE, {}, {Line(c), Line(d)}, FormKeys \cap {c, d}, 5, 2) :
        version \in {2, 6}, c \in Kinds, d \in Kinds}

OtherScenes ==
    {Scene(version, TRUE, {}, {Line(cmd), ws}, {}, 5, 2) :
        version \in {2, 6}, cmd \in {"status", "wifi-scan"},
        ws \in {<<"help">>, <<"quit">>, <<"hello">>, <<"blesh">>, <<"wifi-ap">>,
                 <<"anki-auth", " ", "a">>}}

AllScenes ==
    EditingScenes \cup VariableScenes \cup OneCommandScenes \cup PairScenes
    \cup OtherScenes
=============================================================================
