----------------------------- MODULE MCOpenClaw -----------------------------
(***************************************************************************)
(* Every phrase of the table said alone over HTTP; pairs of messages, one  *)
(* of them in two steps, over each transport; and photos and relayed texts *)
(* side by side.                                                           *)
(***************************************************************************)
EXTENDS OpenClaw

\* The phrases of a pattern, with a word for "any word".
Word(set) == IF set = Any THEN {"hello"} ELSE set
Phrases(p) ==
    {t \in [DOMAIN p -> UNION {Word(p[k]) : k \in DOMAIN p}] :
        \A k \in DOMAIN p : t[k] \in Word(p[k])}

Short == {p \in UNION {COMMAND_MAP[e].patterns : e \in DOMAIN COMMAND_MAP} :
            Len(p) <= 3}
AllPhrases == UNION {Phrases(p) : p \in Short}

Some == {<<"led", "charging">>, <<"stop">>, <<"take", "a", "photo">>}

AllScenes ==
    {[mode |-> "http", texts |-> {text}, relays |-> FALSE, turns |-> 1] :
        text \in AllPhrases}
    \cup {[mode |-> m, texts |-> Some, relays |-> FALSE, turns |-> 2] :
        m \in {"http", "mqtt", "auto"}}
    \cup {[mode |-> "http", texts |-> {<<"photo">>}, relays |-> TRUE, turns |-> 3]}
=============================================================================
