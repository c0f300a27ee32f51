------------------------------ MODULE MCWire ------------------------------
(***************************************************************************)
(* Two kinds of scripts.  One message of every class of every version goes *)
(* each way over a connection that is not cut, with small and with large   *)
(* values in its fields.  And messages of one, two and three packets, and  *)
(* of the lengths at the limit of a packet, over a connection that may be  *)
(* cut at any time, and made again once.                                   *)
(***************************************************************************)
EXTENDS RtsWire

Bytes256 == 0..255

\* Values that a field can hold, at either end of its range.
Low(k) ==
    CASE k.kind \in {"uint"}  -> 0
      [] k.kind = "big"       -> <<0, 0>>
      [] k.kind = "bool"      -> FALSE
      [] k.kind = "array"     -> [i \in 1..k.n |-> 0]
      [] OTHER                -> <<>>

High(k) ==
    CASE k.kind = "uint"      -> IF k.n = 4 THEN 2147418113 ELSE 256^k.n - 2
      [] k.kind = "big"       -> <<65537, 1>>
      [] k.kind = "bool"      -> TRUE
      [] k.kind = "array"     -> [i \in 1..k.n |-> 255 - i]
      [] k.kind = "words"     -> <<2, 515>>
      [] k.kind = "strings"   -> <<<<>>, <<1>>, <<255, 0>>>>
      [] k.kind \in {"string", "bytes"} -> <<7, 0, 255>>

HighRecord(class) ==
    [i \in DOMAIN class.fields |-> High(class.fields[i][2])]

Sample(class, high) ==
    [i \in DOMAIN class.fields |->
        LET k == class.fields[i][2]
        IN  CASE ~high -> Low(k)
              [] high /\ k.kind = "list" ->
                   <<HighRecord(k.of), [j \in DOMAIN k.of.fields |->
                                           Low(k.of.fields[j][2])]>>
              [] OTHER -> High(k)]

CodecScripts ==
    {[out |-> <<m>>, in |-> <<m>>, cuts |-> 0] :
        m \in UNION {{[v |-> v, class |-> Union(v)[i],
                       vals |-> Sample(Union(v)[i], high)] :
                          i \in DOMAIN Union(v), high \in BOOLEAN} : v \in 1..7}}

\* An OTA request whose packed message has n bytes, n > 4.
Ota(n) == [v |-> 5, class |-> RtsOtaUpdateRequest,
           vals |-> <<[i \in 1..(n - 4) |-> (n + i) % 256]>>]

LinkScripts ==
    {[out |-> <<Ota(a), Ota(b)>>, in |-> <<Ota(b), Ota(a)>>, cuts |-> 2] :
        a \in {19, 20, 40}, b \in {5, 39}}
    \cup {[out |-> <<Ota(300), Ota(5)>>, in |-> <<>>, cuts |-> 1]}

AllScripts == CodecScripts \cup LinkScripts
Packed == {PackOf(m) : m \in UNION {ToSet(s.in) : s \in AllScripts}}
=============================================================================
