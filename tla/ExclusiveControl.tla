-------------------------- MODULE ExclusiveControl --------------------------
(***************************************************************************)
(* What the control manager promises its clients: one owner at a time,     *)
(* whose rank only a client of at least that rank may overrule, and an     *)
(* owner that may always be removed.                                       *)
(***************************************************************************)
EXTENDS Integers

CONSTANTS Clients, Nobody, Ranks

VARIABLES owner, rank

Init == owner = Nobody /\ rank = -1

Take(c, r) ==
    /\ owner # c
    /\ r >= rank
    /\ owner' = c
    /\ rank' = r

Drop ==
    /\ owner' = Nobody
    /\ rank' = -1

Next == Drop \/ \E c \in Clients, r \in Ranks : Take(c, r)

Spec == Init /\ [][Next]_<<owner, rank>>
=============================================================================
