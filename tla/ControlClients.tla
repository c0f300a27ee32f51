--------------------------- MODULE ControlClients ---------------------------
(***************************************************************************)
(* The services as clients of the control manager.  A service learns of    *)
(* control only through the value acquire returns to it: there is no       *)
(* notification when another service preempts it.                          *)
(***************************************************************************)
EXTENDS ControlManager

VARIABLE told  \* told[s]: s's last acquire returned True, no release since

clientVars == <<holder, holderPriority, hasSdkControl, robotControl, told>>

ClientInit ==
    /\ ControlInit
    /\ told = [s \in Services |-> FALSE]

\* acquire's result is True exactly when the requester is the holder after it.
ClientAcquire(s, p) ==
    /\ Acquire(s, p)
    /\ told' = [told EXCEPT ![s] = (holder' = s)]

ClientRelease(s) ==
    /\ Release(s)
    /\ told' = [told EXCEPT ![s] = FALSE]

\* A touch on the head, cleaning up behind everybody (connection.py:433).
TouchForceRelease ==
    /\ ForceRelease
    /\ UNCHANGED told

ClientNext ==
    \/ \E s \in Services, p \in Priorities : ClientAcquire(s, p)
    \/ \E s \in Services : ClientRelease(s)
    \/ TouchForceRelease

ClientSpec == ClientInit /\ [][ClientNext]_clientVars

ClientTypeOK ==
    /\ ControlTypeOK
    /\ told \in [Services -> BOOLEAN]

-----------------------------------------------------------------------------
(***************************************************************************)
(* Control is never recorded for a service that was refused it or that has *)
(* given it back: an orphaned holder would shut every service of lower     *)
(* priority out for ever (acquire, release).                               *)
(***************************************************************************)
HolderWasTold == holder # NoService => told[holder]

(***************************************************************************)
(* The manager implements exclusive, ranked ownership.                     *)
(***************************************************************************)
Exclusive == INSTANCE ExclusiveControl WITH
                 Clients <- Services, Nobody <- NoService,
                 Ranks <- Priorities, owner <- holder,
                 rank <- holderPriority

RefinesExclusiveControl == Exclusive!Spec
=============================================================================
