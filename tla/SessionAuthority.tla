-------------------------- MODULE SessionAuthority --------------------------
(***************************************************************************)
(* What a session service promises, without cookies, versions or clocks:   *)
(* a session is granted, lives, and is retired; a retired session never    *)
(* lives again.                                                            *)
(***************************************************************************)
CONSTANT Sessions  \* everything the service may hand out

VARIABLES live, dead

avars == <<live, dead>>

Init == live = {} /\ dead = {}

Grant(s) ==
    /\ s \notin dead
    /\ live' = live \cup {s}
    /\ UNCHANGED dead

(* A login that raced a revocation hands out a session that never works.   *)
GrantDead(s) ==
    /\ s \notin live
    /\ dead' = dead \cup {s}
    /\ UNCHANGED live

(* Revocation or expiry.                                                   *)
Retire(S) ==
    /\ live' = live \ S
    /\ dead' = dead \cup S

Next ==
    \/ \E s \in Sessions : Grant(s) \/ GrantDead(s)
    \/ \E S \in SUBSET live : Retire(S)

Spec == Init /\ [][Next]_avars
=============================================================================
