---------------------------- MODULE RequestLedger ----------------------------
(***************************************************************************)
(* What the feature queue promises the operator, without files: a request  *)
(* that was accepted waits, is run by the one worker, and ends answered or *)
(* superseded by a newer one.  None disappears.                            *)
(***************************************************************************)
CONSTANT Requests

VARIABLES waiting, running, finished, superseded

lvars == <<waiting, running, finished, superseded>>

Init ==
    waiting = {} /\ running = {} /\ finished = {} /\ superseded = {}

Accept(r) ==
    /\ r \notin waiting \cup running \cup finished \cup superseded
    /\ waiting' = waiting \cup {r}
    /\ UNCHANGED <<running, finished, superseded>>

Run(r) ==
    /\ r \in waiting
    /\ running = {}
    /\ running' = {r}
    /\ waiting' = waiting \ {r}
    /\ UNCHANGED <<finished, superseded>>

Finish(r) ==
    /\ r \in running
    /\ running' = running \ {r}
    /\ finished' = finished \cup {r}
    /\ UNCHANGED <<waiting, superseded>>

(* Too old to run: answered with a refusal.                                *)
Refuse(r) ==
    /\ r \in waiting
    /\ waiting' = waiting \ {r}
    /\ finished' = finished \cup {r}
    /\ UNCHANGED <<running, superseded>>

(* The worker died: the request runs again, or gives way to a newer one.   *)
Requeue(r) ==
    /\ r \in running
    /\ running' = running \ {r}
    /\ waiting' = waiting \cup {r}
    /\ UNCHANGED <<finished, superseded>>

Supersede(r) ==
    /\ r \in running
    /\ waiting # {}
    /\ running' = running \ {r}
    /\ superseded' = superseded \cup {r}
    /\ UNCHANGED <<waiting, finished>>

Next ==
    \E r \in Requests :
        Accept(r) \/ Run(r) \/ Finish(r) \/ Refuse(r) \/ Requeue(r) \/ Supersede(r)

Spec == Init /\ [][Next]_lvars
=============================================================================
