------------------------------ MODULE BtcSend ------------------------------
(***************************************************************************)
(* One Bitcoin payment, from the form to the mempool: the Bitcoin page     *)
(* (BitcoinWallet.tsx), POST /api/bitcoin/send with its 60 second patience *)
(* (bitcoin-wallet.ts), the sidecar's blocking send (main.rs) and the scan *)
(* it shares the wallet lock with.                                         *)
(*                                                                         *)
(* The user means to pay once.  They send again after an answer that says  *)
(* nothing was sent, and after an answer that says it may have been sent   *)
(* only when History does not show the payment.  bitcoind (version 25) is  *)
(* external: it refuses a second spend of a coin.                          *)
(***************************************************************************)
EXTENDS Integers, FiniteSets

CONSTANTS
    Tabs,          \* open Bitcoin pages
    Coins,         \* outputs the wallet may spend; a payment spends one
    NoCoin,
    Patient,       \* whether the user awaits a sync before reading History
    MaxAttempts,   \* bound: submissions
    MaxFaults      \* bound: stops, lost answers, slow node calls

Attempts == 1 .. MaxAttempts

VARIABLES
    page,      \* tab -> [syncing: as last fetched, attempt: in flight, 0 if none]
    user,      \* "pay", "waiting", "unsure", "done"
    at,        \* attempt -> where it stands
    coin,      \* attempt -> the output its transaction spends
    told,      \* attempt -> what its page was told
    deserted,  \* attempts whose HTTP request to the sidecar is gone
    known,     \* transactions in the wallet's database: History
    scan,      \* the sync: [at, sees: what it will record, late: began while unsure]
    nodeUp, up,
    (* Observers *)
    accepted,  \* attempts in the mempool
    excused,   \* attempts whose acknowledgement a fault destroyed
    fresh,     \* a sync has begun and ended since the user became unsure
    faults

vars == <<page, user, at, coin, told, deserted, known, scan, nodeUp, up,
          accepted, excused, fresh, faults>>

NoScan == [at |-> "idle", sees |-> {}, late |-> FALSE]

Init ==
    /\ page = [t \in Tabs |-> [syncing |-> FALSE, attempt |-> 0]]
    /\ user = "pay"
    /\ at = [a \in Attempts |-> "new"]
    /\ coin = [a \in Attempts |-> NoCoin]
    /\ told = [a \in Attempts |-> "nothing"]
    /\ deserted = {}
    /\ known = {}
    /\ scan = NoScan
    /\ nodeUp = TRUE
    /\ up = TRUE
    /\ accepted = {}
    /\ excused = {}
    /\ fresh = FALSE
    /\ faults = 0

Fault == faults < MaxFaults /\ faults' = faults + 1

(* The wallet lock: a scan or a closure between its lock and its return.   *)
Locked == scan.at = "scanning" \/ \E a \in Attempts : at[a] = "broadcast"

SpawnSync ==
    IF scan.at = "idle" THEN scan' = [NoScan EXCEPT !.at = "spawned"] ELSE scan' = scan

Move(a, stage) == at' = [at EXCEPT ![a] = stage]

(* What the page is told, if it still waits; the form is enabled again.    *)
Tell(a, answer) ==
    IF told[a] # "nothing" THEN UNCHANGED <<page, told, user, fresh>>
    ELSE /\ told' = [told EXCEPT ![a] = answer]
         /\ page' = [t \in Tabs |-> IF page[t].attempt = a
                                    THEN [page[t] EXCEPT !.attempt = 0] ELSE page[t]]
         /\ user' = CASE answer = "sent" -> "done"
                      [] answer = "refused" -> "pay"
                      [] answer = "unknown" -> "unsure"
         /\ fresh' = FALSE

Fails(a) == Move(a, "done") /\ Tell(a, "refused")

-----------------------------------------------------------------------------
(* The page and the web route.                                             *)

(* submitSend; the button is off while the tab is busy or its last         *)
(* overview showed a scan.                                                 *)
Submit(t, a) ==
    /\ user = "pay"
    /\ page[t].attempt = 0
    /\ ~page[t].syncing
    /\ at[a] = "new"
    /\ \A b \in Attempts : b < a => at[b] # "new"
    /\ Move(a, "route")
    /\ page' = [page EXCEPT ![t].attempt = a]
    /\ user' = "waiting"
    /\ UNCHANGED <<coin, told, deserted, known, scan, nodeUp, up, accepted, excused, fresh, faults>>

(* Validation or the step-up refuses, or no connection to the sidecar.     *)
RouteRefuses(a) ==
    /\ at[a] = "route"
    /\ Fails(a)
    /\ UNCHANGED <<coin, deserted, known, scan, nodeUp, up, accepted, excused, faults>>

RouteForwards(a) ==
    /\ at[a] = "route"
    /\ up
    /\ Move(a, "config")
    /\ UNCHANGED <<page, user, coin, told, deserted, known, scan, nodeUp, up, accepted, excused,
                   fresh, faults>>

InSidecar(a) == at[a] \notin {"new", "route", "done"}

(* AbortSignal.timeout after 60 seconds: 504, "may or may not have been    *)
(* broadcast".  The handler is dropped, its blocking closure is not.  Node *)
(* calls are given 120 seconds, so even the closure's first ones may       *)
(* outlast the client: that is a fault of the node here.                   *)
TimesOut(a) ==
    /\ InSidecar(a)
    /\ a \notin deserted
    /\ IF at[a] = "config" THEN Fault /\ excused' = excused \cup {a}
       ELSE UNCHANGED <<faults, excused>>
    /\ deserted' = deserted \cup {a}
    /\ Tell(a, "unknown")
    /\ UNCHANGED <<at, coin, known, scan, nodeUp, up, accepted>>

(* The answer is lost between browser and web server.                      *)
AnswerLost(a) ==
    /\ at[a] \in {"route", "config", "broadcast", "accepted"}
    /\ told[a] = "nothing"
    /\ Fault
    /\ IF at[a] \in {"route", "config"} THEN excused' = excused \cup {a} ELSE UNCHANGED excused
    /\ Tell(a, "unknown")
    /\ UNCHANGED <<at, coin, deserted, known, scan, nodeUp, up, accepted>>

(* Any overview fetch; while the lock is held it has no History.           *)
Refresh(t) ==
    /\ page' = [page EXCEPT ![t].syncing = up /\ scan.at # "idle"]
    /\ IF user = "unsure" /\ up /\ ~Locked /\ (Patient => fresh)
       THEN user' = IF known # {} THEN "done" ELSE "pay"
       ELSE user' = user
    /\ page' # page \/ user' # user
    /\ UNCHANGED <<at, coin, told, deserted, known, scan, nodeUp, up, accepted, excused, fresh, faults>>

-----------------------------------------------------------------------------
(* The sidecar's send: one blocking closure.                               *)

(* build_tx chooses among the outputs its database holds unspent.          *)
Builds(a) ==
    LET free == Coins \ {coin[b] : b \in known} IN
    IF free = {} THEN Fails(a) /\ UNCHANGED coin
    ELSE /\ Move(a, "broadcast")
         /\ coin' \in {[coin EXCEPT ![a] = c] : c \in free}
         /\ UNCHANGED <<page, told, user, fresh>>

(* A lock that is waited for.                                              *)
LocksWaiting(a) ==
    /\ at[a] \in {"config", "parked"}
    /\ nodeUp
    /\ IF Locked
       THEN Move(a, "parked") /\ UNCHANGED <<page, told, user, fresh, coin>>
       ELSE Builds(a)
    /\ UNCHANGED <<deserted, known, scan, nodeUp, up, accepted, excused, faults>>

(* The node answers, then try_lock: busy is an answer, not a wait.         *)
Locks(a) ==
    /\ at[a] = "config"
    /\ nodeUp
    /\ IF Locked THEN Fails(a) /\ UNCHANGED coin ELSE Builds(a)
    /\ UNCHANGED <<deserted, known, scan, nodeUp, up, accepted, excused, faults>>

Unreachable(a) ==
    /\ at[a] \in {"config", "broadcast"}
    /\ ~nodeUp
    /\ Fails(a)
    /\ UNCHANGED <<coin, deserted, known, scan, nodeUp, up, accepted, excused, faults>>

Spent(c) == \E b \in accepted : coin[b] = c

Broadcast(a) ==
    /\ at[a] = "broadcast"
    /\ nodeUp
    /\ IF Spent(coin[a])
       THEN Fails(a) /\ UNCHANGED accepted
       ELSE /\ accepted' = accepted \cup {a}
            /\ Move(a, "accepted")
            /\ UNCHANGED <<page, told, user, fresh>>
    /\ UNCHANGED <<coin, deserted, known, scan, nodeUp, up, excused, faults>>

(* The node accepts and its answer is lost: classify_send_error calls the  *)
(* node unreachable and asks for a retry.                                  *)
BroadcastUnacknowledged(a) ==
    /\ at[a] = "broadcast"
    /\ nodeUp
    /\ ~Spent(coin[a])
    /\ Fault
    /\ accepted' = accepted \cup {a}
    /\ excused' = excused \cup {a}
    /\ Fails(a)
    /\ UNCHANGED <<coin, deserted, known, scan, nodeUp, up>>

(* A success starts a sync, from the handler and from the page; a dropped  *)
(* handler starts none.                                                    *)
Answers(a) ==
    /\ at[a] = "accepted"
    /\ Move(a, "done")
    /\ Tell(a, "sent")
    /\ IF a \in deserted THEN UNCHANGED scan ELSE SpawnSync
    /\ UNCHANGED <<coin, deserted, known, nodeUp, up, accepted, excused, faults>>

-----------------------------------------------------------------------------
(* POST /sync, from a button.                                              *)
PostSync ==
    /\ up
    /\ ~Locked
    /\ scan.at = "idle"
    /\ SpawnSync
    /\ UNCHANGED <<page, user, at, coin, told, deserted, known, nodeUp, up, accepted, excused,
                   fresh, faults>>

ScanLocks ==
    /\ scan.at = "spawned"
    /\ ~Locked
    /\ scan' = [at |-> "scanning", sees |-> accepted, late |-> user = "unsure"]
    /\ UNCHANGED <<page, user, at, coin, told, deserted, known, nodeUp, up, accepted, excused,
                   fresh, faults>>

(* It records what the mempool held, or fails.                             *)
ScanEnds ==
    /\ scan.at = "scanning"
    /\ scan' = NoScan
    /\ IF nodeUp
       THEN /\ known' = known \cup scan.sees
            /\ fresh' = (fresh \/ (scan.late /\ user = "unsure"))
       ELSE UNCHANGED <<known, fresh>>
    /\ UNCHANGED <<page, user, at, coin, told, deserted, nodeUp, up, accepted, excused, faults>>

(* The sidecar stops: its connections close and are reported as an         *)
(* unavailable service.  It syncs when it is back.                         *)
Stop ==
    /\ up
    /\ Fault
    /\ up' = FALSE
    /\ scan' = NoScan
    /\ \E gone \in SUBSET Attempts :
          /\ gone = {a \in Attempts : InSidecar(a)}
          /\ at' = [a \in Attempts |-> IF a \in gone THEN "done" ELSE at[a]]
          /\ excused' = excused \cup (gone \cap accepted)
          /\ \E a \in Attempts :
                /\ gone = {} \/ a \in gone
                /\ \A b \in gone \ {a} : told[b] # "nothing"
                /\ IF gone = {} THEN UNCHANGED <<page, told, user, fresh>> ELSE Tell(a, "refused")
    /\ UNCHANGED <<coin, deserted, known, nodeUp, accepted>>

Start ==
    /\ ~up
    /\ up' = TRUE
    /\ SpawnSync
    /\ UNCHANGED <<page, user, at, coin, told, deserted, known, nodeUp, accepted, excused, fresh, faults>>

NodeGoes ==
    /\ nodeUp
    /\ Fault
    /\ nodeUp' = FALSE
    /\ UNCHANGED <<page, user, at, coin, told, deserted, known, scan, up, accepted, excused, fresh>>

NodeComes ==
    /\ ~nodeUp
    /\ nodeUp' = TRUE
    /\ UNCHANGED <<page, user, at, coin, told, deserted, known, scan, up, accepted, excused, fresh, faults>>

Next ==
    \/ \E t \in Tabs, a \in Attempts : Submit(t, a)
    \/ \E t \in Tabs : Refresh(t)
    \/ \E a \in Attempts :
          \/ RouteRefuses(a)
          \/ RouteForwards(a)
          \/ TimesOut(a)
          \/ AnswerLost(a)
          \/ Locks(a)
          \/ Unreachable(a)
          \/ Broadcast(a)
          \/ BroadcastUnacknowledged(a)
          \/ Answers(a)
    \/ PostSync
    \/ ScanLocks
    \/ ScanEnds
    \/ Stop
    \/ Start
    \/ NodeGoes
    \/ NodeComes

Spec == Init /\ [][Next]_vars

-----------------------------------------------------------------------------
(* An answer that says the payment was not made is final: it is not in the *)
(* mempool, and nothing is left that could still put it there, unless the  *)
(* node's or the sidecar's own answer was lost (api/bitcoin/send.ts).      *)
RefusedMeansUnsent ==
    \A a \in Attempts \ excused :
        told[a] = "refused" => a \notin accepted /\ at[a] = "done"

(* The user's rule never pays twice (send.ts: "Check History before        *)
(* sending again to avoid paying twice"; main.rs, send: never park behind  *)
(* a scan).                                                                *)
PaysOnce == excused = {} => Cardinality(accepted) <= 1

-----------------------------------------------------------------------------
(* The inductive invariant behind them, which PageProofs proves from this  *)
(* assumption: as long as no acknowledgement was destroyed, one attempt at *)
(* most may still pay or has paid, and the user knows when none has.       *)
BtcSendConstants == Patient

TypeOK ==
    /\ user \in {"pay", "waiting", "unsure", "done"}
    /\ at \in [Attempts -> {"new", "route", "config", "broadcast", "accepted", "done"}]
    /\ told \in [Attempts -> {"nothing", "sent", "refused", "unknown"}]
    /\ scan.at \in {"idle", "spawned", "scanning"}
    /\ accepted \subseteq Attempts

Live == {a \in Attempts : at[a] \notin {"new", "done"}}

Answered ==
    \A a \in Attempts :
        /\ at[a] = "new" => told[a] = "nothing"
        /\ a \in accepted => at[a] \in {"accepted", "done"}
        /\ at[a] = "accepted" => a \in accepted
        /\ told[a] = "refused" => at[a] = "done" /\ (a \in accepted => a \in excused)

(* A scan under the lock sees all there is.                                *)
ScanSees ==
    scan.at = "scanning" =>
        scan.sees = accepted /\ \A a \in Attempts : at[a] # "broadcast"

OneAtMost ==
    /\ \A a, b \in Live \cup accepted : a = b
    /\ user = "pay" => Live = {} /\ accepted = {}
    /\ \A a \in Live :
          /\ told[a] = "nothing" <=> user = "waiting"
          /\ user = "unsure" => at[a] \in {"broadcast", "accepted"}
          /\ user = "done" => at[a] = "accepted"
    /\ user = "unsure" /\ fresh => accepted \subseteq known /\ \A a \in Attempts : at[a] # "broadcast"

BtcSendInv == TypeOK /\ Answered /\ ScanSees /\ (excused = {} => OneAtMost)
=============================================================================
