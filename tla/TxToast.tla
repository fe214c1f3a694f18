------------------------------ MODULE TxToast ------------------------------
(***************************************************************************)
(* From a submitted Mintlayer transaction to the verdict of its toast:     *)
(* submitWithToast and the toast store (toastStore.ts), watchTx and its    *)
(* shared event stream (txWatcher.ts), the server's relay of the wallet's  *)
(* events (block-stream.ts) and the indexer's answer (tx-status.ts).       *)
(*                                                                         *)
(* External: the daemon, which drops a transaction for good, the indexer,  *)
(* which lags behind it, and the browser's EventSource, which reconnects   *)
(* by itself until the server refuses it.                                  *)
(***************************************************************************)
EXTENDS Integers, Sequences

CONSTANTS
    Txs,
    MempoolApi,   \* whether the indexer shows unconfirmed transactions
    MaxChecks,    \* the status checks of one pending toast: 3
    MaxBreaks     \* bound: losses of the stream

VARIABLES
    chain,    \* tx -> "new", "mempool", "confirmed", "dropped"
    answer,   \* tx -> the submission's answer: "none", "coming", "here"
    stream,   \* "none", "connecting", "open", "closed"
    events,   \* relayed, not yet delivered
    breaks,
    watcher,  \* tx -> "none", "waiting", "timedOut", "settled"
    toast,    \* tx -> [status, stale]
    timer,    \* tx -> [armed, checks]: the escalation
    asked     \* status checks under way: [tx, final, says]

vars == <<chain, answer, stream, events, breaks, watcher, toast, timer, asked>>

Shown == [status |-> "pending", stale |-> FALSE]

Init ==
    /\ chain = [x \in Txs |-> "new"]
    /\ answer = [x \in Txs |-> "none"]
    /\ stream = "none"
    /\ events = <<>>
    /\ breaks = 0
    /\ watcher = [x \in Txs |-> "none"]
    /\ toast = [x \in Txs |-> [status |-> "none", stale |-> FALSE]]
    /\ timer = [x \in Txs |-> [armed |-> FALSE, checks |-> 0]]
    /\ asked = {}

(* toastStore.update: a dismissed toast is not there to change.            *)
Update(x, status, stale) ==
    toast' = IF toast[x].status \in {"none", "gone"} THEN toast
             ELSE [toast EXCEPT ![x] = [status |-> status, stale |-> stale]]

Pending(x) == toast[x].status = "pending"

Disarm(x) == timer' = [timer EXCEPT ![x].armed = FALSE]

Relay(x, kind) ==
    events' = IF stream = "open" THEN Append(events, [tx |-> x, kind |-> kind]) ELSE events

-----------------------------------------------------------------------------
(* The daemon broadcasts; it may confirm before the page hears the answer. *)
Broadcast(x) ==
    /\ chain[x] = "new"
    /\ chain' = [chain EXCEPT ![x] = "mempool"]
    /\ answer' = [answer EXCEPT ![x] = "coming"]
    /\ Relay(x, "InMempool")
    /\ UNCHANGED <<stream, breaks, watcher, toast, timer, asked>>

Settles(x, how, kind) ==
    /\ chain[x] = "mempool"
    /\ chain' = [chain EXCEPT ![x] = how]
    /\ Relay(x, kind)
    /\ UNCHANGED <<answer, stream, breaks, watcher, toast, timer, asked>>

(* submitWithToast adds the toast, arms its check, and watches.            *)
Answered(x) ==
    /\ answer[x] = "coming"
    /\ answer' = [answer EXCEPT ![x] = "here"]
    /\ toast' = [toast EXCEPT ![x] = Shown]
    /\ timer' = [timer EXCEPT ![x].armed = TRUE]
    /\ watcher' = [watcher EXCEPT ![x] = "waiting"]
    /\ stream' = IF stream \in {"none", "closed"} THEN "connecting" ELSE stream
    /\ UNCHANGED <<chain, events, breaks, asked>>

-----------------------------------------------------------------------------
(* The stream.  What the wallet says while it is not open is lost.         *)
StreamOpens ==
    /\ stream = "connecting"
    /\ stream' = "open"
    /\ UNCHANGED <<chain, answer, events, breaks, watcher, toast, timer, asked>>

(* A lost connection, or a daemon that went away; a refused reconnection   *)
(* closes it until the next watchTx.                                       *)
StreamBreaks ==
    /\ breaks < MaxBreaks
    /\ breaks' = breaks + 1
    /\ \/ stream = "open" /\ stream' = "connecting"
       \/ stream = "connecting" /\ stream' = "closed"
    /\ events' = <<>>
    /\ UNCHANGED <<chain, answer, watcher, toast, timer, asked>>

(* onmessage, watchTx's callback, and submitWithToast's handlers.          *)
Deliver ==
    /\ events # <<>>
    /\ events' = Tail(events)
    /\ LET x == Head(events).tx
           kind == Head(events).kind IN
       IF watcher[x] # "waiting" \/ kind = "InMempool"
       THEN UNCHANGED <<watcher, toast, timer>>
       ELSE /\ watcher' = [watcher EXCEPT ![x] = "settled"]
            /\ Disarm(x)
            /\ IF kind = "Confirmed" THEN Update(x, "confirmed", FALSE)
               ELSE Update(x, "failed", toast[x].stale)
    /\ UNCHANGED <<chain, answer, stream, breaks, asked>>

-----------------------------------------------------------------------------
(* What /api/tx-status can say now; an indexer that lags, or is out of     *)
(* reach, or an expired session, makes it "unknown" at any time.           *)
IndexerSays(x) ==
    {"unknown"}
        \cup (IF chain[x] = "confirmed" THEN {"confirmed"} ELSE {})
        \cup (IF MempoolApi /\ chain[x] # "new" THEN {"pending"} ELSE {})

Ask(x, final) ==
    \E says \in IndexerSays(x) : asked' = asked \cup {[tx |-> x, final |-> final, says |-> says]}

(* After three minutes, then every two.                                    *)
Escalate(x) ==
    /\ timer[x].armed
    /\ timer' = [timer EXCEPT ![x] = [armed |-> FALSE, checks |-> @.checks + 1]]
    /\ Ask(x, FALSE)
    /\ UNCHANGED <<chain, answer, stream, events, breaks, watcher, toast>>

(* watchTx gives up after five minutes, when the first check has run, and  *)
(* asks for ground truth.                                                  *)
WatchTimesOut(x) ==
    /\ watcher[x] = "waiting"
    /\ timer[x].checks > 0
    /\ watcher' = [watcher EXCEPT ![x] = "timedOut"]
    /\ Disarm(x)
    /\ Ask(x, TRUE)
    /\ UNCHANGED <<chain, answer, stream, events, breaks, toast>>

(* A late check applied without a look at the toast.                       *)
EscalationAnsweredBlindly(q) ==
    /\ q \in asked
    /\ ~q.final
    /\ asked' = asked \ {q}
    /\ Update(q.tx, IF q.says = "confirmed" THEN "confirmed" ELSE "pending",
              q.says # "confirmed")
    /\ timer' = [timer EXCEPT ![q.tx].armed =
                    q.says = "pending" /\ timer[q.tx].checks < MaxChecks]
    /\ UNCHANGED <<chain, answer, stream, events, breaks, watcher>>

(* runStatusCheck: an answer for a toast that is settled is dropped; else  *)
(* it is confirmed, or shown as still pending and perhaps asked again.     *)
EscalationAnswered(q) ==
    /\ q \in asked
    /\ ~q.final
    /\ asked' = asked \ {q}
    /\ IF ~Pending(q.tx)
       THEN UNCHANGED <<toast, timer>>
       ELSE /\ Update(q.tx, IF q.says = "confirmed" THEN "confirmed" ELSE "pending",
                      q.says # "confirmed")
            /\ timer' = [timer EXCEPT ![q.tx].armed =
                            q.says = "pending" /\ timer[q.tx].checks < MaxChecks]
    /\ UNCHANGED <<chain, answer, stream, events, breaks, watcher>>

(* The verdict after a time-out: what cannot be seen is not called failed. *)
TimeoutAnswered(q) ==
    /\ q \in asked
    /\ q.final
    /\ asked' = asked \ {q}
    /\ IF ~Pending(q.tx) THEN UNCHANGED toast
       ELSE CASE q.says = "confirmed" -> Update(q.tx, "confirmed", FALSE)
              [] q.says = "pending" -> Update(q.tx, "pending", TRUE)
              [] q.says = "unknown" -> Update(q.tx, "untracked", toast[q.tx].stale)
    /\ UNCHANGED <<chain, answer, stream, events, breaks, watcher, timer>>

(* By hand, or eight seconds after a confirmation.                         *)
Dismiss(x) ==
    /\ toast[x].status \notin {"none", "gone"}
    /\ toast' = [toast EXCEPT ![x].status = "gone"]
    /\ UNCHANGED <<chain, answer, stream, events, breaks, watcher, timer, asked>>

Next ==
    \/ \E x \in Txs :
          \/ Broadcast(x)
          \/ Settles(x, "confirmed", "Confirmed")
          \/ Settles(x, "dropped", "TxDropped")
          \/ Answered(x)
          \/ Escalate(x)
          \/ WatchTimesOut(x)
          \/ Dismiss(x)
    \/ StreamOpens
    \/ StreamBreaks
    \/ Deliver
    \/ \E q \in asked : EscalationAnswered(q) \/ TimeoutAnswered(q)

Spec == Init /\ [][Next]_vars

-----------------------------------------------------------------------------
(* A toast's verdict is the chain's: no transaction that may still confirm *)
(* is shown as failed, whatever events were lost (toastStore.ts: "That is  *)
(* NOT a failure").                                                        *)
VerdictTrue ==
    \A x \in Txs :
        /\ toast[x].status = "failed" => chain[x] = "dropped"
        /\ toast[x].status = "confirmed" => chain[x] = "confirmed"

(* A verdict stands: no event or answer that was under way when it was     *)
(* given takes it back.                                                    *)
VerdictStands ==
    \A x \in Txs :
        toast[x].status \in {"confirmed", "failed", "untracked"} =>
            toast'[x].status \in {toast[x].status, "gone"}

-----------------------------------------------------------------------------
(* The inductive invariant behind them, which PageProofs proves: what is   *)
(* on its way to a toast is true of the chain, and a verdict after a       *)
(* time-out comes when the watcher has given up.                           *)
Events == [tx : Txs, kind : {"InMempool", "Confirmed", "TxDropped"}]
Checks == [tx : Txs, final : BOOLEAN, says : {"unknown", "confirmed", "pending"}]
Statuses == {"none", "pending", "confirmed", "failed", "untracked", "gone"}

TypeOK ==
    /\ chain \in [Txs -> {"new", "mempool", "confirmed", "dropped"}]
    /\ answer \in [Txs -> {"none", "coming", "here"}]
    /\ events \in Seq(Events)
    /\ watcher \in [Txs -> {"none", "waiting", "timedOut", "settled"}]
    /\ toast \in [Txs -> [status : Statuses, stale : BOOLEAN]]
    /\ asked \subseteq Checks

EventsTrue ==
    \A n \in 1..Len(events) :
        /\ events[n].kind = "Confirmed" => chain[events[n].tx] = "confirmed"
        /\ events[n].kind = "TxDropped" => chain[events[n].tx] = "dropped"

ChecksTrue ==
    \A q \in asked :
        /\ q.says = "confirmed" => chain[q.tx] = "confirmed"
        /\ q.final => watcher[q.tx] = "timedOut"

InTurn ==
    \A x \in Txs :
        /\ chain[x] = "new" => answer[x] = "none"
        /\ answer[x] # "here" => toast[x].status = "none" /\ watcher[x] = "none"
        /\ toast[x].status = "untracked" => watcher[x] = "timedOut"
        /\ toast[x].status = "failed" => watcher[x] # "waiting"

TxToastInv == TypeOK /\ EventsTrue /\ ChecksTrue /\ InTurn /\ VerdictTrue
=============================================================================
