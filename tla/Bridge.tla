------------------------------- MODULE Bridge -------------------------------
(***************************************************************************)
(* The bridge panel (BridgePanel.tsx): submissions in either direction,    *)
(* the one request that is tracked (progress.ts, kept in localStorage),    *)
(* its polls, and the history of the user's requests (bridge-history.ts).  *)
(*                                                                         *)
(* External: the wallet extension, and the bridge backend, which receives  *)
(* a request at some time after it was posted, or never, and broadcasts    *)
(* the Mintlayer deposits itself; and the other tabs of the browser, which *)
(* share its localStorage, a request of theirs falling between two of this *)
(* page.  Attempts are numbered; the backend's uuid of a request is the    *)
(* number of its attempt.                                                  *)
(***************************************************************************)
EXTENDS Integers, Sequences, FiniteSets

CONSTANTS
    None,
    FailureLimit, \* POLL_FAILURE_LIMIT
    HistoryLimit, \* HISTORY_LIMIT
    MaxPolls,     \* bound on polls that overlap
    MaxAttempts, MaxReloads \* bounds

VARIABLES
    phase,
    subs,        \* submissions running: [n, dir, stage]
    slot,        \* the record in localStorage: None or [n, lastStep]
    tracked,     \* the request of the record the page has seen, or None
    unsaved,     \* history: the last request was to be the record, and there
                 \* is none because the storage refused it
    progress,    \* trackedProgress: None or [of, status]
    unavailable, \* pollUnavailable
    failures,    \* pollFailuresRef
    polls,       \* on their way: [n, status], the status when it was sent
    history,     \* most recent first: [n, kind]
    posted,      \* attempts posted to the backend
    backend,     \* attempt -> status, None before it has the request
    moved,       \* attempts whose deposit has been made
    left,        \* history: attempts that ended without a row: the page was
                 \* reloaded, the storage refused it, or the wallet failed
                 \* with the deposit made
    attempts, reloads

vars == <<phase, subs, slot, tracked, unsaved, progress, unavailable, failures, polls, history,
          posted, backend, moved, left, attempts, reloads>>

Card == <<slot, tracked, unsaved, progress, unavailable, failures>>
Money == <<posted, backend, moved, left>>

SubmitPhases == {"approve", "deposit", "signing", "submitting"}
Busy == phase \in SubmitPhases \cup {"polling"}

(* deriveProgress.                                                         *)
Terminal == {"completed", "failed", "manual"}
Step(status) ==
    CASE status = "pending" -> 2
      [] status = "confirmed" -> 3
      [] status = "processed" -> 4
      [] OTHER -> 5

Later(status) == {s \in {"confirmed", "processed"} \cup Terminal : Step(s) > Step(status)}

PhaseOf(status) == IF status = "completed" THEN "done" ELSE status

Init ==
    /\ phase = "idle"
    /\ subs = {}
    /\ slot = None /\ tracked = None /\ progress = None
    /\ unsaved = FALSE
    /\ unavailable = FALSE /\ failures = 0
    /\ polls = {}
    /\ history = <<>>
    /\ posted = {} /\ moved = {} /\ left = {}
    /\ backend = [n \in 1..MaxAttempts |-> None]
    /\ attempts = 0 /\ reloads = 0

Recorded(n) == \E i \in 1..Len(history) : history[i].n = n

(* The rows but that of the same uuid; no two have one.                    *)
Others(n) ==
    IF Recorded(n)
    THEN LET i == CHOOSE i \in 1..Len(history) : history[i].n = n
         IN  SubSeq(history, 1, i - 1) \o SubSeq(history, i + 1, Len(history))
    ELSE history

Capped(h) == IF Len(h) <= HistoryLimit THEN h ELSE SubSeq(h, 1, HistoryLimit)

WithRow(n, kind) == Capped(<<[n |-> n, kind |-> kind]>> \o Others(n))

(* The row of an attempt that ends, unless the storage refuses it.         *)
AppendHistory(n, kind) ==
    \/ history' = WithRow(n, kind) /\ UNCHANGED left
    \/ history' = history /\ left' = left \cup {n}

(* What loadInFlight finds: saving and clearing the record raise an event  *)
(* at which the page reads it again.                                       *)
InFlight == IF slot = None THEN None ELSE slot.n

-----------------------------------------------------------------------------
(* submit, past its checks and questions.  No phase is set until the       *)
(* wallet has answered; submittingRef is what keeps a second one out.      *)
Submit(dir) ==
    /\ ~Busy /\ subs = {}
    /\ attempts < MaxAttempts
    /\ attempts' = attempts + 1
    /\ subs' = {[n |-> attempts + 1, dir |-> dir,
                 stage |-> IF dir = "e2m" THEN "wallet" ELSE "signing"]}
    /\ phase' = IF dir = "e2m" THEN phase ELSE "signing"
    /\ UNCHANGED <<Card, polls, history, Money, reloads>>

Moves(s, stage) == subs' = (subs \ {s}) \cup {[s EXCEPT !.stage = stage]}

(* depositToBridge: an approval unless the allowance is enough.            *)
Approve(s) ==
    /\ s.stage = "wallet"
    /\ Moves(s, "approve") /\ phase' = "approve"
    /\ UNCHANGED <<Card, polls, history, Money, attempts, reloads>>

AskForDeposit(s) ==
    /\ s.stage \in {"wallet", "approve"}
    /\ Moves(s, "deposit") /\ phase' = "deposit"
    /\ UNCHANGED <<Card, polls, history, Money, attempts, reloads>>

(* The deposit's hash is back, and the request is posted.                  *)
Deposit(s) ==
    /\ s.stage = "deposit"
    /\ Moves(s, "submitting") /\ phase' = "submitting"
    /\ moved' = moved \cup {s.n}
    /\ posted' = posted \cup {s.n}
    /\ UNCHANGED <<Card, polls, history, backend, left, attempts, reloads>>

(* The wallet has sent the deposit and then fails before the hash is back: *)
(* the outermost catch keeps nothing of it.                                *)
DepositThrows(s) ==
    /\ s.stage = "deposit"
    /\ subs' = subs \ {s} /\ phase' = "idle"
    /\ moved' = moved \cup {s.n} /\ left' = left \cup {s.n}
    /\ UNCHANGED <<Card, polls, history, posted, backend, attempts, reloads>>

(* ml-intent-tx has signed, and the request is posted.                     *)
Signed(s) ==
    /\ s.stage = "signing"
    /\ Moves(s, "submitting") /\ phase' = "submitting"
    /\ posted' = posted \cup {s.n}
    /\ UNCHANGED <<Card, polls, history, backend, moved, left, attempts, reloads>>

(* Rejected in the wallet, another network, no session, no signature.      *)
GivesUp(s) ==
    /\ s.stage # "submitting"
    /\ subs' = subs \ {s} /\ phase' = "idle"
    /\ UNCHANGED <<Card, polls, history, Money, attempts, reloads>>

(* trackRequest: what the card knew of another request is forgotten; when  *)
(* saveInFlight is refused, the record stays what it was.                  *)
BroadcastAnswered(s) ==
    /\ s.stage = "submitting" /\ backend[s.n] # None
    /\ subs' = subs \ {s} /\ phase' = "polling"
    /\ slot' \in {slot, [n |-> s.n, lastStep |-> 1]}
    /\ tracked' = InFlight'
    /\ unsaved' = (slot' = None)
    /\ AppendHistory(s.n, "request")
    /\ progress' = None /\ unavailable' = FALSE /\ failures' = 0
    /\ UNCHANGED <<polls, posted, backend, moved, attempts, reloads>>

(* The error alone.                                                        *)
BroadcastFailsUnrecorded(s) ==
    /\ s.stage = "submitting"
    /\ subs' = subs \ {s} /\ phase' = "idle"
    /\ UNCHANGED <<Card, polls, history, Money, attempts, reloads>>

(* No answer within its time, or an error: a row of the history remembers  *)
(* the attempt, and the form is free.                                      *)
BroadcastFails(s) ==
    /\ s.stage = "submitting"
    /\ subs' = subs \ {s} /\ phase' = "idle"
    /\ AppendHistory(s.n, IF s.dir = "e2m" THEN "orphan" ELSE "unknown")
    /\ UNCHANGED <<Card, polls, posted, backend, moved, attempts, reloads>>

-----------------------------------------------------------------------------
(* The backend.                                                            *)
Registers(n) ==
    /\ n \in posted /\ backend[n] = None
    /\ backend' = [backend EXCEPT ![n] = "pending"]
    /\ moved' = moved \cup {n}
    /\ UNCHANGED <<phase, subs, Card, polls, history, posted, left, attempts, reloads>>

Advances(n) ==
    /\ backend[n] # None
    /\ \E s \in Later(backend[n]) : backend' = [backend EXCEPT ![n] = s]
    /\ UNCHANGED <<phase, subs, Card, polls, history, posted, moved, left, attempts, reloads>>

-----------------------------------------------------------------------------
(* pollTracked, every ten seconds and when the socket names the request.   *)
(* It asks for the request of the record, whichever the page has seen.     *)
CardLive ==
    /\ tracked # None /\ ~unavailable
    /\ ~(progress # None /\ progress.status \in Terminal)

PollStarts ==
    /\ CardLive /\ slot # None
    /\ Cardinality(polls) < MaxPolls
    /\ polls' = polls \cup {[n |-> slot.n, status |-> backend[slot.n]]}
    /\ UNCHANGED <<phase, subs, Card, history, Money, attempts, reloads>>

(* A submission owns the phase: a poll leaves it alone then.               *)
FreePhase == subs = {} /\ phase \notin SubmitPhases

StepKept(status) == IF Step(status) > slot.lastStep THEN Step(status) ELSE slot.lastStep

PollAnswered(p) ==
    /\ p \in polls /\ polls' = polls \ {p}
    /\ failures' = 0
    /\ IF slot # None /\ slot.n = p.n
       THEN \E status \in {p.status, backend[p.n]} :
            /\ progress' = [of |-> p.n, status |-> status]
            /\ slot' \in {slot, [slot EXCEPT !.lastStep = StepKept(status)]}
            /\ tracked' \in {slot.n} \cup (IF StepKept(status) = slot.lastStep
                                          THEN {tracked} ELSE {})
            /\ phase' = IF status \in Terminal /\ FreePhase THEN PhaseOf(status) ELSE phase
       ELSE UNCHANGED <<progress, slot, tracked, phase>>
    /\ UNCHANGED <<unsaved, unavailable, subs, history, Money, attempts, reloads>>

(* Whichever request the poll was for.                                     *)
PollFails(p) ==
    /\ p \in polls /\ polls' = polls \ {p}
    /\ failures' = IF failures < FailureLimit THEN failures + 1 ELSE failures
    /\ IF failures + 1 >= FailureLimit
       THEN /\ unavailable' = TRUE
            /\ phase' = IF FreePhase THEN "idle" ELSE phase
       ELSE UNCHANGED <<unavailable, phase>>
    /\ UNCHANGED <<subs, slot, tracked, unsaved, progress, history, Money, attempts, reloads>>

-----------------------------------------------------------------------------
(* dismissTracked, from a card of any kind, a submission running or not.   *)
Dismiss ==
    /\ tracked # None /\ (progress # None \/ unavailable)
    /\ slot' = None /\ tracked' = None /\ progress' = None
    /\ unavailable' = FALSE /\ failures' = 0
    /\ phase' = "idle"
    /\ UNCHANGED <<unsaved, subs, polls, history, Money, attempts, reloads>>

(* Another tab has had a request of its own accepted, or dismisses what is *)
(* tracked; this page hears of neither.                                    *)
OtherTabTracks ==
    /\ subs = {} /\ attempts < MaxAttempts
    /\ attempts' = attempts + 1
    /\ slot' = [n |-> attempts + 1, lastStep |-> 1]
    /\ AppendHistory(attempts + 1, "request")
    /\ posted' = posted \cup {attempts + 1} /\ moved' = moved \cup {attempts + 1}
    /\ backend' = [backend EXCEPT ![attempts + 1] = "pending"]
    /\ UNCHANGED <<phase, subs, tracked, unsaved, progress, unavailable, failures,
                   polls, reloads>>

OtherTabDismisses ==
    /\ slot # None /\ slot' = None
    /\ UNCHANGED <<phase, subs, tracked, unsaved, progress, unavailable, failures,
                   polls, history, Money, attempts, reloads>>

(* The page is loaded again: localStorage is all that is left.  A deposit  *)
(* the wallet still asks about may yet be made.                            *)
Reload ==
    /\ reloads < MaxReloads /\ reloads' = reloads + 1
    /\ phase' = "idle" /\ subs' = {}
    /\ tracked' = InFlight
    /\ progress' = None /\ unavailable' = FALSE /\ failures' = 0
    /\ polls' = {}
    /\ \E made \in SUBSET {s \in subs : s.stage = "deposit"} :
         /\ moved' = moved \cup {s.n : s \in made}
         /\ left' = left \cup {s.n : s \in made \cup {t \in subs : t.stage = "submitting"}}
    /\ UNCHANGED <<slot, unsaved, history, posted, backend, attempts>>

Next ==
    \/ \E dir \in {"e2m", "m2e"} : Submit(dir)
    \/ \E s \in subs : Approve(s) \/ AskForDeposit(s) \/ Deposit(s) \/ DepositThrows(s)
                       \/ Signed(s) \/ GivesUp(s) \/ BroadcastAnswered(s) \/ BroadcastFails(s)
    \/ \E n \in 1..MaxAttempts : Registers(n) \/ Advances(n)
    \/ PollStarts
    \/ \E p \in polls : PollAnswered(p) \/ PollFails(p)
    \/ Dismiss \/ Reload
    \/ OtherTabTracks \/ OtherTabDismisses

Spec == Init /\ [][Next]_vars

-----------------------------------------------------------------------------
(* The page has seen what is in localStorage.                              *)
InStep == tracked = InFlight

(* While no other tab has changed the record behind the page: the card     *)
(* never shows one request's progress under another ("must not be          *)
(* published under the old request"), and a form that waits for the card   *)
(* waits for one that is still polled ("with the phase stuck at 'polling'  *)
(* the submit button stayed disabled forever", BridgePanel.tsx), unless    *)
(* the storage has refused the only record there was to be.                *)
CardIsLive ==
    InStep =>
    /\ progress # None => tracked # None /\ progress.of = tracked
    /\ phase = "polling" => CardLive \/ (unsaved /\ tracked = None)

(* Every deposit stays visible to its owner ("swallowing the failure would *)
(* orphan real funds", BridgePanel.tsx): it is being submitted, it is in   *)
(* the history, or later rows have filled that; but for one made while the *)
(* page was reloaded or the wallet failed, or whose row was refused.       *)
DepositAccounted ==
    \A n \in moved :
        \/ \E s \in subs : s.n = n
        \/ Recorded(n) \/ n \in left
        \/ Len(history) = HistoryLimit /\ history[HistoryLimit].n > n

-----------------------------------------------------------------------------
(* The inductive invariant behind it, which PageProofs proves from this    *)
(* assumption: one submission at a time, the newest, and every request     *)
(* that was posted is still visible, made or not.                          *)
BridgeConstants ==
    /\ HistoryLimit \in Nat \ {0}
    /\ MaxAttempts \in Nat
    /\ None \notin [n : 1..MaxAttempts, lastStep : 1..5] \cup 1..MaxAttempts

TypeOK ==
    /\ attempts \in 0..MaxAttempts
    /\ subs \in SUBSET [n : 1..attempts, dir : {"e2m", "m2e"},
                         stage : {"wallet", "approve", "deposit", "signing", "submitting"}]
    /\ history \in Seq([n : 1..attempts, kind : {"request", "orphan", "unknown"}])
    /\ slot \in {None} \cup [n : 1..attempts, lastStep : 1..5]
    /\ tracked \in {None} \cup 1..attempts
    /\ \A p \in polls : p.n \in 1..attempts

(* submittingRef: a second submission waits for the first.                 *)
OneAtATime ==
    \A s \in subs :
        /\ s.n = attempts /\ ~Recorded(s.n) /\ \A t \in subs : s = t
        /\ s.stage # "submitting" => s.n \notin posted \cup moved

NewestFirst ==
    /\ Len(history) <= HistoryLimit
    /\ \A i, j \in 1..Len(history) : i < j => history[i].n > history[j].n

Visible(n) ==
    \/ \E s \in subs : s.n = n
    \/ Recorded(n) \/ n \in left
    \/ Len(history) = HistoryLimit /\ history[HistoryLimit].n > n

Posted ==
    posted \cup moved \subseteq 1..attempts /\ \A n \in posted \cup moved : Visible(n)

(* A page that tracks nothing has nothing to show nor to be asked about.   *)
PageAlone ==
    /\ tracked = None => progress = None
    /\ tracked = None /\ slot # None => \A p \in polls : p.n # slot.n
    /\ phase = "polling" => subs = {} /\ (CardLive \/ (unsaved /\ tracked = None))
    /\ InStep /\ progress # None => progress.of = tracked

BridgeInv == TypeOK /\ OneAtATime /\ NewestFirst /\ Posted /\ PageAlone
=============================================================================
