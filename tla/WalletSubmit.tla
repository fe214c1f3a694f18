---------------------------- MODULE WalletSubmit ----------------------------
(***************************************************************************)
(* A Mintlayer operation from the form to the wallet daemon and back: the  *)
(* panels (OrderBook, NFTMarketplace, DelegationPanel, PoolActions,        *)
(* TokenManagePanel, the issue modals), their clients, the endpoints       *)
(* stake-trade, send, token-manage, ml-intent-tx and transaction-abandon,  *)
(* and rpcCall.  One code of the authenticator authorises one request of   *)
(* one or more actions, in order.                                          *)
(*                                                                         *)
(* External: the daemon executes a call it has received even when nobody   *)
(* waits for it any more.  Requests are numbered in the order of their     *)
(* submission.                                                             *)
(***************************************************************************)
EXTENDS Integers, Sequences, FiniteSets

CONSTANTS
    Forms,       \* forms, or rows of a list
    Fields,      \* code inputs
    FieldOf,     \* form -> its code input: the rows of a list share one
    Codes,       \* codes of the authenticator
    None,
    MaxBatch,    \* actions in one request, 5 at most in the code
    MaxRequests  \* bound

VARIABLES
    typed,    \* field -> the code in it
    waitsFor, \* form -> the request it waits for, 0 when it is idle
    reqs,     \* requests: [form, code, size, done, stage, answer]
    burnt,    \* codes that step-up has accepted and not yet forgotten
    early,    \* requests whose code was accepted in the period before its own
    late,     \* codes accepted early whose burn has expired
    calls,    \* calls the daemon holds: <<request, action>>
    chain     \* what the daemon has submitted, in order

vars == <<typed, waitsFor, reqs, burnt, early, late, calls, chain>>
codes == <<burnt, early, late>>

Ids == 1..Len(reqs)

Init ==
    /\ typed = [d \in Fields |-> None]
    /\ waitsFor = [f \in Forms |-> 0]
    /\ reqs = <<>>
    /\ burnt = {}
    /\ early = {}
    /\ late = {}
    /\ calls = {}
    /\ chain = <<>>

-----------------------------------------------------------------------------
(* The user.  TotpField is disabled only by its own form's request.        *)
TypeCode(d, c) ==
    /\ \E f \in Forms : FieldOf[f] = d /\ waitsFor[f] = 0
    /\ typed' = [typed EXCEPT ![d] = c]
    /\ UNCHANGED <<waitsFor, reqs, codes, calls, chain>>

(* handleSubmit, run, freeze, conclude, handleBuy, ... -> fetch.           *)
Submit(f, size) ==
    /\ waitsFor[f] = 0
    /\ typed[FieldOf[f]] # None
    /\ Len(reqs) < MaxRequests
    /\ reqs' = Append(reqs, [form |-> f, code |-> typed[FieldOf[f]], size |-> size,
                             done |-> 0, stage |-> "received", answer |-> "none"])
    /\ waitsFor' = [waitsFor EXCEPT ![f] = Len(reqs) + 1]
    /\ UNCHANGED <<typed, codes, calls, chain>>

(* The modal is closed and opened again, or the page reloaded: the request *)
(* goes on, and nobody listens (sendModalGen in balances.astro).           *)
Reopen(f) ==
    /\ waitsFor[f] # 0
    /\ waitsFor' = [waitsFor EXCEPT ![f] = 0]
    /\ typed' = [typed EXCEPT ![FieldOf[f]] = None]
    /\ UNCHANGED <<reqs, codes, calls, chain>>

-----------------------------------------------------------------------------
Answers(r, answer) ==
    reqs' = [reqs EXCEPT ![r].stage = "answered", ![r].answer = answer]

(* A malformed action anywhere in the batch, an expired session, or a      *)
(* bridge configuration that cannot be had: no code is spent.              *)
Validate(r) ==
    /\ reqs[r].stage = "received"
    /\ \/ reqs' = [reqs EXCEPT ![r].stage = "valid"]
       \/ Answers(r, "refused")
    /\ UNCHANGED <<typed, waitsFor, codes, calls, chain>>

(* requireStepUp.  A code is burnt for two periods (step-up.ts:105), which *)
(* is its life unless the authenticator's clock runs ahead and it is       *)
(* presented in the period before its own.                                 *)
StepUp(r) ==
    LET c == reqs[r].code IN
    /\ reqs[r].stage = "valid"
    /\ IF c \in burnt
       THEN Answers(r, "refused") /\ UNCHANGED <<burnt, early>>
       ELSE /\ burnt' = burnt \cup {c}
            /\ \/ UNCHANGED early
               \/ c \notin late /\ early' = early \cup {r}
            /\ reqs' = [reqs EXCEPT ![r].stage = "next"]
    /\ UNCHANGED <<typed, waitsFor, late, calls, chain>>

(* pruneUsedCodes, in the period after that of a code presented early: it  *)
(* is good again, and cannot be early any more.                            *)
BurnExpires(c) ==
    /\ c \in burnt \ late
    /\ \E r \in early : reqs[r].code = c
    /\ burnt' = burnt \ {c}
    /\ late' = late \cup {c}
    /\ UNCHANGED <<typed, waitsFor, reqs, early, calls, chain>>

(* rpcCall posts the next action of the batch.                             *)
Call(r) ==
    /\ reqs[r].stage = "next"
    /\ reqs' = [reqs EXCEPT ![r].stage = "calling"]
    /\ calls' = calls \cup {<<r, reqs[r].done + 1>>}
    /\ UNCHANGED <<typed, waitsFor, codes, chain>>

(* The daemon signs and broadcasts, or refuses (funds, an orphan, ...).    *)
Execute(call) ==
    /\ call \in calls
    /\ call \notin {chain[i] : i \in 1..Len(chain)}
    /\ chain' = Append(chain, call)
    /\ UNCHANGED <<typed, waitsFor, reqs, codes, calls>>

Executed(r, k) == \E i \in 1..Len(chain) : chain[i] = <<r, k>>

(* results.push, and the next action or the answer.                        *)
CallReturns(r) ==
    LET k == reqs[r].done + 1 IN
    /\ reqs[r].stage = "calling"
    /\ Executed(r, k)
    /\ calls' = calls \ {<<r, k>>}
    /\ reqs' = [reqs EXCEPT ![r].done = k,
                            ![r].stage = IF k = reqs[r].size THEN "answered" ELSE "next",
                            ![r].answer = IF k = reqs[r].size THEN "ok" ELSE "none"]
    /\ UNCHANGED <<typed, waitsFor, codes, chain>>

(* A failed action skipped, the batch carried on.                          *)
DaemonRefusesSkipped(r) ==
    LET k == reqs[r].done + 1 IN
    /\ reqs[r].stage = "calling"
    /\ ~Executed(r, k)
    /\ calls' = calls \ {<<r, k>>}
    /\ reqs' = [reqs EXCEPT ![r].done = k,
                            ![r].stage = IF k = reqs[r].size THEN "answered" ELSE "next",
                            ![r].answer = IF k = reqs[r].size THEN "ok" ELSE "none"]
    /\ UNCHANGED <<typed, waitsFor, codes, chain>>

(* The first failure ends the batch: code_consumed, with its count.        *)
DaemonRefuses(r) ==
    LET k == reqs[r].done + 1 IN
    /\ reqs[r].stage = "calling"
    /\ ~Executed(r, k)
    /\ calls' = calls \ {<<r, k>>}
    /\ Answers(r, "consumed")
    /\ UNCHANGED <<typed, waitsFor, codes, chain>>

(* AbortSignal.timeout, or a lost connection: the call stays with the      *)
(* daemon, the answer says that the wallet service is unavailable.         *)
CallTimesOut(r) ==
    /\ reqs[r].stage = "calling"
    /\ Answers(r, "unavailable")
    /\ UNCHANGED <<typed, waitsFor, codes, calls, chain>>

-----------------------------------------------------------------------------
(* The answer reaches the form that waits for it.  The code is cleared on  *)
(* success and whenever it was consumed.                                   *)
Hear(r) ==
    LET f == reqs[r].form IN
    /\ reqs[r].stage = "answered"
    /\ waitsFor[f] = r
    /\ waitsFor' = [waitsFor EXCEPT ![f] = 0]
    /\ typed' = IF reqs[r].answer = "refused" THEN typed
                ELSE [typed EXCEPT ![FieldOf[f]] = None]
    /\ UNCHANGED <<reqs, codes, calls, chain>>

(* The browser loses the connection at any time: "Could not reach the      *)
(* server", the code stays in its field, and the user may press again.     *)
LoseAnswer(f) ==
    /\ waitsFor[f] # 0
    /\ waitsFor' = [waitsFor EXCEPT ![f] = 0]
    /\ UNCHANGED <<typed, reqs, codes, calls, chain>>

Next ==
    \/ \E d \in Fields, c \in Codes : TypeCode(d, c)
    \/ \E f \in Forms :
          \/ \E size \in 1..MaxBatch : Submit(f, size)
          \/ Reopen(f)
          \/ LoseAnswer(f)
    \/ \E r \in Ids :
          \/ Validate(r) \/ StepUp(r)
          \/ Call(r) \/ CallReturns(r) \/ DaemonRefuses(r) \/ CallTimesOut(r)
          \/ Hear(r)
    \/ \E call \in calls : Execute(call)
    \/ \E c \in burnt : BurnExpires(c)

Spec == Init /\ [][Next]_vars

-----------------------------------------------------------------------------
Submitted(r) == {k \in 1..MaxBatch : Executed(r, k)}

(* One code moves funds for one request, however often a form, or two rows *)
(* that share the field, press again after lost answers.  The exception is *)
(* that of SingleUseUnlessEarly: of two requests paid for with one code    *)
(* one, and only one, had presented it before its own period.  Holds as    *)
(* long as the process lives: a restart forgets what was burnt.            *)
OneRequestPerCode ==
    \A q, r \in Ids :
        q # r /\ reqs[q].code = reqs[r].code =>
            \/ Submitted(q) = {} \/ Submitted(r) = {}
            \/ (q \in early) # (r \in early)

(* What an answer says is what happened: all of it, none of it, or exactly *)
(* the first "completed" actions, and after a lost call one more at most.  *)
AnswerTellsTruth ==
    \A r \in Ids :
        /\ reqs[r].answer = "ok" => Submitted(r) = 1..reqs[r].size
        /\ reqs[r].answer = "refused" => Submitted(r) = {}
        /\ reqs[r].answer = "consumed" => Submitted(r) = 1..reqs[r].done
        /\ reqs[r].answer = "unavailable" =>
               Submitted(r) \in {1..reqs[r].done, 1..(reqs[r].done + 1)}

-----------------------------------------------------------------------------
(* The inductive invariant behind them, which PageProofs proves from these *)
(* assumptions: step-up lets requests begin with a code of their own, and  *)
(* a request runs one action after the other.                              *)
WalletSubmitConstants == FieldOf \in [Forms -> Fields] /\ MaxBatch \in Nat

Requests ==
    [form : Forms, code : Codes, size : 1..MaxBatch, done : 0..MaxBatch,
     stage : {"received", "valid", "next", "calling", "answered"},
     answer : {"none", "ok", "refused", "consumed", "unavailable"}]

TypeOK ==
    /\ typed \in [Fields -> Codes \cup {None}]
    /\ waitsFor \in [Forms -> Nat]
    /\ reqs \in Seq(Requests)
    /\ calls \subseteq Ids \X (1..MaxBatch)
    /\ chain \in Seq(Ids \X (1..MaxBatch))

Began(r) ==
    \/ reqs[r].stage \in {"next", "calling"}
    \/ reqs[r].stage = "answered" /\ reqs[r].answer # "refused"

(* The daemon may still hold a call that nobody waits for.                 *)
InCall(r) == reqs[r].stage = "calling" \/ reqs[r].answer = "unavailable"

OwnCodes ==
    /\ \A r \in early : r \in Ids /\ Began(r)
    /\ \A r \in Ids :
          Began(r) => reqs[r].code \in IF r \in early THEN burnt \cup late ELSE burnt
    /\ \A q, r \in Ids :
          Began(q) /\ Began(r) /\ q # r /\ reqs[q].code = reqs[r].code =>
              reqs[r].code \in late /\ (q \in early) # (r \in early)

Ordered(r) ==
    /\ reqs[r].stage = "answered" <=> reqs[r].answer # "none"
    /\ IF Began(r) THEN reqs[r].done <= reqs[r].size ELSE reqs[r].done = 0
    /\ reqs[r].answer = "ok" => reqs[r].done = reqs[r].size
    /\ reqs[r].stage = "next" \/ InCall(r) => reqs[r].done < reqs[r].size
    /\ \A k \in 1..MaxBatch :
          /\ k <= reqs[r].done => Executed(r, k)
          /\ Executed(r, k) => k <= reqs[r].done \/ (InCall(r) /\ k = reqs[r].done + 1)
          /\ <<r, k>> \in calls => InCall(r) /\ k = reqs[r].done + 1

WalletSubmitInv == TypeOK /\ OwnCodes /\ \A r \in Ids : Ordered(r)
=============================================================================
