---------------------------- MODULE FeatureQueue ----------------------------
(***************************************************************************)
(* The file queue between the web GUI and the feature-enabler sidecar.     *)
(* The web side (app/src/lib/feature-requests.ts and the handlers that use *)
(* it) links <service>.req and reads <service>.result; the sidecar         *)
(* (feature-enabler/enabler.sh) renames .req to .req.lock, applies it,     *)
(* writes the result and removes the lock.  Each file operation of either  *)
(* side is a step; nothing else orders them.                               *)
(*                                                                         *)
(* A request file holds the number of its request, 0 is no file.  What a   *)
(* request does to the stack is module EnablerUpgrade; here it ends well   *)
(* or not.                                                                 *)
(***************************************************************************)
EXTENDS Integers

CONSTANTS
    Services,     \* bitcoin, indexer, web-gui
    WebGui,       \* the service auto-install upgrades
    NoService,
    Handlers,     \* web requests that can be in flight together
    Kinds,        \* which handlers run: "manual", "auto", "poll"
    MaxRequests,  \* bound: requests accepted in a behaviour
    MaxCrashes,   \* bound: crashes of the sidecar in a behaviour
    MaxStale      \* bound: requests that grow older than a day

ASSUME ServiceAssumption == WebGui \in Services /\ NoService \notin Services
ASSUME KindAssumption == Kinds \subseteq {"manual", "auto", "poll"}
ASSUME RequestAssumption == MaxRequests \in Nat

VARIABLES
    req,        \* <service>.req
    lock,       \* <service>.req.lock
    result,     \* <service>.result, and the request it answers
    stale,      \* requests whose file is older than MAX_REQ_AGE_SECS
    enabler,    \* the sidecar: where it is, the files of this pass, the service,
                \* the request it holds in memory only (0: none)
    web,        \* the web requests in flight
    (* Observers *)
    latest,     \* Services -> the last request accepted
    count,      \* requests accepted
    answered,   \* requests with a result written
    superseded, \* requests whose lock was archived
    unread,     \* requests whose lock went before their answer was written
    runs,       \* how often each request was claimed
    crashes

vars == <<req, lock, result, stale, enabler, web, latest, count, answered,
          superseded, unread, runs, crashes>>

files == <<req, lock, result, stale>>
observers == <<latest, count, answered, superseded, unread, runs, crashes>>

Ids == 1..MaxRequests

Idle == [at |-> "idle", kind |-> "manual", svc |-> WebGui, ok |-> TRUE,
         pending |-> FALSE, known |-> 0]

Init ==
    /\ req = [s \in Services |-> 0]
    /\ lock = [s \in Services |-> 0]
    /\ result = [s \in Services |-> [ok |-> TRUE, id |-> 0]]
    /\ stale = {}
    /\ enabler = [at |-> "scan", todo |-> {}, svc |-> NoService, id |-> 0]
    /\ web = [w \in Handlers |-> Idle]
    /\ latest = [s \in Services |-> 0]
    /\ count = 0
    /\ answered = {}
    /\ superseded = {}
    /\ unread = {}
    /\ runs = [i \in Ids |-> 0]
    /\ crashes = 0

-----------------------------------------------------------------------------
(* The web side.  manual: enable, disable, upgrade and rollback; auto:     *)
(* GET update-check with a newer release and auto-install on; poll: GET    *)
(* features/status.                                                        *)
Open(w, s, kind) ==
    /\ web[w].at = "idle"
    /\ kind \in Kinds
    /\ kind = "auto" => s = WebGui
    /\ web' = [web EXCEPT ![w] = [Idle EXCEPT
                  !.at = IF kind = "auto" THEN "readResult" ELSE "statReq",
                  !.kind = kind, !.svc = s, !.known = latest[s]]]
    /\ UNCHANGED <<files, enabler, observers>>

(* readFeatureResult comes first; the two stats are awaited after it.      *)
AutoReadsResult(w) ==
    /\ web[w].at = "readResult"
    /\ web' = [web EXCEPT ![w].at = "statReq",
                          ![w].ok = result[web[w].svc].ok]
    /\ UNCHANGED <<files, enabler, observers>>

(* What a handler does with the answer of isRequestPending: a poll goes on *)
(* to read the result; a pending request turns the others away, and auto   *)
(* stays quiet after a failure.                                            *)
AfterPending(h, pending) ==
    CASE h.kind = "poll"  -> [h EXCEPT !.at = "showResult", !.pending = pending]
      [] h.kind # "poll" /\ ~pending /\ h.ok -> [h EXCEPT !.at = "link"]
      [] OTHER -> Idle

(* The claim file is not looked at.                                        *)
StatLockSkipped(w) ==
    /\ web[w].at = "statLock"
    /\ web' = [web EXCEPT ![w] = AfterPending(@, FALSE)]
    /\ UNCHANGED <<files, enabler, observers>>

StatReq(w) ==
    /\ web[w].at = "statReq"
    /\ web' = [web EXCEPT ![w] = IF req[@.svc] # 0 THEN AfterPending(@, TRUE)
                                 ELSE [@ EXCEPT !.at = "statLock"]]
    /\ UNCHANGED <<files, enabler, observers>>

StatLock(w) ==
    /\ web[w].at = "statLock"
    /\ web' = [web EXCEPT ![w] = AfterPending(@, lock[@.svc] # 0)]
    /\ UNCHANGED <<files, enabler, observers>>

(* The step-up gate turned the request away.                               *)
Refused(w) ==
    /\ web[w].at = "link"
    /\ web[w].kind = "manual"
    /\ web' = [web EXCEPT ![w] = Idle]
    /\ UNCHANGED <<files, enabler, observers>>

(* link(tmp, final): the request file exists after it, and only one call   *)
(* creates it.                                                             *)
Link(w) ==
    LET s == web[w].svc IN
    /\ web[w].at = "link"
    /\ req[s] = 0
    /\ count < MaxRequests
    /\ count' = count + 1
    /\ req' = [req EXCEPT ![s] = count + 1]
    /\ latest' = [latest EXCEPT ![s] = count + 1]
    /\ web' = [web EXCEPT ![w] = Idle]
    /\ UNCHANGED <<lock, result, stale, enabler, answered, superseded, unread, runs,
                   crashes>>

LinkExists(w) ==
    /\ web[w].at = "link"
    /\ req[web[w].svc] # 0
    /\ web' = [web EXCEPT ![w] = Idle]
    /\ UNCHANGED <<files, enabler, observers>>

PollAnswers(w) ==
    /\ web[w].at = "showResult"
    /\ web' = [web EXCEPT ![w] = Idle]
    /\ UNCHANGED <<files, enabler, observers>>

(* compose up -d web-gui, or a crash of the web container.                 *)
WebRestart ==
    /\ \E w \in Handlers : web[w].at # "idle"
    /\ web' = [w \in Handlers |-> Idle]
    /\ UNCHANGED <<files, enabler, observers>>

Web(w) ==
    \/ \E s \in Services, kind \in Kinds : Open(w, s, kind)
    \/ AutoReadsResult(w)
    \/ StatReq(w)
    \/ StatLock(w)
    \/ Refused(w)
    \/ Link(w)
    \/ LinkExists(w)
    \/ PollAnswers(w)

-----------------------------------------------------------------------------
(* The sidecar.                                                            *)
At(step, todo, s) == enabler' = [at |-> step, todo |-> todo, svc |-> s, id |-> 0]

(* The sidecar comes up without recover_stale_locks.                       *)
StartWithoutRecovery ==
    /\ enabler.at = "down"
    /\ At("scan", {}, NoService)
    /\ UNCHANGED <<files, web, observers>>

(* recover_stale_locks: the glob is expanded once.                         *)
Start ==
    /\ enabler.at = "down"
    /\ At("recover", {s \in Services : lock[s] # 0}, NoService)
    /\ UNCHANGED <<files, web, observers>>

(* A newer request is queued: the stranded lock is archived.               *)
RecoverArchives(s) ==
    /\ enabler.at = "recover"
    /\ s \in enabler.todo
    /\ req[s] # 0
    /\ lock' = [lock EXCEPT ![s] = 0]
    /\ superseded' = superseded \cup {lock[s]}
    /\ At("recover", enabler.todo \ {s}, NoService)
    /\ UNCHANGED <<req, result, stale, web, latest, count, answered, unread, runs, crashes>>

(* No newer request is there: it is handed back, by a mv that comes after  *)
(* the test and replaces whatever it finds.                                *)
RecoverTests(s) ==
    /\ enabler.at = "recover"
    /\ s \in enabler.todo
    /\ req[s] = 0
    /\ At("handBack", enabler.todo, s)
    /\ UNCHANGED <<files, web, observers>>

RecoverHandsBack ==
    LET s == enabler.svc IN
    /\ enabler.at = "handBack"
    /\ req' = [req EXCEPT ![s] = lock[s]]
    /\ lock' = [lock EXCEPT ![s] = 0]
    /\ At("recover", enabler.todo \ {s}, NoService)
    /\ UNCHANGED <<result, stale, web, observers>>

Recovered ==
    /\ enabler.at = "recover"
    /\ enabler.todo = {}
    /\ At("scan", {}, NoService)
    /\ UNCHANGED <<files, web, observers>>

(* main_loop: one pass takes the files its glob found, the next one looks  *)
(* again.                                                                  *)
Scan ==
    /\ enabler.at = "scan"
    /\ enabler.todo = {}
    /\ \E s \in Services : req[s] # 0
    /\ At("scan", {s \in Services : req[s] # 0}, NoService)
    /\ UNCHANGED <<files, web, observers>>

(* process_file: older than a day, answered with a refusal, then archived. *)
Expire(s) ==
    /\ enabler.at = "scan"
    /\ s \in enabler.todo
    /\ req[s] \in stale
    /\ result' = [result EXCEPT ![s] = [ok |-> FALSE, id |-> req[s]]]
    /\ answered' = answered \cup {req[s]}
    /\ At("expired", enabler.todo, s)
    /\ UNCHANGED <<req, lock, stale, web, latest, count, superseded, unread, runs, crashes>>

ArchiveExpired ==
    /\ enabler.at = "expired"
    /\ req' = [req EXCEPT ![enabler.svc] = 0]
    /\ At("scan", enabler.todo \ {enabler.svc}, NoService)
    /\ UNCHANGED <<lock, result, stale, web, observers>>

(* The request is copied, not renamed.                                     *)
ClaimByCopy(s) ==
    /\ enabler.at = "scan"
    /\ s \in enabler.todo
    /\ req[s] \notin stale
    /\ lock' = [lock EXCEPT ![s] = req[s]]
    /\ runs' = [runs EXCEPT ![req[s]] = @ + 1]
    /\ At("apply", enabler.todo \ {s}, s)
    /\ UNCHANGED <<req, result, stale, web, latest, count, answered, superseded, unread, crashes>>

Claim(s) ==
    /\ enabler.at = "scan"
    /\ s \in enabler.todo
    /\ req[s] \notin stale
    /\ lock' = [lock EXCEPT ![s] = req[s]]
    /\ req' = [req EXCEPT ![s] = 0]
    /\ runs' = [runs EXCEPT ![req[s]] = @ + 1]
    /\ At("apply", enabler.todo \ {s}, s)
    /\ UNCHANGED <<result, stale, web, latest, count, answered, superseded, unread, crashes>>

(* apply_request and write_result: the outcome is on disk.                 *)
WriteResult(ok) ==
    LET s == enabler.svc IN
    /\ enabler.at = "apply"
    /\ result' = [result EXCEPT ![s] = [ok |-> ok, id |-> lock[s]]]
    /\ answered' = answered \cup {lock[s]}
    /\ At("written", enabler.todo, s)
    /\ UNCHANGED <<req, lock, stale, web, latest, count, superseded, unread, runs, crashes>>

(* The claimed file cannot be read: its lock is removed first, and only    *)
(* then is it answered.                                                    *)
DropUnread ==
    LET s == enabler.svc IN
    /\ enabler.at = "apply"
    /\ lock' = [lock EXCEPT ![s] = 0]
    /\ unread' = unread \cup {lock[s]}
    /\ enabler' = [at |-> "unread", todo |-> enabler.todo, svc |-> s, id |-> lock[s]]
    /\ UNCHANGED <<req, result, stale, web, latest, count, answered, superseded, runs,
                   crashes>>

AnswerUnread ==
    /\ enabler.at = "unread"
    /\ result' = [result EXCEPT ![enabler.svc] = [ok |-> FALSE, id |-> enabler.id]]
    /\ answered' = answered \cup {enabler.id}
    /\ At("scan", enabler.todo, NoService)
    /\ UNCHANGED <<req, lock, stale, web, latest, count, superseded, unread, runs, crashes>>

(* The lock is left behind.                                                *)
RemoveLockForgotten ==
    /\ enabler.at = "written"
    /\ At("scan", enabler.todo, NoService)
    /\ UNCHANGED <<files, web, observers>>

RemoveLock ==
    /\ enabler.at = "written"
    /\ lock' = [lock EXCEPT ![enabler.svc] = 0]
    /\ At("scan", enabler.todo, NoService)
    /\ UNCHANGED <<req, result, stale, web, observers>>

Crash ==
    /\ enabler.at # "down"
    /\ crashes < MaxCrashes
    /\ crashes' = crashes + 1
    /\ At("down", {}, NoService)
    /\ UNCHANGED <<files, web, latest, count, answered, superseded, unread, runs>>

(* A day passes over a file that is still there.                           *)
Age(s) ==
    /\ \E i \in {req[s], lock[s]} \ ({0} \cup stale) :
          /\ i <= MaxStale
          /\ stale' = stale \cup {i}
    /\ UNCHANGED <<req, lock, result, enabler, web, observers>>

Enabler ==
    \/ Start
    \/ Recovered
    \/ Scan
    \/ ArchiveExpired
    \/ RecoverHandsBack
    \/ \E ok \in BOOLEAN : WriteResult(ok)
    \/ RemoveLock
    \/ DropUnread
    \/ AnswerUnread
    \/ \E s \in Services :
          \/ RecoverArchives(s)
          \/ RecoverTests(s)
          \/ Expire(s)
          \/ Claim(s)

Next ==
    \/ \E w \in Handlers : Web(w)
    \/ WebRestart
    \/ Enabler
    \/ Crash
    \/ \E s \in Services : Age(s)

Spec == Init /\ [][Next]_vars

(* Docker restarts the sidecar, its loop never waits on anyone, and a      *)
(* compose command ends.  Nothing makes the web side move.                 *)
FairSpec == Spec /\ WF_vars(Enabler)

-----------------------------------------------------------------------------
Working == {"apply", "written", "handBack", "expired", "unread"}

(* The request of s that is in the sidecar's memory only.                  *)
Unread(s) == IF enabler.svc = s THEN enabler.id ELSE 0

Handler == [at : {"idle", "readResult", "statReq", "statLock", "link", "showResult"},
            kind : {"manual", "auto", "poll"}, svc : Services, ok : BOOLEAN,
            pending : BOOLEAN, known : 0..MaxRequests]

(* Type invariant; a sidecar that works on a file knows whose it is.       *)
TypeOK ==
    /\ req \in [Services -> 0..MaxRequests]
    /\ lock \in [Services -> 0..MaxRequests]
    /\ result \in [Services -> [ok : BOOLEAN, id : 0..MaxRequests]]
    /\ stale \subseteq Ids
    /\ enabler \in [at : {"down", "recover", "scan"} \cup Working,
                    todo : SUBSET Services, svc : Services \cup {NoService},
                    id : 0..MaxRequests]
    /\ enabler.at \in Working => enabler.svc \in Services
    /\ web \in [Handlers -> Handler]
    /\ latest \in [Services -> 0..MaxRequests]
    /\ count \in 0..MaxRequests
    /\ answered \subseteq Ids
    /\ superseded \subseteq Ids
    /\ unread \subseteq Ids
    /\ runs \in [Ids -> Nat]
    /\ crashes \in Nat

(* At most one claim exists, and none while the sidecar looks for work: a  *)
(* claim never renames over the lock of another run (process_file's mv).   *)
ClaimsExclusive ==
    /\ enabler.at \in {"scan", "expired", "unread"} => \A s \in Services : lock[s] = 0
    /\ \A s, t \in Services : lock[s] # 0 /\ lock[t] # 0 => s = t

(* A request is applied once, and once more for each crash of the sidecar. *)
RunOncePerCrash == \A i \in Ids : runs[i] <= 1 + crashes

(* The claims of the sidecar: their shape, one at a time, and no request   *)
(* applied more often than crashes account for (enabler.sh, process_file). *)
ClaimsSound == TypeOK /\ ClaimsExclusive /\ RunOncePerCrash

(* As long as the sidecar has not died, a status poll that reports nothing *)
(* pending shows the answer to every request accepted before the poll      *)
(* began (features/status.ts: pending is read first, then the result).     *)
(* After a crash it may not: the hand-back renames .req.lock to .req, and  *)
(* the two stats look for them in the opposite order.  Nor may it between  *)
(* the removal of a lock that could not be read and its answer.            *)
PollTruth ==
    \A w \in Handlers :
        crashes = 0 /\ web[w].at = "showResult" /\ ~web[w].pending =>
            \/ result[web[w].svc].id >= web[w].known
            \/ Unread(web[w].svc) >= web[w].known

(* Every accepted request is answered, gives way to a newer one, or cannot *)
(* be read: a crash may then come before its answer (enabler.sh:443).      *)
EveryRequestEnds ==
    \A i \in Ids : (count >= i) ~> (i \in answered \cup superseded \cup unread)

-----------------------------------------------------------------------------
(* The files as a ledger of requests.                                      *)
Queued == {req[s] : s \in Services} \ {0}

Claimed == {lock[s] : s \in Services} \ {0}

Ledger == INSTANCE RequestLedger WITH
    Requests <- Ids,
    waiting <- Queued,
    running <- Claimed,
    finished <- (answered \cup unread) \ (Queued \cup Claimed \cup superseded),
    superseded <- superseded

(* The queue implements the ledger: nothing accepted ever disappears.  A   *)
(* request that cannot be read is finished when its lock is gone.          *)
ImplementsLedger == Ledger!Spec

(* However the two sides interleave and whenever the sidecar crashes, an   *)
(* accepted request leaves the files unanswered only by being archived,    *)
(* when it cannot be read, or at the hand-back of a stranded lock, which   *)
(* replaces a request linked since its test (recover_stale_locks).         *)
LostOnlyByHandBack ==
    [][\A i \in Queued \cup Claimed :
          i \in (Queued \cup Claimed \cup answered \cup superseded \cup unread)'
              \/ (enabler.at = "handBack" /\ req[enabler.svc] = i)]_vars
=============================================================================
