-------------------------- MODULE FeatureQueueProofs --------------------------
(***************************************************************************)
(* What the file queue keeps for any number of services, web requests,     *)
(* crashes and expired files: claims are exclusive, a request is applied   *)
(* once and once more for each crash, and only the hand-back of a stranded *)
(* lock can lose one.                                                      *)
(***************************************************************************)
EXTENDS FeatureQueue, TLAPS

(* Every file holds a request of its own, and one that was accepted.       *)
FilesApart ==
    /\ \A s \in Services : req[s] <= count /\ lock[s] <= count
    /\ \A s, t \in Services : req[s] = req[t] /\ req[s] # 0 => s = t
    /\ \A s, t \in Services : req[s] = lock[t] => req[s] = 0

(* Where a lock is at each stage of the sidecar, and that the files of its *)
(* pass are there: nobody but the sidecar removes a file.                  *)
LocksPlaced ==
    /\ enabler.at \in {"apply", "written", "handBack"} =>
          \A s \in Services : lock[s] # 0 <=> s = enabler.svc
    /\ enabler.at = "recover" => \A s \in Services : lock[s] # 0 <=> s \in enabler.todo
    /\ enabler.at = "handBack" => enabler.todo \subseteq {enabler.svc}
    /\ enabler.at \in {"scan", "expired", "apply", "written", "unread"} =>
          \A s \in enabler.todo : req[s] # 0
    /\ enabler.at = "expired" => req[enabler.svc] \in answered
    /\ enabler.at = "written" => lock[enabler.svc] \in answered
    /\ enabler.at = "unread" => enabler.id \in unread
    /\ enabler.at # "unread" => enabler.id = 0

(* A request that still lies in a file was applied at most once for each   *)
(* crash so far; a running one once more.                                  *)
RunsCounted ==
    /\ \A i \in Ids : i > count => runs[i] = 0
    /\ \A s \in Services : req[s] # 0 => runs[req[s]] <= crashes
    /\ \A s \in Services :
          lock[s] # 0 /\ enabler.at \notin {"apply", "written"} => runs[lock[s]] <= crashes

(* A request that ended was accepted, and one that gave way is in no file. *)
Archived ==
    /\ \A i \in answered \cup superseded \cup unread : i <= count
    /\ \A s \in Services : req[s] \notin superseded /\ lock[s] \notin superseded

IInv == TypeOK /\ ClaimsExclusive /\ RunOncePerCrash
        /\ FilesApart /\ LocksPlaced /\ RunsCounted /\ Archived

(* With one web request at a time and one crash, no request is linked      *)
(* where a stranded lock is about to be handed back: a handler that has    *)
(* seen no lock before the crash had seen, or finds, no lock there.        *)
HandBackFree ==
    /\ enabler.at \in {"down", "recover", "handBack"} => crashes > 0
    /\ enabler.at = "handBack" => req[enabler.svc] = 0
    /\ \A w \in Handlers :
          /\ crashes = 0 /\ web[w].at \in {"statLock", "link"} => req[web[w].svc] = 0
          /\ crashes = 0 /\ web[w].at = "link" => lock[web[w].svc] = 0
          /\ enabler.at \in {"down", "recover", "handBack"} /\ web[w].at = "link" =>
                lock[web[w].svc] = 0

-----------------------------------------------------------------------------
LEMMA IdleIsHandler == Idle \in Handler
  BY ServiceAssumption, RequestAssumption DEF Idle, Handler

LEMMA AfterPendingIsHandler ==
    ASSUME NEW h \in Handler, NEW p \in BOOLEAN
    PROVE  AfterPending(h, p) \in Handler
<1>1. CASE h.kind = "poll"
  BY <1>1 DEF AfterPending, Handler
<1>2. CASE h.kind # "poll" /\ ~p /\ h.ok
  BY <1>2 DEF AfterPending, Handler
<1>3. CASE h.kind # "poll" /\ (p \/ ~h.ok)
  BY <1>3, IdleIsHandler DEF AfterPending
<1> QED
  BY <1>1, <1>2, <1>3 DEF Handler

LEMMA InitIInv == Init => IInv
  BY ServiceAssumption, RequestAssumption, IdleIsHandler
  DEF Init, IInv, TypeOK, ClaimsExclusive, RunOncePerCrash, FilesApart, LocksPlaced,
      RunsCounted, Archived, Ids, Working

(* What a step of the web side that does not link leaves as it is.         *)
LEMMA WebWaits ==
    ASSUME IInv, UNCHANGED <<files, enabler, observers>>, web' \in [Handlers -> Handler]
    PROVE  IInv'
  BY DEF IInv, TypeOK, ClaimsExclusive, RunOncePerCrash, FilesApart, LocksPlaced,
         RunsCounted, Archived, files, observers

LEMMA LinkStep ==
    ASSUME IInv, NEW w \in Handlers, Link(w)
    PROVE  IInv'
<1> DEFINE s == web[w].svc
           i == count + 1
<1>1. /\ s \in Services /\ req[s] = 0 /\ i \in Ids /\ i > count
      /\ count \in Nat /\ crashes \in Nat
  BY RequestAssumption DEF IInv, TypeOK, Handler, Link, Ids
<1>2. /\ count' = i /\ req' = [req EXCEPT ![s] = i] /\ latest' = [latest EXCEPT ![s] = i]
      /\ web' = [web EXCEPT ![w] = Idle]
      /\ UNCHANGED <<lock, result, stale, enabler, answered, superseded, unread, runs, crashes>>
  BY DEF Link
<1> HIDE DEF s, i
<1>3. TypeOK'
  BY <1>1, <1>2, IdleIsHandler DEF IInv, TypeOK, Ids
<1>4. ClaimsExclusive' /\ RunOncePerCrash'
  BY <1>2 DEF IInv, ClaimsExclusive, RunOncePerCrash
<1>5. FilesApart'
  <2>1. \A t \in Services : req[t] \in Nat /\ lock[t] \in Nat
    BY DEF IInv, TypeOK
  <2>2. \A t \in Services : req'[t] = IF t = s THEN i ELSE req[t]
    BY <1>1, <1>2 DEF IInv, TypeOK
  <2> QED
    BY <1>1, <1>2, <2>1, <2>2, RequestAssumption DEF IInv, FilesApart, Ids
<1>6. LocksPlaced'
  <2>1. \A t \in Services : req'[t] = IF t = s THEN i ELSE req[t]
    BY <1>1, <1>2 DEF IInv, TypeOK
  <2>2. enabler.at = "expired" => enabler.svc # s
    BY <1>1, RequestAssumption DEF IInv, LocksPlaced, TypeOK, Ids
  <2> QED
    BY <1>1, <1>2, <2>1, <2>2 DEF IInv, LocksPlaced, TypeOK, Working, Ids
<1>7. RunsCounted'
  <2>1. \A t \in Services : req'[t] = IF t = s THEN i ELSE req[t]
    BY <1>1, <1>2 DEF IInv, TypeOK
  <2>2. runs[i] = 0
    BY <1>1 DEF IInv, RunsCounted
  <2> QED
    BY <1>1, <1>2, <2>1, <2>2 DEF IInv, RunsCounted, TypeOK, Ids
<1>8. Archived'
  <2>1. \A t \in Services : req'[t] = IF t = s THEN i ELSE req[t]
    BY <1>1, <1>2 DEF IInv, TypeOK
  <2>2. \A j \in answered \cup superseded \cup unread : j \in Ids /\ j <= count
    BY DEF IInv, TypeOK, Archived
  <2> QED
    BY <1>1, <1>2, <2>1, <2>2 DEF IInv, Archived, Ids
<1> QED
  BY <1>3, <1>4, <1>5, <1>6, <1>7, <1>8 DEF IInv

LEMMA WebStep ==
    ASSUME IInv, NEW w \in Handlers, Web(w)
    PROVE  IInv'
<1>1. web[w] \in Handler /\ web \in [Handlers -> Handler]
  BY DEF IInv, TypeOK
<1>2. ASSUME NEW s \in Services, NEW kind \in Kinds, Open(w, s, kind)
      PROVE  IInv'
  <2>1. [Idle EXCEPT !.at = IF kind = "auto" THEN "readResult" ELSE "statReq",
                     !.kind = kind, !.svc = s, !.known = latest[s]] \in Handler
    BY KindAssumption, IdleIsHandler DEF Handler, IInv, TypeOK, Idle
  <2> QED
    BY <1>1, <1>2, <2>1, WebWaits DEF Open
<1>3. CASE AutoReadsResult(w)
  <2>1. result[web[w].svc].ok \in BOOLEAN
    BY <1>1 DEF IInv, TypeOK, Handler
  <2>2. web' \in [Handlers -> Handler]
    BY <1>1, <1>3, <2>1 DEF AutoReadsResult, Handler
  <2> QED
    BY <1>3, <2>2, WebWaits DEF AutoReadsResult
<1>4. CASE StatReq(w)
  <2>1. AfterPending(web[w], TRUE) \in Handler
    BY <1>1, AfterPendingIsHandler
  <2>2. [web[w] EXCEPT !.at = "statLock"] \in Handler
    BY <1>1 DEF Handler
  <2> QED
    BY <1>1, <1>4, <2>1, <2>2, WebWaits DEF StatReq
<1>5. CASE StatLock(w)
  <2>1. AfterPending(web[w], lock[web[w].svc] # 0) \in Handler
    BY <1>1, AfterPendingIsHandler
  <2> QED
    BY <1>1, <1>5, <2>1, WebWaits DEF StatLock
<1>6. CASE Refused(w) \/ LinkExists(w) \/ PollAnswers(w)
  BY <1>1, <1>6, IdleIsHandler, WebWaits DEF Refused, LinkExists, PollAnswers
<1>7. CASE Link(w)
  BY <1>7, LinkStep
<1> QED
  BY <1>2, <1>3, <1>4, <1>5, <1>6, <1>7 DEF Web

-----------------------------------------------------------------------------
(* The sidecar moves and no file does.                                     *)
LEMMA SidecarLooks ==
    ASSUME IInv, Start \/ Recovered \/ Scan \/ \E s \in Services : RecoverTests(s)
    PROVE  IInv'
<1> USE DEF At, files, observers, IInv, TypeOK, ClaimsExclusive, RunOncePerCrash,
            FilesApart, LocksPlaced, RunsCounted, Archived, Working
<1>1. CASE Start
  BY <1>1, ServiceAssumption DEF Start
<1>2. CASE Recovered
  BY <1>2, ServiceAssumption DEF Recovered
<1>3. CASE Scan
  BY <1>3, ServiceAssumption DEF Scan
<1>4. ASSUME NEW s \in Services, RecoverTests(s) PROVE IInv'
  BY <1>4 DEF RecoverTests
<1> QED
  BY <1>1, <1>2, <1>3, <1>4

LEMMA RecoverArchivesStep ==
    ASSUME IInv, NEW s \in Services, RecoverArchives(s)
    PROVE  IInv'
<1>1. /\ lock' = [lock EXCEPT ![s] = 0] /\ superseded' = superseded \cup {lock[s]}
      /\ enabler' = [at |-> "recover", todo |-> enabler.todo \ {s}, svc |-> NoService, id |-> 0]
      /\ enabler.at = "recover" /\ s \in enabler.todo
      /\ UNCHANGED <<req, result, stale, web, latest, count, answered, unread, runs, crashes>>
  BY DEF RecoverArchives, At
<1>2. \A t \in Services : lock'[t] = IF t = s THEN 0 ELSE lock[t]
  BY <1>1 DEF IInv, TypeOK
<1>3. lock[s] \in Ids
  BY <1>1, RequestAssumption DEF IInv, TypeOK, LocksPlaced, Ids
<1>4. TypeOK'
  <2>1. lock' \in [Services -> 0..MaxRequests] /\ superseded' \subseteq Ids
    BY <1>1, <1>3, RequestAssumption DEF IInv, TypeOK
  <2>2. enabler.todo \ {s} \in SUBSET Services
    BY DEF IInv, TypeOK
  <2> QED
    BY <1>1, <2>1, <2>2 DEF IInv, TypeOK, Working
<1>5. ClaimsExclusive' /\ RunOncePerCrash' /\ LocksPlaced' /\ RunsCounted'
  BY <1>1, <1>2 DEF IInv, ClaimsExclusive, RunOncePerCrash, LocksPlaced, RunsCounted
<1>6. FilesApart'
  BY <1>1, <1>2, RequestAssumption DEF IInv, TypeOK, FilesApart
<1>7. Archived'
  <2>1. \A t \in Services : t # s => lock[t] # lock[s]
    BY <1>1, <1>3 DEF IInv, ClaimsExclusive, Ids
  <2>2. \A t \in Services : req[t] # lock[s]
    BY <1>1, <1>3 DEF IInv, FilesApart, Ids
  <2>3. lock[s] <= count /\ 0 \notin superseded
    BY DEF IInv, FilesApart, TypeOK, Ids
  <2> QED
    BY <1>1, <1>2, <1>3, <2>1, <2>2, <2>3 DEF IInv, Archived, Ids
<1> QED
  BY <1>4, <1>5, <1>6, <1>7 DEF IInv

LEMMA RecoverHandsBackStep ==
    ASSUME IInv, RecoverHandsBack
    PROVE  IInv'
<1> DEFINE s == enabler.svc
<1>1. /\ req' = [req EXCEPT ![s] = lock[s]] /\ lock' = [lock EXCEPT ![s] = 0]
      /\ enabler' = [at |-> "recover", todo |-> enabler.todo \ {s}, svc |-> NoService, id |-> 0]
      /\ enabler.at = "handBack"
      /\ UNCHANGED <<result, stale, web, latest, count, answered, superseded, unread, runs, crashes>>
  BY DEF RecoverHandsBack, At, observers
<1>2. s \in Services /\ lock[s] \in Ids
  BY <1>1, RequestAssumption DEF IInv, TypeOK, LocksPlaced, Ids, Working
<1> HIDE DEF s
<1>3. \A t \in Services : /\ lock'[t] = IF t = s THEN 0 ELSE lock[t]
                          /\ req'[t] = IF t = s THEN lock[s] ELSE req[t]
  BY <1>1 DEF IInv, TypeOK
<1>4. \A t \in Services : lock[t] # 0 <=> t = s
  BY <1>1 DEF IInv, LocksPlaced, s
<1>5. TypeOK'
  <2>1. lock' \in [Services -> 0..MaxRequests] /\ req' \in [Services -> 0..MaxRequests]
    BY <1>1, <1>2, RequestAssumption DEF IInv, TypeOK, Ids
  <2>2. enabler.todo \ {s} \in SUBSET Services
    BY DEF IInv, TypeOK
  <2> QED
    BY <1>1, <2>1, <2>2 DEF IInv, TypeOK, Working
<1>6. ClaimsExclusive' /\ RunOncePerCrash' /\ LocksPlaced'
  BY <1>1, <1>3, <1>4 DEF IInv, ClaimsExclusive, RunOncePerCrash, LocksPlaced, s
<1>7. FilesApart'
  <2>1. \A t \in Services : t # s => lock[t] = 0 /\ req[t] # lock[s]
    BY <1>2, <1>4 DEF IInv, FilesApart, Ids
  <2>2. \A t \in Services : req'[t] <= count /\ lock'[t] <= count
    BY <1>2, <1>3, RequestAssumption DEF IInv, TypeOK, FilesApart
  <2>3. \A t, u \in Services : req'[t] = req'[u] /\ req'[t] # 0 => t = u
    BY <1>2, <1>3, <2>1 DEF IInv, FilesApart
  <2>4. \A t, u \in Services : req'[t] = lock'[u] => req'[t] = 0
    BY <1>2, <1>3, <2>1 DEF IInv, FilesApart
  <2> QED
    BY <1>1, <2>2, <2>3, <2>4 DEF FilesApart
<1>8. RunsCounted'
  BY <1>1, <1>2, <1>3, <1>4 DEF IInv, RunsCounted
<1>9. Archived'
  BY <1>1, <1>2, <1>3 DEF IInv, TypeOK, Archived, Ids
<1> QED
  BY <1>5, <1>6, <1>7, <1>8, <1>9 DEF IInv

LEMMA ExpireStep ==
    ASSUME IInv, NEW s \in Services, Expire(s)
    PROVE  IInv'
<1>1. /\ result' = [result EXCEPT ![s] = [ok |-> FALSE, id |-> req[s]]]
      /\ answered' = answered \cup {req[s]}
      /\ enabler' = [at |-> "expired", todo |-> enabler.todo, svc |-> s, id |-> 0]
      /\ enabler.at = "scan" /\ s \in enabler.todo
      /\ UNCHANGED <<req, lock, stale, web, latest, count, superseded, unread, runs, crashes>>
  BY DEF Expire, At
<1>2. req[s] \in Ids
  BY <1>1, RequestAssumption DEF IInv, TypeOK, LocksPlaced, Ids
<1>3. TypeOK'
  <2>1. result' \in [Services -> [ok : BOOLEAN, id : 0..MaxRequests]] /\ 0 \in 0..MaxRequests
    BY <1>1, <1>2, RequestAssumption DEF IInv, TypeOK, Ids
  <2>2. enabler.todo \in SUBSET Services
    BY DEF IInv, TypeOK
  <2> QED
    BY <1>1, <1>2, <2>1, <2>2 DEF IInv, TypeOK, Working
<1> QED
  BY <1>1, <1>3
  DEF IInv, ClaimsExclusive, RunOncePerCrash, FilesApart, LocksPlaced, RunsCounted,
      Archived, TypeOK, Ids

LEMMA ArchiveExpiredStep ==
    ASSUME IInv, ArchiveExpired
    PROVE  IInv'
<1> DEFINE s == enabler.svc
<1>1. /\ req' = [req EXCEPT ![s] = 0]
      /\ enabler' = [at |-> "scan", todo |-> enabler.todo \ {s}, svc |-> NoService, id |-> 0]
      /\ enabler.at = "expired"
      /\ UNCHANGED <<lock, result, stale, web, latest, count, answered, superseded, unread, runs, crashes>>
  BY DEF ArchiveExpired, At, observers
<1>2. s \in Services
  BY <1>1 DEF IInv, TypeOK, Working
<1> HIDE DEF s
<1>3. \A t \in Services : req'[t] = IF t = s THEN 0 ELSE req[t]
  BY <1>1 DEF IInv, TypeOK
<1>4. TypeOK'
  <2>1. req' \in [Services -> 0..MaxRequests]
    <3>1. req \in [Services -> 0..MaxRequests] /\ 0 \in 0..MaxRequests
      BY RequestAssumption DEF IInv, TypeOK
    <3> QED
      BY <1>1, <3>1
  <2>2. enabler.todo \ {s} \in SUBSET Services
    BY DEF IInv, TypeOK
  <2> QED
    BY <1>1, <2>1, <2>2 DEF IInv, TypeOK, Working
<1>5. FilesApart'
  BY <1>1, <1>3, RequestAssumption DEF IInv, TypeOK, FilesApart
<1>6. ClaimsExclusive' /\ RunOncePerCrash' /\ LocksPlaced' /\ RunsCounted'
  BY <1>1, <1>3 DEF IInv, ClaimsExclusive, RunOncePerCrash, LocksPlaced, RunsCounted, TypeOK
<1>7. Archived'
  BY <1>1, <1>3 DEF IInv, TypeOK, Archived, Ids
<1> QED
  BY <1>4, <1>5, <1>6, <1>7 DEF IInv

(* The rename moves the request from one file to the other; the lock it    *)
(* would replace is not there.                                             *)
LEMMA ClaimStep ==
    ASSUME IInv, NEW s \in Services, Claim(s)
    PROVE  IInv'
<1> DEFINE i == req[s]
<1>1. /\ lock' = [lock EXCEPT ![s] = i] /\ req' = [req EXCEPT ![s] = 0]
      /\ runs' = [runs EXCEPT ![i] = @ + 1]
      /\ enabler' = [at |-> "apply", todo |-> enabler.todo \ {s}, svc |-> s, id |-> 0]
      /\ enabler.at = "scan" /\ s \in enabler.todo
      /\ UNCHANGED <<result, stale, web, latest, count, answered, superseded, unread, crashes>>
  BY DEF Claim, At
<1>2. i \in Ids /\ i # 0 /\ runs[i] \in Nat /\ crashes \in Nat /\ count \in Nat
  BY <1>1, RequestAssumption DEF IInv, TypeOK, LocksPlaced, Ids
<1>3. /\ \A t \in Services : lock[t] = 0
      /\ runs[i] <= crashes /\ i <= count
  BY <1>1, <1>2 DEF IInv, ClaimsExclusive, RunsCounted, FilesApart
<1>4. \A t \in Services : req[t] = i => t = s
  BY <1>2 DEF IInv, FilesApart
<1> HIDE DEF i
<1>5. /\ \A t \in Services : /\ lock'[t] = IF t = s THEN i ELSE lock[t]
                             /\ req'[t] = IF t = s THEN 0 ELSE req[t]
      /\ \A j \in Ids : runs'[j] = IF j = i THEN runs[i] + 1 ELSE runs[j]
  BY <1>1 DEF IInv, TypeOK
<1>6. TypeOK'
  <2>1. /\ req' \in [Services -> 0..MaxRequests] /\ lock' \in [Services -> 0..MaxRequests]
        /\ runs' \in [Ids -> Nat]
    BY <1>1, <1>2, RequestAssumption DEF IInv, TypeOK, Ids
  <2>2. enabler.todo \ {s} \in SUBSET Services
    BY DEF IInv, TypeOK
  <2> QED
    BY <1>1, <2>1, <2>2 DEF IInv, TypeOK, Working
<1>7. ClaimsExclusive' /\ LocksPlaced'
  BY <1>1, <1>2, <1>3, <1>5 DEF IInv, ClaimsExclusive, LocksPlaced
<1>8. RunOncePerCrash'
  BY <1>1, <1>2, <1>3, <1>5 DEF IInv, TypeOK, RunOncePerCrash
<1>9. FilesApart'
  BY <1>1, <1>2, <1>3, <1>4, <1>5, RequestAssumption DEF IInv, TypeOK, FilesApart
<1>10. RunsCounted'
  <2>1. \A j \in Ids : j > count => runs'[j] = 0
    BY <1>2, <1>3, <1>5 DEF IInv, RunsCounted, Ids
  <2>2. \A t \in Services : req'[t] # 0 => req'[t] \in Ids /\ req'[t] = req[t] /\ req'[t] # i
    BY <1>4, <1>5, RequestAssumption DEF IInv, TypeOK, Ids
  <2>3. \A t \in Services : req'[t] # 0 => runs'[req'[t]] <= crashes
    BY <1>5, <2>2 DEF IInv, RunsCounted
  <2> QED
    BY <1>1, <2>1, <2>3 DEF RunsCounted
<1>11. Archived'
  <2>1. 0 \notin superseded /\ i \notin superseded
    BY DEF IInv, TypeOK, Archived, Ids, i
  <2> QED
    BY <1>1, <1>5, <2>1 DEF IInv, Archived
<1> QED
  BY <1>6, <1>7, <1>8, <1>9, <1>10, <1>11 DEF IInv

LEMMA WriteResultStep ==
    ASSUME IInv, NEW ok \in BOOLEAN, WriteResult(ok)
    PROVE  IInv'
<1> DEFINE s == enabler.svc
<1>1. /\ result' = [result EXCEPT ![s] = [ok |-> ok, id |-> lock[s]]]
      /\ answered' = answered \cup {lock[s]}
      /\ enabler' = [at |-> "written", todo |-> enabler.todo, svc |-> s, id |-> 0]
      /\ enabler.at = "apply"
      /\ UNCHANGED <<req, lock, stale, web, latest, count, superseded, unread, runs, crashes>>
  BY DEF WriteResult, At
<1>2. s \in Services /\ lock[s] \in Ids
  BY <1>1, RequestAssumption DEF IInv, TypeOK, LocksPlaced, Ids, Working
<1>3. TypeOK'
  <2>1. result' \in [Services -> [ok : BOOLEAN, id : 0..MaxRequests]] /\ 0 \in 0..MaxRequests
    BY <1>1, <1>2, RequestAssumption DEF IInv, TypeOK, Ids
  <2>2. enabler.todo \in SUBSET Services
    BY DEF IInv, TypeOK
  <2> QED
    BY <1>1, <1>2, <2>1, <2>2 DEF IInv, TypeOK, Working
<1>4. Archived'
  BY <1>1, <1>2 DEF IInv, Archived, FilesApart
<1> QED
  BY <1>1, <1>3, <1>4
  DEF IInv, ClaimsExclusive, RunOncePerCrash, FilesApart, LocksPlaced, RunsCounted

LEMMA RemoveLockStep ==
    ASSUME IInv, RemoveLock
    PROVE  IInv'
<1> DEFINE s == enabler.svc
<1>1. /\ lock' = [lock EXCEPT ![s] = 0]
      /\ enabler' = [at |-> "scan", todo |-> enabler.todo, svc |-> NoService, id |-> 0]
      /\ enabler.at = "written"
      /\ UNCHANGED <<req, result, stale, web, latest, count, answered, superseded, unread, runs, crashes>>
  BY DEF RemoveLock, At, observers
<1>2. \A t \in Services : lock'[t] = 0
  BY <1>1 DEF IInv, TypeOK, LocksPlaced
<1>3. TypeOK'
  BY <1>1, RequestAssumption DEF IInv, TypeOK, Working
<1>4. FilesApart'
  BY <1>1, <1>2, RequestAssumption DEF IInv, TypeOK, FilesApart
<1>5. Archived'
  BY <1>1, <1>2 DEF IInv, TypeOK, Archived, Ids
<1> QED
  BY <1>1, <1>2, <1>3, <1>4, <1>5
  DEF IInv, ClaimsExclusive, RunOncePerCrash, LocksPlaced, RunsCounted

(* The lock goes; the request stays in memory.                             *)
LEMMA DropUnreadStep ==
    ASSUME IInv, DropUnread
    PROVE  IInv'
<1> DEFINE s == enabler.svc
           i == lock[s]
<1>1. /\ lock' = [lock EXCEPT ![s] = 0]
      /\ unread' = unread \cup {i}
      /\ enabler' = [at |-> "unread", todo |-> enabler.todo, svc |-> s, id |-> i]
      /\ enabler.at = "apply"
      /\ UNCHANGED <<req, result, stale, web, latest, count, answered, superseded, runs,
                     crashes>>
  BY DEF DropUnread
<1>2. /\ s \in Services /\ i \in Ids /\ i <= count
      /\ \A t \in Services : lock'[t] = 0
  BY <1>1, RequestAssumption DEF IInv, TypeOK, LocksPlaced, FilesApart, Ids, Working
<1> HIDE DEF s, i
<1>3. TypeOK'
  <2>1. lock' \in [Services -> 0..MaxRequests] /\ i \in 0..MaxRequests
    BY <1>1, <1>2, RequestAssumption DEF IInv, TypeOK, Ids
  <2>2. enabler.todo \in SUBSET Services
    BY DEF IInv, TypeOK
  <2> QED
    BY <1>1, <1>2, <2>1, <2>2 DEF IInv, TypeOK, Working
<1>4. FilesApart'
  BY <1>1, <1>2, RequestAssumption DEF IInv, TypeOK, FilesApart
<1>5. Archived'
  BY <1>1, <1>2 DEF IInv, TypeOK, Archived, Ids
<1> QED
  BY <1>1, <1>2, <1>3, <1>4, <1>5
  DEF IInv, ClaimsExclusive, RunOncePerCrash, LocksPlaced, RunsCounted

LEMMA AnswerUnreadStep ==
    ASSUME IInv, AnswerUnread
    PROVE  IInv'
<1> DEFINE s == enabler.svc
           i == enabler.id
<1>1. /\ result' = [result EXCEPT ![s] = [ok |-> FALSE, id |-> i]]
      /\ answered' = answered \cup {i}
      /\ enabler' = [at |-> "scan", todo |-> enabler.todo, svc |-> NoService, id |-> 0]
      /\ enabler.at = "unread"
      /\ UNCHANGED <<req, lock, stale, web, latest, count, superseded, unread, runs, crashes>>
  BY DEF AnswerUnread, At
<1>2. s \in Services /\ i \in Ids /\ i <= count
  BY <1>1 DEF IInv, TypeOK, LocksPlaced, Archived, Working
<1> HIDE DEF s, i
<1>3. TypeOK'
  <2>1. result' \in [Services -> [ok : BOOLEAN, id : 0..MaxRequests]] /\ 0 \in 0..MaxRequests
    BY <1>1, <1>2, RequestAssumption DEF IInv, TypeOK, Ids
  <2>2. enabler.todo \in SUBSET Services
    BY DEF IInv, TypeOK
  <2> QED
    BY <1>1, <1>2, <2>1, <2>2 DEF IInv, TypeOK, Working
<1>4. Archived'
  BY <1>1, <1>2 DEF IInv, Archived
<1> QED
  BY <1>1, <1>3, <1>4
  DEF IInv, ClaimsExclusive, RunOncePerCrash, FilesApart, LocksPlaced, RunsCounted

(* The crash is what pays for the run that it cuts short.                  *)
LEMMA CrashStep ==
    ASSUME IInv, Crash
    PROVE  IInv'
<1>1. /\ crashes' = crashes + 1
      /\ enabler' = [at |-> "down", todo |-> {}, svc |-> NoService, id |-> 0]
      /\ UNCHANGED <<req, lock, result, stale, web, latest, count, answered, superseded, unread, runs>>
  BY DEF Crash, At, files
<1>2. /\ crashes \in Nat
      /\ \A i \in Ids : runs[i] \in Nat /\ runs[i] <= 1 + crashes
      /\ \A t \in Services : /\ req[t] # 0 => req[t] \in Ids
                             /\ lock[t] # 0 => lock[t] \in Ids
  BY RequestAssumption DEF IInv, TypeOK, RunOncePerCrash, Ids
<1>3. TypeOK'
  BY <1>1, RequestAssumption DEF IInv, TypeOK, Working
<1>4. RunOncePerCrash' /\ RunsCounted'
  BY <1>1, <1>2 DEF IInv, RunOncePerCrash, RunsCounted
<1>5. ClaimsExclusive' /\ FilesApart' /\ LocksPlaced'
  BY <1>1 DEF IInv, ClaimsExclusive, FilesApart, LocksPlaced
<1>6. Archived'
  BY <1>1 DEF IInv, Archived
<1> QED
  BY <1>3, <1>4, <1>5, <1>6 DEF IInv

LEMMA AgeStep ==
    ASSUME IInv, NEW s \in Services, Age(s)
    PROVE  IInv'
<1>1. stale' \subseteq Ids
  BY RequestAssumption DEF IInv, TypeOK, Age, Ids
<1> QED
  BY <1>1 DEF Age, observers, IInv, TypeOK, ClaimsExclusive, RunOncePerCrash, FilesApart,
              LocksPlaced, RunsCounted, Archived

LEMMA StepIInv == IInv /\ [Next]_vars => IInv'
<1> SUFFICES ASSUME IInv, [Next]_vars PROVE IInv'
  OBVIOUS
<1>1. ASSUME NEW w \in Handlers, Web(w) PROVE IInv'
  BY <1>1, WebStep
<1>2. CASE WebRestart
  BY <1>2, IdleIsHandler, WebWaits DEF WebRestart
<1>3. CASE Enabler
  BY <1>3, SidecarLooks, RecoverArchivesStep, RecoverHandsBackStep, ExpireStep,
     ArchiveExpiredStep, ClaimStep, WriteResultStep, RemoveLockStep, DropUnreadStep,
     AnswerUnreadStep DEF Enabler
<1>4. CASE Crash
  BY <1>4, CrashStep
<1>5. ASSUME NEW s \in Services, Age(s) PROVE IInv'
  BY <1>5, AgeStep
<1>6. CASE UNCHANGED vars
  BY <1>6 DEF vars, IInv, TypeOK, ClaimsExclusive, RunOncePerCrash, FilesApart,
              LocksPlaced, RunsCounted, Archived
<1> QED
  BY <1>1, <1>2, <1>3, <1>4, <1>5, <1>6 DEF Next

(* For any number of web requests and crashes: one claim at a time, never  *)
(* over another's lock, and no request applied more often than crashes     *)
(* account for (enabler.sh, process_file).                                 *)
THEOREM ClaimsHold == Spec => []ClaimsSound
<1>1. Spec => []IInv
  BY InitIInv, StepIInv, PTL DEF Spec
<1>2. IInv => ClaimsSound
  BY DEF IInv, ClaimsSound
<1> QED
  BY <1>1, <1>2, PTL

-----------------------------------------------------------------------------
(* Where the requests in files are after a step.                           *)
Kept ==
    \A i \in Queued \cup Claimed :
        i \in (Queued \cup Claimed \cup answered \cup superseded \cup unread)'
            \/ (enabler.at = "handBack" /\ req[enabler.svc] = i)

LEMMA UntouchedKept ==
    ASSUME IInv, UNCHANGED <<req, lock>> PROVE Kept
  BY DEF Kept, Queued, Claimed

(* A file that held r holds nothing any more, and no other file changed.   *)
LEMMA WrittenKept ==
    ASSUME IInv, NEW s \in Services,
           \A t \in Services \ {s} : req'[t] = req[t] /\ lock'[t] = lock[t],
           \A i \in {req[s], lock[s]} \ {0} :
               i \in {req'[s], lock'[s]} \cup answered' \cup superseded' \cup unread'
                   \/ (enabler.at = "handBack" /\ req[enabler.svc] = i)
    PROVE  Kept
<1> SUFFICES ASSUME NEW i \in Queued \cup Claimed
             PROVE  i \in (Queued \cup Claimed \cup answered \cup superseded \cup unread)'
                       \/ (enabler.at = "handBack" /\ req[enabler.svc] = i)
  BY DEF Kept
<1>1. PICK t \in Services : i # 0 /\ i \in {req[t], lock[t]}
  BY DEF Queued, Claimed
<1>2. CASE t = s
  BY <1>1, <1>2 DEF Queued, Claimed
<1>3. CASE t # s
  BY <1>1, <1>3 DEF Queued, Claimed
<1> QED
  BY <1>2, <1>3

LEMMA KeptStep == IInv /\ [Next]_vars => [Kept]_vars
<1> SUFFICES ASSUME IInv, Next PROVE Kept
  OBVIOUS
<1> USE DEF At, files, observers
<1>0. /\ req \in [Services -> 0..MaxRequests] /\ lock \in [Services -> 0..MaxRequests]
      /\ enabler.at \in Working => enabler.svc \in Services
      /\ \A w \in Handlers : web[w].svc \in Services
  BY DEF IInv, TypeOK, Handler
<1>1. ASSUME NEW w \in Handlers, Link(w) PROVE Kept
  BY <1>0, <1>1, WrittenKept DEF Link
<1>2. ASSUME NEW w \in Handlers, Web(w), ~Link(w) PROVE Kept
  BY <1>2, UntouchedKept DEF Web, Open, AutoReadsResult, StatReq, StatLock, Refused,
                             LinkExists, PollAnswers
<1>3. CASE WebRestart \/ Crash \/ \E s \in Services : Age(s)
  BY <1>3, UntouchedKept DEF WebRestart, Crash, Age
<1>4. CASE Start \/ Recovered \/ Scan \/ AnswerUnread \/ \E ok \in BOOLEAN : WriteResult(ok)
  BY <1>4, UntouchedKept DEF Start, Recovered, Scan, AnswerUnread, WriteResult
<1>5. ASSUME NEW s \in Services, RecoverTests(s) \/ Expire(s) PROVE Kept
  BY <1>5, UntouchedKept DEF RecoverTests, Expire
<1>6. ASSUME NEW s \in Services, RecoverArchives(s) PROVE Kept
  BY <1>0, <1>6, WrittenKept DEF RecoverArchives
<1>7. ASSUME NEW s \in Services, Claim(s) PROVE Kept
  <2>1. lock[s] = 0
    BY <1>7 DEF IInv, ClaimsExclusive, Claim
  <2> QED
    BY <1>0, <1>7, <2>1, WrittenKept DEF Claim
<1>8. CASE ArchiveExpired
  <2>1. lock[enabler.svc] = 0 /\ req[enabler.svc] \in answered /\ enabler.svc \in Services
    BY <1>0, <1>8 DEF IInv, ClaimsExclusive, LocksPlaced, ArchiveExpired, Working
  <2> QED
    BY <1>0, <1>8, <2>1, WrittenKept DEF ArchiveExpired
<1>9. CASE RemoveLock
  <2>1. lock[enabler.svc] \in answered /\ enabler.svc \in Services
    BY <1>0, <1>9 DEF IInv, LocksPlaced, RemoveLock, Working
  <2> QED
    BY <1>0, <1>9, <2>1, WrittenKept DEF RemoveLock
<1>10. CASE RecoverHandsBack
  <2>1. enabler.at = "handBack" /\ enabler.svc \in Services
    BY <1>0, <1>10 DEF RecoverHandsBack, Working
  <2> QED
    BY <1>0, <1>10, <2>1, WrittenKept DEF RecoverHandsBack
<1>11. CASE DropUnread
  <2>1. enabler.svc \in Services
    BY <1>0, <1>11 DEF DropUnread, Working
  <2> QED
    BY <1>0, <1>11, <2>1, WrittenKept DEF DropUnread
<1> QED
  BY <1>1, <1>2, <1>3, <1>4, <1>5, <1>6, <1>7, <1>8, <1>9, <1>10, <1>11 DEF Next, Enabler

(* An accepted request leaves the files unanswered at one place only: a    *)
(* stranded lock that gives way to a newer request is archived, and the    *)
(* hand-back replaces what was linked since its test (recover_stale_locks).*)
(* One that cannot be read leaves them just before its answer.             *)
THEOREM LossesOnlyAtHandBack == Spec => LostOnlyByHandBack
<1>1. Spec => []IInv
  BY InitIInv, StepIInv, PTL DEF Spec
<1>2. IInv /\ [Next]_vars => [Kept]_vars
  BY KeptStep
<1> QED
  BY <1>1, <1>2, PTL DEF Spec, LostOnlyByHandBack, Kept

-----------------------------------------------------------------------------
(* The refinement, for one web request at a time and one crash.            *)
OneAtATime ==
    /\ \A v, w \in Handlers : v = w
    /\ MaxCrashes \in 0..1

LEMMA HandBackFreeInit == Init => HandBackFree
  BY DEF Init, HandBackFree, Idle

LEMMA HandBackFreeStep ==
    ASSUME OneAtATime, IInv, HandBackFree, [Next]_vars
    PROVE  HandBackFree'
<1> USE DEF At, files, observers, HandBackFree
<1>0. /\ crashes \in Nat /\ web \in [Handlers -> Handler]
      /\ req \in [Services -> 0..MaxRequests] /\ lock \in [Services -> 0..MaxRequests]
      /\ enabler.at \in Working => enabler.svc \in Services
      /\ \A w \in Handlers : web[w].svc \in Services
  BY DEF IInv, TypeOK, Handler
<1>1. ASSUME NEW w \in Handlers, NEW s \in Services, NEW kind \in Kinds, Open(w, s, kind)
      PROVE  HandBackFree'
  BY <1>0, <1>1 DEF Open, Idle
<1>2. ASSUME NEW w \in Handlers, AutoReadsResult(w) PROVE HandBackFree'
  BY <1>0, <1>2 DEF AutoReadsResult, Handler
<1>3. ASSUME NEW w \in Handlers, StatReq(w) PROVE HandBackFree'
  BY <1>0, <1>3 DEF StatReq, AfterPending, Handler, Idle
<1>4. ASSUME NEW w \in Handlers, StatLock(w) PROVE HandBackFree'
  BY <1>0, <1>4 DEF StatLock, AfterPending, Handler, Idle
<1>5. ASSUME NEW w \in Handlers, Refused(w) \/ LinkExists(w) \/ PollAnswers(w)
      PROVE  HandBackFree'
  BY <1>0, <1>5 DEF Refused, LinkExists, PollAnswers, Idle
<1>6. ASSUME NEW w \in Handlers, Link(w) PROVE HandBackFree'
  BY <1>0, <1>6 DEF Link, Idle, OneAtATime, IInv, LocksPlaced, Working
<1>7. CASE WebRestart
  BY <1>0, <1>7 DEF WebRestart, Idle
<1>8. CASE Crash
  BY <1>0, <1>8 DEF Crash, OneAtATime
<1>9. ASSUME NEW s \in Services, Age(s) PROVE HandBackFree'
  BY <1>9 DEF Age
<1>10. CASE Start \/ Recovered \/ Scan
  BY <1>0, <1>10 DEF Start, Recovered, Scan
<1>11. ASSUME NEW s \in Services, RecoverTests(s) \/ Expire(s) PROVE HandBackFree'
  BY <1>0, <1>11 DEF RecoverTests, Expire
<1>12. ASSUME NEW s \in Services, RecoverArchives(s) PROVE HandBackFree'
  BY <1>0, <1>12 DEF RecoverArchives
<1>13. CASE RecoverHandsBack
  BY <1>0, <1>13 DEF RecoverHandsBack, Working
<1>14. CASE ArchiveExpired
  BY <1>0, <1>14 DEF ArchiveExpired, Working
<1>15. ASSUME NEW s \in Services, Claim(s) PROVE HandBackFree'
  <2>1. req[s] # 0
    BY <1>15 DEF Claim, IInv, LocksPlaced
  <2> QED
    BY <1>0, <1>15, <2>1 DEF Claim
<1>16. CASE RemoveLock
  BY <1>0, <1>16 DEF RemoveLock, Working
<1>17. ASSUME NEW ok \in BOOLEAN, WriteResult(ok) PROVE HandBackFree'
  BY <1>17 DEF WriteResult
<1>18. CASE UNCHANGED vars
  BY <1>18 DEF vars
<1>19. CASE DropUnread
  BY <1>0, <1>19 DEF DropUnread, Working
<1>20. CASE AnswerUnread
  BY <1>20 DEF AnswerUnread
<1> QED
  BY <1>1, <1>2, <1>3, <1>4, <1>5, <1>6, <1>7, <1>8, <1>9, <1>10, <1>11, <1>12, <1>13,
     <1>14, <1>15, <1>16, <1>17, <1>18, <1>19, <1>20 DEF Next, Web, Enabler

(* What the ledger's variables are after a step that leaves the files      *)
(* alone, and may answer the request of one of them.                       *)
LEMMA LedgerStutters ==
    ASSUME UNCHANGED <<req, lock, superseded>>,
           answered \cup unread \subseteq answered' \cup unread',
           answered' \cup unread' \subseteq answered \cup unread \cup Queued \cup Claimed
    PROVE  UNCHANGED Ledger!lvars
  BY DEF Ledger!lvars, Queued, Claimed

LEMMA LedgerInit == Init => Ledger!Init
  BY DEF Init, Ledger!Init, Queued, Claimed

LEMMA LedgerStep ==
    ASSUME IInv, HandBackFree, [Next]_vars
    PROVE  [Ledger!Next]_(Ledger!lvars)
<1> USE DEF At, files, observers
<1>0. /\ req \in [Services -> 0..MaxRequests] /\ lock \in [Services -> 0..MaxRequests]
      /\ enabler.at \in Working => enabler.svc \in Services
      /\ \A w \in Handlers : web[w].svc \in Services
      /\ Queued \subseteq Ids /\ Claimed \subseteq Ids
  BY RequestAssumption DEF IInv, TypeOK, Handler, Queued, Claimed, Ids
<1>1. ASSUME NEW w \in Handlers, Link(w) PROVE Ledger!Next
  <2> DEFINE i == count + 1
             s == web[w].svc
  <2>1. /\ i \in Ids /\ s \in Services /\ req[s] = 0
        /\ req' = [req EXCEPT ![s] = i]
        /\ UNCHANGED <<lock, answered, superseded, unread>>
    BY <1>0, <1>1, RequestAssumption DEF Link, IInv, TypeOK, Ids
  <2>2. i \notin Queued \cup Claimed \cup answered \cup superseded \cup unread
    BY DEF IInv, TypeOK, FilesApart, Archived, Queued, Claimed, Ids
  <2> HIDE DEF i, s
  <2>3. Queued' = Queued \cup {i} /\ Claimed' = Claimed
    BY <1>0, <2>1 DEF Queued, Claimed, Ids
  <2>4. Ledger!Accept(i)
    BY <2>1, <2>2, <2>3 DEF Ledger!Accept
  <2> QED
    BY <2>1, <2>4 DEF Ledger!Next
<1>2. ASSUME NEW s \in Services, Claim(s) PROVE Ledger!Next
  <2> DEFINE i == req[s]
  <2>1. /\ i \in Ids /\ i # 0
        /\ \A t \in Services : lock[t] = 0 /\ (req[t] = i => t = s)
        /\ lock' = [lock EXCEPT ![s] = i] /\ req' = [req EXCEPT ![s] = 0]
        /\ UNCHANGED <<answered, superseded, unread>>
    BY <1>0, <1>2 DEF Claim, IInv, ClaimsExclusive, LocksPlaced, FilesApart, Ids
  <2>2. i \in Queued
    BY <2>1 DEF Queued
  <2> HIDE DEF i
  <2>3. Claimed = {} /\ Claimed' = {i} /\ Queued' = Queued \ {i}
    BY <1>0, <2>1 DEF Queued, Claimed, i
  <2>4. Ledger!Run(i)
    BY <2>1, <2>2, <2>3 DEF Ledger!Run
  <2> QED
    BY <2>1, <2>4 DEF Ledger!Next
<1>3. CASE RemoveLock
  <2> DEFINE s == enabler.svc
             i == lock[s]
  <2>1. /\ s \in Services /\ i \in Ids /\ i # 0 /\ i \in answered
        /\ \A t \in Services : lock[t] # 0 <=> t = s
        /\ lock' = [lock EXCEPT ![s] = 0]
        /\ UNCHANGED <<req, answered, superseded, unread>>
    BY <1>0, <1>3 DEF RemoveLock, IInv, LocksPlaced, Working, Ids
  <2>2. Claimed = {i} /\ i \notin Queued \cup superseded
    BY <1>0, <2>1 DEF IInv, FilesApart, Archived, Queued, Claimed
  <2> HIDE DEF i, s
  <2>3. Claimed' = {} /\ Queued' = Queued
    BY <1>0, <2>1 DEF Queued, Claimed
  <2>4. Ledger!Finish(i)
    BY <2>1, <2>2, <2>3 DEF Ledger!Finish
  <2> QED
    BY <2>1, <2>4 DEF Ledger!Next
<1>4. CASE ArchiveExpired
  <2> DEFINE s == enabler.svc
             i == req[s]
  <2>1. /\ s \in Services /\ i \in answered /\ i \in Ids /\ i # 0
        /\ \A t \in Services : lock[t] = 0 /\ (req[t] = i => t = s)
        /\ req' = [req EXCEPT ![s] = 0]
        /\ UNCHANGED <<lock, answered, superseded, unread>>
    BY <1>0, <1>4
       DEF ArchiveExpired, IInv, TypeOK, ClaimsExclusive, LocksPlaced, FilesApart, Working, Ids
  <2>2. i \in Queued /\ i \notin superseded
    BY <2>1 DEF IInv, Archived, Queued
  <2> HIDE DEF i
  <2>3. Claimed = {} /\ Claimed' = {} /\ Queued' = Queued \ {i}
    BY <1>0, <2>1 DEF Queued, Claimed, i
  <2>4. Ledger!Refuse(i)
    BY <2>1, <2>2, <2>3 DEF Ledger!Refuse
  <2> QED
    BY <2>1, <2>4 DEF Ledger!Next
<1>5. CASE RecoverHandsBack
  <2> DEFINE s == enabler.svc
             i == lock[s]
  <2>1. /\ s \in Services /\ i \in Ids /\ i # 0 /\ req[s] = 0
        /\ \A t \in Services : lock[t] # 0 <=> t = s
        /\ lock' = [lock EXCEPT ![s] = 0] /\ req' = [req EXCEPT ![s] = i]
        /\ UNCHANGED <<answered, superseded, unread>>
    BY <1>0, <1>5 DEF RecoverHandsBack, HandBackFree, IInv, LocksPlaced, Working, Ids
  <2>2. Claimed = {i}
    BY <1>0, <2>1 DEF Claimed
  <2> HIDE DEF i, s
  <2>3. Claimed' = {} /\ Queued' = Queued \cup {i}
    BY <1>0, <2>1 DEF Queued, Claimed
  <2>4. Ledger!Requeue(i)
    BY <2>1, <2>2, <2>3 DEF Ledger!Requeue
  <2> QED
    BY <2>1, <2>4 DEF Ledger!Next
<1>6. ASSUME NEW s \in Services, RecoverArchives(s) PROVE Ledger!Next
  <2> DEFINE i == lock[s]
  <2>1. /\ i \in Ids /\ i # 0 /\ req[s] # 0
        /\ \A t \in Services : lock[t] # 0 => t = s
        /\ lock' = [lock EXCEPT ![s] = 0] /\ superseded' = superseded \cup {i}
        /\ UNCHANGED <<req, answered, unread>>
    BY <1>0, <1>6 DEF RecoverArchives, IInv, ClaimsExclusive, LocksPlaced, Ids
  <2>2. Claimed = {i} /\ Queued # {}
    BY <1>0, <2>1 DEF Queued, Claimed
  <2> HIDE DEF i
  <2>3. Claimed' = {} /\ Queued' = Queued
    BY <1>0, <2>1 DEF Queued, Claimed
  <2>4. Ledger!Supersede(i)
    BY <2>1, <2>2, <2>3 DEF Ledger!Supersede
  <2> QED
    BY <2>1, <2>4 DEF Ledger!Next
<1>7. ASSUME NEW s \in Services, Expire(s) PROVE UNCHANGED Ledger!lvars
  <2>1. req[s] # 0
    BY <1>7 DEF Expire, IInv, LocksPlaced
  <2> QED
    BY <1>7, <2>1, LedgerStutters DEF Expire, Queued
<1>8. ASSUME NEW ok \in BOOLEAN, WriteResult(ok) PROVE UNCHANGED Ledger!lvars
  <2>1. enabler.svc \in Services /\ lock[enabler.svc] # 0
    BY <1>0, <1>8 DEF WriteResult, IInv, LocksPlaced, Working
  <2> QED
    BY <1>8, <2>1, LedgerStutters DEF WriteResult, Claimed
<1>9. CASE \/ \E w \in Handlers : Web(w) /\ ~Link(w)
           \/ WebRestart \/ Crash \/ \E s \in Services : Age(s) \/ RecoverTests(s)
           \/ Start \/ Recovered \/ Scan \/ UNCHANGED vars
  <2>1. UNCHANGED <<req, lock, superseded, answered, unread>>
    BY <1>9 DEF Web, Open, AutoReadsResult, StatReq, StatLock, Refused, LinkExists,
                PollAnswers, WebRestart, Crash, Age, RecoverTests, Start, Recovered, Scan, vars
  <2> QED
    BY <2>1, LedgerStutters
<1>10. CASE DropUnread
  <2> DEFINE s == enabler.svc
             i == lock[s]
  <2>1. /\ s \in Services /\ i \in Ids /\ i # 0
        /\ \A t \in Services : lock[t] # 0 <=> t = s
        /\ lock' = [lock EXCEPT ![s] = 0] /\ unread' = unread \cup {i}
        /\ UNCHANGED <<req, answered, superseded>>
    BY <1>0, <1>10 DEF DropUnread, IInv, LocksPlaced, Working, Ids
  <2>2. Claimed = {i} /\ i \notin Queued \cup superseded
    BY <1>0, <2>1 DEF IInv, FilesApart, Archived, Queued, Claimed
  <2> HIDE DEF i, s
  <2>3. Claimed' = {} /\ Queued' = Queued
    BY <1>0, <2>1 DEF Queued, Claimed
  <2>4. Ledger!Finish(i)
    BY <2>1, <2>2, <2>3 DEF Ledger!Finish
  <2> QED
    BY <2>1, <2>4 DEF Ledger!Next
<1>11. CASE AnswerUnread
  <2>1. enabler.id \in unread
    BY <1>11 DEF AnswerUnread, IInv, LocksPlaced
  <2> QED
    BY <1>11, <2>1, LedgerStutters DEF AnswerUnread
<1> QED
  BY <1>1, <1>2, <1>3, <1>4, <1>5, <1>6, <1>7, <1>8, <1>9, <1>10, <1>11 DEF Next, Enabler

(* With one web request at a time and one crash the files are a ledger:    *)
(* nothing that was accepted disappears, whatever expires, however many    *)
(* services and requests there are, and wherever the sidecar dies.         *)
THEOREM ImplementsRequestLedger ==
    ASSUME OneAtATime
    PROVE  Spec => ImplementsLedger
<1>1. Spec => []IInv
  BY InitIInv, StepIInv, PTL DEF Spec
<1>2. IInv /\ HandBackFree /\ [Next]_vars => HandBackFree'
  BY HandBackFreeStep
<1>3. IInv /\ HandBackFree /\ [Next]_vars => [Ledger!Next]_(Ledger!lvars)
  BY LedgerStep
<1> QED
  BY <1>1, HandBackFreeInit, LedgerInit, <1>2, <1>3, PTL DEF Spec, ImplementsLedger, Ledger!Spec

-----------------------------------------------------------------------------
(* Polls, while the sidecar lives: the latest request of a service is the  *)
(* one in its file, else the one being applied, else the one that is in    *)
(* memory or was answered.                                                 *)
Top(s) == IF Unread(s) # 0 THEN Unread(s) ELSE result[s].id

InOrder ==
    \A s \in Services :
        /\ req[s] # 0 => latest[s] = req[s] /\ lock[s] <= req[s] /\ Top(s) <= req[s]
        /\ lock[s] # 0 => Top(s) <= lock[s] /\ (req[s] = 0 => latest[s] = lock[s])
        /\ req[s] = 0 /\ lock[s] = 0 => latest[s] = Top(s)
        /\ latest[s] <= count /\ Top(s) <= count

AnswerOnDisk ==
    /\ enabler.at = "expired" => result[enabler.svc].id = req[enabler.svc]
    /\ enabler.at = "written" => result[enabler.svc].id = lock[enabler.svc]

(* A handler that saw no request file sees what was accepted before it in  *)
(* the lock, or in the result.                                             *)
NothingMissed ==
    \A w \in Handlers :
        /\ web[w].known <= latest[web[w].svc]
        /\ web[w].at = "statLock" => \/ web[w].known <= Top(web[w].svc)
                                     \/ web[w].known <= lock[web[w].svc]
        /\ web[w].at = "showResult" /\ ~web[w].pending =>
              web[w].known <= Top(web[w].svc)

PollInv ==
    \/ crashes > 0
    \/ /\ enabler.at \notin {"down", "recover", "handBack"}
       /\ InOrder /\ AnswerOnDisk /\ NothingMissed

LEMMA PollInit == Init => PollInv
<1> SUFFICES ASSUME Init PROVE PollInv
  OBVIOUS
<1>1. \A s \in Services : Top(s) = 0
  BY DEF Init, Top, Unread
<1> QED
  BY <1>1, ServiceAssumption DEF Init, PollInv, InOrder, AnswerOnDisk, NothingMissed, Idle

(* What was answered, or is about to be, is a number.                      *)
LEMMA TopTyped ==
    ASSUME IInv, NEW s \in Services
    PROVE  Top(s) \in Nat
  BY RequestAssumption DEF IInv, TypeOK, Top, Unread

LEMMA TopOnDisk ==
    ASSUME IInv, enabler.at # "unread", NEW s \in Services
    PROVE  Top(s) = result[s].id
  BY DEF IInv, LocksPlaced, Top, Unread

LEMMA TopSame ==
    ASSUME UNCHANGED <<result, enabler>>, NEW s \in Services
    PROVE  Top(s)' = Top(s)
  BY DEF Top, Unread

(* What a web step that does not link has to show.                         *)
LEMMA PollWebWaits ==
    ASSUME PollInv, UNCHANGED <<files, enabler, observers>>,
           crashes = 0, NothingMissed'
    PROVE  PollInv'
<1>1. \A s \in Services : Top(s)' = Top(s)
  BY TopSame DEF files
<1> QED
  BY <1>1 DEF PollInv, InOrder, AnswerOnDisk, files, observers

LEMMA PollWebStep ==
    ASSUME IInv, PollInv, NEW w \in Handlers, Web(w)
    PROVE  PollInv'
<1>0. /\ web \in [Handlers -> Handler] /\ web[w] \in Handler /\ web[w].svc \in Services
      /\ \A v \in Handlers : web[v].svc \in Services
      /\ crashes \in Nat /\ count \in Nat
      /\ \A s \in Services : /\ req[s] \in Nat /\ lock[s] \in Nat
                             /\ latest[s] \in Nat /\ Top(s) \in Nat
      /\ WebGui \in Services
  BY ServiceAssumption, RequestAssumption, TopTyped DEF IInv, TypeOK, Handler
<1> SUFFICES ASSUME crashes = 0 PROVE PollInv'
  <2>1. CASE crashes > 0
    BY <2>1 DEF Web, Open, AutoReadsResult, StatReq, StatLock, Refused, Link, LinkExists,
                PollAnswers, PollInv, observers
  <2> QED
    BY <1>0, <2>1
<1>1. InOrder /\ AnswerOnDisk /\ NothingMissed
      /\ enabler.at \notin {"down", "recover", "handBack"}
  BY DEF PollInv
(* The other handlers keep what they have seen; w may go idle.             *)
<1>2. ASSUME UNCHANGED <<files, enabler, observers>>, NEW h, web' = [web EXCEPT ![w] = h],
             h.svc \in Services, h.known <= latest[h.svc],
             h.at = "statLock" => h.known <= Top(h.svc) \/ h.known <= lock[h.svc],
             h.at = "showResult" /\ ~h.pending => h.known <= Top(h.svc)
      PROVE  PollInv'
  <2>0. \A s \in Services : Top(s)' = Top(s)
    BY <1>2, TopSame DEF files
  <2>1. NothingMissed'
    BY <1>0, <1>1, <1>2, <2>0 DEF NothingMissed, files, observers
  <2> QED
    BY <1>2, <2>1, PollWebWaits
<1>3. ASSUME UNCHANGED <<files, enabler, observers>>, web' = [web EXCEPT ![w] = Idle]
      PROVE  PollInv'
  <2>1. Idle.svc = WebGui /\ Idle.known = 0 /\ Idle.at = "idle"
    BY DEF Idle
  <2>2. Idle.known <= latest[Idle.svc]
    BY <1>0, <2>1
  <2> QED
    BY <1>0, <1>2, <1>3, <2>1, <2>2
<1>4. ASSUME NEW s \in Services, NEW kind \in Kinds, Open(w, s, kind) PROVE PollInv'
  <2> DEFINE h == [Idle EXCEPT !.at = IF kind = "auto" THEN "readResult" ELSE "statReq",
                               !.kind = kind, !.svc = s, !.known = latest[s]]
  <2>1. h.svc = s /\ h.known = latest[s] /\ h.at \in {"readResult", "statReq"}
    BY DEF Idle
  <2>2. UNCHANGED <<files, enabler, observers>> /\ web' = [web EXCEPT ![w] = h]
    BY <1>4 DEF Open
  <2>3. h.known <= latest[h.svc]
    BY <1>0, <2>1
  <2> HIDE DEF h
  <2> QED
    BY <1>0, <1>2, <2>1, <2>2, <2>3
<1>5. CASE AutoReadsResult(w)
  <2> DEFINE h == [web[w] EXCEPT !.at = "statReq", !.ok = result[web[w].svc].ok]
  <2>1. h.svc = web[w].svc /\ h.known = web[w].known /\ h.at = "statReq"
    BY <1>0 DEF Handler
  <2>2. UNCHANGED <<files, enabler, observers>> /\ web' = [web EXCEPT ![w] = h]
    BY <1>0, <1>5 DEF AutoReadsResult, Handler
  <2> HIDE DEF h
  <2> QED
    BY <1>0, <1>1, <1>2, <2>1, <2>2 DEF NothingMissed
<1>6. CASE StatReq(w)
  <2>1. CASE req[web[w].svc] # 0
    <3> DEFINE h == AfterPending(web[w], TRUE)
    <3>1. h = Idle \/ h = [web[w] EXCEPT !.at = "showResult", !.pending = TRUE]
      BY DEF AfterPending
    <3>2. UNCHANGED <<files, enabler, observers>> /\ web' = [web EXCEPT ![w] = h]
      BY <1>6, <2>1 DEF StatReq
    <3>3. CASE h # Idle
      <4>1. h.svc = web[w].svc /\ h.known = web[w].known /\ h.at = "showResult" /\ h.pending
        BY <1>0, <3>1, <3>3 DEF Handler
      <4> HIDE DEF h
      <4> QED
        BY <1>0, <1>1, <1>2, <3>2, <4>1 DEF NothingMissed
    <3> QED
      BY <1>3, <3>2, <3>3
  <2>2. CASE req[web[w].svc] = 0
    <3> DEFINE h == [web[w] EXCEPT !.at = "statLock"]
    <3>1. h.svc = web[w].svc /\ h.known = web[w].known /\ h.at = "statLock"
      BY <1>0 DEF Handler
    <3>2. UNCHANGED <<files, enabler, observers>> /\ web' = [web EXCEPT ![w] = h]
      BY <1>6, <2>2 DEF StatReq
    <3>3. \/ web[w].known <= Top(web[w].svc)
          \/ web[w].known <= lock[web[w].svc]
      BY <1>0, <1>1, <2>2 DEF NothingMissed, InOrder
    <3> HIDE DEF h
    <3> QED
      BY <1>0, <1>1, <1>2, <3>1, <3>2, <3>3 DEF NothingMissed
  <2> QED
    BY <2>1, <2>2
<1>7. CASE StatLock(w)
  <2> DEFINE p == lock[web[w].svc] # 0
             h == AfterPending(web[w], p)
  <2>1. \/ h = Idle \/ h = [web[w] EXCEPT !.at = "link"]
        \/ h = [web[w] EXCEPT !.at = "showResult", !.pending = p]
    BY DEF AfterPending
  <2>2. UNCHANGED <<files, enabler, observers>> /\ web' = [web EXCEPT ![w] = h]
    BY <1>7 DEF StatLock
  <2>3. CASE h # Idle
    <3>1. /\ h.svc = web[w].svc /\ h.known = web[w].known
          /\ h.at \in {"link", "showResult"} /\ (h.at = "showResult" => h.pending = p)
      BY <1>0, <2>1, <2>3 DEF Handler
    <3>2. ~p => web[w].known <= Top(web[w].svc)
      BY <1>0, <1>1, <1>7 DEF NothingMissed, StatLock, Handler
    <3> HIDE DEF h, p
    <3> QED
      BY <1>0, <1>1, <1>2, <2>2, <3>1, <3>2 DEF NothingMissed
  <2> QED
    BY <1>3, <2>2, <2>3
<1>8. CASE Refused(w) \/ LinkExists(w) \/ PollAnswers(w)
  BY <1>3, <1>8 DEF Refused, LinkExists, PollAnswers
<1>9. CASE Link(w)
  <2> DEFINE s == web[w].svc
             i == count + 1
  <2>1. /\ req[s] = 0 /\ count' = i /\ req' = [req EXCEPT ![s] = i]
        /\ latest' = [latest EXCEPT ![s] = i] /\ web' = [web EXCEPT ![w] = Idle]
        /\ UNCHANGED <<lock, result, enabler, crashes>>
    BY <1>9 DEF Link
  <2>2. /\ s \in Services /\ i > count /\ i \in Nat
        /\ req \in [Services -> 0..MaxRequests] /\ latest \in [Services -> 0..MaxRequests]
        /\ \A t \in Services : lock[t] <= count /\ req[t] <= count
    BY <1>0, <2>1, RequestAssumption DEF IInv, TypeOK, FilesApart
  <2>3. enabler.at = "expired" => enabler.svc # s /\ enabler.svc \in Services
    BY <2>1 DEF IInv, TypeOK, LocksPlaced, Working, Ids
  <2>4. \A t \in Services : Top(t)' = Top(t)
    BY <2>1, TopSame
  <2> HIDE DEF s, i
  <2>5. \A t \in Services : /\ req'[t] = IF t = s THEN i ELSE req[t]
                            /\ latest'[t] = IF t = s THEN i ELSE latest[t]
    BY <2>1, <2>2
  <2>6. InOrder'
    BY <1>0, <1>1, <2>1, <2>2, <2>4, <2>5 DEF InOrder
  <2>7. AnswerOnDisk'
    BY <1>1, <2>1, <2>2, <2>3, <2>5 DEF AnswerOnDisk
  <2>8. \A v \in Handlers : web'[v] = Idle \/ web'[v] = web[v]
    BY <1>0, <2>1
  <2>9. \A t \in Services : latest[t] <= latest'[t] /\ latest'[t] \in Nat
    BY <1>0, <1>1, <2>2, <2>5 DEF InOrder
  <2>10. \A v \in Handlers : web[v].svc \in Services /\ web[v].known \in Nat
    BY RequestAssumption DEF IInv, TypeOK, Handler
  <2>11. NothingMissed'
    BY <1>0, <1>1, <2>1, <2>4, <2>8, <2>9, <2>10 DEF NothingMissed, Idle
  <2> QED
    BY <1>1, <2>1, <2>6, <2>7, <2>11 DEF PollInv
<1> QED
  BY <1>4, <1>5, <1>6, <1>7, <1>8, <1>9 DEF Web

LEMMA PollStep == IInv /\ PollInv /\ [Next]_vars => PollInv'
<1> SUFFICES ASSUME IInv, PollInv, [Next]_vars PROVE PollInv'
  OBVIOUS
<1> USE DEF At, files, observers
<1>0. /\ crashes \in Nat /\ count \in Nat
      /\ req \in [Services -> 0..MaxRequests] /\ lock \in [Services -> 0..MaxRequests]
      /\ result \in [Services -> [ok : BOOLEAN, id : 0..MaxRequests]]
      /\ \A s \in Services : /\ req[s] \in Nat /\ lock[s] \in Nat
                             /\ latest[s] \in Nat /\ result[s].id \in Nat
                             /\ Top(s) \in Nat
      /\ \A w \in Handlers : web[w].svc \in Services /\ web[w].known \in Nat
      /\ enabler.at \in Working => enabler.svc \in Services
      /\ WebGui \in Services
  BY ServiceAssumption, RequestAssumption, TopTyped DEF IInv, TypeOK, Handler
<1>8. \A s \in Services : enabler.at # "unread" => Top(s) = result[s].id
  BY TopOnDisk
<1>9. \A s \in Services : UNCHANGED <<result, enabler>> => Top(s)' = Top(s)
  BY TopSame
<1>10. \A s \in Services : enabler'.id = 0 => Top(s)' = result'[s].id
  BY DEF Top, Unread
<1>1. ASSUME NEW w \in Handlers, Web(w) PROVE PollInv'
  BY <1>1, PollWebStep
<1>2. CASE Crash
  BY <1>0, <1>2 DEF Crash, PollInv
<1>3. CASE UNCHANGED vars
  BY <1>0, <1>3, <1>9 DEF vars, PollInv, InOrder, AnswerOnDisk, NothingMissed
<1>4. CASE WebRestart
  BY <1>0, <1>4, <1>9 DEF WebRestart, PollInv, InOrder, AnswerOnDisk, NothingMissed, Idle
<1>5. ASSUME NEW s \in Services, Age(s) PROVE PollInv'
  BY <1>0, <1>5, <1>9 DEF Age, PollInv, InOrder, AnswerOnDisk, NothingMissed
<1>6. ASSUME crashes > 0, Enabler PROVE PollInv'
  <2>1. UNCHANGED crashes
    BY <1>6 DEF Enabler, Start, Recovered, Scan, ArchiveExpired, RecoverHandsBack,
                WriteResult, RemoveLock, RecoverArchives, RecoverTests, Expire, Claim,
                DropUnread, AnswerUnread
  <2> QED
    BY <1>6, <2>1 DEF PollInv
<1>7. ASSUME crashes = 0, Enabler PROVE PollInv'
  <2>0. InOrder /\ AnswerOnDisk /\ NothingMissed
        /\ enabler.at \notin {"down", "recover", "handBack"}
    BY <1>7 DEF PollInv
  <2>1. CASE Scan
    BY <1>0, <1>8, <1>10, <2>0, <2>1 DEF Scan, PollInv, InOrder, AnswerOnDisk, NothingMissed
  <2>2. ASSUME NEW s \in Services, Expire(s) PROVE PollInv'
    <3>1. /\ req[s] # 0 /\ \A t \in Services : lock[t] = 0
          /\ result' = [result EXCEPT ![s] = [ok |-> FALSE, id |-> req[s]]]
          /\ enabler' = [at |-> "expired", todo |-> enabler.todo, svc |-> s, id |-> 0]
          /\ UNCHANGED <<req, lock, web, latest, count, unread, crashes>>
      BY <2>2 DEF Expire, IInv, ClaimsExclusive, LocksPlaced
    <3>2. \A t \in Services : /\ result'[t].id = Top(t)'
                              /\ Top(t)' = IF t = s THEN req[s] ELSE Top(t)
      BY <1>0, <1>8, <1>10, <2>2, <3>1 DEF Expire
    <3>3. \A t \in Services : Top(t) <= Top(t)' /\ Top(t)' \in Nat
      BY <1>0, <2>0, <3>1, <3>2 DEF InOrder
    <3>4. InOrder'
      BY <1>0, <2>0, <3>1, <3>2 DEF InOrder
    <3>5. NothingMissed'
      BY <1>0, <2>0, <3>1, <3>3 DEF NothingMissed
    <3> QED
      BY <3>1, <3>2, <3>4, <3>5 DEF PollInv, AnswerOnDisk
  <2>3. CASE ArchiveExpired
    <3> DEFINE s == enabler.svc
    <3>1. /\ s \in Services /\ \A t \in Services : lock[t] = 0
          /\ result[s].id = req[s] /\ req[s] # 0
          /\ req' = [req EXCEPT ![s] = 0]
          /\ enabler' = [at |-> "scan", todo |-> enabler.todo \ {s}, svc |-> NoService, id |-> 0]
          /\ UNCHANGED <<lock, result, web, latest, count, unread, crashes>>
          /\ \A t \in Services : Top(t)' = Top(t) /\ Top(t) = result[t].id
      BY <1>0, <1>8, <1>10, <2>0, <2>3
         DEF ArchiveExpired, IInv, TypeOK, ClaimsExclusive, LocksPlaced, AnswerOnDisk, Working,
             Ids
    <3> HIDE DEF s
    <3>2. \A t \in Services : req'[t] = IF t = s THEN 0 ELSE req[t]
      BY <1>0, <3>1
    <3>3. InOrder'
      BY <1>0, <2>0, <3>1, <3>2 DEF InOrder
    <3> QED
      BY <1>0, <2>0, <3>1, <3>3 DEF PollInv, AnswerOnDisk, NothingMissed
  <2>4. ASSUME NEW s \in Services, Claim(s) PROVE PollInv'
    <3>1. /\ req[s] # 0 /\ \A t \in Services : lock[t] = 0
          /\ lock' = [lock EXCEPT ![s] = req[s]] /\ req' = [req EXCEPT ![s] = 0]
          /\ enabler' = [at |-> "apply", todo |-> enabler.todo \ {s}, svc |-> s, id |-> 0]
          /\ UNCHANGED <<result, web, latest, count, unread, crashes>>
          /\ \A t \in Services : Top(t)' = Top(t)
      BY <1>8, <1>10, <2>4 DEF Claim, IInv, ClaimsExclusive, LocksPlaced
    <3>2. \A t \in Services : /\ req'[t] = IF t = s THEN 0 ELSE req[t]
                              /\ lock'[t] = IF t = s THEN req[s] ELSE lock[t]
      BY <1>0, <3>1
    <3>3. InOrder'
      BY <1>0, <2>0, <3>1, <3>2 DEF InOrder
    <3>4. NothingMissed'
      BY <1>0, <2>0, <3>1, <3>2 DEF NothingMissed
    <3> QED
      BY <3>1, <3>3, <3>4 DEF PollInv, AnswerOnDisk
  <2>5. ASSUME NEW ok \in BOOLEAN, WriteResult(ok) PROVE PollInv'
    <3> DEFINE s == enabler.svc
    <3>1. /\ s \in Services /\ lock[s] # 0
          /\ result' = [result EXCEPT ![s] = [ok |-> ok, id |-> lock[s]]]
          /\ enabler' = [at |-> "written", todo |-> enabler.todo, svc |-> s, id |-> 0]
          /\ UNCHANGED <<req, lock, web, latest, count, unread, crashes>>
          /\ lock[s] <= count
      BY <1>0, <2>5 DEF WriteResult, IInv, LocksPlaced, FilesApart, Working
    <3> HIDE DEF s
    <3>2. \A t \in Services : /\ result'[t].id = Top(t)'
                              /\ Top(t)' = IF t = s THEN lock[s] ELSE Top(t)
      BY <1>0, <1>8, <1>10, <2>5, <3>1 DEF WriteResult
    <3>3. \A t \in Services : Top(t) <= Top(t)' /\ Top(t)' \in Nat
      BY <1>0, <2>0, <3>1, <3>2 DEF InOrder
    <3>4. InOrder'
      BY <1>0, <2>0, <3>1, <3>2 DEF InOrder
    <3>5. NothingMissed'
      BY <1>0, <2>0, <3>1, <3>3 DEF NothingMissed
    <3> QED
      BY <3>1, <3>2, <3>4, <3>5 DEF PollInv, AnswerOnDisk
  <2>6. CASE RemoveLock
    <3> DEFINE s == enabler.svc
    <3>1. /\ s \in Services /\ lock[s] # 0 /\ result[s].id = lock[s]
          /\ lock' = [lock EXCEPT ![s] = 0]
          /\ enabler' = [at |-> "scan", todo |-> enabler.todo, svc |-> NoService, id |-> 0]
          /\ UNCHANGED <<req, result, web, latest, count, unread, crashes>>
          /\ \A t \in Services : Top(t)' = Top(t) /\ Top(t) = result[t].id
      BY <1>0, <1>8, <1>10, <2>0, <2>6 DEF RemoveLock, IInv, LocksPlaced, AnswerOnDisk, Working
    <3> HIDE DEF s
    <3>2. \A t \in Services : lock'[t] = IF t = s THEN 0 ELSE lock[t]
      BY <1>0, <3>1
    <3>3. InOrder'
      BY <1>0, <2>0, <3>1, <3>2 DEF InOrder
    <3>4. NothingMissed'
      BY <1>0, <2>0, <3>1, <3>2 DEF NothingMissed
    <3> QED
      BY <3>1, <3>3, <3>4 DEF PollInv, AnswerOnDisk
  <2>7. ~Start /\ ~Recovered /\ ~RecoverHandsBack
        /\ \A s \in Services : ~RecoverArchives(s) /\ ~RecoverTests(s)
    BY <2>0 DEF Start, Recovered, RecoverHandsBack, RecoverArchives, RecoverTests
  <2>8. CASE DropUnread
    <3> DEFINE s == enabler.svc
    <3>1. /\ s \in Services /\ lock[s] # 0 /\ lock[s] <= count
          /\ lock' = [lock EXCEPT ![s] = 0]
          /\ enabler' = [at |-> "unread", todo |-> enabler.todo, svc |-> s, id |-> lock[s]]
          /\ UNCHANGED <<req, result, web, latest, count, crashes>>
      BY <1>0, <2>8 DEF DropUnread, IInv, LocksPlaced, FilesApart, Working
    <3>2. \A t \in Services : Top(t) = result[t].id
      BY <1>8, <2>8 DEF DropUnread
    <3> HIDE DEF s
    <3>3. \A t \in Services : /\ lock'[t] = IF t = s THEN 0 ELSE lock[t]
                              /\ Top(t)' = IF t = s THEN lock[s] ELSE Top(t)
      BY <1>0, <3>1, <3>2 DEF Top, Unread
    <3>4. InOrder'
      BY <1>0, <2>0, <3>1, <3>3 DEF InOrder
    <3>5. \A t \in Services : /\ Top(t) <= Top(t)' /\ Top(t)' \in Nat
                              /\ lock[t] <= Top(t)' \/ lock[t] = lock'[t]
      BY <1>0, <2>0, <3>1, <3>3 DEF InOrder
    <3>6. NothingMissed'
      BY <1>0, <2>0, <3>1, <3>5 DEF NothingMissed
    <3> QED
      BY <3>1, <3>4, <3>6 DEF PollInv, AnswerOnDisk
  <2>9. CASE AnswerUnread
    <3> DEFINE s == enabler.svc
    <3>1. /\ s \in Services /\ enabler.id # 0 /\ enabler'.id = 0 /\ enabler'.at = "scan"
          /\ result' = [result EXCEPT ![s] = [ok |-> FALSE, id |-> enabler.id]]
          /\ UNCHANGED <<req, lock, web, latest, count, unread, crashes>>
      BY <1>0, <2>9 DEF AnswerUnread, IInv, TypeOK, LocksPlaced, Working, Ids
    <3>2. \A t \in Services : Top(t)' = Top(t)
      BY <1>0, <1>10, <3>1 DEF Top, Unread
    <3> QED
      BY <1>0, <2>0, <3>1, <3>2 DEF PollInv, InOrder, AnswerOnDisk, NothingMissed
  <2> QED
    BY <1>7, <2>1, <2>2, <2>3, <2>4, <2>5, <2>6, <2>7, <2>8, <2>9 DEF Enabler
<1> QED
  BY <1>0, <1>1, <1>2, <1>3, <1>4, <1>5, <1>6, <1>7 DEF Next

(* While the sidecar has not died, for any number of services, requests    *)
(* and handlers: a poll that reports nothing pending shows the answer to   *)
(* all that was accepted before it began, but for a request that could not *)
(* be read and is about to be answered (features/status.ts).               *)
THEOREM PollsTellTruth == Spec => []PollTruth
<1>1. Spec => []IInv
  BY InitIInv, StepIInv, PTL DEF Spec
<1>2. IInv /\ PollInv => PollTruth
  <2> SUFFICES ASSUME IInv, PollInv, NEW w \in Handlers, crashes = 0,
                      web[w].at = "showResult", ~web[w].pending
               PROVE  \/ result[web[w].svc].id >= web[w].known
                      \/ Unread(web[w].svc) >= web[w].known
    BY DEF PollTruth
  <2>1. web[w].svc \in Services /\ web[w].known \in Nat /\ Top(web[w].svc) \in Nat
    BY RequestAssumption, TopTyped DEF IInv, TypeOK, Handler
  <2>2. Top(web[w].svc) >= web[w].known
    BY <2>1 DEF PollInv, NothingMissed
  <2> QED
    BY <2>2 DEF Top
<1> QED
  BY <1>1, PollInit, PollStep, <1>2, PTL DEF Spec
=============================================================================
