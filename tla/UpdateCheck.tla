----------------------------- MODULE UpdateCheck -----------------------------
(***************************************************************************)
(* The release check and auto-install (lib/update-check.ts, the routes     *)
(* update-check.ts, features/upgrade.ts and features/rollback.ts).  A GET  *)
(* of the check may await the feed and then awaits the last result, the    *)
(* queue and the link that queues an upgrade; requests of other tabs, the  *)
(* user and the sidecar act in between.  The feed, the preferences and the *)
(* files of the queue outlive the web process, its cache and its requests  *)
(* do not.                                                                 *)
(***************************************************************************)
EXTENDS Integers, Sequences, FiniteSets

CONSTANTS
    Releases,   \* records: core, rc (0 for a final one), prerelease
    FirstRelease, \* the release that runs at first
    Window,     \* MAX_RELEASES
    Gets,       \* requests of the check that may overlap
    None,
    MaxGets,    \* bound: requests of the check
    MaxActs     \* bound: what the user does

VARIABLES
    feed,      \* the published releases, newest first
    cache,     \* what was fetched of it, or None
    prefs,     \* auto-install and include-prereleases
    version,   \* the release web-gui runs
    anchor,    \* the one before it, or None
    get,       \* per request: where it is and what it has read
    queued,    \* web-gui.req
    lock,      \* web-gui.req.lock
    result,    \* web-gui.result: None, "ok" or "failed"
    (* Observers *)
    quiet,     \* the last upgrade failed and nobody has acted since
    started, acts

vars == <<feed, cache, prefs, version, anchor, get, queued, lock, result,
          quiet, started, acts>>
files == <<queued, lock, result, quiet>>

NotAsking == [at |-> "idle", pre |-> FALSE, latest |-> None, last |-> None,
              quiet |-> FALSE]

Init ==
    /\ feed = <<FirstRelease>>
    /\ cache = None
    /\ prefs \in [auto : BOOLEAN, pre : BOOLEAN]
    /\ version = FirstRelease
    /\ anchor = None
    /\ get = [g \in Gets |-> NotAsking]
    /\ queued = None
    /\ lock = None
    /\ result = None
    /\ quiet = FALSE
    /\ started = 0
    /\ acts = 0

(* compareVersions: a final release is newer than any candidate for it.    *)
Newer(a, b) ==
    \/ a.core > b.core
    \/ a.core = b.core /\ b.rc # 0 /\ (a.rc = 0 \/ a.rc > b.rc)

Members(s) == {s[i] : i \in 1..Len(s)}

(* The releases a check looks at: filtered, then capped.                   *)
Kept(s, pre) == {i \in 1..Len(s) : pre \/ ~s[i].prerelease}
Applicable(s, pre) ==
    {s[i] : i \in {k \in Kept(s, pre) : Cardinality({j \in Kept(s, pre) : j < k}) < Window}}

(* checkForUpdate: the newest of them when it is newer than the running    *)
(* one, else None.                                                         *)
Update(s, pre) ==
    LET best == {r \in Applicable(s, pre) :
                    /\ \A q \in Applicable(s, pre) : ~Newer(q, r)
                    /\ Newer(r, version)}
    IN  IF best = {} THEN None ELSE CHOOSE r \in best : TRUE

(* The rest of the check up to its next await.                             *)
Checked(g, s, pre) ==
    get' = [get EXCEPT ![g] =
               IF Update(s, pre) = None \/ ~prefs.auto THEN NotAsking
               ELSE [at |-> "result", pre |-> pre, latest |-> Update(s, pre),
                     last |-> None, quiet |-> FALSE]]

(* A request finds the cache fresh, or fetches the feed.                   *)
GetCached(g) ==
    /\ get[g].at = "idle" /\ started < MaxGets
    /\ cache # None
    /\ started' = started + 1
    /\ Checked(g, cache, prefs.pre)
    /\ UNCHANGED <<feed, cache, prefs, version, anchor, files, acts>>

GetFetches(g) ==
    /\ get[g].at = "idle" /\ started < MaxGets
    /\ started' = started + 1
    /\ get' = [get EXCEPT ![g] = [NotAsking EXCEPT !.at = "fetch", !.pre = prefs.pre]]
    /\ UNCHANGED <<feed, cache, prefs, version, anchor, files, acts>>

(* The feed may have grown since the request was made.                     *)
Fetched(g) ==
    /\ get[g].at = "fetch"
    /\ cache' = feed
    /\ Checked(g, feed, get[g].pre)
    /\ UNCHANGED <<feed, prefs, version, anchor, files, started, acts>>

FetchFails(g) ==
    /\ get[g].at = "fetch"
    /\ get' = [get EXCEPT ![g] = NotAsking]
    /\ UNCHANGED <<feed, cache, prefs, version, anchor, files, started, acts>>

(* readFeatureResult, and whether it was read after an unmended failure.   *)
ReadResult(g) ==
    /\ get[g].at = "result"
    /\ get' = [get EXCEPT ![g].at = "queue", ![g].last = result, ![g].quiet = quiet]
    /\ UNCHANGED <<feed, cache, prefs, version, anchor, files, started, acts>>

(* isRequestPending: the queue, then the lock.                             *)
StatQueue(g) ==
    /\ get[g].at = "queue"
    /\ get' = [get EXCEPT ![g] = IF queued # None THEN NotAsking
                                 ELSE [@ EXCEPT !.at = "lock"]]
    /\ UNCHANGED <<feed, cache, prefs, version, anchor, files, started, acts>>

(* The last result is not looked at.                                       *)
StatLockRetries(g) ==
    /\ get[g].at = "lock"
    /\ get' = [get EXCEPT ![g] = IF lock # None THEN NotAsking
                                 ELSE [@ EXCEPT !.at = "link"]]
    /\ UNCHANGED <<feed, cache, prefs, version, anchor, files, started, acts>>

StatLock(g) ==
    /\ get[g].at = "lock"
    /\ get' = [get EXCEPT ![g] = IF lock # None \/ @.last = "failed" THEN NotAsking
                                 ELSE [@ EXCEPT !.at = "link"]]
    /\ UNCHANGED <<feed, cache, prefs, version, anchor, files, started, acts>>

Request(action, tag) ==
    [action |-> action, tag |-> tag, auto |-> FALSE, pre |-> FALSE,
     quiet |-> FALSE, overtook |-> FALSE]

(* queueFeatureRequest: the link fails when there is a request, but not    *)
(* when one was queued and claimed since the lock was looked for.          *)
AutoLink(g) ==
    /\ get[g].at = "link"
    /\ queued' = IF queued # None THEN queued
                 ELSE [Request("upgrade", get[g].latest) EXCEPT
                          !.auto = TRUE, !.pre = get[g].pre,
                          !.quiet = get[g].quiet, !.overtook = lock # None]
    /\ get' = [get EXCEPT ![g] = NotAsking]
    /\ UNCHANGED <<feed, cache, prefs, version, anchor, lock, result, quiet,
                   started, acts>>

-----------------------------------------------------------------------------
(* The user: an upgrade to any published release, a rollback, and the      *)
(* preferences, which empty the cache.                                     *)
Act == acts < MaxActs /\ acts' = acts + 1

Queue(request) ==
    /\ Act
    /\ queued = None /\ lock = None
    /\ queued' = request
    /\ quiet' = FALSE
    /\ UNCHANGED <<feed, cache, prefs, version, anchor, get, lock, result, started>>

Upgrade == \E r \in Members(feed) : Queue(Request("upgrade", r))
Rollback == Queue(Request("rollback", None))

SetPrefs ==
    /\ Act
    /\ prefs' \in [auto : BOOLEAN, pre : BOOLEAN]
    /\ cache' = None
    /\ UNCHANGED <<feed, version, anchor, get, files, started>>

(* A release is published, or withdrawn again.                             *)
Publish ==
    /\ \E r \in Releases \ Members(feed) : feed' = <<r>> \o feed
    /\ UNCHANGED <<cache, prefs, version, anchor, get, files, started, acts>>

Withdraw ==
    /\ Len(feed) > 1 /\ feed' = Tail(feed)
    /\ UNCHANGED <<cache, prefs, version, anchor, get, files, started, acts>>

(* The sidecar claims a request, and its answer comes before its lock      *)
(* goes.  It restarts web-gui when the release changes.                    *)
Claim ==
    /\ queued # None /\ lock = None
    /\ lock' = queued
    /\ queued' = None
    /\ UNCHANGED <<feed, cache, prefs, version, anchor, get, result, quiet,
                   started, acts>>

Target == IF lock.action = "rollback" THEN anchor ELSE lock.tag

Deploy ==
    /\ lock # None /\ lock.action # "done" /\ Target # None
    /\ result' = "ok"
    /\ quiet' = FALSE
    /\ lock' = [lock EXCEPT !.action = "done"]
    /\ IF Target = version THEN UNCHANGED <<version, anchor, get, cache>>
       ELSE /\ version' = Target
            /\ anchor' = IF lock.action = "rollback" THEN None ELSE version
            /\ get' = [g \in Gets |-> NotAsking]
            /\ cache' = None
    /\ UNCHANGED <<feed, prefs, queued, started, acts>>

DeployFails ==
    /\ lock # None /\ lock.action # "done"
    /\ result' = "failed"
    /\ quiet' = TRUE
    /\ lock' = [lock EXCEPT !.action = "done"]
    /\ UNCHANGED <<feed, cache, prefs, version, anchor, get, queued, started, acts>>

Unlock ==
    /\ lock # None /\ lock.action = "done"
    /\ lock' = None
    /\ UNCHANGED <<feed, cache, prefs, version, anchor, get, queued, result,
                   quiet, started, acts>>

Next ==
    \/ \E g \in Gets :
         \/ GetCached(g) \/ GetFetches(g) \/ Fetched(g) \/ FetchFails(g)
         \/ ReadResult(g) \/ StatQueue(g) \/ StatLock(g) \/ AutoLink(g)
    \/ Upgrade \/ Rollback \/ SetPrefs \/ Publish \/ Withdraw
    \/ Claim \/ Deploy \/ DeployFails \/ Unlock

Spec == Init /\ [][Next]_vars

-----------------------------------------------------------------------------
(* Properties.                                                             *)

(* What was queued with nobody at the keyboard.                            *)
Automatic == queued # None /\ queued.auto

(* It goes to a newer release than the one that runs, whatever was queued, *)
(* deployed, rolled back or withdrawn since it was found, unless another   *)
(* request was claimed between its last look at the lock and its link      *)
(* (lib/update-check.ts:180, feature-requests.ts:111).                      *)
AutoMovesUp == Automatic /\ ~queued.overtook => Newer(queued.tag, version)

(* "once an upgrade has failed on this install, auto stays quiet until     *)
(* someone acts" (update-check.ts:58): a check that read the result after  *)
(* the failure queues nothing.                                             *)
AutoStaysQuiet == Automatic => ~queued.quiet

(* "Auto installs never jump to a pre-release unless this is also on"      *)
(* (update-prefs.ts:13): it was on when the check began.                   *)
PrereleaseAsked == Automatic => (queued.tag.prerelease => queued.pre)

(* A row of candidates does not hide a final release: with candidates off, *)
(* the check knows the newest final one unless as many finals as the       *)
(* window holds were published after it (lib/update-check.ts:167).         *)
FinalsNotHidden ==
    cache # None =>
        \A i \in 1..Len(cache) :
            ~cache[i].prerelease /\ cache[i] \notin Applicable(cache, FALSE) =>
                Cardinality({j \in 1..i - 1 : ~cache[j].prerelease}) >= Window

AutoInstallSound ==
    AutoMovesUp /\ AutoStaysQuiet /\ PrereleaseAsked /\ FinalsNotHidden

-----------------------------------------------------------------------------
(* The inductive invariant behind it, which ServerProofs proves from this  *)
(* assumption: what a check has read still holds at its next await.        *)
UpdateConstants == FirstRelease \in Releases /\ Window \in Nat

Stages == {"idle", "fetch", "result", "queue", "lock", "link"}

TypeOK ==
    /\ feed \in Seq(Releases) /\ cache \in Seq(Releases) \cup {None}
    /\ prefs \in [auto : BOOLEAN, pre : BOOLEAN] /\ quiet \in BOOLEAN
    /\ result \in {None, "ok", "failed"}
    /\ get \in [Gets -> [at : Stages, pre : BOOLEAN, latest : Releases \cup {None},
                         last : {None, "ok", "failed"}, quiet : BOOLEAN]]

(* What a check found is newer than what runs, and was asked for.          *)
FoundNewer ==
    \A g \in Gets : get[g].at \in {"result", "queue", "lock", "link"} =>
        /\ Newer(get[g].latest, version)
        /\ get[g].latest.prerelease => get[g].pre

(* A check that read a failure ends at the lock.                           *)
FailureSeen ==
    /\ quiet => result = "failed"
    /\ \A g \in Gets : get[g].quiet => /\ get[g].at # "link"
                                       /\ get[g].at \in {"queue", "lock"} => get[g].last = "failed"

QueuedSound ==
    Automatic => /\ ~queued.quiet /\ (queued.tag.prerelease => queued.pre)
                 /\ ~queued.overtook => lock = None /\ Newer(queued.tag, version)

UpdateInv == TypeOK /\ FoundNewer /\ FailureSeen /\ QueuedSound
=============================================================================
