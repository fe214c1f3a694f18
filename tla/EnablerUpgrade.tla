--------------------------- MODULE EnablerUpgrade ---------------------------
(***************************************************************************)
(* What an upgrade or a rollback request does to the stack:                *)
(* apply_upgrade and apply_rollback of feature-enabler/enabler.sh.  They   *)
(* rewrite .env one key at a time and then run two compose commands.  The  *)
(* sidecar applies one request at a time; when it dies, the stranded       *)
(* request is handed back and applied again from its beginning (module     *)
(* FeatureQueue).                                                          *)
(* Nothing else writes .env while the sidecar applies a request.           *)
(*                                                                         *)
(* A pin is the tag of an image reference.  A missing pin and :latest are  *)
(* the same image and the same anchor, hence one value here.  Bitcoin      *)
(* Core's pin is apart: a missing one marks the core as managed.           *)
(***************************************************************************)
EXTENDS Integers, Sequences, SequencesExt

CONSTANTS
    Order,        \* UPGRADE_KEYS, in order
    Web,          \* WEB_GUI_IMAGE
    Deps,         \* what web-gui depends on: compose up web-gui starts it too
    Active,       \* services the .env flags say run, web-gui among them
    Tags,         \* release tags that can be asked for
    Latest,       \* the tag before the first upgrade
    Digest,       \* a digest-pinned reference
    Cores,        \* Bitcoin Core versions a release declares
    DefaultCore,  \* the compose default, bitcoin/bitcoin:25
    UserCore,     \* a version the user pins by hand
    None,
    HostTags,     \* tags the operator pins on the host
    ComposeFails, \* whether a compose command may fail
    MaxJobs,      \* bound: requests accepted
    MaxCrashes,   \* bound: crashes of the sidecar
    MaxEdits      \* bound: edits of .env on the host

Keys == ToSet(Order)

(* The services that may run have an image each, web-gui among them; a     *)
(* digest, :latest and a missing key are no release tags; the core that    *)
(* the user pins is no version that a release or compose brings.           *)
UpgradeConstants ==
    /\ Order \in Seq(Keys) /\ Active \subseteq Keys /\ Web \in Active
    /\ HostTags \subseteq Tags \cup {Latest, Digest}
    /\ None \notin Tags \cup {Latest, Digest} /\ Digest \notin Tags \cup {Latest}
    /\ UserCore \notin Cores \cup {DefaultCore, None}
    /\ None \notin Cores \cup {DefaultCore}

VARIABLES
    pin,         \* KEY=
    anchor,      \* PREVIOUS_KEY=
    core,        \* BITCOIND_IMAGE=
    coreAnchor,  \* PREVIOUS_BITCOIN_IMAGE=
    managed,     \* MANAGED_BITCOIND_IMAGE=
    running,     \* Active -> the tag its container runs
    local,       \* <<key, tag>>: images present on the host
    job,         \* the request being applied
    (* Observers *)
    before,      \* the pins before the last upgrade that moved one
    byUser,      \* the user pinned the core
    jobs, crashes, edits

vars == <<pin, anchor, core, coreAnchor, managed, running, local, job, before,
          byUser, jobs, crashes, edits>>

coreVars == <<core, coreAnchor, managed, byUser>>
bounds == <<jobs, crashes, edits>>

NoJob == [at |-> "idle", action |-> "none", tag |-> None, declared |-> None,
          left |-> {}, failed |-> FALSE, bump |-> None, ok |-> TRUE,
          first |-> TRUE]

Init ==
    /\ pin = [k \in Keys |-> Latest]
    /\ anchor = [k \in Keys |-> None]
    /\ core = None
    /\ coreAnchor = None
    /\ managed = None
    /\ running = [k \in Active |-> Latest]
    /\ local = Keys \X {Latest}
    /\ job = NoJob
    /\ before = pin
    /\ byUser = FALSE
    /\ jobs = 0
    /\ crashes = 0
    /\ edits = 0

-----------------------------------------------------------------------------
(* A claimed request: a release tag and the core version it declares, or a *)
(* rollback.                                                               *)
Accept(action, tag, declared) ==
    /\ job.at = "idle"
    /\ jobs < MaxJobs
    /\ jobs' = jobs + 1
    /\ job' = [NoJob EXCEPT !.at = "begin", !.action = action, !.tag = tag,
                            !.declared = declared]
    /\ UNCHANGED <<pin, anchor, coreVars, running, local, before, crashes, edits>>

Answer(ok) == job' = [job EXCEPT !.at = "answer", !.ok = ok, !.left = {}]

(* The keys an upgrade moves: those not at the tag already.                *)
Targets == {k \in Keys : pin[k] # job.tag}

(* The loops take the keys in the order of UPGRADE_KEYS.                   *)
Place(k) == CHOOSE i \in DOMAIN Order : Order[i] = k
Comes(k) == k \in job.left /\ \A j \in job.left : Place(k) <= Place(j)

(* The declared core is taken when the pin is ours.                        *)
CoreManaged == core = None \/ core = managed

(* A digest-pinned reference cannot take a tag.                            *)
UpgradeAborts ==
    /\ job.at = "begin"
    /\ job.action = "upgrade"
    /\ \E k \in Keys : pin[k] = Digest
    /\ Answer(FALSE)
    /\ UNCHANGED <<pin, anchor, coreVars, running, local, before, bounds>>

(* The declared core is taken whosever the pin is.                         *)
BumpsAnyPin ==
    IF job.declared # None /\ core # job.declared THEN {None, job.declared} ELSE {None}

(* The declared core is pulled, or left as it is when it cannot be.        *)
Bumps ==
    IF job.declared # None /\ core # job.declared /\ CoreManaged
    THEN {None, job.declared}
    ELSE {None}

UpgradeIdle ==
    /\ job.at = "begin"
    /\ job.action = "upgrade"
    /\ \A k \in Keys : pin[k] # Digest
    /\ Targets = {}
    /\ None \in Bumps
    /\ Answer(TRUE)
    /\ UNCHANGED <<pin, anchor, coreVars, running, local, before, bounds>>

UpgradeStarts(bump) ==
    /\ job.at = "begin"
    /\ job.action = "upgrade"
    /\ \A k \in Keys : pin[k] # Digest
    /\ bump \in Bumps
    /\ Targets # {} \/ bump # None
    /\ job' = [job EXCEPT !.at = "pull", !.left = Targets, !.bump = bump,
                          !.failed = FALSE]
    /\ UNCHANGED <<pin, anchor, coreVars, running, local, before, bounds>>

(* Only the outcome of the last pull counts.                               *)
PullLastCounts(k, ok) ==
    /\ job.at = "pull"
    /\ Comes(k)
    /\ local' = IF ok THEN local \cup {<<k, job.tag>>} ELSE local
    /\ job' = [job EXCEPT !.left = @ \ {k}, !.failed = ~ok]
    /\ UNCHANGED <<pin, anchor, coreVars, running, before, bounds>>

Pull(k, ok) ==
    /\ job.at = "pull"
    /\ Comes(k)
    /\ local' = IF ok THEN local \cup {<<k, job.tag>>} ELSE local
    /\ job' = [job EXCEPT !.left = @ \ {k}, !.failed = @ \/ ~ok]
    /\ UNCHANGED <<pin, anchor, coreVars, running, before, bounds>>

PullFailed ==
    /\ job.at = "pull"
    /\ job.left = {}
    /\ job.failed
    /\ Answer(FALSE)
    /\ UNCHANGED <<pin, anchor, coreVars, running, local, before, bounds>>

Pulled ==
    /\ job.at = "pull"
    /\ job.left = {}
    /\ ~job.failed
    /\ job' = [job EXCEPT !.at = "anchor", !.left = Targets]
    /\ before' = IF job.first /\ Targets # {} THEN pin ELSE before
    /\ UNCHANGED <<pin, anchor, coreVars, running, local, bounds>>

SaveAnchor(k) ==
    /\ job.at = "anchor"
    /\ Comes(k)
    /\ anchor' = [anchor EXCEPT ![k] = pin[k]]
    /\ job' = [job EXCEPT !.at = "flip"]
    /\ UNCHANGED <<pin, coreVars, running, local, before, bounds>>

FlipPin(k) ==
    /\ job.at = "flip"
    /\ Comes(k)
    /\ pin' = [pin EXCEPT ![k] = job.tag]
    /\ job' = [job EXCEPT !.at = "anchor", !.left = @ \ {k}]
    /\ UNCHANGED <<anchor, coreVars, running, local, before, bounds>>

(* No core change: an older core anchor is dropped.                        *)
DropCoreAnchor ==
    /\ job.at = "anchor"
    /\ job.left = {}
    /\ job.bump = None
    /\ coreAnchor' = None
    /\ job' = [job EXCEPT !.at = "composeOthers"]
    /\ UNCHANGED <<pin, anchor, core, managed, byUser, running, local, before, bounds>>

SaveCoreAnchor ==
    /\ job.at = "anchor"
    /\ job.left = {}
    /\ job.bump # None
    /\ coreAnchor' = IF core = None THEN DefaultCore ELSE core
    /\ job' = [job EXCEPT !.at = "corePin"]
    /\ UNCHANGED <<pin, anchor, core, managed, byUser, running, local, before, bounds>>

(* BITCOIND_IMAGE, then its MANAGED mirror: two writes.                    *)
PinCore ==
    /\ job.at = "corePin"
    /\ core' = job.bump
    /\ byUser' = FALSE
    /\ job' = [job EXCEPT !.at = "coreManaged"]
    /\ UNCHANGED <<pin, anchor, coreAnchor, managed, running, local, before, bounds>>

ManageCore ==
    /\ job.at = "coreManaged"
    /\ managed' = job.bump
    /\ job' = [job EXCEPT !.at = "composeOthers"]
    /\ UNCHANGED <<pin, anchor, core, coreAnchor, byUser, running, local, before, bounds>>

-----------------------------------------------------------------------------
RollbackFails ==
    /\ job.at = "begin"
    /\ job.action = "rollback"
    /\ anchor[Web] = None
    /\ Answer(FALSE)
    /\ UNCHANGED <<pin, anchor, coreVars, running, local, before, bounds>>

RollbackStarts ==
    /\ job.at = "begin"
    /\ job.action = "rollback"
    /\ anchor[Web] # None
    /\ job' = [job EXCEPT !.at = "restore", !.left = Keys]
    /\ UNCHANGED <<pin, anchor, coreVars, running, local, before, bounds>>

(* The pin first, then its anchor is consumed.                             *)
RestorePin(k) ==
    /\ job.at = "restore"
    /\ Comes(k)
    /\ pin' = IF anchor[k] = None THEN pin ELSE [pin EXCEPT ![k] = anchor[k]]
    /\ job' = [job EXCEPT !.at = "consume"]
    /\ UNCHANGED <<anchor, coreVars, running, local, before, bounds>>

ConsumeAnchor(k) ==
    /\ job.at = "consume"
    /\ Comes(k)
    /\ anchor' = [anchor EXCEPT ![k] = None]
    /\ job' = [job EXCEPT !.at = "restore", !.left = @ \ {k}]
    /\ UNCHANGED <<pin, coreVars, running, local, before, bounds>>

(* The core anchor is read and consumed, then the two core keys written.   *)
ConsumeCoreAnchor ==
    /\ job.at = "restore"
    /\ job.left = {}
    /\ coreAnchor' = None
    /\ job' = [job EXCEPT !.bump = coreAnchor,
                          !.at = IF coreAnchor = None THEN "composeOthers" ELSE "corePin"]
    /\ UNCHANGED <<pin, anchor, core, managed, byUser, running, local, before, bounds>>

-----------------------------------------------------------------------------
(* compose up of the services that run; its failure is not looked at.      *)
ComposeOthers(ok) ==
    /\ job.at = "composeOthers"
    /\ ok \/ ComposeFails
    /\ running' = IF ok THEN [k \in Active |-> IF k = Web THEN running[k] ELSE pin[k]]
                  ELSE running
    /\ job' = [job EXCEPT !.at = "composeWeb"]
    /\ UNCHANGED <<pin, anchor, coreVars, local, before, bounds>>

(* compose up web-gui decides the answer.                                  *)
ComposeWeb(ok) ==
    /\ job.at = "composeWeb"
    /\ ok \/ ComposeFails
    /\ running' = IF ok
                  THEN [k \in Active |-> IF k \in Deps \cup {Web} THEN pin[k] ELSE running[k]]
                  ELSE running
    /\ Answer(ok)
    /\ UNCHANGED <<pin, anchor, coreVars, local, before, bounds>>

(* The lock is removed after the result was written.                       *)
Done ==
    /\ job.at = "answer"
    /\ job' = NoJob
    /\ UNCHANGED <<pin, anchor, coreVars, running, local, before, bounds>>

(* The sidecar dies; .env and the containers stay as they are.             *)
Crash ==
    /\ job.at # "idle"
    /\ job.at # "down"
    /\ crashes < MaxCrashes
    /\ crashes' = crashes + 1
    /\ job' = [job EXCEPT !.at = "down"]
    /\ UNCHANGED <<pin, anchor, coreVars, running, local, before, jobs, edits>>

(* recover_stale_locks: the same request, from its beginning.              *)
Retry ==
    /\ job.at = "down"
    /\ job' = [NoJob EXCEPT !.at = "begin", !.action = job.action, !.tag = job.tag,
                            !.declared = job.declared, !.first = FALSE]
    /\ UNCHANGED <<pin, anchor, coreVars, running, local, before, bounds>>

(* On the host: another pin, and compose up.                               *)
HostPins(k, t) ==
    /\ job.at = "idle"
    /\ edits < MaxEdits
    /\ edits' = edits + 1
    /\ pin' = [pin EXCEPT ![k] = t]
    /\ running' = [r \in Active |-> IF r = k THEN t ELSE running[r]]
    /\ local' = local \cup {<<k, t>>}
    /\ UNCHANGED <<anchor, coreVars, job, before, jobs, crashes>>

HostPinsCore ==
    /\ job.at = "idle"
    /\ edits < MaxEdits
    /\ edits' = edits + 1
    /\ core' = UserCore
    /\ byUser' = TRUE
    /\ UNCHANGED <<pin, anchor, coreAnchor, managed, running, local, job, before,
                   jobs, crashes>>

Next ==
    \/ \E t \in Tags, c \in Cores \cup {None} : Accept("upgrade", t, c)
    \/ Accept("rollback", None, None)
    \/ UpgradeAborts
    \/ UpgradeIdle
    \/ \E bump \in Cores \cup {None} : UpgradeStarts(bump)
    \/ \E k \in Keys, ok \in BOOLEAN : Pull(k, ok)
    \/ PullFailed
    \/ Pulled
    \/ \E k \in Keys : SaveAnchor(k) \/ FlipPin(k)
    \/ DropCoreAnchor
    \/ SaveCoreAnchor
    \/ PinCore
    \/ ManageCore
    \/ RollbackFails
    \/ RollbackStarts
    \/ \E k \in Keys : RestorePin(k) \/ ConsumeAnchor(k)
    \/ ConsumeCoreAnchor
    \/ \E ok \in BOOLEAN : ComposeOthers(ok) \/ ComposeWeb(ok)
    \/ Done
    \/ Crash
    \/ Retry
    \/ \E k \in Keys, t \in HostTags : HostPins(k, t)
    \/ HostPinsCore

Spec == Init /\ [][Next]_vars

-----------------------------------------------------------------------------
Job == [at : {"idle", "begin", "pull", "anchor", "flip", "corePin", "coreManaged",
              "restore", "consume", "composeOthers", "composeWeb", "answer", "down"},
        action : {"none", "upgrade", "rollback"}, tag : Tags \cup {None},
        declared : Cores \cup {None}, left : SUBSET Keys, failed : BOOLEAN,
        bump : Cores \cup {DefaultCore, UserCore, None}, ok : BOOLEAN,
        first : BOOLEAN]

(* Type invariant; no key of .env is ever written empty, and an upgrade    *)
(* under way has a tag.                                                    *)
TypeOK ==
    /\ pin \in [Keys -> Tags \cup {Latest, Digest}]
    /\ anchor \in [Keys -> Tags \cup {Latest, None}]
    /\ core \in Cores \cup {DefaultCore, UserCore, None}
    /\ coreAnchor \in Cores \cup {DefaultCore, UserCore, None}
    /\ managed \in Cores \cup {DefaultCore, UserCore, None}
    /\ running \in [Active -> Tags \cup {Latest, Digest}]
    /\ local \subseteq Keys \X (Tags \cup {Latest, Digest})
    /\ job \in Job
    /\ job.action = "upgrade" => job.tag \in Tags
    /\ before \in [Keys -> Tags \cup {Latest}]
    /\ byUser \in BOOLEAN
    /\ jobs \in Nat /\ crashes \in Nat /\ edits \in Nat

(* Every pin and every rollback anchor names an image that was pulled, at  *)
(* every moment of an upgrade and after every crash (enabler.sh: "Pull     *)
(* everything BEFORE touching .env: a failed pull changes nothing").       *)
PinsRunnable ==
    \A k \in Keys :
        /\ <<k, pin[k]>> \in local
        /\ anchor[k] # None => <<k, anchor[k]>> \in local

(* A rollback that reports success put every image pin back where it was   *)
(* before the last upgrade (features/rollback.ts: "restore the image pins  *)
(* the sidecar saved before the last upgrade").                            *)
RollbackRestores ==
    job.at = "answer" /\ job.action = "rollback" /\ job.ok => pin = before

(* An upgrade that reports success left every service that runs on the     *)
(* release.                                                                *)
OkMeansRunning ==
    job.at = "answer" /\ job.action = "upgrade" /\ job.ok =>
        \A k \in Active : pin[k] = job.tag /\ running[k] = job.tag

(* Between requests, a core pin that the user did not write is known as    *)
(* managed, so the next release can move it (enabler.sh, "we manage the    *)
(* pin").                                                                  *)
CoreRecognised ==
    job.at = "idle" /\ ~byUser => CoreManaged

(* No upgrade overwrites a core the user pinned.                           *)
UserCoreRespected ==
    byUser /\ job.action = "upgrade" => core' = core
=============================================================================
