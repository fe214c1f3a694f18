----------------------------- MODULE BtcSidecar -----------------------------
(***************************************************************************)
(* The life of the Bitcoin wallet in the bdk-wallet sidecar                *)
(* (bdk-wallet/src/main.rs): POST /wallet that creates or restores it, the *)
(* boot that loads it, and the background sync with its prune guard and    *)
(* its retry.  A handler is split at its awaits and blocking tasks; what   *)
(* happens between them is one step.                                       *)
(*                                                                         *)
(* A generated mnemonic is new with each request, so it is named after its *)
(* request.  Time only orders horizons: 0 is "scan everything".  bdk and   *)
(* bitcoind are external: bdk refuses a database of other words, scans     *)
(* from the time its database records, and bitcoind goes on rescanning     *)
(* after the import call has timed out.                                    *)
(***************************************************************************)
EXTENDS Integers

CONSTANTS
    Generate,    \* requests that ask for a fresh mnemonic
    Restore,     \* requests that bring theirs
    Old,         \* the mnemonic they bring
    None,
    Slack,       \* the 24 hours of horizon_safe_on_pruned
    PruneWindow, \* how far back a pruned node serves blocks
    MaxTime,     \* bound: the clock
    MaxTimers,   \* bound: retries asleep when POST /sync is called
    MaxFaults    \* bound: crashes, failed opens and writes, lost clients


Requests == Generate \cup Restore

Words == Generate \cup {Old}

VARIABLES
    seed,      \* seed.json
    db,        \* wallet.sqlite: whose it is, and bdk's recorded sync time
    mem,       \* AppState: wallet, sync_start_time, last_sync_time, load_error,
               \* and the wallet's open database: its record, is it still linked
    sync,      \* the background sync; at # "idle" is the syncing flag
    timers,    \* sleeping scan retries
    node,      \* bitcoind
    request,   \* POST /wallet in flight
    now,
    up,
    (* Observers *)
    seen,      \* mnemonics somebody has
    faults,
    deserted,  \* requests whose client gave up
    bereft     \* a create that made no file has removed another's

vars == <<seed, db, mem, sync, timers, node, request, now, up, seen, faults, deserted, bereft>>

disk == <<seed, db>>
syncing == <<sync, timers>>
world == <<node, now, up>>
observers == <<seen, faults, deserted, bereft>>

NoSeed == [words |-> None, created |-> 0, torn |-> FALSE]

NoDb == [words |-> None, synced |-> 0]

Idle == [at |-> "idle", horizon |-> 0, checked |-> FALSE]

Fresh == [wallet |-> None, start |-> now, last |-> 0, loadError |-> FALSE,
          synced |-> 0, linked |-> FALSE]

Init ==
    /\ seed = NoSeed
    /\ db = NoDb
    /\ now = 1
    /\ mem = Fresh
    /\ sync = Idle
    /\ timers = 0
    /\ node \in [up : {TRUE}, pruned : BOOLEAN, scanning : {FALSE}, imported : {FALSE}]
    /\ request = [r \in Requests |-> "new"]
    /\ up = TRUE
    /\ seen = {Old}
    /\ faults = 0
    /\ deserted = {}
    /\ bereft = FALSE

SeedExists == seed.words # None \/ seed.torn

Fault == faults < MaxFaults /\ faults' = faults + 1

WordsOf(r) == IF r \in Generate THEN r ELSE Old

(* A restore must see every block; a fresh mnemonic has no history.        *)
CreatedAt(r) == IF r \in Generate THEN now ELSE 0

Step(r, next) == request' = [request EXCEPT ![r] = next]

(* Where bdk's next scan starts: the recorded sync time once there is one. *)
Origin == IF mem.synced # 0 THEN mem.synced ELSE mem.start

(* spawn_sync: the flag is taken by one swap; a second caller is dropped.  *)
SpawnSync ==
    IF sync.at = "idle" THEN sync' = [Idle EXCEPT !.at = "start"]
    ELSE sync' = sync

-----------------------------------------------------------------------------
(* POST /wallet.                                                           *)

(* The seed file is looked for before anything is awaited.                 *)
CreateStarts(r) ==
    /\ up
    /\ request[r] = "new"
    /\ IF SeedExists THEN Step(r, "exists")
       ELSE Step(r, IF r \in Restore THEN "checkNode" ELSE "save")
    /\ UNCHANGED <<disk, mem, syncing, world, observers>>

(* A full-history restore needs an answer, and an unpruned node.           *)
CreateChecksNode(r) ==
    /\ request[r] = "checkNode"
    /\ Step(r, IF node.up /\ ~node.pruned THEN "save" ELSE "failed")
    /\ UNCHANGED <<disk, mem, syncing, world, observers>>

(* Every failure of save_seed removes the file, the loser's included.      *)
CreateSavesAndCleans(r) ==
    /\ request[r] = "save"
    /\ IF SeedExists
       THEN Step(r, "failed") /\ seed' = NoSeed
       ELSE /\ Step(r, "open")
            /\ seed' = [words |-> WordsOf(r), created |-> CreatedAt(r), torn |-> FALSE]
    /\ UNCHANGED <<db, mem, syncing, world, observers>>

(* save_seed opens with create_new: the loser of a race fails and leaves   *)
(* the file alone.                                                         *)
CreateSaves(r) ==
    /\ request[r] = "save"
    /\ IF SeedExists
       THEN Step(r, "failed") /\ UNCHANGED seed
       ELSE /\ Step(r, "open")
            /\ seed' = [words |-> WordsOf(r), created |-> CreatedAt(r), torn |-> FALSE]
    /\ UNCHANGED <<db, mem, syncing, world, observers>>

(* The write fails half way; the file is removed after another await.      *)
SaveFails(r) ==
    /\ request[r] = "save"
    /\ ~SeedExists
    /\ Fault
    /\ seed' = [NoSeed EXCEPT !.torn = TRUE]
    /\ Step(r, "unsave")
    /\ UNCHANGED <<db, mem, syncing, world, seen, deserted, bereft>>

(* The open fails, for want of a descriptor or a disk: no file is made, and*)
(* one that is there is another's.  What follows is the same.              *)
OpenFails(r) ==
    /\ request[r] = "save"
    /\ Fault
    /\ Step(r, "unmake")
    /\ UNCHANGED <<disk, mem, syncing, world, seen, deserted, bereft>>

(* The removal, of whatever is at the path by now.                         *)
SaveCleans(r) ==
    /\ request[r] \in {"unsave", "unmake"}
    /\ seed' = NoSeed
    /\ bereft' = (bereft \/ (request[r] = "unmake" /\ SeedExists))
    /\ Step(r, "failed")
    /\ UNCHANGED <<db, mem, syncing, world, seen, faults, deserted>>

(* build_wallet succeeds; open_wallet takes over the horizons, then waits  *)
(* for the wallet lock.                                                    *)
Opened(words, created) ==
    /\ db.words \in {None, words}
    /\ db' = [words |-> words, synced |-> db.synced]
    /\ mem' = [mem EXCEPT !.start = created, !.last = db.synced,
                          !.synced = db.synced, !.linked = TRUE]

Horizons(r) ==
    IF seed.words = WordsOf(r) THEN {seed.created}
    ELSE IF r \in Generate THEN 1..now ELSE {0}

CreateOpens(r) ==
    /\ request[r] = "open"
    /\ \E created \in Horizons(r) : Opened(WordsOf(r), created)
    /\ Step(r, "store")
    /\ UNCHANGED <<seed, syncing, world, observers>>

(* It fails, as it must on a database of other words: the seed file goes   *)
(* first, the database after it; an open database lives on unlinked.       *)
CreateOpenFails(r) ==
    /\ request[r] = "open"
    /\ IF db.words \in {None, WordsOf(r)} THEN Fault ELSE UNCHANGED faults
    /\ seed' = NoSeed
    /\ Step(r, "removeDb")
    /\ UNCHANGED <<db, mem, syncing, world, seen, deserted, bereft>>

CreateRemovesDb(r) ==
    /\ request[r] = "removeDb"
    /\ db' = NoDb
    /\ mem' = [mem EXCEPT !.linked = FALSE]
    /\ Step(r, "failed")
    /\ UNCHANGED <<seed, syncing, world, observers>>

(* The wallet is stored, a scan starts, and a generated mnemonic is shown  *)
(* once, in this answer.                                                   *)
CreateStores(r) ==
    /\ request[r] = "store"
    /\ sync.at # "scan"
    /\ mem' = [mem EXCEPT !.wallet = WordsOf(r)]
    /\ SpawnSync
    /\ seen' = seen \cup {WordsOf(r)}
    /\ Step(r, "created")
    /\ UNCHANGED <<disk, timers, world, faults, deserted, bereft>>

(* The web side gives up after ten seconds, and the handler is dropped at  *)
(* the await it stands at.  A blocking task it started goes on: the open of*)
(* the wallet, and the removal of a file.                                  *)
ClientGivesUp(r) ==
    /\ request[r] \in {"checkNode", "unsave", "unmake", "open", "store"}
    /\ r \notin deserted
    /\ Fault
    /\ Step(r, CASE request[r] \in {"unsave", "unmake"} -> request[r]
                 [] request[r] = "open" -> "orphan"
                 [] OTHER -> "gone")
    /\ deserted' = deserted \cup {r}
    /\ UNCHANGED <<disk, mem, syncing, world, seen, bereft>>

OrphanBuilds(r) ==
    /\ request[r] = "orphan"
    /\ db' = IF db.words = None THEN [NoDb EXCEPT !.words = WordsOf(r)] ELSE db
    /\ Step(r, "gone")
    /\ UNCHANGED <<seed, mem, syncing, world, observers>>

Create(r) ==
    \/ CreateStarts(r)
    \/ CreateChecksNode(r)
    \/ CreateSaves(r)
    \/ SaveFails(r)
    \/ OpenFails(r)
    \/ SaveCleans(r)
    \/ CreateOpens(r)
    \/ CreateOpenFails(r)
    \/ CreateRemovesDb(r)
    \/ CreateStores(r)
    \/ ClientGivesUp(r)
    \/ OrphanBuilds(r)

-----------------------------------------------------------------------------
(* The sync task.                                                          *)

(* POST /sync, once the wallet lock is free and a wallet is there.         *)
PostSync ==
    /\ up
    /\ mem.wallet # None
    /\ sync.at # "scan"
    /\ timers < MaxTimers
    /\ SpawnSync
    /\ UNCHANGED <<disk, mem, timers, world, request, observers>>

(* The guard's horizon: the last sync this process knows of, else the      *)
(* creation of the wallet.                                                 *)
Horizon == IF mem.last # 0 THEN mem.last ELSE mem.start

SyncStarts ==
    /\ sync.at = "start"
    /\ sync' = [sync EXCEPT !.at = "guard", !.horizon = Horizon]
    /\ UNCHANGED <<disk, mem, timers, world, request, observers>>

(* The oldest block a pruned node serves.                                  *)
Cutoff == IF now > PruneWindow THEN now - PruneWindow ELSE 0

(* horizon_safe_on_pruned; an unknown cutoff is taken for now.             *)
HorizonSafe(horizon, cutoff) == horizon # 0 /\ horizon + Slack >= cutoff

(* The node does not answer getblockchaininfo: the scan is attempted.      *)
GuardUnanswered ==
    /\ sync.at = "guard"
    /\ ~node.up
    /\ sync' = [sync EXCEPT !.at = "scan"]
    /\ UNCHANGED <<disk, mem, timers, world, request, observers>>

GuardPasses ==
    /\ sync.at = "guard"
    /\ node.up
    /\ node.pruned => \E cutoff \in {Cutoff, now} : HorizonSafe(sync.horizon, cutoff)
    /\ sync' = [sync EXCEPT !.at = "scan", !.checked = TRUE]
    /\ UNCHANGED <<disk, mem, timers, world, request, observers>>

(* The refusal returns without releasing the flag.                         *)
GuardRefusesAndReturns ==
    /\ sync.at = "guard"
    /\ node.up
    /\ node.pruned
    /\ \E cutoff \in {Cutoff, now} : ~HorizonSafe(sync.horizon, cutoff)
    /\ UNCHANGED vars

GuardRefuses ==
    /\ sync.at = "guard"
    /\ node.up
    /\ node.pruned
    /\ \E cutoff \in {Cutoff, now} : ~HorizonSafe(sync.horizon, cutoff)
    /\ sync' = Idle
    /\ UNCHANGED <<disk, mem, timers, world, request, observers>>

(* The blocking task holds the wallet lock.  bdk records the time of the   *)
(* sync in its database and the task copies it to last_sync_time.          *)
ScanEnds ==
    /\ sync.at = "scan"
    /\ node.up
    /\ ~node.scanning
    /\ node.imported \/ Origin # 0
    /\ db' = IF mem.linked THEN [db EXCEPT !.synced = now] ELSE db
    /\ mem' = [mem EXCEPT !.synced = now, !.last = now]
    /\ sync' = Idle
    /\ node' = [node EXCEPT !.imported = TRUE]
    /\ UNCHANGED <<seed, timers, now, up, request, observers>>

(* The call times out: bitcoind is rescanning, from the first import of an *)
(* old wallet on, or it does not answer.                                   *)
ScanFails ==
    /\ sync.at = "scan"
    /\ ~node.up \/ node.scanning \/ (~node.imported /\ Origin = 0)
    /\ sync' = [sync EXCEPT !.at = "probe"]
    /\ node' = IF node.up /\ ~node.imported
               THEN [node EXCEPT !.imported = TRUE, !.scanning = TRUE] ELSE node
    /\ UNCHANGED <<disk, mem, timers, now, up, request, observers>>

(* schedule_scan_retry asks getwalletinfo, then the flag is released.      *)
Probe ==
    /\ sync.at = "probe"
    /\ timers' = IF node.up /\ node.scanning THEN timers + 1 ELSE timers
    /\ sync' = Idle
    /\ UNCHANGED <<disk, mem, world, request, observers>>

RetryFires ==
    /\ timers > 0
    /\ timers' = timers - 1
    /\ SpawnSync
    /\ UNCHANGED <<disk, mem, world, request, observers>>

SyncTask ==
    \/ SyncStarts
    \/ GuardUnanswered
    \/ GuardPasses
    \/ GuardRefuses
    \/ ScanEnds
    \/ ScanFails
    \/ Probe

-----------------------------------------------------------------------------
(* The sidecar stops wherever it is.                                       *)
Stop ==
    /\ up
    /\ Fault
    /\ up' = FALSE
    /\ mem' = Fresh
    /\ sync' = Idle
    /\ timers' = 0
    /\ request' = [r \in Requests |-> IF request[r] \in {"new", "created", "exists", "failed"}
                                      THEN request[r] ELSE "gone"]
    /\ deserted' = deserted \cup {r \in Requests : request'[r] = "gone"}
    /\ UNCHANGED <<disk, node, now, seen, bereft>>

(* main: the persisted seed is loaded before the listener opens.           *)
BootEmpty ==
    /\ ~up
    /\ ~SeedExists
    /\ up' = TRUE
    /\ UNCHANGED <<disk, mem, syncing, node, now, request, observers>>

BootLoads ==
    /\ ~up
    /\ seed.words # None
    /\ db.words \in {None, seed.words}
    /\ db' = [db EXCEPT !.words = seed.words]
    /\ mem' = [mem EXCEPT !.wallet = seed.words, !.start = seed.created, !.last = db.synced,
                          !.synced = db.synced, !.linked = TRUE]
    /\ SpawnSync
    /\ up' = TRUE
    /\ UNCHANGED <<seed, timers, node, now, request, observers>>

(* A torn seed file, or a database of other words.                         *)
BootFails ==
    /\ ~up
    /\ seed.torn \/ (seed.words # None /\ db.words \notin {None, seed.words})
    /\ mem' = [mem EXCEPT !.loadError = TRUE]
    /\ up' = TRUE
    /\ UNCHANGED <<disk, syncing, node, now, request, observers>>

(* load_error tells the user to delete the data directory.                 *)
Wipe ==
    /\ up
    /\ mem.loadError
    /\ mem.wallet = None
    /\ \A r \in Requests : request[r] \in {"new", "created", "exists", "failed", "gone"}
    /\ SeedExists
    /\ seed' = NoSeed
    /\ db' = NoDb
    /\ UNCHANGED <<mem, syncing, world, request, observers>>

(* bitcoind restarts, perhaps with pruning switched; a rescan ends.        *)
NodeGoes ==
    /\ node.up
    /\ Fault
    /\ node' = [node EXCEPT !.up = FALSE, !.scanning = FALSE]
    /\ UNCHANGED <<disk, mem, syncing, now, up, request, seen, deserted, bereft>>

NodeComes ==
    /\ ~node.up
    /\ \E pruned \in BOOLEAN : node' = [node EXCEPT !.up = TRUE, !.pruned = pruned]
    /\ UNCHANGED <<disk, mem, syncing, now, up, request, observers>>

RescanEnds ==
    /\ node.scanning
    /\ node' = [node EXCEPT !.scanning = FALSE]
    /\ UNCHANGED <<disk, mem, syncing, now, up, request, observers>>

Tick ==
    /\ now < MaxTime
    /\ now' = now + 1
    /\ UNCHANGED <<disk, mem, syncing, node, up, request, observers>>

Next ==
    \/ \E r \in Requests : Create(r)
    \/ PostSync
    \/ SyncTask
    \/ RetryFires
    \/ Stop
    \/ BootEmpty
    \/ BootLoads
    \/ BootFails
    \/ Wipe
    \/ NodeGoes
    \/ NodeComes
    \/ RescanEnds
    \/ Tick

Spec == Init /\ [][Next]_vars

(* Tasks the runtime has started run on, every node call has a timeout, a  *)
(* sleeping timer fires, and a rescan ends.  Nobody has to ask for         *)
(* anything.                                                               *)
FairSpec ==
    /\ Spec
    /\ WF_vars(SyncTask)
    /\ WF_vars(RetryFires)
    /\ WF_vars(RescanEnds)

-----------------------------------------------------------------------------
Finished == {"created", "exists", "failed", "gone"}

Steps == {"new", "checkNode", "save", "unsave", "unmake", "open", "removeDb", "store", "orphan"}

(* Type invariant.                                                         *)
TypeOK ==
    /\ seed \in [words : Words \cup {None}, created : Nat, torn : BOOLEAN]
    /\ db \in [words : Words \cup {None}, synced : Nat]
    /\ mem \in [wallet : Words \cup {None}, start : Nat, last : Nat, loadError : BOOLEAN,
               synced : Nat, linked : BOOLEAN]
    /\ sync \in [at : {"idle", "start", "guard", "scan", "probe"},
                 horizon : Nat, checked : BOOLEAN]
    /\ timers \in Nat
    /\ node \in [up : BOOLEAN, pruned : BOOLEAN, scanning : BOOLEAN, imported : BOOLEAN]
    /\ request \in [Requests -> Steps \cup Finished]
    /\ now \in Nat
    /\ up \in BOOLEAN
    /\ seen \subseteq Words
    /\ faults \in Nat
    /\ deserted \subseteq Requests
    /\ bereft \in BOOLEAN

(* The loaded wallet is the one the seed file would load after a restart:  *)
(* concurrent creates, failed writes and their clean-ups never part them,  *)
(* but for the create whose open failed and which removes a file it never  *)
(* made (main.rs:617-625 means to remove only its own).                    *)
SeedBacksWallet == mem.wallet # None => seed.words = mem.wallet \/ bereft

(* The prune guard judges the origin bdk will scan from, across restarts,  *)
(* failed opens and a sync that another one follows (main.rs, spawn_sync), *)
(* while there is one wallet.                                              *)
GuardJudgesOrigin == sync.at \in {"guard", "scan"} => sync.horizon = Origin \/ bereft

(* A mnemonic in use is known to somebody, unless its request was cut off  *)
(* before the only answer that shows it.                                   *)
WordsKnown ==
    mem.wallet \in Generate => mem.wallet \in seen \cup deserted

(* While the sidecar serves, a seed file without a loaded wallet is either *)
(* being worked on, or explained in load_error, or left by a request whose *)
(* client gave up (AppState.load_error).                                   *)
UnloadedIsExplained ==
    up /\ SeedExists /\ mem.wallet = None =>
        \/ mem.loadError
        \/ \E r \in Requests : request[r] \notin Finished \cup {"new"}
        \/ deserted # {}

(* The flag that refuses a second sync, and lets the page wait.            *)
Syncing == sync.at # "idle"

(* The syncing flag never sticks, whatever the node does.                  *)
SyncEnds == Syncing ~> ~Syncing

-----------------------------------------------------------------------------
(* The inductive invariant behind the first four, which ServerProofs       *)
(* proves from this assumption: the seed file is that of the one request   *)
(* that works on it, until a wallet is loaded.                             *)
SidecarConstants == None \notin Words

Saved(r) == request[r] \in {"unsave", "open", "store"}

SeedOwned ==
    ~bereft => \A r \in Requests : Saved(r) =>
        /\ mem.wallet = None
        /\ \A q \in Requests : Saved(q) => q = r
        /\ request[r] = "unsave" => seed.torn
        /\ request[r] \in {"open", "store"} => seed.words = WordsOf(r)

DownIsQuiet ==
    ~up => /\ mem.wallet = None
           /\ \A r \in Requests : request[r] \in Finished \cup {"new"}

(* Only a wallet is synced, so none is opened under a sync.                *)
WalletSyncs == mem.wallet = None => sync.at = "idle" /\ timers = 0

(* last_sync_time is what bdk has recorded.                                *)
SyncRecorded == mem.last = mem.synced

SeedKnown ==
    /\ Old \in seen
    /\ \A r \in Generate : seed.words = r =>
          r \in seen \cup deserted \/ request[r] \in {"open", "store"}

UnloadedIsOwned ==
    up /\ SeedExists /\ mem.wallet = None =>
        mem.loadError \/ (\E r \in Requests : Saved(r)) \/ deserted # {}

SidecarInv ==
    /\ TypeOK /\ SeedOwned /\ DownIsQuiet /\ WalletSyncs /\ SyncRecorded /\ SeedKnown
    /\ WordsKnown /\ UnloadedIsOwned /\ SeedBacksWallet /\ GuardJudgesOrigin
=============================================================================
