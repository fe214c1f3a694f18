------------------------------- MODULE Plugins -------------------------------
(***************************************************************************)
(* Installing, enabling, loading and uninstalling a plugin (lib/plugins.ts, *)
(* the routes under api/plugins and the page plugins/[plugin]).  Installs  *)
(* and uninstalls are queued and each runs without an await, so only a     *)
(* crash can stop one between two of its writes.  A page awaits the import *)
(* of the plugin; Node keeps every module it has imported under its URL.   *)
(*                                                                         *)
(* One plugin id; every install of it is a version of its own, which has   *)
(* an entry and a helper that the entry imports.                           *)
(***************************************************************************)
EXTENDS Integers, Sequences

CONSTANTS
    None,
    Pages,        \* requests for the plugin's page that may overlap
    MaxInstalls,  \* bound: versions
    MaxCrashes    \* bound: crashes of the web process

VARIABLES
    disk,      \* the version in PLUGINS_DIR, None when there is none
    registry,  \* the version the registry lists
    enabled,   \* the pref that says it is enabled
    gen,       \* _generations
    cache,     \* _cache: the generation and the version loaded, or None
    modules,   \* Node's own cache: what was linked per generation, the helper
    job,       \* the writes an install or uninstall has left
    page,      \* per request: where it is, its generation, what it ran
    (* Observers *)
    consent,   \* the versions somebody enabled
    installs, crashes,
    torn       \* the crashes that stopped a job between two writes

vars == <<disk, registry, enabled, gen, cache, modules, job, page, consent,
          installs, crashes, torn>>

NoPage == [at |-> "idle", gen |-> 0, entry |-> None, helper |-> None]
NoModules == [linked |-> [g \in {} |-> None], helper |-> None]

Init ==
    /\ disk = None
    /\ registry = None
    /\ enabled = FALSE
    /\ gen = 0
    /\ cache = None
    /\ modules = NoModules
    /\ job = <<>>
    /\ page = [p \in Pages |-> NoPage]
    /\ consent = {}
    /\ installs = 0
    /\ crashes = 0
    /\ torn = 0

Awake == job = <<>>

(* installPluginInner: refused when it is listed; a directory left behind  *)
(* is replaced.                                                            *)
Install ==
    /\ Awake /\ registry = None /\ installs < MaxInstalls
    /\ installs' = installs + 1
    /\ job' = <<"copy", "list", "disable", "invalidate">>
    /\ UNCHANGED <<disk, registry, enabled, gen, cache, modules, page, consent, crashes, torn>>

(* uninstallInner.                                                         *)
Uninstall ==
    /\ Awake /\ registry # None
    /\ job' = <<"remove", "unlist", "forget", "invalidate">>
    /\ UNCHANGED <<disk, registry, enabled, gen, cache, modules, page, consent,
                   installs, crashes, torn>>

(* The next write; the removal of the files may fail and nobody is told.   *)
Write(w) ==
    /\ job # <<>> /\ Head(job) = w
    /\ job' = Tail(job)
    /\ UNCHANGED <<modules, page, consent, installs, crashes, torn>>

Copy ==
    /\ Write("copy") /\ disk' = installs
    /\ UNCHANGED <<registry, enabled, gen, cache>>
Remove ==
    /\ Write("remove") /\ disk' \in {None, disk}
    /\ UNCHANGED <<registry, enabled, gen, cache>>
List ==
    /\ Write("list") /\ registry' = installs
    /\ UNCHANGED <<disk, enabled, gen, cache>>
Unlist ==
    /\ Write("unlist") /\ registry' = None
    /\ UNCHANGED <<disk, enabled, gen, cache>>

(* A new plugin keeps what the pref says.                                  *)
DisableSkipped ==
    /\ Write("disable") \/ Write("forget")
    /\ UNCHANGED <<disk, registry, enabled, gen, cache>>
Disable ==
    /\ Write("disable") \/ Write("forget")
    /\ enabled' = FALSE
    /\ UNCHANGED <<disk, registry, gen, cache>>

Invalidate ==
    /\ Write("invalidate")
    /\ gen' = gen + 1
    /\ cache' = None
    /\ UNCHANGED <<disk, registry, enabled>>

(* togglePlugin, with a code when it enables.                              *)
Toggle(on) ==
    /\ Awake /\ registry # None
    /\ enabled' = on
    /\ consent' = IF on THEN consent \cup {registry} ELSE consent
    /\ UNCHANGED <<disk, registry, gen, cache, modules, job, page, installs, crashes, torn>>

(* The page: 404 unless listed and enabled; what _cache has for this       *)
(* generation runs at once, else the entry is imported.                    *)
Open(p) ==
    /\ Awake /\ page[p].at = "idle"
    /\ registry # None /\ enabled
    /\ page' = [page EXCEPT ![p] =
                   IF cache # None /\ cache.gen = gen
                   THEN [at |-> "run", gen |-> gen, entry |-> cache.entry,
                         helper |-> cache.helper]
                   ELSE [NoPage EXCEPT !.at = "import", !.gen = gen]]
    /\ UNCHANGED <<disk, registry, enabled, gen, cache, modules, job, consent,
                   installs, crashes, torn>>

(* What the import of a generation gives: a module imported under this URL *)
(* before is not read again, and the helper's URL has no generation.       *)
Loaded(g) ==
    IF g \in DOMAIN modules.linked THEN modules.linked[g]
    ELSE [gen |-> g, entry |-> disk,
          helper |-> IF modules.helper = None THEN disk ELSE modules.helper]

Imported(p) ==
    /\ Awake /\ page[p].at = "import"
    /\ LET l == Loaded(page[p].gen) IN
         IF l.entry = None
         THEN page' = [page EXCEPT ![p] = NoPage] /\ UNCHANGED <<modules, cache>>
         ELSE /\ modules' = [linked |-> [g \in DOMAIN modules.linked \cup {l.gen} |-> Loaded(g)],
                             helper |-> l.helper]
              /\ cache' = l
              /\ page' = [page EXCEPT ![p] = [at |-> "run", gen |-> l.gen,
                             entry |-> l.entry, helper |-> l.helper]]
    /\ UNCHANGED <<disk, registry, enabled, gen, job, consent, installs, crashes, torn>>

Answered(p) ==
    /\ Awake /\ page[p].at = "run"
    /\ page' = [page EXCEPT ![p] = NoPage]
    /\ UNCHANGED <<disk, registry, enabled, gen, cache, modules, job, consent,
                   installs, crashes, torn>>

(* The web process stops, perhaps in the middle of a job, and starts anew. *)
Crash ==
    /\ crashes < MaxCrashes
    /\ crashes' = crashes + 1
    /\ torn' = IF job = <<>> THEN torn ELSE torn + 1
    /\ gen' = 0
    /\ cache' = None
    /\ modules' = NoModules
    /\ job' = <<>>
    /\ page' = [p \in Pages |-> NoPage]
    /\ UNCHANGED <<disk, registry, enabled, consent, installs>>

Next ==
    \/ Install \/ Uninstall
    \/ Copy \/ Remove \/ List \/ Unlist \/ Disable \/ Invalidate
    \/ \E on \in BOOLEAN : Toggle(on)
    \/ \E p \in Pages : Open(p) \/ Imported(p) \/ Answered(p)
    \/ Crash

Spec == Init /\ [][Next]_vars

-----------------------------------------------------------------------------
(* Properties.                                                             *)

(* The requests no install or uninstall has overlapped.                    *)
Undisturbed(p) == Awake /\ page[p].at = "run" /\ page[p].gen = gen

(* A plugin starts disabled (PLUGINS.md:284): the code of a version runs   *)
(* only when somebody has enabled that version, also when a crash between  *)
(* two writes left the pref of an earlier one behind (plugins.ts:216).  A  *)
(* second such crash, after the new version is listed and before its pref  *)
(* is reset, does run it.                                                  *)
Consented ==
    torn < 2 => \A p \in Pages : Undisturbed(p) => page[p].entry \in consent

(* The entry that runs is that of the installed version (plugins.ts:266).  *)
EntryCurrent ==
    \A p \in Pages : Undisturbed(p) /\ disk = registry => page[p].entry = registry

PluginsSound == Consented /\ EntryCurrent

-----------------------------------------------------------------------------
(* The inductive invariant behind it, which ServerProofs proves.           *)
Installing == <<"copy", "list", "disable", "invalidate">>
ToList == <<"list", "disable", "invalidate">>
ToDisable == <<"disable", "invalidate">>
Uninstalling == <<"remove", "unlist", "forget", "invalidate">>
ToUnlist == <<"unlist", "forget", "invalidate">>
ToForget == <<"forget", "invalidate">>
ToInvalidate == <<"invalidate">>

TypeOK ==
    /\ disk \in Nat \cup {None} /\ registry \in Nat \cup {None}
    /\ enabled \in BOOLEAN /\ gen \in Nat /\ installs \in Nat /\ torn \in Nat
    /\ job \in {<<>>, Installing, ToList, ToDisable, Uninstalling, ToUnlist, ToForget, ToInvalidate}
    /\ DOMAIN page = Pages
    /\ \A p \in Pages : page[p].gen \in 0 .. gen
    /\ \A g \in DOMAIN modules.linked : g \in 0 .. gen /\ modules.linked[g].gen = g
    /\ cache # None => cache.gen \in 0 .. gen

(* What lies on disk is what the registry lists, or nothing.               *)
DiskListed ==
    /\ job \in {Installing, ToList} => registry = None
    /\ job = ToList => disk = installs
    /\ registry # None => disk \in {None, registry}

(* What was loaded for this generation is what lies on disk.               *)
LoadedCurrent ==
    /\ cache # None => cache.entry # None
    /\ \A p \in Pages : page[p].at = "run" => page[p].entry # None
    /\ Awake =>
         /\ gen \in DOMAIN modules.linked => modules.linked[gen].entry = disk
         /\ cache # None /\ cache.gen = gen => cache.entry = disk
         /\ \A p \in Pages : Undisturbed(p) => page[p].entry = disk

(* The pref is that of the version listed, while no crash has stopped a    *)
(* job, and of a version somebody enabled, while only one has.             *)
PrefMeant ==
    /\ torn = 0 /\ enabled => \/ job = ToForget
                              \/ registry # None /\ job \in {<<>>, Uninstalling, ToUnlist}
    /\ torn < 2 /\ enabled /\ registry # None /\ job # ToDisable => registry \in consent
    /\ torn < 2 /\ Awake =>
         \A p \in Pages : page[p].at # "idle" /\ page[p].gen = gen =>
             registry # None /\ registry \in consent

PluginsInv == TypeOK /\ DiskListed /\ LoadedCurrent /\ PrefMeant
=============================================================================
