-------------------------------- MODULE Host --------------------------------
(* What runs the program on its host, checked side by side: installer,     *)
(* sidecars, first run, sign-in, plugins, updates, alerts and the bot.  A  *)
(* behaviour is about one part, so the parts share the variables.          *)
EXTENDS Integers, TLAPS

CONSTANTS
    None,
    Order, WebImage, Deps, Active, Tags, Latest, Digest, DefaultCore, UserCore,
    PinsCores, PinsHostTags, PinsJobs, PinsCrashes, PinsEdits,
    AnswersCores, AnswersJobs, AnswersEdits,              \* EnablerUpgrade
    Visitors, SetupTtl, MaxStagings, SetupTime, SetupCrashes,   \* FirstRun
    Browsers, KeyIds, ChallengeTtl, MaxTokens, SignInTime, MaxRestarts,
                                                                \* Passkeys
    Guessers, GuessLimit, GuessWindow, GuessTime,              \* Throttles
    Nets, Passwords, Failing, MaxAsked, StackCrashes,      \* EnablerStacks
    Releases, FirstRelease, CheckWindow, Gets, MaxGets, MaxActs,
                                                             \* UpdateCheck
    PluginPages, MaxInstalls, PluginCrashes,                     \* Plugins
    Threshold, Kinds, MaxEvents, MaxOutages, MaxFailures, MaxConfigs,
                                                          \* TelegramAlerts
    Flavours, Stacks, MaxRuns,                                 \* Installer
    Generate, Restore, OldWords, Slack, PruneWindow, SidecarTime, MaxTimers,
    SidecarFaults,                                            \* BtcSidecar
    Bots, Chats, Messages, MaxUpdates, MaxSettings, BotFails, BotRestarts
                                                             \* TelegramBot

VARIABLES
    area,    \* which part of the program this behaviour is about
    (* Its state: the variables of its module, in their order.             *)
    s1, s2, s3, s4, s5, s6, s7, s8, s9, s10, s11, s12, s13, s14, s15

vars == <<area, s1, s2, s3, s4, s5, s6, s7, s8, s9, s10, s11, s12, s13,
s14, s15>>

Pins == INSTANCE EnablerUpgradeProofs WITH
    Order <- Order, Web <- WebImage, Deps <- Deps, Active <- Active,
    Tags <- Tags, Latest <- Latest, Digest <- Digest,
    DefaultCore <- DefaultCore, UserCore <- UserCore, None <- None,
    Cores <- PinsCores, HostTags <- PinsHostTags, ComposeFails <- TRUE,
    MaxJobs <- PinsJobs, MaxCrashes <- PinsCrashes, MaxEdits <- PinsEdits,
    pin <- s1, anchor <- s2, core <- s3, coreAnchor <- s4, managed <- s5,
    running <- s6, local <- s7, job <- s8, before <- s9, byUser <- s10,
    jobs <- s11, crashes <- s12, edits <- s13

Answers == INSTANCE EnablerUpgradeProofs WITH
    Order <- Order, Web <- WebImage, Deps <- Deps, Active <- Active,
    Tags <- Tags, Latest <- Latest, Digest <- Digest,
    DefaultCore <- DefaultCore, UserCore <- UserCore, None <- None,
    Cores <- AnswersCores, HostTags <- {}, ComposeFails <- FALSE,
    MaxJobs <- AnswersJobs, MaxCrashes <- 0, MaxEdits <- AnswersEdits,
    pin <- s1, anchor <- s2, core <- s3, coreAnchor <- s4, managed <- s5,
    running <- s6, local <- s7, job <- s8, before <- s9, byUser <- s10,
    jobs <- s11, crashes <- s12, edits <- s13

(* The other parts with their theorems; parts with a variable of the same  *)
(* name share its slot.                                                    *)
Server == INSTANCE ServerProofs WITH
    ListsFail <- FALSE, Exported <- TRUE,
    (* FirstRun                                                            *)
    hash <- s1, secret <- s2, pHash <- s3, pSecret <- s4, token <- s5,
    at <- s6, req <- s7, cookie <- s8, shown <- s9, who <- s10,
    confirmedBy <- s11, torn <- s12, now <- s13, crashes <- s14,
    (* Passkeys and Throttles                                              *)
    pending <- s1, creds <- s2, minted <- s3, stepUps <- s4, enrolled <- s5,
    kept <- s6, raced <- s9, restarts <- s10,
    kind <- s1, entry <- s2, wrong <- s3, before <- s4,
    (* EnablerStacks                                                       *)
    env <- s1, stack <- s2, data <- s3, web <- s4, queued <- s5, lock <- s6,
    answer <- s7, job <- s8, asked <- s9,
    (* UpdateCheck                                                         *)
    feed <- s1, cache <- s2, prefs <- s3, version <- s4, anchor <- s7,
    get <- s8, result <- s9, quiet <- s10, started <- s11, acts <- s12,
    (* Plugins                                                             *)
    disk <- s1, registry <- s3, enabled <- s4, gen <- s5, modules <- s6,
    page <- s7, consent <- s9, installs <- s10,
    (* TelegramAlerts                                                      *)
    wallet <- s1, reachable <- s2, tick <- s3, known <- s4, fresh <- s5,
    base <- s6, told <- s7, events <- s8, outages <- s9, configs <- s10,
    (* Installer                                                           *)
    backups <- s4, fw <- s5, run <- s6, held <- s7, written <- s8,
    lost <- s11, ended <- s9, runs <- s10,
    (* BtcSidecar                                                          *)
    seed <- s1, db <- s2, mem <- s3, sync <- s4, timers <- s5, node <- s6,
    request <- s7, up <- s8, seen <- s9, faults <- s10, deserted <- s11,
    bereft <- s12,
    (* TelegramBot                                                         *)
    config <- s1, controls <- s2, sent <- s3, dropped <- s4, loop <- s5,
    running <- s6, burned <- s7, early <- s14, late <- s15, staking <- s8,
    heard <- s9, ran <- s11, settings <- s12, fails <- s13

(* The slots a part does not use.                                        *)
Rest14 == <<s15>>
RestPass == <<s11, s12, s14, s15>>
RestLimits == <<s5, s6, s8, s9, s10, s11, s12, s14, s15>>
RestStacks == <<s10, s11, s13, s15>>
RestUpdates == <<s13, s14, s15>>
RestPlugs == <<s11, s13, s15>>
Rest10 == <<s11, s12, s13, s14, s15>>
Rest11 == <<s12, s13, s14, s15>>
Rest13 == <<s14, s15>>

Init ==
    \/ /\ area = "pins" /\ Pins!Init
       /\ s14 = None /\ s15 = None
    \/ /\ area = "answers" /\ Answers!Init
       /\ s14 = None /\ s15 = None
    \/ /\ area = "first" /\ Server!First!Init
       /\ s15 = None
    \/ /\ area = "passkeys" /\ Server!Pass!Init
       /\ s11 = None /\ s12 = None /\ s14 = None /\ s15 = None
    \/ /\ area = "limits" /\ Server!Limits!Init
       /\ s5 = None /\ s6 = None /\ s8 = None /\ s9 = None /\ s10 = None
       /\ s11 = None /\ s12 = None /\ s14 = None /\ s15 = None
    \/ /\ area = "stacks" /\ Server!Optional!Init
       /\ s10 = None /\ s11 = None /\ s13 = None /\ s15 = None
    \/ /\ area = "releases" /\ Server!Updates!Init
       /\ s13 = None /\ s14 = None /\ s15 = None
    \/ /\ area = "plugins" /\ Server!Plugs!Init
       /\ s11 = None /\ s13 = None /\ s15 = None
    \/ /\ area = "alerts" /\ Server!Alerts!Init
       /\ s11 = None /\ s12 = None /\ s13 = None /\ s14 = None /\ s15 = None
    \/ /\ area = "install" /\ Server!Install!Init
       /\ s12 = None /\ s13 = None /\ s14 = None /\ s15 = None
    \/ /\ area = "btc" /\ Server!Sidecar!Init
       /\ s14 = None /\ s15 = None
    \/ /\ area = "bot" /\ Server!Bot!Init

Next ==
    \/ area = "pins" /\ Pins!Next /\ UNCHANGED <<area, Rest13>>
    \/ area = "answers" /\ Answers!Next /\ UNCHANGED <<area, Rest13>>
    \/ area = "first" /\ Server!First!Next /\ UNCHANGED <<area, Rest14>>
    \/ area = "passkeys" /\ Server!Pass!Next /\ UNCHANGED <<area, RestPass>>
    \/ area = "limits" /\ Server!Limits!Next /\ UNCHANGED <<area, RestLimits>>
    \/ area = "stacks" /\ Server!Optional!Next /\ UNCHANGED <<area, RestStacks>>
    \/ area = "releases" /\ Server!Updates!Next /\ UNCHANGED <<area, RestUpdates>>
    \/ area = "plugins" /\ Server!Plugs!Next /\ UNCHANGED <<area, RestPlugs>>
    \/ area = "alerts" /\ Server!Alerts!Next /\ UNCHANGED <<area, Rest10>>
    \/ area = "install" /\ Server!Install!Next /\ UNCHANGED <<area, Rest11>>
    \/ area = "btc" /\ Server!Sidecar!Next /\ UNCHANGED <<area, Rest13>>
    \/ area = "bot" /\ Server!Bot!Next /\ UNCHANGED area

Spec == Init /\ [][Next]_vars

-----------------------------------------------------------------------------
(* What the theorems below assume of the constants.                        *)
ASSUME UpgradeAssumption == Pins!UpgradeConstants /\ Answers!UpgradeConstants
ASSUME FirstRunAssumption == Server!First!FirstRunConstants
ASSUME PasskeysAssumption == Server!Pass!PasskeysConstants
ASSUME ThrottlesAssumption == Server!Limits!ThrottlesConstants
ASSUME StacksAssumption == Server!Optional!StacksConstants
ASSUME UpdatesAssumption == Server!Updates!UpdateConstants
ASSUME AlertsAssumption == Server!Alerts!AlertsConstants
ASSUME InstallerAssumption == Server!Install!InstallerConstants
ASSUME SidecarAssumption == Server!Sidecar!SidecarConstants
ASSUME BotAssumption == Server!Bot!BotConstants

(* Every pin and anchor in .env names an image that was pulled, whatever   *)
(* fails and wherever the sidecar dies (enabler.sh, do_upgrade).           *)
PinsRunnable == area = "pins" => Pins!TypeOK /\ Pins!PinsRunnable

(* "ok" of a rollback means the pins of before, "ok" of an upgrade means   *)
(* that all runs the release, and the user's own core is left alone while  *)
(* one that the sidecar manages is recognised (enabler.sh).                *)
UpgradeSound ==
    /\ [](area = "answers" =>
             /\ Answers!RollbackRestores
             /\ Answers!OkMeansRunning
             /\ Answers!CoreRecognised)
    /\ [][area = "answers" => Answers!UserCoreRespected]_vars

(* Password and authenticator were staged by the visitor who confirmed     *)
(* them, and shown to nobody else (login.astro).                           *)
OneOwner == area = "first" => Server!First!OneOwner

(* Every enrolment has its own code, and the list of keys is what was      *)
(* enrolled and not removed (pages/api/passkey).                           *)
PasskeysSound == area = "passkeys" => Server!Pass!EnrolmentsPaid /\ Server!Pass!ListIsCurrent

(* Concurrent wrong guesses pass a limiter only within a bound             *)
(* (login.astro:194, password-change.ts:77).                               *)
GuessesBounded == area = "limits" => Server!Limits!GuessesBounded

(* Flags, profiles, settings and database password agree, across failures  *)
(* and retries, and "ok" means web-gui runs with the flag (enabler.sh).    *)
StacksSound == area = "stacks" => Server!Optional!StacksSound

(* An automatic install moves up, stays quiet after a failure and takes a  *)
(* candidate only when asked to (lib/update-check.ts).                     *)
AutoInstallSound == area = "releases" => Server!Updates!AutoInstallSound

(* The code of a plugin runs only in a version that somebody enabled, and  *)
(* in the version installed (lib/plugins.ts).                              *)
PluginsSound == area = "plugins" => Server!Plugs!PluginsSound

(* Alarms and all-clears alternate and no block is announced twice         *)
(* (telegram-notifications.ts).                                            *)
AlertsSound == area = "alerts" => Server!Alerts!AlertsSound

(* Wherever a run stops the operator has the credentials that the database *)
(* asks for; those of earlier runs are in .env or in a backup, but for one *)
(* whose copy failed (linux.sh:1288, init.sh:793); and a run that says it  *)
(* is complete is (linux.sh, init.sh).                                     *)
InstallSound == area = "install" => Server!Install!InstallSound

(* The wallet the sidecar serves is the one its seed file holds, its words *)
(* are known to somebody, a wallet that does not load says why, and the    *)
(* prune guard judges the origin of the scan, whatever creates, restarts   *)
(* and failed writes do meanwhile, until a create whose open failed        *)
(* removes a file that another made (main.rs:202, :624).                   *)
WalletSound ==
    area = "btc" =>
        /\ Server!Sidecar!TypeOK
        /\ Server!Sidecar!SeedBacksWallet
        /\ Server!Sidecar!GuardJudgesOrigin
        /\ Server!Sidecar!WordsKnown
        /\ Server!Sidecar!UnloadedIsExplained

(* However often Telegram delivers an update, it changes staking at most   *)
(* once in the life of a process (telegram-commands.ts:239), and once more *)
(* if its code was brought before its period (step-up.ts:106).             *)
EffectOnce == area = "bot" => Server!Bot!EffectOnce

-----------------------------------------------------------------------------
(* A behaviour of a part is one of its module, and the part never changes:  *)
(* what the module's theorems say holds of the host.                        *)

(* Every pin and anchor of .env names an image that was pulled, whatever    *)
(* fails and wherever the sidecar dies, and keeps its shape (enabler.sh,    *)
(* apply_upgrade).                                                          *)
THEOREM PinsRunnableHolds == Spec => []PinsRunnable
<1>1. Spec /\ area = "pins" => Pins!Spec /\ [](area = "pins")
  <2>1. Init /\ area = "pins" => Pins!Init
    BY DEF Init
  <2>2. area = "pins" /\ [Next]_vars
        => [Pins!Next]_(Pins!vars) /\ (area = "pins")'
    BY DEF Next, vars, Pins!vars
  <2> QED
    BY <2>1, <2>2, PTL DEF Spec, Pins!Spec
<1>2. Spec /\ ~(area = "pins") => [](~(area = "pins"))
  <2>1. ~(area = "pins") /\ [Next]_vars => (~(area = "pins"))'
    BY DEF Next, vars
  <2> QED
    BY <2>1, PTL DEF Spec
<1>3. Pins!Spec => []Pins!TypeOK
  BY Pins!TypeCorrect, UpgradeAssumption
<1>4. Pins!Spec => []Pins!PinsRunnable
  BY Pins!PinsAlwaysRunnable, UpgradeAssumption
<1>5. Pins!TypeOK /\ Pins!PinsRunnable => PinsRunnable
  BY DEF PinsRunnable
<1>6. ~(area = "pins") => PinsRunnable
  BY DEF PinsRunnable
<1> QED
  BY <1>1, <1>2, <1>3, <1>4, <1>5, <1>6, PTL

(* The pair of credentials that a first run installs was staged by the      *)
(* visitor who confirmed it, and shown to nobody else (login.astro).        *)
THEOREM OneOwnerHolds == Spec => []OneOwner
<1>1. Spec /\ area = "first" => Server!First!Spec /\ [](area = "first")
  <2>1. Init /\ area = "first" => Server!First!Init
    BY DEF Init
  <2>2. area = "first" /\ [Next]_vars
        => [Server!First!Next]_(Server!First!vars) /\ (area = "first")'
    BY DEF Next, vars, Server!First!vars, Server!First!pending
  <2> QED
    BY <2>1, <2>2, PTL DEF Spec, Server!First!Spec
<1>2. Spec /\ ~(area = "first") => [](~(area = "first"))
  <2>1. ~(area = "first") /\ [Next]_vars => (~(area = "first"))'
    BY DEF Next, vars
  <2> QED
    BY <2>1, PTL DEF Spec
<1>3. Server!First!Spec => []Server!First!OneOwner
  BY Server!OneOwnerOfInstall, FirstRunAssumption
<1>4. Server!First!OneOwner => OneOwner
  BY DEF OneOwner
<1>5. ~(area = "first") => OneOwner
  BY DEF OneOwner
<1> QED
  BY <1>1, <1>2, <1>3, <1>4, <1>5, PTL

(* Every enrolment was paid for with a code of its own, and the list of     *)
(* passkeys is what was enrolled and not removed (pages/api/passkey).       *)
THEOREM PasskeysSoundHolds == Spec => []PasskeysSound
<1>1. Spec /\ area = "passkeys" => Server!Pass!Spec /\ [](area = "passkeys")
  <2>1. Init /\ area = "passkeys" => Server!Pass!Init
    BY DEF Init
  <2>2. area = "passkeys" /\ [Next]_vars
        => [Server!Pass!Next]_(Server!Pass!vars) /\ (area = "passkeys")'
    BY DEF Next, vars, Server!Pass!vars
  <2> QED
    BY <2>1, <2>2, PTL DEF Spec, Server!Pass!Spec
<1>2. Spec /\ ~(area = "passkeys") => [](~(area = "passkeys"))
  <2>1. ~(area = "passkeys") /\ [Next]_vars => (~(area = "passkeys"))'
    BY DEF Next, vars
  <2> QED
    BY <2>1, PTL DEF Spec
<1>3. Server!Pass!Spec => [](Server!Pass!EnrolmentsPaid /\ Server!Pass!ListIsCurrent)
  BY Server!EnrolmentsArePaid, PasskeysAssumption
<1>4. Server!Pass!EnrolmentsPaid /\ Server!Pass!ListIsCurrent => PasskeysSound
  BY DEF PasskeysSound
<1>5. ~(area = "passkeys") => PasskeysSound
  BY DEF PasskeysSound
<1> QED
  BY <1>1, <1>2, <1>3, <1>4, <1>5, PTL

(* Whatever requests race at a limiter, no window lets more wrong guesses   *)
(* through than its limit and the requests in flight (login.astro:194).     *)
THEOREM GuessesBoundedHolds == Spec => []GuessesBounded
<1>1. Spec /\ area = "limits" => Server!Limits!Spec /\ [](area = "limits")
  <2>1. Init /\ area = "limits" => Server!Limits!Init
    BY DEF Init
  <2>2. area = "limits" /\ [Next]_vars
        => [Server!Limits!Next]_(Server!Limits!vars) /\ (area = "limits")'
    BY DEF Next, vars, Server!Limits!vars
  <2> QED
    BY <2>1, <2>2, PTL DEF Spec, Server!Limits!Spec
<1>2. Spec /\ ~(area = "limits") => [](~(area = "limits"))
  <2>1. ~(area = "limits") /\ [Next]_vars => (~(area = "limits"))'
    BY DEF Next, vars
  <2> QED
    BY <2>1, PTL DEF Spec
<1>3. Server!Limits!Spec => []Server!Limits!GuessesBounded
  BY Server!GuessesAreBounded, ThrottlesAssumption
<1>4. Server!Limits!GuessesBounded => GuessesBounded
  BY DEF GuessesBounded
<1>5. ~(area = "limits") => GuessesBounded
  BY DEF GuessesBounded
<1> QED
  BY <1>1, <1>2, <1>3, <1>4, <1>5, PTL

(* Flags, profiles, settings and the database password agree, whatever     *)
(* command fails and wherever the sidecar dies, and "ok" means that web-gui *)
(* runs with the flag (enabler.sh, apply_bitcoin and apply_indexer).       *)
THEOREM StacksSoundHolds == Spec => []StacksSound
<1>1. Spec /\ area = "stacks" => Server!Optional!Spec /\ [](area = "stacks")
  <2>1. Init /\ area = "stacks" => Server!Optional!Init
    BY DEF Init
  <2>2. area = "stacks" /\ [Next]_vars
        => [Server!Optional!Next]_(Server!Optional!vars) /\ (area = "stacks")'
    BY DEF Next, vars, Server!Optional!vars
  <2> QED
    BY <2>1, <2>2, PTL DEF Spec, Server!Optional!Spec
<1>2. Spec /\ ~(area = "stacks") => [](~(area = "stacks"))
  <2>1. ~(area = "stacks") /\ [Next]_vars => (~(area = "stacks"))'
    BY DEF Next, vars
  <2> QED
    BY <2>1, PTL DEF Spec
<1>3. Server!Optional!Spec => []Server!Optional!StacksSound
  BY Server!StacksAreSound, StacksAssumption
<1>4. Server!Optional!StacksSound => StacksSound
  BY DEF StacksSound
<1>5. ~(area = "stacks") => StacksSound
  BY DEF StacksSound
<1> QED
  BY <1>1, <1>2, <1>3, <1>4, <1>5, PTL

(* An automatic install moves up, stays quiet after a failure and takes a  *)
(* candidate only when asked to (lib/update-check.ts).                     *)
THEOREM AutoInstallSoundHolds == Spec => []AutoInstallSound
<1>1. Spec /\ area = "releases" => Server!Updates!Spec /\ [](area = "releases")
  <2>1. Init /\ area = "releases" => Server!Updates!Init
    BY DEF Init
  <2>2. area = "releases" /\ [Next]_vars
        => [Server!Updates!Next]_(Server!Updates!vars) /\ (area = "releases")'
    BY DEF Next, vars, Server!Updates!vars
  <2> QED
    BY <2>1, <2>2, PTL DEF Spec, Server!Updates!Spec
<1>2. Spec /\ ~(area = "releases") => [](~(area = "releases"))
  <2>1. ~(area = "releases") /\ [Next]_vars => (~(area = "releases"))'
    BY DEF Next, vars
  <2> QED
    BY <2>1, PTL DEF Spec
<1>3. Server!Updates!Spec => []Server!Updates!AutoInstallSound
  BY Server!AutoInstallsAreSound, UpdatesAssumption
<1>4. Server!Updates!AutoInstallSound => AutoInstallSound
  BY DEF AutoInstallSound
<1>5. ~(area = "releases") => AutoInstallSound
  BY DEF AutoInstallSound
<1> QED
  BY <1>1, <1>2, <1>3, <1>4, <1>5, PTL

(* The code of a plugin runs only in a version that somebody enabled, and  *)
(* in the version installed (lib/plugins.ts).                              *)
THEOREM PluginsSoundHolds == Spec => []PluginsSound
<1>1. Spec /\ area = "plugins" => Server!Plugs!Spec /\ [](area = "plugins")
  <2>1. Init /\ area = "plugins" => Server!Plugs!Init
    BY DEF Init
  <2>2. area = "plugins" /\ [Next]_vars
        => [Server!Plugs!Next]_(Server!Plugs!vars) /\ (area = "plugins")'
    BY DEF Next, vars, Server!Plugs!vars
  <2> QED
    BY <2>1, <2>2, PTL DEF Spec, Server!Plugs!Spec
<1>2. Spec /\ ~(area = "plugins") => [](~(area = "plugins"))
  <2>1. ~(area = "plugins") /\ [Next]_vars => (~(area = "plugins"))'
    BY DEF Next, vars
  <2> QED
    BY <2>1, PTL DEF Spec
<1>3. Server!Plugs!Spec => []Server!Plugs!PluginsSound
  BY Server!PluginsAreSound
<1>4. Server!Plugs!PluginsSound => PluginsSound
  BY DEF PluginsSound
<1>5. ~(area = "plugins") => PluginsSound
  BY DEF PluginsSound
<1> QED
  BY <1>1, <1>2, <1>3, <1>4, <1>5, PTL

(* Alarms and all-clears alternate and no block is announced twice         *)
(* (telegram-notifications.ts).                                            *)
THEOREM AlertsSoundHolds == Spec => []AlertsSound
<1>1. Spec /\ area = "alerts" => Server!Alerts!Spec /\ [](area = "alerts")
  <2>1. Init /\ area = "alerts" => Server!Alerts!Init
    BY DEF Init
  <2>2. area = "alerts" /\ [Next]_vars
        => [Server!Alerts!Next]_(Server!Alerts!vars) /\ (area = "alerts")'
    BY DEF Next, vars, Server!Alerts!vars
  <2> QED
    BY <2>1, <2>2, PTL DEF Spec, Server!Alerts!Spec
<1>2. Spec /\ ~(area = "alerts") => [](~(area = "alerts"))
  <2>1. ~(area = "alerts") /\ [Next]_vars => (~(area = "alerts"))'
    BY DEF Next, vars
  <2> QED
    BY <2>1, PTL DEF Spec
<1>3. Server!Alerts!Spec => []Server!Alerts!AlertsSound
  BY Server!AlertsAreSound, AlertsAssumption
<1>4. Server!Alerts!AlertsSound => AlertsSound
  BY DEF AlertsSound
<1>5. ~(area = "alerts") => AlertsSound
  BY DEF AlertsSound
<1> QED
  BY <1>1, <1>2, <1>3, <1>4, <1>5, PTL

(* Wherever a run stops the operator has the credentials that the database *)
(* asks for; those of earlier runs are in .env or in a backup, but for one *)
(* whose copy failed (linux.sh:1288, init.sh:793); and a run that says it  *)
(* is complete is (linux.sh, init.sh).                                     *)
THEOREM InstallSoundHolds == Spec => []InstallSound
<1>1. Spec /\ area = "install" => Server!Install!Spec /\ [](area = "install")
  <2>1. Init /\ area = "install" => Server!Install!Init
    BY DEF Init
  <2>2. area = "install" /\ [Next]_vars
        => [Server!Install!Next]_(Server!Install!vars) /\ (area = "install")'
    BY DEF Next, vars, Server!Install!vars, Server!Install!disk, Server!Install!host,
           Server!Install!told
  <2> QED
    BY <2>1, <2>2, PTL DEF Spec, Server!Install!Spec
<1>2. Spec /\ ~(area = "install") => [](~(area = "install"))
  <2>1. ~(area = "install") /\ [Next]_vars => (~(area = "install"))'
    BY DEF Next, vars
  <2> QED
    BY <2>1, PTL DEF Spec
<1>3. Server!Install!Spec => []Server!Install!InstallSound
  BY Server!InstallsAreSound, InstallerAssumption
<1>4. Server!Install!InstallSound => InstallSound
  BY DEF InstallSound
<1>5. ~(area = "install") => InstallSound
  BY DEF InstallSound
<1> QED
  BY <1>1, <1>2, <1>3, <1>4, <1>5, PTL

(* The wallet the sidecar serves is the one its seed file holds, its words *)
(* are known to somebody, a wallet that does not load says why, and the    *)
(* prune guard judges the origin of the scan, whatever creates, restarts   *)
(* and failed writes do meanwhile, until a create whose open failed        *)
(* removes a file that another made (main.rs:202, :624).                   *)
THEOREM WalletSoundHolds == Spec => []WalletSound
<1>1. Spec /\ area = "btc" => Server!Sidecar!Spec /\ [](area = "btc")
  <2>1. Init /\ area = "btc" => Server!Sidecar!Init
    BY DEF Init
  <2>2. area = "btc" /\ [Next]_vars
        => [Server!Sidecar!Next]_(Server!Sidecar!vars) /\ (area = "btc")'
    BY DEF Next, vars, Server!Sidecar!vars
  <2> QED
    BY <2>1, <2>2, PTL DEF Spec, Server!Sidecar!Spec
<1>2. Spec /\ ~(area = "btc") => [](~(area = "btc"))
  <2>1. ~(area = "btc") /\ [Next]_vars => (~(area = "btc"))'
    BY DEF Next, vars
  <2> QED
    BY <2>1, PTL DEF Spec
<1>3. Server!Sidecar!Spec => [](Server!Sidecar!TypeOK /\ Server!Sidecar!SeedBacksWallet
        /\ Server!Sidecar!GuardJudgesOrigin /\ Server!Sidecar!WordsKnown
        /\ Server!Sidecar!UnloadedIsExplained)
  BY Server!WalletIsSound, SidecarAssumption
<1>4. (Server!Sidecar!TypeOK /\ Server!Sidecar!SeedBacksWallet
        /\ Server!Sidecar!GuardJudgesOrigin /\ Server!Sidecar!WordsKnown
        /\ Server!Sidecar!UnloadedIsExplained) => WalletSound
  BY DEF WalletSound
<1>5. ~(area = "btc") => WalletSound
  BY DEF WalletSound
<1> QED
  BY <1>1, <1>2, <1>3, <1>4, <1>5, PTL

(* However often Telegram delivers an update, whatever bot the settings    *)
(* name meanwhile, it changes staking at most once in the life of a        *)
(* process, and once more if its code was brought before its period        *)
(* (telegram-commands.ts:239, step-up.ts:106).                             *)
THEOREM EffectOnceHolds == Spec => []EffectOnce
<1>1. Spec /\ area = "bot" => Server!Bot!Spec /\ [](area = "bot")
  <2>1. Init /\ area = "bot" => Server!Bot!Init
    BY DEF Init
  <2>2. area = "bot" /\ [Next]_vars
        => [Server!Bot!Next]_(Server!Bot!vars) /\ (area = "bot")'
    BY DEF Next, vars, Server!Bot!vars
  <2> QED
    BY <2>1, <2>2, PTL DEF Spec, Server!Bot!Spec
<1>2. Spec /\ ~(area = "bot") => [](~(area = "bot"))
  <2>1. ~(area = "bot") /\ [Next]_vars => (~(area = "bot"))'
    BY DEF Next, vars
  <2> QED
    BY <2>1, PTL DEF Spec
<1>3. Server!Bot!Spec => []Server!Bot!EffectOnce
  BY Server!CommandsRunOnce, BotAssumption
<1>4. Server!Bot!EffectOnce => EffectOnce
  BY DEF EffectOnce
<1>5. ~(area = "bot") => EffectOnce
  BY DEF EffectOnce
<1> QED
  BY <1>1, <1>2, <1>3, <1>4, <1>5, PTL

(* Without a crash, a failing compose command and a host edit of the image  *)
(* pins, "ok" of a rollback means the pins of before and "ok" of an upgrade *)
(* that all runs the release; the user's own core is left alone and the     *)
(* sidecar's is recognised (enabler.sh, features/rollback.ts).              *)
THEOREM UpgradeSoundHolds == Spec => UpgradeSound
<1> DEFINE Here == area = "answers"
           Sound == Here => /\ Answers!RollbackRestores
                            /\ Answers!OkMeansRunning
                            /\ Answers!CoreRecognised
           Respected == Here => Answers!UserCoreRespected
<1>1. Spec /\ Here => Answers!Spec /\ []Here
  <2>1. Init /\ Here => Answers!Init
    BY DEF Init
  <2>2. Here /\ [Next]_vars => [Answers!Next]_(Answers!vars) /\ Here'
    BY DEF Next, vars, Answers!vars
  <2> QED
    BY <2>1, <2>2, PTL DEF Spec, Answers!Spec
<1>2. Spec /\ ~Here => [](~Here)
  <2>1. ~Here /\ [Next]_vars => (~Here)'
    BY DEF Next, vars
  <2> QED
    BY <2>1, PTL DEF Spec
<1>3. Answers!Calm
  BY DEF Answers!Calm
<1>4. Answers!Spec => []Answers!RollbackRestores
  BY <1>3, Answers!RollbackIsExact, UpgradeAssumption
<1>5. Answers!Spec => []Answers!OkMeansRunning
  BY <1>3, Answers!OkIsRunning, UpgradeAssumption
<1>6. Answers!Spec => []Answers!CoreRecognised
  BY <1>3, Answers!CoreStaysManaged, UpgradeAssumption
<1>7. Answers!Spec => [][Answers!UserCoreRespected]_(Answers!vars)
  BY Answers!UserCoreStays, UpgradeAssumption
<1>8. /\ Answers!RollbackRestores /\ Answers!OkMeansRunning /\ Answers!CoreRecognised => Sound
      /\ ~Here => Sound
  OBVIOUS
<1>9. [Answers!UserCoreRespected]_(Answers!vars) => [Respected]_vars
  BY DEF Answers!UserCoreRespected, Answers!vars
<1>10. ~Here => [Respected]_vars
  OBVIOUS
<1>11. Spec => []Sound
  BY <1>1, <1>2, <1>4, <1>5, <1>6, <1>8, PTL
<1>12. Spec => [][Respected]_vars
  BY <1>1, <1>2, <1>7, <1>9, <1>10, PTL
<1> QED
  BY <1>11, <1>12 DEF UpgradeSound
=============================================================================
