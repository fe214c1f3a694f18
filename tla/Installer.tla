------------------------------- MODULE Installer -------------------------------
(***************************************************************************)
(* Installing, installing again and uninstalling (deploy/linux.sh, init.sh  *)
(* and tools/uninstall.sh).  A run of a script goes through its stages in   *)
(* order; the operator, a failing command (set -e) or the machine may stop  *)
(* it between any two.  Every run makes new credentials: a generation,     *)
(* numbered by the run, stands for all that it makes.  The IPFS and        *)
(* Telegram answers, which only fill settings, are left out.               *)
(***************************************************************************)
EXTENDS Integers, Sequences

CONSTANTS
    None,
    Flavours,   \* the scripts: "linux" and "init"
    Stacks,     \* the optional stacks the operator may choose among
    Exported,   \* may the shell that runs init.sh have PROJECT_DIR_HOST set
    MaxRuns     \* bound: runs of an installer

VARIABLES
    env,        \* .env: generation (Torn: its writing was cut off), profiles
    backups,    \* the generations in .env.bak.*
    prefs,      \* the generations of the password and TOTP secret stored
    stack,      \* the generation each service's container was created with
    fw,         \* the host's firewall: tool, is it on, does it let ssh in
    run,        \* the run: script, stage, mode, what was chosen
    (* Observers *)
    held,       \* the generations whose credentials the operator was given
    written,    \* the generations .env has had since it was last deleted
    lost,       \* the generations whose copy failed
    ended,      \* how the last run ended
    runs

disk == <<env, backups, prefs>>
host == <<stack, fw>>
told == <<held, written, lost>>
vars == <<disk, host, told, run, ended, runs>>

Torn == -1
NoEnv == [gen |-> None, stacks |-> {}]
NoRun == [at |-> "none", script |-> None, asks |-> FALSE, exported |-> FALSE,
          start |-> FALSE, stacks |-> {}, tool |-> None]
Services == {"core"} \cup Stacks

Init ==
    /\ env = NoEnv /\ backups = {}
    /\ prefs = [password |-> None, totp |-> None]
    /\ stack = [s \in Services |-> None]
    /\ fw = [tool |-> None, on |-> FALSE, ssh |-> FALSE]
    /\ run = NoRun
    /\ held = {} /\ written = {} /\ lost = {} /\ ended = "never" /\ runs = 0

-----------------------------------------------------------------------------
(* The answers: which stacks to enable, and whether to set up a firewall.  *)
InitStacks == {"indexer", "bitcoin", "watchtower"}
InitAccess == {"web"}
LinuxStacks == {"indexer"}
LinuxAccess == {"https", "duckdns"}
Answers(script) ==
    IF script = "init" THEN SUBSET (Stacks \cap (InitStacks \cup InitAccess))
    ELSE {o \in SUBSET (Stacks \cap (LinuxStacks \cup LinuxAccess)) :
            "duckdns" \in o => "https" \in o}
Firewalls(script) == IF script = "linux" THEN {None, "ufw", "firewalld"}
                     ELSE {None}

(* The stages.  linux.sh asks, or takes everything from the environment    *)
(* and then leaves the TOTP secret in a file; init.sh always asks.         *)
Asked == <<"summary", "backup", "env", "path", "seed", "seed2", "up">>
SilentSeedsFirst == <<"summary", "backup", "env", "seed", "seed2", "totp", "up">>
Silent == <<"summary", "backup", "env", "totp", "seed", "seed2", "up">>
Fire == <<"deny", "allow", "enable">>
Stages == (IF run.asks THEN Asked ELSE Silent)
          \o (IF run.tool = None THEN << >> ELSE Fire)

End(how) == run' = NoRun /\ ended' = how

(* Goes on to the next stage, or says that the setup is complete.          *)
Done ==
    LET i == CHOOSE j \in DOMAIN Stages : Stages[j] = run.at
    IN  IF i < Len(Stages)
        THEN run' = [run EXCEPT !.at = Stages[i + 1]] /\ UNCHANGED ended
        ELSE End(IF run.start THEN "started" ELSE "written")

(* Docker, compose or Python is missing.                                   *)
Unfit ==
    /\ run = NoRun /\ runs < MaxRuns
    /\ ended' = "unfit"
    /\ UNCHANGED <<disk, host, told, run, runs>>

(* New credentials; whoever is asked has scanned the secret before going   *)
(* on.                                                                     *)
Begin(script) ==
    /\ run = NoRun /\ runs < MaxRuns
    /\ runs' = runs + 1
    /\ \E asks, exported, start \in BOOLEAN, o \in Answers(script),
          tool \in Firewalls(script) :
         /\ script = "init" => asks
         /\ exported => Exported /\ script = "init"
         /\ ~asks => start /\ o = Stacks \cap LinuxStacks /\ tool = None
         /\ run' = [at |-> "summary", script |-> script, asks |-> asks,
                    exported |-> exported, start |-> start, stacks |-> o,
                    tool |-> tool]
         /\ held' = IF asks THEN held \cup {runs'} ELSE held
    /\ ended' = "running"
    /\ UNCHANGED <<disk, host, written, lost>>

Confirmed ==
    /\ run.at = "summary"
    /\ Done
    /\ UNCHANGED <<disk, host, told, runs>>
Declined ==
    /\ run.at = "summary" /\ run.asks
    /\ End("cancelled")
    /\ UNCHANGED <<disk, host, told, runs>>

(* A .env that is there is copied.  The command is "cp ... && chmod ...",  *)
(* which set -e lets fail: the run says that it has saved the old          *)
(* credentials and goes on.                                                *)
Backup ==
    /\ run.at = "backup"
    /\ Done
    /\ LET old == {env.gen} \ {None}
       IN  \/ backups' = backups \cup old /\ UNCHANGED lost
           \/ lost' = lost \cup old /\ UNCHANGED backups
    /\ UNCHANGED <<env, prefs, host, held, written, runs>>

(* COMPOSE_PROFILES, for the plain "up" of later days.                     *)
InitProfiles == run.stacks
LinuxProfiles == (run.stacks \cap {"indexer", "https"})
    \cup (IF "https" \in run.stacks THEN run.stacks \cap {"duckdns"} ELSE {})
WriteEnv ==
    /\ run.at = "env"
    /\ Done
    /\ env' = [gen |-> runs,
               stacks |-> IF run.script = "init" THEN InitProfiles
                          ELSE LinuxProfiles]
    /\ written' = written \cup {runs}
    /\ UNCHANGED <<backups, prefs, host, held, lost, runs>>

(* init.sh looks for blanks in a variable it has not set: under set -u it  *)
(* stops here unless its caller has exported one of that name.             *)
CheckPath ==
    /\ run.at = "path"
    /\ IF run.script = "init" /\ ~run.exported THEN End("stopped") ELSE Done
    /\ UNCHANGED <<disk, host, told, runs>>

(* mintlayer-totp.txt; the password was printed with the summary.          *)
TotpFile ==
    /\ run.at = "totp"
    /\ Done
    /\ held' = held \cup {runs}
    /\ UNCHANGED <<disk, host, written, lost, runs>>

(* The database is seeded by a container that runs one statement after     *)
(* another, each a transaction of its own; it may fail to start.           *)
Seed ==
    /\ run.at = "seed"
    /\ Done
    /\ prefs' = [prefs EXCEPT !.password = runs]
    /\ UNCHANGED <<env, backups, host, told, runs>>
SeedSecond ==
    /\ run.at = "seed2"
    /\ Done
    /\ prefs' = [prefs EXCEPT !.totp = runs]
    /\ UNCHANGED <<env, backups, host, told, runs>>
SeedFails ==
    /\ run.at = "seed"
    /\ End("failed")
    /\ UNCHANGED <<disk, host, told, runs>>

(* A pull that fails is followed by a local build or ignored; up creates   *)
(* every container of the chosen profiles whose settings differ, and lets  *)
(* those of other profiles be.                                             *)
InitFlags == run.stacks
LinuxFlags == (run.stacks \cap {"indexer", "https"})
    \cup (IF "https" \in run.stacks THEN run.stacks \cap {"duckdns"} ELSE {})
Up ==
    LET flags == IF run.script = "init" THEN InitFlags ELSE LinuxFlags
    IN  /\ run.at = "up"
        /\ stack' = [s \in Services |->
             IF run.start /\ s \in {"core"} \cup flags THEN env.gen
             ELSE stack[s]]
        /\ Done
        /\ UNCHANGED <<disk, fw, told, runs>>
UpFails ==
    /\ run.at = "up" /\ run.start
    /\ End("failed")
    /\ UNCHANGED <<disk, host, told, runs>>

(* ufw is off from its reset until it is enabled; firewalld takes the drop *)
(* zone at once and the permanent rules when it is reloaded.               *)
Ufw ==
    /\ run.tool = "ufw"
    /\ \/ run.at = "deny"   /\ fw' = [tool |-> "ufw", on |-> FALSE, ssh |-> FALSE]
       \/ run.at = "allow"  /\ fw' = [fw EXCEPT !.ssh = TRUE]
       \/ run.at = "enable" /\ fw' = [fw EXCEPT !.on = TRUE]
Firewalld ==
    /\ run.tool = "firewalld"
    /\ \/ /\ run.at = "deny"
          /\ fw' = [tool |-> "firewalld", on |-> TRUE, ssh |-> FALSE]
       \/ run.at = "allow"  /\ UNCHANGED fw
       \/ run.at = "enable" /\ fw' = [fw EXCEPT !.ssh = TRUE]
Firewall ==
    /\ Ufw \/ Firewalld
    /\ Done
    /\ UNCHANGED <<disk, stack, told, runs>>

(* Ctrl-C, a closed session, a reboot; .env is written through a redirect. *)
Interrupt ==
    /\ run # NoRun
    /\ \/ UNCHANGED env
       \/ run.at = "env" /\ env' = [gen |-> Torn, stacks |-> {}]
    /\ End("interrupted")
    /\ UNCHANGED <<backups, prefs, host, told, runs>>

(* Each step of uninstall.sh is confirmed by itself; "down" knows the      *)
(* profiles that .env names.  The volumes and the images, which hold no    *)
(* credentials, are left out.                                              *)
Uninstall ==
    /\ run = NoRun /\ ended # "never"
    /\ \E down, data, file \in BOOLEAN :
         /\ stack' = [s \in Services |->
              IF down /\ s \in {"core"} \cup env.stacks THEN None ELSE stack[s]]
         /\ prefs' = IF data THEN [password |-> None, totp |-> None] ELSE prefs
         /\ env' = IF file THEN NoEnv ELSE env
         /\ written' = IF file THEN {} ELSE written
    /\ ended' = "uninstalled"
    /\ UNCHANGED <<backups, fw, run, held, lost, runs>>

Next ==
    \/ \E s \in Flavours : Begin(s)
    \/ Unfit \/ Confirmed \/ Declined \/ Backup \/ WriteEnv \/ CheckPath
    \/ TotpFile \/ Seed \/ SeedSecond \/ SeedFails \/ Up \/ UpFails
    \/ Firewall \/ Interrupt \/ Uninstall

Spec == Init /\ [][Next]_vars

-----------------------------------------------------------------------------
(* Properties.                                                             *)

(* Wherever a run stops, the operator has the password and the secret that *)
(* the database asks for (linux.sh:1371, :1395).                           *)
NoLockout == {prefs.password, prefs.totp} \subseteq held \cup {None}

(* No credentials of an earlier run are lost: they are in .env or in a     *)
(* backup of it until .env is deleted, unless it was the copy itself that  *)
(* failed: the script then overwrites them all the same (linux.sh:1288).   *)
CredentialsKept == written \subseteq backups \cup {env.gen} \cup lost

(* A run that says it is complete leaves one set of credentials in .env,   *)
(* the database and the containers, and .env names exactly the profiles    *)
(* that it started, so that a later plain "up" starts the same set         *)
(* (linux.sh:1361, :1449).                                                 *)
CompleteIsWhole ==
    /\ ended \in {"written", "started"} =>
         prefs.password = env.gen /\ prefs.totp = env.gen
    /\ ended = "started" =>
         {s \in Services : stack[s] = env.gen} = {"core"} \cup env.stacks

(* Setting up ufw never cuts off the session that does it, wherever it     *)
(* stops (linux.sh:1490).  With firewalld it may: see the hazards.         *)
SshReachable == fw.tool = "ufw" /\ fw.on => fw.ssh

InstallSound == NoLockout /\ CredentialsKept /\ CompleteIsWhole /\ SshReachable

-----------------------------------------------------------------------------
(* The inductive invariant behind it, which ServerProofs proves from this  *)
(* assumption: what a run that has reached a stage has done.               *)
InstallerConstants == None \notin Int

Tools == {"ufw", "firewalld"}
Runs == [at : {"summary", "backup", "env", "path", "totp", "seed", "seed2", "up", "deny", "allow",
               "enable"},
         script : Flavours, asks : BOOLEAN, exported : BOOLEAN, start : BOOLEAN,
         stacks : SUBSET Stacks, tool : Tools \cup {None}]

TypeOK ==
    /\ runs \in Nat /\ written \in SUBSET Nat
    /\ run \in Runs \cup {NoRun}
    /\ prefs \in [password : Nat \cup {None}, totp : Nat \cup {None}]
    /\ stack \in [Services -> (0 .. runs) \cup {None}]
    /\ fw \in [tool : Tools \cup {None}, on : BOOLEAN, ssh : BOOLEAN]

RunOK ==
    /\ run.at # "none" => ended = "running"
    /\ run.at = "path" => run.asks
    /\ run.at = "totp" => ~run.asks
    /\ run.at \in {"deny", "allow", "enable"} => run.tool # None

(* Whoever runs the script has its credentials before the database does.   *)
Given ==
    run.asks \/ run.at \in {"seed", "seed2", "up", "deny", "allow", "enable"} => runs \in held

EnvOK ==
    /\ run.at = "env" => env.gen \in backups \cup lost \cup {None}
    /\ run.at \in {"path", "totp", "seed", "seed2", "up", "deny", "allow", "enable"} =>
         env.gen = runs /\ env.stacks = IF run.script = "init" THEN InitProfiles ELSE LinuxProfiles

SeedOK ==
    /\ run.at \in {"seed2", "up", "deny", "allow", "enable"} => prefs.password = runs
    /\ run.at \in {"up", "deny", "allow", "enable"} => prefs.totp = runs

StackOK ==
    /\ run.at \notin {"none", "deny", "allow", "enable"} => \A s \in Services : stack[s] # runs
    /\ run.at \in {"deny", "allow", "enable"} /\ run.start =>
         {s \in Services : stack[s] = env.gen} = {"core"} \cup env.stacks

FireOK ==
    /\ run.at \in {"allow", "enable"} /\ run.tool = "ufw" => fw.tool = "ufw"
    /\ run.at = "enable" /\ run.tool = "ufw" => fw.ssh

InstallInv == TypeOK /\ RunOK /\ Given /\ EnvOK /\ SeedOK /\ StackOK /\ FireOK /\ InstallSound
=============================================================================
