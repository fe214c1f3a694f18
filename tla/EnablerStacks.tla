---------------------------- MODULE EnablerStacks ----------------------------
(***************************************************************************)
(* The optional stacks, bitcoin and indexer: the routes enable.ts and      *)
(* disable.ts queue a request each, and apply_request of enabler.sh        *)
(* rewrites .env one key at a time, runs compose and recreates web-gui,    *)
(* which reads its flags from .env only then.  apply_request runs under    *)
(* "if err=$(...)" with no set -e: an early "return 1" fails a request,    *)
(* and else its last command alone decides the answer.                     *)
(*                                                                         *)
(* The files of the queue are one slot for a request and one for its lock; *)
(* module FeatureQueue has their interleavings.                            *)
(***************************************************************************)
EXTENDS Integers, Sequences, FiniteSets

CONSTANTS
    Nets,        \* networks that can be asked for
    None,
    Passwords,   \* what rand_pass may return
    Failing,     \* the commands that may fail: "mkdir", "up", "stop", "web"
    MaxAsked,    \* bound: requests queued
    MaxCrashes   \* bound: crashes of the sidecar

Services == {"bitcoin", "indexer"}

VARIABLES
    env,      \* .env: the keys the requests write
    stack,    \* the settings its containers run with, None when stopped
    data,     \* the password the database was initialised with
    web,      \* the flags web-gui runs with
    queued,   \* service.req
    lock,     \* service.req.lock
    answer,   \* service.result
    job,      \* the request being applied, and which of its commands is next
    (* Observers *)
    torn,     \* services whose half-applied request expired
    asked, crashes

vars == <<env, stack, data, web, queued, lock, answer, job, torn, asked, crashes>>

(* What bitcoind is started with.                                          *)
Settings(network, pruned) ==
    [network |-> network, chain |-> network, prune |-> pruned, txindex |-> ~pruned]

NoJob == [service |-> None, request |-> None, at |-> 0]

Init ==
    /\ env = [flag |-> [s \in Services |-> FALSE], profiles |-> {},
              bitcoin |-> [network |-> None, chain |-> None, prune |-> FALSE,
                           txindex |-> TRUE],
              password |-> None]
    /\ stack = [s \in Services |-> None]
    /\ data = None
    /\ web = [s \in Services |-> FALSE]
    /\ queued = [s \in Services |-> None]
    /\ lock = [s \in Services |-> None]
    /\ answer = [s \in Services |-> None]
    /\ job = NoJob
    /\ torn = {}
    /\ asked = 0
    /\ crashes = 0

Requests == [action : {"enable"}, network : Nets, pruned : BOOLEAN]
            \cup [action : {"disable"}, network : {None}, pruned : {FALSE}]

(* POST enable and disable: refused when web-gui's flag says it is done    *)
(* already, or when a request is queued or being applied.                  *)
Ask(s, r) ==
    /\ asked < MaxAsked
    /\ web[s] = (r.action = "disable")
    /\ queued[s] = None /\ lock[s] = None
    /\ queued' = [queued EXCEPT ![s] = r]
    /\ asked' = asked + 1
    /\ UNCHANGED <<env, stack, data, web, lock, answer, job, torn, crashes>>

EnableBitcoin ==
    <<"flag", "network", "chain", "prune", "txindex", "profile", "mkdir", "up", "web">>
EnableIndexer == <<"password", "flag", "profile", "up", "web">>
Disable == <<"stop", "flag", "profile", "web">>

Commands(s, r) ==
    IF r.action = "disable" THEN Disable
    ELSE IF s = "bitcoin" THEN EnableBitcoin ELSE EnableIndexer

(* process_file: the request is claimed and its fields are checked.        *)
Claim(s) ==
    /\ job = NoJob /\ queued[s] # None
    /\ lock' = [lock EXCEPT ![s] = queued[s]]
    /\ queued' = [queued EXCEPT ![s] = None]
    /\ job' = [service |-> s, request |-> queued[s], at |-> 1]
    /\ torn' = torn \ {s}
    /\ UNCHANGED <<env, stack, data, web, answer, asked, crashes>>

(* A request older than a day is answered and put away.                    *)
Expire(s) ==
    /\ job = NoJob /\ queued[s] # None
    /\ queued' = [queued EXCEPT ![s] = None]
    /\ answer' = [answer EXCEPT ![s] = "failed"]
    /\ UNCHANGED <<env, stack, data, web, lock, job, torn, asked, crashes>>

Steps == Commands(job.service, job.request)
Busy(command) == job # NoJob /\ Steps[job.at] = command
Done == job' = [job EXCEPT !.at = @ + 1]

Wrote(e) ==
    /\ env' = e
    /\ Done
    /\ UNCHANGED <<stack, data, web, queued, lock, answer, torn, asked, crashes>>

(* set_env_key and delete_env_key, one key at a time.                      *)
WriteFlag ==
    /\ Busy("flag")
    /\ Wrote([env EXCEPT !.flag[job.service] = (job.request.action = "enable")])

WriteSetting ==
    \E k \in {"network", "chain", "prune", "txindex"} :
        /\ Busy(k)
        /\ Wrote([env EXCEPT !.bitcoin[k] =
                     Settings(job.request.network, job.request.pruned)[k]])

(* rand_pass, when there is none.                                          *)
WritePassword(p) ==
    /\ Busy("password")
    /\ Wrote([env EXCEPT !.password = IF @ = None THEN p ELSE @])

(* pf_add, as if an empty list needed no entry.                            *)
ProfilesSkippingEmpty ==
    IF env.profiles = {} THEN {}
    ELSE IF job.request.action = "enable" THEN env.profiles \cup {job.service}
    ELSE env.profiles \ {job.service}

(* pf_add and pf_remove.                                                   *)
Profiles ==
    IF job.request.action = "enable" THEN env.profiles \cup {job.service}
    ELSE env.profiles \ {job.service}

WriteProfiles == Busy("profile") /\ Wrote([env EXCEPT !.profiles = Profiles])

(* What a container of s started now would run with.                       *)
StartedWith(s) == IF s = "bitcoin" THEN env.bitcoin ELSE [password |-> env.password]

Initialised(s) == IF s = "indexer" /\ data = None THEN env.password ELSE data

(* The helper that makes the directories: when it fails, so does the       *)
(* request.                                                                *)
Mkdir(ok) ==
    /\ Busy("mkdir")
    /\ ok \/ "mkdir" \in Failing
    /\ IF ok THEN Done /\ UNCHANGED <<answer, lock>>
       ELSE /\ job' = NoJob
            /\ answer' = [answer EXCEPT ![job.service] = "failed"]
            /\ lock' = [lock EXCEPT ![job.service] = None]
    /\ UNCHANGED <<env, stack, data, web, queued, torn, asked, crashes>>

(* compose up and compose stop of the stack; what they return is not read. *)
ComposeStack(ok) ==
    \E c \in {"up", "stop"} :
        /\ Busy(c)
        /\ ok \/ c \in Failing
        /\ stack' = IF ok THEN [stack EXCEPT ![job.service] =
                                    IF c = "up" THEN StartedWith(job.service) ELSE None]
                    ELSE stack
        /\ data' = IF ok /\ c = "up" THEN Initialised(job.service) ELSE data
        /\ Done
        /\ UNCHANGED <<env, web, queued, lock, answer, torn, asked, crashes>>

(* compose up -d web-gui, the last command, decides the answer.            *)
ComposeWeb(ok) ==
    /\ Busy("web")
    /\ ok \/ "web" \in Failing
    /\ web' = IF ok THEN env.flag ELSE web
    /\ answer' = [answer EXCEPT ![job.service] = IF ok THEN "ok" ELSE "failed"]
    /\ lock' = [lock EXCEPT ![job.service] = None]
    /\ job' = NoJob
    /\ UNCHANGED <<env, stack, data, queued, torn, asked, crashes>>

(* The sidecar dies, and hands its lock back when it starts again.  The    *)
(* request may be too old by then.                                         *)
Crash ==
    /\ crashes < MaxCrashes /\ job # NoJob
    /\ crashes' = crashes + 1
    /\ job' = NoJob
    /\ torn' = torn \cup {job.service}
    /\ LET s == job.service IN
         /\ lock' = [lock EXCEPT ![s] = None]
         /\ queued' = [queued EXCEPT ![s] = lock[s]]
    /\ UNCHANGED <<env, stack, data, web, answer, asked>>

(* The operator runs compose up -d on the host, while no request is being  *)
(* applied or was interrupted.                                             *)
HostUp ==
    /\ job = NoJob /\ torn = {}
    /\ stack' = [s \in Services |->
                    IF s \in env.profiles THEN StartedWith(s) ELSE stack[s]]
    /\ data' = IF "indexer" \in env.profiles THEN Initialised("indexer") ELSE data
    /\ web' = env.flag
    /\ UNCHANGED <<env, queued, lock, answer, job, torn, asked, crashes>>

Next ==
    \/ \E s \in Services : \E r \in Requests :
         (s = "indexer" => r.network \in {None, CHOOSE n \in Nets : TRUE} /\ ~r.pruned)
         /\ Ask(s, r)
    \/ \E s \in Services : Claim(s) \/ Expire(s)
    \/ WriteFlag \/ WriteSetting \/ WriteProfiles
    \/ \E p \in Passwords : WritePassword(p)
    \/ \E ok \in BOOLEAN : Mkdir(ok) \/ ComposeStack(ok) \/ ComposeWeb(ok)
    \/ Crash \/ HostUp

Spec == Init /\ [][Next]_vars

-----------------------------------------------------------------------------
(* Properties.                                                             *)

(* While no request for a stack is being applied, compose run on the host  *)
(* starts the stack exactly when .env says it is enabled, unless a request *)
(* that had begun never ended (enabler.sh:151, pf_add and pf_remove keep   *)
(* COMPOSE_PROFILES in step with the flags).                               *)
HostUpMatches ==
    \A s \in Services \ (torn \cup {job.service}) :
        s \in env.profiles <=> env.flag[s]

(* bitcoind runs with the settings of one request, never with a mixture of *)
(* two: pruning an archive deletes it (enabler.sh:323 and 466).            *)
SettingsWhole ==
    stack["bitcoin"] # None =>
        \E n \in Nets, p \in BOOLEAN : stack["bitcoin"] = Settings(n, p)

(* The database is reached with the password it was initialised with,      *)
(* however often the indexer is enabled (enabler.sh:367).                  *)
PasswordKept == data # None => env.password = data

(* A request answered ok left web-gui running with the flag it wrote       *)
(* (enabler.sh:474).                                                       *)
OkMeansRecreated ==
    \A s \in Services \ (torn \cup {job.service}) :
        answer[s] = "ok" => web[s] = env.flag[s]

StacksSound == HostUpMatches /\ SettingsWhole /\ PasswordKept /\ OkMeansRecreated

-----------------------------------------------------------------------------
(* The inductive invariant behind it, which ServerProofs proves from this  *)
(* assumption: what a job has already written says what its request asked  *)
(* for.                                                                    *)
StacksConstants == None \notin Services

SettingNames == {"network", "chain", "prune", "txindex"}
BitcoinSettings == [network : Nets \cup {None}, chain : Nets \cup {None},
                    prune : BOOLEAN, txindex : BOOLEAN]

TypeOK ==
    /\ env \in [flag : [Services -> BOOLEAN], profiles : SUBSET Services,
                bitcoin : BitcoinSettings, password : Passwords \cup {None}]
    /\ web \in [Services -> BOOLEAN]
    /\ queued \in [Services -> Requests \cup {None}]
    /\ lock \in [Services -> Requests \cup {None}]
    /\ answer \in [Services -> {None, "ok", "failed"}]
    /\ DOMAIN stack = Services

JobOK ==
    job # NoJob => /\ job.service \in Services /\ job.request \in Requests
                   /\ job.at \in 1 .. Len(Steps)
                   /\ job = [service |-> job.service, request |-> job.request, at |-> job.at]

Ahead(command) == \E j \in job.at .. Len(Steps) : Steps[j] = command
Enabling == job # NoJob /\ job.request.action = "enable"

JobWrites ==
    job # NoJob =>
        /\ Ahead("flag") \/ (env.flag[job.service] <=> Enabling)
        /\ Ahead("profile") \/ (job.service \in env.profiles <=> Enabling)
        /\ Enabling /\ job.service = "bitcoin" =>
             \A k \in SettingNames :
                 Ahead(k) \/ env.bitcoin[k] = Settings(job.request.network, job.request.pruned)[k]

ProfileWhole ==
    "bitcoin" \in env.profiles /\ "bitcoin" \notin torn \cup {job.service} =>
        \E n \in Nets, p \in BOOLEAN : env.bitcoin = Settings(n, p)

StacksInv == TypeOK /\ JobOK /\ JobWrites /\ ProfileWhole /\ StacksSound
=============================================================================
