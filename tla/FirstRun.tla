------------------------------ MODULE FirstRun ------------------------------
(***************************************************************************)
(* The first password and authenticator of a fresh install (login.astro):  *)
(* a visitor stages a password and a secret, and confirms a first code.    *)
(* The page is public until both exist.  A request reads the prefs, awaits *)
(* its form, and a staging one awaits the hash of its password as well.    *)
(*                                                                         *)
(* Stagings are numbered; the password, the secret and the cookie of a     *)
(* staging go by its number, 0 is an absent row.                           *)
(***************************************************************************)
EXTENDS Integers, FiniteSets

CONSTANTS
    Visitors, None,
    Ttl,                  \* BOOTSTRAP_TTL_MS
    MaxStagings, MaxTime, MaxCrashes \* bounds

VARIABLES
    hash, secret,                 \* auth.password_hash, auth.totp_secret
    pHash, pSecret, token, at,    \* the pending rows; at is None or a time
    req,     \* visitor -> None, or its POST: [kind, token, phase]
    cookie,  \* visitor -> auth_boot
    shown,   \* visitor -> the secrets it has been shown
    who,     \* history: staging -> its visitor
    confirmedBy, \* history: the visitor whose code was confirmed
    torn,    \* history: a crash tore a staging that replaced another
    now, crashes

pending == <<pHash, pSecret, token, at>>
vars == <<hash, secret, pending, req, cookie, shown, who, confirmedBy, torn, now, crashes>>

Stagings == 1..MaxStagings
Unconfigured == hash = 0 \/ secret = 0

Init ==
    /\ hash = 0 /\ secret = 0
    /\ pHash = 0 /\ pSecret = 0 /\ token = 0 /\ at = None
    /\ req = [v \in Visitors |-> None]
    /\ cookie = [v \in Visitors |-> 0]
    /\ shown = [v \in Visitors |-> {}]
    /\ who = [n \in Stagings |-> None]
    /\ confirmedBy = None /\ torn = FALSE
    /\ now = 0 /\ crashes = 0

Dropped == pHash' = 0 /\ pSecret' = 0 /\ token' = 0 /\ at' = None

(* An absent time is 1970.                                                 *)
Stale == IF at = None THEN TRUE ELSE now - at > Ttl

DropStale == IF Stale THEN Dropped ELSE UNCHANGED pending

(* Every visitor while a setup is pending.                                 *)
StagedForAnyone(v) == token' # 0

StagedForViewer(v) == token' # 0 /\ cookie[v] = token'

-----------------------------------------------------------------------------
(* GET /login: the pending secret is drawn for the browser that staged it. *)
Look(v) ==
    /\ Unconfigured /\ req[v] = None
    /\ DropStale
    /\ shown' = IF StagedForViewer(v) THEN [shown EXCEPT ![v] = @ \cup {pSecret'}] ELSE shown
    /\ UNCHANGED <<hash, secret, req, cookie, who, confirmedBy, torn, now, crashes>>

(* POST /login up to the await of its form.                                *)
Post(v, kind) ==
    /\ Unconfigured /\ req[v] = None
    /\ DropStale
    /\ req' = [req EXCEPT ![v] = [kind |-> kind, token |-> token', phase |-> "form"]]
    /\ UNCHANGED <<hash, secret, cookie, shown, who, confirmedBy, torn, now, crashes>>

At(v, phase) == req[v] # None /\ req[v].phase = phase
Ends(v) == req' = [req EXCEPT ![v] = None]

HoldsSetup(v) == req[v].token # 0 /\ cookie[v] = req[v].token

StartOver(v) ==
    /\ At(v, "form") /\ req[v].kind = "restart"
    /\ Ends(v)
    /\ IF HoldsSetup(v)
       THEN Dropped /\ cookie' = [cookie EXCEPT ![v] = 0]
       ELSE UNCHANGED <<pending, cookie>>
    /\ UNCHANGED <<hash, secret, shown, who, confirmedBy, torn, now, crashes>>

(* Step 1: with a password too short, or past the limiter of setups, it    *)
(* ends here.                                                              *)
StartHash(v) ==
    /\ At(v, "form") /\ req[v].kind = "stage"
    /\ \/ pHash = 0 /\ req' = [req EXCEPT ![v].phase = "hashing"]
       \/ Ends(v)
    /\ UNCHANGED <<hash, secret, pending, cookie, shown, who, confirmedBy, torn, now, crashes>>

FreeStagings == {n \in Stagings : who[n] = None}
NextStaging == CHOOSE n \in FreeStagings : \A k \in FreeStagings : n <= k

(* The hash is there: four rows, no await between them.                    *)
Stage(v) ==
    /\ At(v, "hashing") /\ FreeStagings # {}
    /\ LET n == NextStaging IN
       /\ pHash' = n /\ pSecret' = n /\ token' = n
       /\ who' = [who EXCEPT ![n] = v]
       /\ cookie' = [cookie EXCEPT ![v] = n]
    /\ at' = now
    /\ Ends(v)
    /\ UNCHANGED <<hash, secret, shown, confirmedBy, torn, now, crashes>>

(* The code is of a secret the visitor was shown.                          *)
CodeFits(v) == pSecret # 0 /\ pSecret \in shown[v]

(* Step 2: the rows are read again after the form, the cookie's token is   *)
(* the one of the start.                                                   *)
Confirm(v) ==
    /\ At(v, "form") /\ req[v].kind = "confirm"
    /\ Ends(v)
    /\ IF pHash # 0 /\ HoldsSetup(v) /\ CodeFits(v)
       THEN /\ hash' = pHash /\ secret' = pSecret
            /\ confirmedBy' = v
            /\ Dropped
            /\ cookie' = [cookie EXCEPT ![v] = 0]
       ELSE UNCHANGED <<hash, secret, confirmedBy, pending, cookie>>
    /\ UNCHANGED <<shown, who, torn, now, crashes>>

-----------------------------------------------------------------------------
Crash == crashes < MaxCrashes /\ crashes' = crashes + 1 /\ req' = [u \in Visitors |-> None]

(* The process stops between the rows of a staging ...                     *)
CrashMidStage(v) ==
    /\ At(v, "hashing") /\ FreeStagings # {} /\ Crash
    /\ LET n == NextStaging IN
       /\ who' = [who EXCEPT ![n] = v]
       /\ pHash' = n
       /\ \/ UNCHANGED <<pSecret, token>>
          \/ pSecret' = n /\ UNCHANGED token
          \/ pSecret' = n /\ token' = n
    /\ torn' = (torn \/ pHash # 0)
    /\ UNCHANGED <<hash, secret, at, cookie, shown, confirmedBy, now>>

(* ... or after the first row of a confirmation.                           *)
CrashMidConfirm(v) ==
    /\ At(v, "form") /\ req[v].kind = "confirm" /\ Crash
    /\ pHash # 0 /\ HoldsSetup(v) /\ CodeFits(v)
    /\ hash' = pHash
    /\ UNCHANGED <<secret, pending, cookie, shown, who, confirmedBy, torn, now>>

Tick ==
    /\ now < MaxTime /\ now' = now + 1
    /\ UNCHANGED <<hash, secret, pending, req, cookie, shown, who, confirmedBy, torn, crashes>>

Next ==
    \/ \E v \in Visitors :
          \/ Look(v)
          \/ \E kind \in {"stage", "confirm", "restart"} : Post(v, kind)
          \/ StartOver(v) \/ StartHash(v) \/ Stage(v) \/ Confirm(v)
          \/ CrashMidStage(v) \/ CrashMidConfirm(v)
    \/ Tick

Spec == Init /\ [][Next]_vars

-----------------------------------------------------------------------------
(* The password and the authenticator of the install were staged together, *)
(* by the visitor who confirmed them, and no other visitor was ever shown  *)
(* that secret ("a third party on the network can neither complete someone *)
(* else's half-finished setup nor stage credentials for the owner to       *)
(* confirm", login.astro) - whatever two visitors and a restart do         *)
(* meanwhile, unless the restart tore a staging that replaced another's.   *)
OneOwner ==
    (~Unconfigured /\ ~torn) =>
        /\ hash = secret
        /\ who[hash] = confirmedBy
        /\ \A v \in Visitors : secret \in shown[v] => v = confirmedBy

-----------------------------------------------------------------------------
(* The inductive invariant behind OneOwner, which ServerProofs proves      *)
(* from these assumptions.                                                 *)
FirstRunConstants == None \notin Visitors /\ MaxStagings \in Nat

StagingOrNone == 0..MaxStagings
Posts ==
    [kind : {"stage", "confirm", "restart"}, token : StagingOrNone,
     phase : {"form", "hashing"}]

TypeOK ==
    /\ {hash, secret, pHash, pSecret, token} \subseteq StagingOrNone
    /\ req \in [Visitors -> Posts \cup {None}]
    /\ cookie \in [Visitors -> StagingOrNone]
    /\ shown \in [Visitors -> SUBSET StagingOrNone]
    /\ who \in [Stagings -> Visitors \cup {None}]
    /\ confirmedBy \in Visitors \cup {None}
    /\ torn \in BOOLEAN

(* A cookie is of a staging by its holder.                                 *)
CookiesOwn == \A v \in Visitors : cookie[v] # 0 => who[cookie[v]] = v

(* The rows pending belong together, as far as they were written.          *)
RowsTogether == (pSecret # 0 => pHash = pSecret) /\ (token # 0 => pSecret = token)

(* A visitor is shown secrets it staged.                                   *)
ShownOwn == \A v \in Visitors : \A n \in shown[v] : n # 0 /\ who[n] = v

(* Once the install is configured nobody can confirm what is pending.      *)
Closed == ~Unconfigured => \A v \in Visitors : pSecret \notin shown[v]

Owned == ~Unconfigured => hash = secret /\ confirmedBy # None /\ who[hash] = confirmedBy

FirstRunInv ==
    /\ TypeOK
    /\ CookiesOwn
    /\ secret # 0 => hash # 0
    /\ ~torn => RowsTogether /\ ShownOwn /\ Closed /\ Owned
=============================================================================
