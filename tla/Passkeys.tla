------------------------------ MODULE Passkeys ------------------------------
(***************************************************************************)
(* Passkeys (lib/passkey.ts and api/passkey): challenges in memory, the    *)
(* credential list in one row of the prefs.  A challenge is minted for a   *)
(* purpose, bound to the browser by a cookie and consumed by the first     *)
(* request that presents it; verifying a response is an await.             *)
(***************************************************************************)
EXTENDS Integers, FiniteSets

CONSTANTS
    Browsers, Keys, None,
    Ttl,                                 \* CHALLENGE_TTL_MS
    MaxTokens, MaxTime, MaxRestarts      \* bounds

VARIABLES
    pending,   \* pendingChallenges: token -> None or [purpose, expiresAt]
    cookie,    \* browser -> pk_chal, 0 when there is none
    creds,     \* auth.passkeys: a set of key ids
    req,       \* browser -> None, or its request awaiting: [kind, key, read]
    minted,    \* tokens minted
    stepUps,   \* history: one-time codes burnt for an enrolment
    enrolled,  \* history: enrolments
    kept,      \* history: keys enrolled and not removed since
    raced,     \* history: a list was written back over one that had changed
    now, restarts

vars == <<pending, cookie, creds, req, minted, stepUps, enrolled, kept, raced,
          now, restarts>>

Tokens == 1..MaxTokens

Init ==
    /\ pending = [t \in Tokens |-> None]
    /\ cookie = [b \in Browsers |-> 0]
    /\ creds = {} /\ kept = {} /\ raced = FALSE
    /\ req = [b \in Browsers |-> None]
    /\ minted = 0 /\ stepUps = 0 /\ enrolled = 0
    /\ now = 0 /\ restarts = 0

(* createChallenge: expired entries go, and the browser's cookie is new.   *)
CreateChallenge(b, purpose) ==
    /\ minted < MaxTokens
    /\ minted' = minted + 1
    /\ pending' = [t \in Tokens |->
            IF t = minted + 1 THEN [purpose |-> purpose, expiresAt |-> now + Ttl]
            ELSE IF pending[t] = None THEN None
            ELSE IF now >= pending[t].expiresAt THEN None ELSE pending[t]]
    /\ cookie' = [cookie EXCEPT ![b] = minted + 1]

Redeemable(b, purpose) ==
    LET t == cookie[b] IN
    IF t = 0 THEN FALSE ELSE
    IF pending[t] = None THEN FALSE ELSE
    /\ now < pending[t].expiresAt
    /\ pending[t].purpose = purpose

Consumed(b) ==
    IF cookie[b] = 0 THEN pending ELSE [pending EXCEPT ![cookie[b]] = None]

-----------------------------------------------------------------------------
(* register-options: a one-time code is burnt, then a challenge minted.    *)
RegisterOptions(b) ==
    /\ req[b] = None
    /\ CreateChallenge(b, "registration")
    /\ stepUps' = stepUps + 1
    /\ UNCHANGED <<creds, req, enrolled, kept, raced, now, restarts>>

(* auth-options is public.                                                 *)
AuthOptions(b) ==
    /\ req[b] = None
    /\ CreateChallenge(b, "authentication")
    /\ UNCHANGED <<creds, req, stepUps, enrolled, kept, raced, now, restarts>>

(* register-verify and auth-verify consume first; the latter then reads    *)
(* the whole list, which must hold the key.                                *)
Verify(b, kind, key) ==
    /\ req[b] = None /\ cookie[b] # 0
    /\ pending' = Consumed(b)
    /\ IF Redeemable(b, kind) /\ (kind = "authentication" => key \in creds)
       THEN req' = [req EXCEPT ![b] = [kind |-> kind, key |-> key, read |-> creds]]
       ELSE UNCHANGED req
    /\ UNCHANGED <<cookie, creds, minted, stepUps, enrolled, kept, raced, now, restarts>>

(* The response does not verify.                                           *)
Fails(b) ==
    /\ req[b] # None
    /\ req' = [req EXCEPT ![b] = None]
    /\ UNCHANGED <<pending, cookie, creds, minted, stepUps, enrolled, kept, raced, now, restarts>>

At(b, kind) == req[b] # None /\ req[b].kind = kind

(* The list as it was before the response was verified.                    *)
ListReadEarly(b) == req[b].read

(* register-verify reads the list after its await.                         *)
ListRead(b) == creds

Registered(b) ==
    /\ At(b, "registration")
    /\ creds' = ListRead(b) \cup {req[b].key}
    /\ enrolled' = enrolled + 1
    /\ kept' = kept \cup {req[b].key}
    /\ req' = [req EXCEPT ![b] = None]
    /\ UNCHANGED <<pending, cookie, minted, stepUps, raced, now, restarts>>

(* auth-verify writes back the list it read, with the key's new counter,   *)
(* and the browser is signed in.                                           *)
SignedIn(b) ==
    /\ At(b, "authentication")
    /\ creds' = req[b].read
    /\ raced' = (raced \/ req[b].read # creds)
    /\ req' = [req EXCEPT ![b] = None]
    /\ UNCHANGED <<pending, cookie, minted, stepUps, enrolled, kept, now, restarts>>

(* remove_passkey on the settings page.                                    *)
Remove(key) ==
    /\ key \in creds
    /\ creds' = creds \ {key}
    /\ kept' = kept \ {key}
    /\ UNCHANGED <<pending, cookie, req, minted, stepUps, enrolled, raced, now, restarts>>

(* The challenges are memory, the list is not.                             *)
Restart ==
    /\ restarts < MaxRestarts /\ restarts' = restarts + 1
    /\ pending' = [t \in Tokens |-> None]
    /\ req' = [b \in Browsers |-> None]
    /\ UNCHANGED <<cookie, creds, minted, stepUps, enrolled, kept, raced, now>>

Tick ==
    /\ now < MaxTime /\ now' = now + 1
    /\ UNCHANGED <<pending, cookie, creds, req, minted, stepUps, enrolled, kept, raced, restarts>>

Next ==
    \/ \E b \in Browsers :
          \/ RegisterOptions(b) \/ AuthOptions(b)
          \/ \E k \in Keys : Verify(b, "registration", k) \/ Verify(b, "authentication", k)
          \/ Fails(b) \/ Registered(b) \/ SignedIn(b)
    \/ \E k \in Keys : Remove(k)
    \/ Restart \/ Tick

Spec == Init /\ [][Next]_vars

-----------------------------------------------------------------------------
(* Every enrolment has its own burnt code: a public sign-in challenge, an  *)
(* old one or one used before enrols nothing ("it can only run with a      *)
(* challenge tagged purpose='registration'", register-verify.ts).          *)
EnrolmentsPaid == enrolled <= stepUps

(* The list holds the keys that were enrolled and not removed, however the *)
(* requests overlap - unless a sign-in wrote the list back over a change   *)
(* made while its response was verified, which auth-verify.ts does.        *)
ListIsCurrent == ~raced => creds = kept

-----------------------------------------------------------------------------
(* The inductive invariant behind EnrolmentsPaid, which ServerProofs       *)
(* proves from these assumptions.                                          *)
PasskeysConstants == IsFiniteSet(Browsers) /\ {Ttl, MaxTokens} \subseteq Nat

Purposes == {"registration", "authentication"}

TypeOK ==
    /\ pending \in [Tokens -> [purpose : Purposes, expiresAt : Nat] \cup {None}]
    /\ cookie \in [Browsers -> 0..MaxTokens]
    /\ creds \subseteq Keys /\ kept \subseteq Keys /\ raced \in BOOLEAN
    /\ req \in [Browsers -> [kind : Purposes, key : Keys, read : SUBSET Keys] \cup {None}]
    /\ {minted, stepUps, enrolled, now, restarts} \subseteq Nat

(* A code paid for each challenge outstanding, each response that is being *)
(* verified and each enrolment.                                            *)
Outstanding == {t \in Tokens : pending[t] # None /\ pending[t].purpose = "registration"}
Verifying == {b \in Browsers : At(b, "registration")}
CodesCover == Cardinality(Outstanding) + Cardinality(Verifying) + enrolled <= stepUps

PasskeysInv == TypeOK /\ CodesCover /\ ListIsCurrent
=============================================================================
