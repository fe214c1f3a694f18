------------------------------ MODULE Sessions ------------------------------
(***************************************************************************)
(* Web sessions of the GUI: the stateless token of app/src/lib/auth.ts     *)
(* (timestamp.version.hmac), the middleware that verifies and re-issues it *)
(* (middleware.ts), password login (pages/login.astro), passkey login      *)
(* (api/passkey/auth-verify.ts), logout (api/logout.ts) and the password   *)
(* change (lib/password-change.ts).                                        *)
(*                                                                         *)
(* One Node process serves every request; requests interleave only where   *)
(* a handler awaits.  A handler is therefore split at its awaits: what it  *)
(* read before the await sits in req[h] and is used after it.              *)
(***************************************************************************)
EXTENDS Integers, FiniteSets

CONSTANTS
    Handlers,     \* requests that can be in flight together
    Passwords,    \* passwords a user can type
    First,        \* the password of the installation
    Passkey,      \* how a session began, when not by a password
    LegacyHash,   \* the stored hash still has the old 100k iterations
    MaxAge,       \* SESSION_MAX_AGE_MS, in ticks
    MaxTime,      \* bound: the clock stops here
    MaxVersion,   \* bound: the session version stops here
    MaxTorn       \* bound: crashes between the two writes of a change

ASSUME PasswordAssumption == First \in Passwords /\ Passkey \notin Passwords
ASSUME LegacyAssumption == LegacyHash \in BOOLEAN
ASSUME AgeAssumption == MaxAge \in Nat
ASSUME BoundsAssumption == MaxVersion \in Nat /\ MaxTime \in Nat

VARIABLES
    now,
    version,   \* pref auth.session_version
    hash,      \* pref auth.password_hash: the password, and its iterations
    req,       \* Handlers -> the request's own state
    issued,    \* every token handed out, with where it came from
    torn

vars == <<now, version, hash, req, issued, torn>>

Hash == [pw : Passwords, legacy : BOOLEAN]

Steps == {"idle", "login", "rehash", "page", "change", "tail"}

(* A token is [ver, ts]; born and via are its history: the version under   *)
(* which its owner authenticated, and how.                                 *)
Token == [ver : Nat, ts : Nat, born : Nat, via : Passwords \cup {Passkey}]

Request == [at : Steps, ver : Nat, born : Nat, via : Passwords \cup {Passkey},
            seen : Hash, pw : Passwords]

Idle == [at |-> "idle", ver |-> 0, born |-> 0, via |-> Passkey,
         seen |-> [pw |-> First, legacy |-> FALSE], pw |-> First]

Init ==
    /\ now = 0
    /\ version = 0
    /\ hash = [pw |-> First, legacy |-> LegacyHash]
    /\ req = [h \in Handlers |-> Idle]
    /\ issued = {}
    /\ torn = 0

(* verifySessionToken, for a token whose HMAC is right.                    *)
VerifySessionToken(t, v) == t.ver = v /\ ~(now - t.ts > MaxAge)

(* generateSessionToken(v): stamped with the present time.                 *)
GenerateSessionToken(v, born, via) ==
    issued' = issued \cup {[ver |-> v, ts |-> now, born |-> born, via |-> via]}

-----------------------------------------------------------------------------
(* POST /login.  Version and hash are read together, before any await.     *)
LoginStart(h, pw) ==
    /\ req[h].at = "idle"
    /\ req' = [req EXCEPT ![h] = [Idle EXCEPT !.at = "login", !.ver = version,
                                              !.seen = hash, !.pw = pw]]
    /\ UNCHANGED <<now, version, hash, issued, torn>>

(* Wrong password, wrong code or no form: an error page, nothing stored.   *)
LoginRefused(h) ==
    /\ req[h].at = "login"
    /\ req' = [req EXCEPT ![h] = Idle]
    /\ UNCHANGED <<now, version, hash, issued, torn>>

(* The same login, had it read the version when it issues the token.       *)
LoginDoneFreshVersion(h) ==
    /\ req[h].at = "login"
    /\ req[h].pw = req[h].seen.pw
    /\ ~req[h].seen.legacy
    /\ GenerateSessionToken(version, version, req[h].pw)
    /\ req' = [req EXCEPT ![h] = Idle]
    /\ UNCHANGED <<now, version, hash, torn>>

LoginDone(h) ==
    /\ req[h].at = "login"
    /\ req[h].pw = req[h].seen.pw
    /\ ~req[h].seen.legacy
    /\ GenerateSessionToken(req[h].ver, req[h].ver, req[h].pw)
    /\ req' = [req EXCEPT ![h] = Idle]
    /\ UNCHANGED <<now, version, hash, torn>>

(* A legacy hash: the login awaits hashPassword before it stores it.       *)
LoginNeedsRehash(h) ==
    /\ req[h].at = "login"
    /\ req[h].pw = req[h].seen.pw
    /\ req[h].seen.legacy
    /\ req' = [req EXCEPT ![h].at = "rehash"]
    /\ UNCHANGED <<now, version, hash, issued, torn>>

LoginRehash(h) ==
    /\ req[h].at = "rehash"
    /\ hash' = [pw |-> req[h].pw, legacy |-> FALSE]
    /\ GenerateSessionToken(req[h].ver, req[h].ver, req[h].pw)
    /\ req' = [req EXCEPT ![h] = Idle]
    /\ UNCHANGED <<now, version, torn>>

(* POST /api/passkey/auth-verify: its last await precedes the version read *)
(* and the token, so for the session it is one step.                       *)
PasskeyLogin ==
    /\ GenerateSessionToken(version, version, Passkey)
    /\ UNCHANGED <<now, version, hash, req, torn>>

-----------------------------------------------------------------------------
(* The middleware admits a request with a token that verifies.             *)
PageStart(h, t) ==
    /\ req[h].at = "idle"
    /\ VerifySessionToken(t, version)
    /\ req' = [req EXCEPT ![h] = [Idle EXCEPT !.at = "page", !.ver = version,
                                              !.born = t.born, !.via = t.via]]
    /\ UNCHANGED <<now, version, hash, issued, torn>>

(* Rolling refresh without the second look at the version.                 *)
PageRollsForwardBlindly(h) ==
    /\ req[h].at \in {"page", "tail"}
    /\ GenerateSessionToken(version, req[h].born, req[h].via)
    /\ req' = [req EXCEPT ![h] = Idle]
    /\ UNCHANGED <<now, version, hash, torn>>

(* The page has run: its token is re-issued when the version did not move. *)
PageRollsForward(h) ==
    /\ req[h].at \in {"page", "tail"}
    /\ version = req[h].ver
    /\ GenerateSessionToken(req[h].ver, req[h].born, req[h].via)
    /\ req' = [req EXCEPT ![h] = Idle]
    /\ UNCHANGED <<now, version, hash, torn>>

(* No new cookie: the version moved, an event stream, or a response that   *)
(* sets its own cookie.                                                    *)
PageEnds(h) ==
    /\ req[h].at \in {"page", "tail"}
    /\ req' = [req EXCEPT ![h] = Idle]
    /\ UNCHANGED <<now, version, hash, issued, torn>>

(* A logout that counts the version the wrong way.                         *)
LogoutStepsBack(h) ==
    /\ req[h].at = "page"
    /\ version < MaxVersion
    /\ version' = version - 1
    /\ req' = [req EXCEPT ![h] = Idle]
    /\ UNCHANGED <<now, hash, issued, torn>>

(* The handler behind the middleware is POST /api/logout.                  *)
Logout(h) ==
    /\ req[h].at = "page"
    /\ version < MaxVersion
    /\ version' = version + 1
    /\ req' = [req EXCEPT ![h] = Idle]
    /\ UNCHANGED <<now, hash, issued, torn>>

(* resolvePasswordChange reads the stored hash, then awaits verifyPassword *)
(* and hashPassword.  pw is the new password; the current one was typed    *)
(* right, a wrong one ends in PageEnds.                                    *)
ResolvePasswordChange(h, pw) ==
    /\ req[h].at = "page"
    /\ req' = [req EXCEPT ![h].at = "change", ![h].seen = hash, ![h].pw = pw]
    /\ UNCHANGED <<now, version, hash, issued, torn>>

(* The new hash is stored and the version forgotten.                       *)
ApplyPasswordChangeNoBump(h) ==
    /\ req[h].at = "change"
    /\ hash' = [pw |-> req[h].pw, legacy |-> FALSE]
    /\ req' = [req EXCEPT ![h].at = "tail"]
    /\ UNCHANGED <<now, version, issued, torn>>

(* applyPasswordChange: two writes, no await between them.  What is left   *)
(* of the request is the middleware's tail.                                *)
ApplyPasswordChange(h) ==
    /\ req[h].at = "change"
    /\ version < MaxVersion
    /\ hash' = [pw |-> req[h].pw, legacy |-> FALSE]
    /\ version' = version + 1
    /\ req' = [req EXCEPT ![h].at = "tail"]
    /\ UNCHANGED <<now, issued, torn>>

(* The container stops between the two writes: each is a transaction of    *)
(* its own in prefs-db.ts.  Every request in flight is gone.               *)
CrashMidChange(h) ==
    /\ req[h].at = "change"
    /\ torn < MaxTorn
    /\ torn' = torn + 1
    /\ hash' = [pw |-> req[h].pw, legacy |-> FALSE]
    /\ req' = [g \in Handlers |-> Idle]
    /\ UNCHANGED <<now, version, issued>>

Crash ==
    /\ \E h \in Handlers : req[h].at # "idle"
    /\ req' = [g \in Handlers |-> Idle]
    /\ UNCHANGED <<now, version, hash, issued, torn>>

Tick ==
    /\ now < MaxTime
    /\ now' = now + 1
    /\ UNCHANGED <<version, hash, req, issued, torn>>

Next ==
    \/ \E h \in Handlers :
          \/ \E pw \in Passwords : LoginStart(h, pw) \/ ResolvePasswordChange(h, pw)
          \/ \E t \in issued : PageStart(h, t)
          \/ LoginRefused(h)
          \/ LoginDone(h)
          \/ LoginNeedsRehash(h)
          \/ LoginRehash(h)
          \/ PageRollsForward(h)
          \/ PageEnds(h)
          \/ Logout(h)
          \/ ApplyPasswordChange(h)
          \/ CrashMidChange(h)
    \/ PasskeyLogin
    \/ Crash
    \/ Tick

Spec == Init /\ [][Next]_vars

-----------------------------------------------------------------------------
(* Type invariant of the prefs, the requests in flight and the tokens.     *)
TypeOK ==
    /\ now \in Nat
    /\ version \in Nat
    /\ hash \in Hash
    /\ req \in [Handlers -> Request]
    /\ issued \subseteq Token
    /\ torn \in Nat

(* A session that verifies descends, through any number of rolling         *)
(* refreshes, from an authentication made under the present version: no    *)
(* request in flight across a logout or a password change carries its      *)
(* session over (middleware.ts, the re-read after next()).                 *)
NoResurrection ==
    \A t \in issued : VerifySessionToken(t, version) => t.born = version

(* Every session at the present version that began with a password began   *)
(* with the stored one: a login checked against the old hash while the     *)
(* password changed is dead on arrival.                                    *)
PasswordSessionsCurrent ==
    \A t \in issued : t.ver = version /\ t.via \in Passwords => t.via = hash.pw

(* Only a password change changes which password logs in; an upgrade of    *)
(* the stored hash does not.                                               *)
PasswordSticks ==
    [][hash'.pw # hash.pw =>
          \E h \in Handlers : req[h].at = "change" /\ hash'.pw = req[h].pw]_vars

(* A password change and a revocation go together: when the stored         *)
(* password moves, no session handed out before still verifies             *)
(* (password-change.ts, applyPasswordChange: "so every existing session    *)
(* token is invalidated").                                                 *)
ChangeRevokes ==
    [][hash'.pw # hash.pw =>
          \A t \in issued : ~(VerifySessionToken(t, version))']_vars

-----------------------------------------------------------------------------
(* The tokens as abstract sessions.                                        *)
Tokens == {[ver |-> t.ver, ts |-> t.ts] : t \in issued}

LiveTokens == {t \in Tokens : VerifySessionToken(t, version)}

Authority == INSTANCE SessionAuthority WITH
    Sessions <- [ver : 0..MaxVersion, ts : 0..MaxTime],
    live <- LiveTokens,
    dead <- Tokens \ LiveTokens

(* The token scheme implements the session service: whatever is retired,   *)
(* by version or by age, stays retired.                                    *)
ImplementsAuthority == Authority!Spec
=============================================================================
