------------------------------- MODULE StepUp -------------------------------
(***************************************************************************)
(* The TOTP verification that every sensitive operation of the web GUI     *)
(* goes through: verifyAndBurnTotpCode of app/src/lib/step-up.ts over      *)
(* verifyTOTP of app/src/lib/auth.ts.  One process keeps two maps in       *)
(* memory: the burnt codes and the failed attempts.  Web login, the        *)
(* step-up gate, the settings page and the Telegram bot share them.  The   *)
(* function is synchronous, so one call is one step.                       *)
(*                                                                         *)
(* Time is counted in ticks; a TOTP period (30 s) is PeriodTicks of them.  *)
(* A code is what CodeOf (HOTP) gives for a secret and a period; any other *)
(* member of Codes is a wrong code.  The n-th secret of the installation   *)
(* is the number n: generateTotpSecret draws 160 random bits, so a secret  *)
(* never returns.                                                          *)
(***************************************************************************)
EXTENDS Integers, FiniteSets

CONSTANTS
    Keys,          \* throttle keys: client addresses and "telegram:<chat>"
    Codes,         \* what a caller can type
    CodeOf(_, _),  \* CodeOf(secret, period): hotpCode, external arithmetic
    PeriodTicks,   \* ticks in one TOTP period
    FailureWindow, \* TOTP_FAILURE_WINDOW_MS, in ticks
    MaxFailures,   \* MAX_TOTP_FAILURES
    MaxTime,       \* bound: the clock stops here
    MaxResets,     \* bound: 2FA resets in a behaviour
    MaxRestarts,   \* bound: restarts of the web process in a behaviour
    MaxAttempts,   \* bound: wrong codes tried in a behaviour
    MaxAccepts     \* bound: codes accepted by one process

ASSUME PeriodAssumption == PeriodTicks \in Nat \ {0}
ASSUME ThrottleAssumption == FailureWindow \in Nat \ {0} /\ MaxFailures \in Nat \ {0}

VARIABLES
    now,           \* Date.now()
    secret,        \* the pref auth.totp_secret
    oldest,        \* the secret when the process started
    usedCodes,     \* Map: <<code, period>> -> expiry
    totpFailures,  \* Map: key -> [count, firstAt]
    (* Observers: what has been answered since the process started *)
    accepted,      \* one record per accepted code
    acceptCount,   \* how many have been accepted
    failures,      \* key -> the guesses checked and found wrong since its
                   \* last success, those of the last window: [n, at]
    guesses,       \* the same, those before its last success included
    passes,        \* key -> the codes accepted from it within the last window
    restarts, attempts

vars == <<now, secret, oldest, usedCodes, totpFailures, accepted, acceptCount,
          failures, guesses, passes, restarts, attempts>>

Period(t) == t \div PeriodTicks

(* pruneUsedCodes, pruneTotpFailures: both run at the top of every call. *)
PrunedCodes ==
    [u \in {v \in DOMAIN usedCodes : ~(now >= usedCodes[v])} |-> usedCodes[u]]

PrunedFailures ==
    [k \in {l \in DOMAIN totpFailures :
              ~(now >= totpFailures[l].firstAt + FailureWindow)} |-> totpFailures[k]]

(* Definitions named after the slip they make are the mutated forms that   *)
(* the runs show to be caught; nothing uses them.                          *)
IsTotpThrottledInverted(fails, k) ==
    /\ k \in DOMAIN fails
    /\ fails[k].count >= MaxFailures
    /\ now >= fails[k].firstAt + FailureWindow

IsTotpThrottled(fails, k) ==
    /\ k \in DOMAIN fails
    /\ fails[k].count >= MaxFailures
    /\ now < fails[k].firstAt + FailureWindow

(* The three keys a call looks up, and burns when it accepts the code. *)
CandidateKeysCurrentOnly(c) == {<<c, Period(now)>>}

CandidateKeys(c) == {<<c, Period(now) + d>> : d \in {-1, 0, 1}}

(* Every caller passes the secret it has just read, except a login: it     *)
(* reads the pref before it awaits the form, and may hold one that a reset *)
(* has replaced since.                                                     *)
Held == oldest..secret

(* verifyTOTP: T-1, T and T+1, for clock skew. *)
VerifyTOTP(c, s) == \E d \in {-1, 0, 1} : c = CodeOf(s, Period(now) + d)

BurnExpiryCurrentPeriod == (Period(now) + 1) * PeriodTicks

BurnExpiry == (Period(now) + 2) * PeriodTicks

Init ==
    /\ now = 0
    /\ secret = 0
    /\ oldest = 0
    /\ usedCodes = [u \in {} |-> 0]
    /\ totpFailures = [k \in {} |-> [count |-> 0, firstAt |-> 0]]
    /\ accepted = {}
    /\ acceptCount = 0
    /\ failures = [k \in Keys |-> {}]
    /\ guesses = [k \in Keys |-> {}]
    /\ passes = [k \in Keys |-> {}]
    /\ restarts = 0
    /\ attempts = 0

(***************************************************************************)
(* verifyAndBurnTotpCode, one action for each of its four answers.         *)
(***************************************************************************)
AnswerLocked(k, c) ==
    /\ IsTotpThrottled(PrunedFailures, k)
    /\ usedCodes' = PrunedCodes
    /\ totpFailures' = PrunedFailures
    /\ UNCHANGED <<now, secret, oldest, accepted, acceptCount, failures, guesses,
                   passes, restarts, attempts>>

AnswerUsed(k, c) ==
    /\ ~IsTotpThrottled(PrunedFailures, k)
    /\ CandidateKeys(c) \cap DOMAIN PrunedCodes # {}
    /\ usedCodes' = PrunedCodes
    /\ totpFailures' = PrunedFailures
    /\ UNCHANGED <<now, secret, oldest, accepted, acceptCount, failures, guesses,
                   passes, restarts, attempts>>

(* A slip a refactoring could make: every failure restarts the window. *)
WithFailureSliding(fails, k) ==
    [l \in DOMAIN fails \cup {k} |->
        IF l # k THEN fails[l]
        ELSE [count |-> IF k \in DOMAIN fails THEN fails[k].count + 1 ELSE 1,
              firstAt |-> now]]

WithFailure(fails, k) ==
    IF k \in DOMAIN fails /\ now < fails[k].firstAt + FailureWindow
    THEN [fails EXCEPT ![k].count = @ + 1]
    ELSE [l \in DOMAIN fails \cup {k} |->
            IF l = k THEN [count |-> 1, firstAt |-> now] ELSE fails[l]]

AnswerInvalid(k, c, s) ==
    /\ attempts < MaxAttempts
    /\ ~IsTotpThrottled(PrunedFailures, k)
    /\ CandidateKeys(c) \cap DOMAIN PrunedCodes = {}
    /\ ~VerifyTOTP(c, s)
    /\ usedCodes' = PrunedCodes
    /\ totpFailures' = WithFailure(PrunedFailures, k)
    /\ failures' = [failures EXCEPT ![k] = @ \cup {[n |-> attempts, at |-> now]}]
    /\ guesses' = [guesses EXCEPT ![k] = @ \cup {[n |-> attempts, at |-> now]}]
    /\ attempts' = attempts + 1
    /\ UNCHANGED <<now, secret, oldest, accepted, acceptCount, passes, restarts>>

Burn(k, c, s) ==
    /\ acceptCount < MaxAccepts
    /\ ~IsTotpThrottled(PrunedFailures, k)
    /\ CandidateKeys(c) \cap DOMAIN PrunedCodes = {}
    /\ VerifyTOTP(c, s)
    /\ usedCodes' = [u \in DOMAIN PrunedCodes \cup CandidateKeys(c) |->
                        IF u \in CandidateKeys(c) THEN BurnExpiry ELSE PrunedCodes[u]]
    /\ totpFailures' = [l \in DOMAIN PrunedFailures \ {k} |-> PrunedFailures[l]]
    /\ accepted' = accepted \cup
          {[n |-> acceptCount, code |-> c, secret |-> s, period |-> Period(now)]}
    /\ acceptCount' = acceptCount + 1
    /\ failures' = [failures EXCEPT ![k] = {}]
    /\ passes' = [passes EXCEPT ![k] = @ \cup {[n |-> acceptCount, at |-> now]}]
    /\ UNCHANGED guesses

(* A sensitive operation whose code was good: a login, a payment, ... *)
AnswerOk(k, c, s) ==
    /\ Burn(k, c, s)
    /\ UNCHANGED <<now, secret, oldest, restarts, attempts>>

(* reset-2fa: the same check, then a new secret.  Nothing is cleared.   *)
Reset2fa(k, c) ==
    /\ secret < MaxResets
    /\ Burn(k, c, secret)
    /\ secret' = secret + 1
    /\ UNCHANGED <<now, oldest, restarts, attempts>>

(* The container is recreated (an upgrade, a feature toggle, a crash): the *)
(* prefs stay, the two maps are module state and are gone.                 *)
Restart ==
    /\ restarts < MaxRestarts
    /\ restarts' = restarts + 1
    /\ oldest' = secret
    /\ usedCodes' = [u \in {} |-> 0]
    /\ totpFailures' = [k \in {} |-> [count |-> 0, firstAt |-> 0]]
    /\ accepted' = {}
    /\ acceptCount' = 0
    /\ failures' = [k \in Keys |-> {}]
    /\ guesses' = [k \in Keys |-> {}]
    /\ passes' = [k \in Keys |-> {}]
    /\ UNCHANGED <<now, secret, attempts>>

(* The members of a history that are still within the window at time t. *)
Recent(H, t) == {g \in H : t - g.at < FailureWindow}

Tick ==
    /\ now < MaxTime
    /\ now' = now + 1
    /\ failures' = [k \in Keys |-> Recent(failures[k], now + 1)]
    /\ guesses' = [k \in Keys |-> Recent(guesses[k], now + 1)]
    /\ passes' = [k \in Keys |-> Recent(passes[k], now + 1)]
    /\ UNCHANGED <<secret, oldest, usedCodes, totpFailures, accepted, acceptCount,
                   restarts, attempts>>

Next ==
    \/ \E k \in Keys, c \in Codes :
          \/ AnswerLocked(k, c)
          \/ AnswerUsed(k, c)
          \/ \E s \in Held : AnswerInvalid(k, c, s) \/ AnswerOk(k, c, s)
          \/ Reset2fa(k, c)
    \/ Restart
    \/ Tick

Spec == Init /\ [][Next]_vars

-----------------------------------------------------------------------------
UsedKey == Codes \X Int

(* Type invariant: the shapes of the two maps of step-up.ts.              *)
TypeOK ==
    /\ now \in Nat
    /\ secret \in Nat
    /\ oldest \in Nat
    /\ DOMAIN usedCodes \subseteq UsedKey
    /\ usedCodes \in [DOMAIN usedCodes -> Nat]
    /\ DOMAIN totpFailures \subseteq Keys
    /\ totpFailures \in [DOMAIN totpFailures -> [count : Nat \ {0}, firstAt : Nat]]
    /\ acceptCount \in Nat
    /\ restarts \in Nat
    /\ attempts \in Nat
    /\ accepted \subseteq [n : Nat, code : Codes, secret : Nat, period : Nat]

(* Two acceptances of one code by one process are at least two periods     *)
(* apart, whatever the channels and secrets: what the burn in              *)
(* verifyAndBurnTotpCode guarantees for any CodeOf.                        *)
BurnGap ==
    \A a, b \in accepted :
        a.code = b.code /\ a.n < b.n => b.period >= a.period + 2

(* A code shown for period q.  Only an authenticator whose clock runs      *)
(* ahead of the server's presents it in period q - 1.                      *)
Early(a) == a.code = CodeOf(a.secret, a.period + 1)

(* Single use: a code that was not presented early is accepted once        *)
(* (step-up.ts: "accept each code at most once per time window").          *)
SingleUseUnlessEarly ==
    \A a, b \in accepted :
        a.code = b.code /\ a.n < b.n => Early(a)

(* A key is locked out only by its own guesses: since its last success     *)
(* MaxFailures of them were checked and wrong within the last window, so   *)
(* burnt codes, other keys and calls made while locked never extend a      *)
(* lockout.                                                                *)
LockoutEarned ==
    \A k \in Keys :
        IsTotpThrottled(totpFailures, k) => Cardinality(failures[k]) >= MaxFailures

(* The wrong guesses one key gets out of any span as long as the window,   *)
(* whatever it succeeded at meanwhile: the fixed window lets a burst at    *)
(* its end meet a burst of the next one, 2 * MaxFailures - 1 in all, and   *)
(* every code that was accepted, which clears the entry, buys one guess    *)
(* less than the limit more.                                               *)
GuessBudget ==
    \A k \in Keys :
        Cardinality(guesses[k]) <=
            (Cardinality(passes[k]) + 2) * (MaxFailures - 1) + 1

(* Every failure entry counts at most the limit: the check precedes every  *)
(* count in the same synchronous call, so no burst of concurrent requests  *)
(* can overshoot it.                                                       *)
FailureCap ==
    \A k \in DOMAIN totpFailures : totpFailures[k].count <= MaxFailures
=============================================================================
