----------------------------- MODULE Throttles -----------------------------
(***************************************************************************)
(* The limiters of guesses: of sign-ins (auth.ts), and of password changes *)
(* and wallet unlocks (password-change.ts).  Each tests the entry of an    *)
(* address, lets the guess be judged in one or more awaits, and records a  *)
(* wrong one afterwards.  They keep separate entries, so a behaviour       *)
(* follows one of them, for one address.                                   *)
(***************************************************************************)
EXTENDS Integers, FiniteSets

CONSTANTS
    Requests,   \* requests of the address that overlap
    None,
    Limit,      \* LOGIN_MAX_ATTEMPTS, MAX_PASSWORD_FAILURES
    Window,     \* LOGIN_WINDOW_MS, PASSWORD_FAILURE_WINDOW_MS
    MaxTime     \* bound

VARIABLES
    kind,    \* the limiter followed: "login", "change" or "unlock"
    entry,   \* of the address: None, or [count, until]
    req,     \* request -> None, or the time its test of the entry passed
    wrong,   \* history: the wrong guesses recorded
    before,  \* history: time -> how many of them before that time
    now

vars == <<kind, entry, req, wrong, before, now>>

Init ==
    /\ kind \in {"login", "change", "unlock"}
    /\ entry = None
    /\ req = [r \in Requests |-> None]
    /\ wrong = 0 /\ before = [t \in 0..MaxTime |-> 0]
    /\ now = 0

Over(e, t) == IF e = None THEN TRUE ELSE t >= e.until

(* checkLoginRateLimit, isPasswordChangeThrottled.                         *)
Allowed == ~Over(entry, now) => entry.count < Limit

(* The handler to its first await.                                         *)
Begin(r) ==
    /\ req[r] = None /\ Allowed
    /\ req' = [req EXCEPT ![r] = now]
    /\ UNCHANGED <<kind, entry, wrong, before, now>>

(* A failure that begins a window of its own every time.                   *)
RecordedSliding(t) == [count |-> 1, until |-> t + Window]

(* recordLoginFailure, recordPasswordFailure.                              *)
Recorded(t) ==
    IF Over(entry, t) THEN [count |-> 1, until |-> t + Window]
    ELSE [entry EXCEPT !.count = @ + 1]

(* A wrong guess: a password change records it at the time its test        *)
(* passed, the others at the time of the answer.                           *)
Fails(r) ==
    /\ req[r] # None
    /\ entry' = Recorded(IF kind = "change" THEN req[r] ELSE now)
    /\ wrong' = wrong + 1
    /\ req' = [req EXCEPT ![r] = None]
    /\ UNCHANGED <<kind, before, now>>

(* A right one: a password change deletes the entry, which begins the      *)
(* count of its guesses anew; a sign-in and an unlock leave it.            *)
Succeeds(r) ==
    /\ req[r] # None
    /\ IF kind = "change"
       THEN entry' = None /\ wrong' = 0 /\ before' = [t \in 0..MaxTime |-> 0]
       ELSE UNCHANGED <<entry, wrong, before>>
    /\ req' = [req EXCEPT ![r] = None]
    /\ UNCHANGED <<kind, now>>

(* An unlock the daemon refuses for another reason than the password.      *)
DaemonDown(r) ==
    /\ req[r] # None /\ kind = "unlock"
    /\ req' = [req EXCEPT ![r] = None]
    /\ UNCHANGED <<kind, entry, wrong, before, now>>

(* No guess is judged for longer than a step of the clock.                 *)
Tick ==
    /\ now < MaxTime
    /\ \A r \in Requests : req[r] \in {None, now}
    /\ now' = now + 1
    /\ before' = [before EXCEPT ![now'] = wrong]
    /\ UNCHANGED <<kind, entry, req, wrong>>

Next ==
    \/ \E r \in Requests : Begin(r) \/ Fails(r) \/ Succeeds(r) \/ DaemonDown(r)
    \/ Tick

Spec == Init /\ [][Next]_vars

-----------------------------------------------------------------------------
(* The wrong guesses recorded in the span of a window's length from t on,  *)
(* as far as it has passed.                                                *)
InSpan(t) == (IF t + Window > now THEN wrong ELSE before[t + Window]) - before[t]

MostPerEntry == Limit + Cardinality(Requests) - 1

(* Testing before an await and recording after it lets overlapping guesses *)
(* past the limit, but no more than overlap: in any span as long as a      *)
(* window, which two windows may share, twice the limit and one guess more *)
(* for every other request in flight when either of them filled.           *)
GuessesBounded == \A t \in 0..now : InSpan(t) <= 2 * MostPerEntry

-----------------------------------------------------------------------------
(* The inductive invariant behind GuessesBounded, which ServerProofs       *)
(* proves from these assumptions.                                          *)
ThrottlesConstants ==
    /\ IsFiniteSet(Requests)
    /\ {Limit, Window} \subseteq Nat \ {0} /\ MaxTime \in Nat
    /\ None \notin Nat \cup [count : Nat, until : Nat]

TypeOK ==
    /\ entry \in [count : Nat, until : Nat] \cup {None}
    /\ req \in [Requests -> Nat \cup {None}]
    /\ wrong \in Nat /\ before \in [0..MaxTime -> Nat]
    /\ now \in 0..MaxTime

(* A guess is judged within a step of the clock.                           *)
JudgedSoon == \A r \in Requests : req[r] # None => req[r] <= now /\ now <= req[r] + 1

(* The guesses that may still count for the entry, with those that did.    *)
Counting == {r \in Requests : req[r] # None /\ req[r] < entry.until}
EntryFills == entry.count >= 1 /\ entry.count + Cardinality(Counting) <= MostPerEntry

(* The guesses of the entry, and those before it, lie where their windows  *)
(* do: before its window, none since it began, none after its end.         *)
Earlier == wrong - entry.count
Began == entry.until - Window
WindowsApart ==
    /\ Earlier >= 0 /\ 0 <= Began /\ Began <= now
    /\ \A t \in 0..now :
          /\ t > Began => before[t] >= Earlier
          /\ t > Began - Window => Earlier - before[t] <= MostPerEntry
          /\ t > entry.until => before[t] >= wrong

SpansPassed ==
    \A t \in 0..now : t + Window <= now => before[t + Window] - before[t] <= 2 * MostPerEntry

ThrottlesInv ==
    /\ TypeOK
    /\ JudgedSoon
    /\ SpansPassed
    /\ entry = None => wrong = 0 /\ \A t \in 0..now : before[t] = 0
    /\ entry # None => EntryFills /\ WindowsApart
=============================================================================
