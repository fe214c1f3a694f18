---------------------------- MODULE SessionsProofs ----------------------------
(***************************************************************************)
(* What the session token guarantees for any number of requests in flight, *)
(* passwords, versions and ages: the type invariant, that no request       *)
(* carries a session across a revocation, that every live password session *)
(* belongs to the stored password, and that the scheme implements          *)
(* SessionAuthority.                                                       *)
(***************************************************************************)
EXTENDS Sessions, TLAPS

-----------------------------------------------------------------------------
LEMMA IdleIsRequest == Idle \in Request
  BY PasswordAssumption DEF Idle, Request, Steps, Hash

LEMMA Issues ==
    ASSUME TypeOK, NEW v \in Nat, NEW b \in Nat,
           NEW via \in Passwords \cup {Passkey}, GenerateSessionToken(v, b, via)
    PROVE  issued' \subseteq Token
  BY DEF TypeOK, GenerateSessionToken, Token

LEMMA TypeInit == Init => TypeOK
  BY PasswordAssumption, LegacyAssumption, IdleIsRequest DEF Init, TypeOK, Hash

LEMMA TypeStep == TypeOK /\ [Next]_vars => TypeOK'
<1> SUFFICES ASSUME TypeOK, [Next]_vars PROVE TypeOK'
  OBVIOUS
<1> USE IdleIsRequest
<1>1. ASSUME NEW h \in Handlers, NEW pw \in Passwords, LoginStart(h, pw)
      PROVE  TypeOK'
  BY <1>1 DEF TypeOK, LoginStart, Request, Steps
<1>2. ASSUME NEW h \in Handlers, NEW pw \in Passwords, ResolvePasswordChange(h, pw)
      PROVE  TypeOK'
  BY <1>2 DEF TypeOK, ResolvePasswordChange, Request, Steps
<1>3. ASSUME NEW h \in Handlers, NEW t \in issued, PageStart(h, t)
      PROVE  TypeOK'
  BY <1>3 DEF TypeOK, PageStart, Request, Steps, Token
<1>4. ASSUME NEW h \in Handlers, LoginRefused(h) PROVE TypeOK'
  BY <1>4 DEF TypeOK, LoginRefused
<1>5. ASSUME NEW h \in Handlers, LoginDone(h) PROVE TypeOK'
  <2>1. req[h].ver \in Nat /\ req[h].pw \in Passwords
    BY DEF TypeOK, Request
  <2>2. issued' \subseteq Token
    BY <1>5, <2>1, Issues DEF LoginDone
  <2> QED
    BY <1>5, <2>2 DEF TypeOK, LoginDone
<1>6. ASSUME NEW h \in Handlers, LoginNeedsRehash(h) PROVE TypeOK'
  BY <1>6 DEF TypeOK, LoginNeedsRehash, Request, Steps
<1>7. ASSUME NEW h \in Handlers, LoginRehash(h) PROVE TypeOK'
  <2>1. req[h].ver \in Nat /\ req[h].pw \in Passwords
    BY DEF TypeOK, Request
  <2>2. issued' \subseteq Token
    BY <1>7, <2>1, Issues DEF LoginRehash
  <2> QED
    BY <1>7, <2>1, <2>2 DEF TypeOK, LoginRehash, Hash
<1>8. ASSUME NEW h \in Handlers, PageRollsForward(h) PROVE TypeOK'
  <2>1. req[h].ver \in Nat /\ req[h].born \in Nat /\ req[h].via \in Passwords \cup {Passkey}
    BY DEF TypeOK, Request
  <2>2. issued' \subseteq Token
    BY <1>8, <2>1, Issues DEF PageRollsForward
  <2> QED
    BY <1>8, <2>2 DEF TypeOK, PageRollsForward
<1>9. ASSUME NEW h \in Handlers, PageEnds(h) PROVE TypeOK'
  BY <1>9 DEF TypeOK, PageEnds
<1>10. ASSUME NEW h \in Handlers, Logout(h) PROVE TypeOK'
  BY <1>10 DEF TypeOK, Logout
<1>11. ASSUME NEW h \in Handlers, ApplyPasswordChange(h) PROVE TypeOK'
  BY <1>11 DEF TypeOK, ApplyPasswordChange, Request, Steps, Hash
<1>12. ASSUME NEW h \in Handlers, CrashMidChange(h) PROVE TypeOK'
  BY <1>12 DEF TypeOK, CrashMidChange, Request, Hash
<1>13. CASE PasskeyLogin
  <2>1. issued' \subseteq Token
    BY <1>13, Issues DEF PasskeyLogin, TypeOK
  <2> QED
    BY <1>13, <2>1 DEF TypeOK, PasskeyLogin
<1>14. CASE Crash
  BY <1>14 DEF TypeOK, Crash
<1>15. CASE Tick
  BY <1>15 DEF TypeOK, Tick
<1>16. CASE UNCHANGED vars
  BY <1>16 DEF TypeOK, vars
<1> QED
  BY <1>1, <1>2, <1>3, <1>4, <1>5, <1>6, <1>7, <1>8, <1>9, <1>10, <1>11,
     <1>12, <1>13, <1>14, <1>15, <1>16 DEF Next

(* The prefs, the requests in flight and the tokens keep their shapes.     *)
THEOREM TypeCorrect == Spec => []TypeOK
  BY TypeInit, TypeStep, PTL DEF Spec

-----------------------------------------------------------------------------
(* Revocation.  A request or a token names no version later than the       *)
(* present one, and carries the version it was authenticated under.        *)
VersionInv ==
    /\ \A t \in issued : t.ver <= version /\ t.born = t.ver
    /\ \A h \in Handlers :
          /\ req[h].ver <= version
          /\ req[h].at \in {"page", "change", "tail"} => req[h].born = req[h].ver

LEMMA VersionInit == Init => VersionInv
  BY DEF Init, VersionInv, Idle

LEMMA VersionStep == TypeOK /\ VersionInv /\ [Next]_vars => VersionInv'
<1> SUFFICES ASSUME TypeOK, VersionInv, [Next]_vars PROVE VersionInv'
  OBVIOUS
<1>0. /\ version \in Nat
      /\ req \in [Handlers -> Request]
      /\ \A h \in Handlers : req[h].ver \in Nat
      /\ \A t \in issued : t.ver \in Nat
  BY DEF TypeOK, Request, Token
<1>i. Idle.ver = 0 /\ Idle.at = "idle" /\ Idle.born = 0
  BY DEF Idle
<1>1. ASSUME NEW h \in Handlers, NEW pw \in Passwords, LoginStart(h, pw)
      PROVE  VersionInv'
  BY <1>0, <1>1 DEF VersionInv, LoginStart, Idle
<1>2. ASSUME NEW h \in Handlers, NEW pw \in Passwords, ResolvePasswordChange(h, pw)
      PROVE  VersionInv'
  BY <1>0, <1>2 DEF VersionInv, ResolvePasswordChange, Request
<1>3. ASSUME NEW h \in Handlers, NEW t \in issued, PageStart(h, t)
      PROVE  VersionInv'
  BY <1>0, <1>3 DEF VersionInv, PageStart, Idle, VerifySessionToken
<1>4. ASSUME NEW h \in Handlers, LoginRefused(h) \/ PageEnds(h)
      PROVE  VersionInv'
  BY <1>0, <1>i, <1>4 DEF VersionInv, LoginRefused, PageEnds
<1>5. ASSUME NEW h \in Handlers,
             LoginDone(h) \/ LoginRehash(h) \/ PageRollsForward(h)
      PROVE  VersionInv'
  <2>1. PICK via : GenerateSessionToken(req[h].ver, req[h].ver, via)
    BY <1>5 DEF LoginDone, LoginRehash, PageRollsForward, VersionInv
  <2>2. \A t \in issued' : t.ver <= version /\ t.born = t.ver
    BY <2>1, <1>0 DEF VersionInv, GenerateSessionToken
  <2> QED
    BY <1>5, <2>2, <1>0, <1>i DEF VersionInv, LoginDone, LoginRehash, PageRollsForward
<1>6. ASSUME NEW h \in Handlers, LoginNeedsRehash(h) PROVE VersionInv'
  BY <1>0, <1>6 DEF VersionInv, LoginNeedsRehash, Request
<1>7. ASSUME NEW h \in Handlers, Logout(h) \/ ApplyPasswordChange(h)
      PROVE  VersionInv'
  BY <1>0, <1>i, <1>7 DEF VersionInv, Logout, ApplyPasswordChange, Request
<1>8. ASSUME NEW h \in Handlers, CrashMidChange(h) PROVE VersionInv'
  BY <1>0, <1>i, <1>8 DEF VersionInv, CrashMidChange
<1>9. CASE PasskeyLogin
  BY <1>0, <1>9 DEF VersionInv, PasskeyLogin, GenerateSessionToken
<1>10. CASE Crash
  BY <1>0, <1>i, <1>10 DEF VersionInv, Crash
<1>11. CASE Tick
  BY <1>11 DEF VersionInv, Tick
<1>12. CASE UNCHANGED vars
  BY <1>12 DEF VersionInv, vars
<1> QED
  BY <1>1, <1>2, <1>3, <1>4, <1>5, <1>6, <1>7, <1>8, <1>9, <1>10, <1>11,
     <1>12 DEF Next

LEMMA VersionCorrect == Spec => [](TypeOK /\ VersionInv)
<1>1. TypeOK /\ VersionInv /\ [Next]_vars => (TypeOK /\ VersionInv)'
  BY TypeStep, VersionStep
<1> QED
  BY TypeInit, VersionInit, <1>1, PTL DEF Spec

(* No page in flight across a logout or a password change hands its        *)
(* session on: every session that verifies was authenticated under the     *)
(* present version.                                                        *)
THEOREM RevocationHolds == Spec => []NoResurrection
<1>1. VersionInv => NoResurrection
  BY DEF VersionInv, NoResurrection, VerifySessionToken
<1> QED
  BY VersionCorrect, <1>1, PTL

-----------------------------------------------------------------------------
(* Passwords.  With no legacy hash to upgrade and no crash between the two *)
(* writes of a change, the stored password and the version move together.  *)
NoFaults == ~LegacyHash /\ MaxTorn = 0

PasswordInv ==
    /\ ~hash.legacy
    /\ \A h \in Handlers :
          /\ req[h].at # "rehash"
          /\ req[h].at = "login" =>
                ~req[h].seen.legacy /\ (req[h].ver = version => req[h].seen = hash)
          /\ req[h].at \in {"page", "change", "tail"} /\ req[h].ver = version
                /\ req[h].via \in Passwords => req[h].via = hash.pw
    /\ PasswordSessionsCurrent

LEMMA PasswordInit == NoFaults /\ Init => PasswordInv
  BY DEF NoFaults, Init, PasswordInv, PasswordSessionsCurrent, Idle

LEMMA PasswordStep ==
    ASSUME NoFaults, TypeOK, VersionInv, PasswordInv, [Next]_vars
    PROVE  PasswordInv'
<1>0. /\ version \in Nat
      /\ torn \in Nat
      /\ hash \in Hash
      /\ req \in [Handlers -> Request]
      /\ \A h \in Handlers : req[h].ver \in Nat /\ req[h].ver <= version
      /\ \A t \in issued : t.ver \in Nat /\ t.ver <= version
  BY DEF TypeOK, VersionInv, Request, Token
<1>i. Idle.at = "idle"
  BY DEF Idle
<1>1. ASSUME NEW h \in Handlers, NEW pw \in Passwords, LoginStart(h, pw)
      PROVE  PasswordInv'
  BY <1>0, <1>1 DEF PasswordInv, PasswordSessionsCurrent, LoginStart, Idle
<1>2. ASSUME NEW h \in Handlers, NEW pw \in Passwords, ResolvePasswordChange(h, pw)
      PROVE  PasswordInv'
  BY <1>0, <1>2 DEF PasswordInv, PasswordSessionsCurrent, ResolvePasswordChange, Request
<1>3. ASSUME NEW h \in Handlers, NEW t \in issued, PageStart(h, t)
      PROVE  PasswordInv'
  BY <1>0, <1>3
     DEF PasswordInv, PasswordSessionsCurrent, PageStart, Idle, VerifySessionToken
<1>4. ASSUME NEW h \in Handlers, LoginRefused(h) \/ PageEnds(h)
      PROVE  PasswordInv'
  BY <1>0, <1>i, <1>4 DEF PasswordInv, PasswordSessionsCurrent, LoginRefused, PageEnds
<1>5. ASSUME NEW h \in Handlers, LoginDone(h) PROVE PasswordInv'
  <2>1. PasswordSessionsCurrent'
    BY <1>5, <1>0 DEF PasswordInv, PasswordSessionsCurrent, LoginDone, GenerateSessionToken
  <2> QED
    BY <1>5, <2>1, <1>0, <1>i DEF PasswordInv, LoginDone
<1>6. ASSUME NEW h \in Handlers, LoginNeedsRehash(h) \/ LoginRehash(h)
      PROVE  PasswordInv'
  BY <1>6 DEF PasswordInv, LoginNeedsRehash, LoginRehash
<1>7. ASSUME NEW h \in Handlers, PageRollsForward(h) PROVE PasswordInv'
  <2>1. PasswordSessionsCurrent'
    BY <1>7, <1>0
       DEF PasswordInv, PasswordSessionsCurrent, PageRollsForward, GenerateSessionToken
  <2> QED
    BY <1>7, <2>1, <1>0, <1>i DEF PasswordInv, PageRollsForward
<1>8. ASSUME NEW h \in Handlers, Logout(h) PROVE PasswordInv'
  <2>1. \A g \in Handlers : req[g].ver # version'
    BY <1>8, <1>0 DEF Logout
  <2> QED
    BY <1>8, <2>1, <1>0, <1>i DEF PasswordInv, PasswordSessionsCurrent, Logout
<1>9. ASSUME NEW h \in Handlers, ApplyPasswordChange(h) PROVE PasswordInv'
  <2>1. /\ \A g \in Handlers : req'[g].ver = req[g].ver /\ req'[g].ver # version'
        /\ \A t \in issued' : t.ver # version'
    BY <1>9, <1>0 DEF ApplyPasswordChange, Request
  <2>2. /\ ~hash'.legacy
        /\ \A g \in Handlers : req'[g].at = req[g].at \/ req'[g].at = "tail"
        /\ \A g \in Handlers : req'[g].seen = req[g].seen
    BY <1>9, <1>0 DEF ApplyPasswordChange, Request
  <2> QED
    BY <2>1, <2>2 DEF PasswordInv, PasswordSessionsCurrent
<1>10. ASSUME NEW h \in Handlers, CrashMidChange(h) PROVE PasswordInv'
  BY <1>0, <1>10 DEF NoFaults, CrashMidChange
<1>11. CASE PasskeyLogin
  <2>1. PasswordSessionsCurrent'
    BY <1>11, PasswordAssumption
       DEF PasswordInv, PasswordSessionsCurrent, PasskeyLogin, GenerateSessionToken
  <2> QED
    BY <1>11, <2>1 DEF PasswordInv, PasskeyLogin
<1>12. CASE Crash
  BY <1>i, <1>12 DEF PasswordInv, PasswordSessionsCurrent, Crash
<1>13. CASE Tick
  BY <1>13 DEF PasswordInv, PasswordSessionsCurrent, Tick
<1>14. CASE UNCHANGED vars
  BY <1>14 DEF PasswordInv, PasswordSessionsCurrent, vars
<1> QED
  BY <1>1, <1>2, <1>3, <1>4, <1>5, <1>6, <1>7, <1>8, <1>9, <1>10, <1>11,
     <1>12, <1>13, <1>14 DEF Next

(* Where no hash is upgraded and no change is torn, a live session that    *)
(* began with a password began with the stored one: a login that was       *)
(* checked against the old hash while the password changed is dead.        *)
THEOREM LivePasswordsCurrent ==
    ASSUME NoFaults
    PROVE  Spec => []PasswordSessionsCurrent
<1>1. Init => PasswordInv
  BY PasswordInit
<1>2. TypeOK /\ VersionInv /\ PasswordInv /\ [Next]_vars => PasswordInv'
  BY PasswordStep
<1>3. PasswordInv => PasswordSessionsCurrent
  BY DEF PasswordInv
<1> QED
  BY VersionCorrect, <1>1, <1>2, <1>3, PTL DEF Spec

LEMMA ChangeStep ==
    ASSUME NoFaults, TypeOK, VersionInv, PasswordInv, [Next]_vars, hash'.pw # hash.pw
    PROVE  \A t \in issued : ~(VerifySessionToken(t, version))'
<1>1. \A h \in Handlers : ~LoginRehash(h) /\ ~CrashMidChange(h)
  BY DEF PasswordInv, LoginRehash, CrashMidChange, NoFaults, TypeOK
<1>2. PICK h \in Handlers : ApplyPasswordChange(h)
  BY <1>1 DEF Next, vars, LoginStart, ResolvePasswordChange, PageStart, LoginRefused,
     LoginDone, LoginNeedsRehash, PageRollsForward, PageEnds, Logout, PasskeyLogin,
     Crash, Tick
<1>3. version' = version + 1 /\ version \in Nat
  BY <1>2 DEF ApplyPasswordChange, TypeOK
<1>4. \A t \in issued : t.ver \in Nat /\ t.ver <= version
  BY DEF TypeOK, VersionInv, Token
<1> QED
  BY <1>3, <1>4 DEF VerifySessionToken

(* The stored password never moves under a session that stays valid.       *)
THEOREM ChangesRevoke ==
    ASSUME NoFaults
    PROVE  Spec => ChangeRevokes
<1>1. Init => PasswordInv
  BY PasswordInit
<1>2. TypeOK /\ VersionInv /\ PasswordInv /\ [Next]_vars => PasswordInv'
  BY PasswordStep
<1>3. TypeOK /\ VersionInv /\ PasswordInv /\ [Next]_vars =>
         [hash'.pw # hash.pw => \A t \in issued : ~(VerifySessionToken(t, version))']_vars
  BY ChangeStep
<1> QED
  BY VersionCorrect, <1>1, <1>2, <1>3, PTL DEF Spec, ChangeRevokes

-----------------------------------------------------------------------------
(* The refinement: a handler's step grants a session, hands out a dead     *)
(* one, retires live ones, or leaves them all alone.                       *)
Bounded == version <= MaxVersion /\ now <= MaxTime

LEMMA BoundedInit == Init => Bounded
  BY BoundsAssumption DEF Init, Bounded

LEMMA BoundedStep == TypeOK /\ Bounded /\ [Next]_vars => Bounded'
<1> SUFFICES ASSUME TypeOK, Bounded, [Next]_vars PROVE Bounded'
  OBVIOUS
<1>0. version \in Nat /\ now \in Nat
  BY DEF TypeOK
<1>1. ASSUME NEW h \in Handlers, Logout(h) \/ ApplyPasswordChange(h) PROVE Bounded'
  BY <1>0, <1>1, BoundsAssumption DEF Bounded, Logout, ApplyPasswordChange
<1>2. CASE Tick
  BY <1>0, <1>2, BoundsAssumption DEF Bounded, Tick
<1>3. CASE UNCHANGED <<version, now>>
  BY <1>3 DEF Bounded
<1>4. ASSUME NEW h \in Handlers, NEW pw \in Passwords,
             LoginStart(h, pw) \/ ResolvePasswordChange(h, pw)
      PROVE  Bounded'
  BY <1>3, <1>4 DEF LoginStart, ResolvePasswordChange
<1>5. ASSUME NEW h \in Handlers,
             \/ LoginRefused(h) \/ LoginDone(h) \/ LoginNeedsRehash(h) \/ LoginRehash(h)
             \/ PageRollsForward(h) \/ PageEnds(h) \/ CrashMidChange(h)
             \/ \E t \in issued : PageStart(h, t)
      PROVE  Bounded'
  BY <1>3, <1>5 DEF LoginRefused, LoginDone, LoginNeedsRehash, LoginRehash,
     PageRollsForward, PageEnds, CrashMidChange, PageStart
<1>6. CASE PasskeyLogin \/ Crash \/ UNCHANGED vars
  BY <1>3, <1>6 DEF PasskeyLogin, Crash, vars
<1> QED
  BY <1>1, <1>2, <1>4, <1>5, <1>6 DEF Next

(* Neither the prefs nor the tokens nor the clock move.                    *)
LEMMA AuthorityStutters ==
    ASSUME UNCHANGED <<version, issued, now>>
    PROVE  UNCHANGED Authority!avars
  BY DEF Authority!avars, LiveTokens, Tokens, VerifySessionToken

LEMMA AuthorityIssues ==
    ASSUME TypeOK, Bounded, NEW v \in 0..version, NEW b, NEW via,
           GenerateSessionToken(v, b, via), UNCHANGED <<version, now>>
    PROVE  Authority!Next
<1> DEFINE s == [ver |-> v, ts |-> now]
<1>1. s \in [ver : 0..MaxVersion, ts : 0..MaxTime]
  BY BoundsAssumption DEF TypeOK, Bounded
<1> DEFINE new == [ver |-> v, ts |-> now, born |-> b, via |-> via]
<1>n. issued' = issued \cup {new} /\ new.ver = v /\ new.ts = now
  BY DEF GenerateSessionToken
<1>2. Tokens' = Tokens \cup {s}
  <2> HIDE DEF new
  <2>1. Tokens' = {[ver |-> t.ver, ts |-> t.ts] : t \in issued \cup {new}}
    BY <1>n DEF Tokens
  <2> QED
    BY <2>1, <1>n DEF Tokens
<1>3. \A t : VerifySessionToken(t, version)' <=> VerifySessionToken(t, version)
  BY DEF VerifySessionToken
<1>4. CASE VerifySessionToken(s, version)
  <2>1. LiveTokens' = LiveTokens \cup {s}
    BY <1>2, <1>3, <1>4 DEF LiveTokens
  <2>2. (Tokens \ LiveTokens)' = Tokens \ LiveTokens /\ s \notin Tokens \ LiveTokens
    BY <1>2, <1>4, <2>1 DEF LiveTokens
  <2>3. Authority!Grant(s)
    BY <2>1, <2>2 DEF Authority!Grant
  <2> QED
    BY <1>1, <2>3 DEF Authority!Next
<1>5. CASE ~VerifySessionToken(s, version)
  <2>1. LiveTokens' = LiveTokens /\ s \notin LiveTokens
    BY <1>2, <1>3, <1>5 DEF LiveTokens
  <2>2. (Tokens \ LiveTokens)' = (Tokens \ LiveTokens) \cup {s}
    BY <1>2, <2>1
  <2>3. Authority!GrantDead(s)
    BY <2>1, <2>2 DEF Authority!GrantDead
  <2> QED
    BY <1>1, <2>3 DEF Authority!Next
<1> QED
  BY <1>4, <1>5

(* A later version or a later clock only ever retires sessions.            *)
LEMMA AuthorityRetires ==
    ASSUME UNCHANGED issued,
           \A t \in Tokens : VerifySessionToken(t, version)' => VerifySessionToken(t, version)
    PROVE  Authority!Next
<1> DEFINE S == LiveTokens \ LiveTokens'
<1>1. Tokens' = Tokens /\ LiveTokens' \subseteq LiveTokens /\ LiveTokens \subseteq Tokens
  BY DEF Tokens, LiveTokens
<1>2. Authority!Retire(S)
  BY <1>1 DEF Authority!Retire
<1>3. S \in SUBSET LiveTokens
  OBVIOUS
<1> QED
  BY <1>2, <1>3 DEF Authority!Next

LEMMA AuthorityStep ==
    ASSUME TypeOK, VersionInv, Bounded, [Next]_vars
    PROVE  [Authority!Next]_(Authority!avars)
<1>0. /\ version \in Nat /\ now \in Nat
      /\ \A h \in Handlers : req[h].ver \in 0..version
      /\ \A t \in Tokens : t.ver \in Nat /\ t.ver <= version /\ t.ts \in Nat
  BY DEF TypeOK, VersionInv, Request, Token, Tokens
<1>1. ASSUME NEW h \in Handlers,
             LoginDone(h) \/ LoginRehash(h) \/ PageRollsForward(h)
      PROVE  Authority!Next
  BY <1>0, <1>1, AuthorityIssues DEF LoginDone, LoginRehash, PageRollsForward
<1>2. CASE PasskeyLogin
  BY <1>0, <1>2, AuthorityIssues DEF PasskeyLogin
<1>3. ASSUME NEW h \in Handlers, Logout(h) \/ ApplyPasswordChange(h)
      PROVE  Authority!Next
  <2>1. version' = version + 1 /\ UNCHANGED issued
    BY <1>3 DEF Logout, ApplyPasswordChange
  <2>2. \A t \in Tokens : ~(VerifySessionToken(t, version)')
    BY <1>0, <2>1 DEF VerifySessionToken
  <2> QED
    BY <2>1, <2>2, AuthorityRetires
<1>4. CASE Tick
  <2>1. now' = now + 1 /\ UNCHANGED <<issued, version>>
    BY <1>4 DEF Tick
  <2>2. \A t \in Tokens : VerifySessionToken(t, version)' => VerifySessionToken(t, version)
    BY <1>0, <2>1, AgeAssumption DEF VerifySessionToken
  <2> QED
    BY <2>1, <2>2, AuthorityRetires
<1>5. CASE \/ \E h \in Handlers :
               \/ \E pw \in Passwords : LoginStart(h, pw) \/ ResolvePasswordChange(h, pw)
               \/ \E t \in issued : PageStart(h, t)
               \/ LoginRefused(h) \/ LoginNeedsRehash(h) \/ PageEnds(h)
               \/ CrashMidChange(h)
           \/ Crash
           \/ UNCHANGED vars
  <2>1. UNCHANGED <<version, issued, now>>
    <3>1. ASSUME NEW h \in Handlers, NEW pw \in Passwords,
                 LoginStart(h, pw) \/ ResolvePasswordChange(h, pw)
          PROVE  UNCHANGED <<version, issued, now>>
      BY <3>1 DEF LoginStart, ResolvePasswordChange
    <3>2. ASSUME NEW h \in Handlers, NEW t \in issued, PageStart(h, t)
          PROVE  UNCHANGED <<version, issued, now>>
      BY <3>2 DEF PageStart
    <3>3. ASSUME NEW h \in Handlers,
                 LoginRefused(h) \/ LoginNeedsRehash(h) \/ PageEnds(h) \/ CrashMidChange(h)
          PROVE  UNCHANGED <<version, issued, now>>
      BY <3>3 DEF LoginRefused, LoginNeedsRehash, PageEnds, CrashMidChange
    <3>4. CASE Crash \/ UNCHANGED vars
      BY <3>4 DEF Crash, vars
    <3> QED
      BY <1>5, <3>1, <3>2, <3>3, <3>4
  <2> QED
    BY <2>1, AuthorityStutters
<1> QED
  BY <1>1, <1>2, <1>3, <1>4, <1>5 DEF Next

(* The token scheme implements the session service: a session retired by   *)
(* a logout, a password change or its age never lives again, whatever      *)
(* crashes and whatever hash is upgraded on the way.                       *)
THEOREM ImplementsSessionAuthority == Spec => ImplementsAuthority
<1>1. Init => Authority!Init
  BY DEF Init, Authority!Init, LiveTokens, Tokens
<1>2. TypeOK /\ VersionInv /\ Bounded /\ [Next]_vars => [Authority!Next]_(Authority!avars)
  BY AuthorityStep
<1>3. TypeOK /\ Bounded /\ [Next]_vars => Bounded'
  BY BoundedStep
<1> QED
  BY VersionCorrect, BoundedInit, <1>1, <1>2, <1>3, PTL
     DEF Spec, ImplementsAuthority, Authority!Spec
=============================================================================
