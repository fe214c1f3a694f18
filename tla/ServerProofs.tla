---------------------------- MODULE ServerProofs ----------------------------
(***************************************************************************)
(* What the parts of a host guarantee for any number of visitors, browsers, *)
(* requests, keys, releases, pages, bots and runs, any limits,             *)
(* time-to-lives and bounds.                                               *)
(*                                                                         *)
(* A part's variables go by their names in its module; parts that have a   *)
(* name in common share the variable, and every theorem is about one part. *)
(***************************************************************************)
EXTENDS Integers, FiniteSetTheorems, SequenceTheorems, WellFoundedInduction, TLAPS

CONSTANTS
    None,
    Visitors, SetupTtl, MaxStagings, SetupTime, SetupCrashes,   \* FirstRun
    Browsers, KeyIds, ChallengeTtl, MaxTokens, SignInTime, MaxRestarts,
                                                                \* Passkeys
    Guessers, GuessLimit, GuessWindow, GuessTime,              \* Throttles
    Nets, Passwords, Failing, MaxAsked, StackCrashes,      \* EnablerStacks
    Releases, FirstRelease, CheckWindow, Gets, MaxGets, MaxActs,
                                                             \* UpdateCheck
    PluginPages, MaxInstalls, PluginCrashes,                     \* Plugins
    Threshold, Kinds, ListsFail, MaxEvents, MaxOutages, MaxFailures,
    MaxConfigs,                                           \* TelegramAlerts
    Flavours, Stacks, Exported, MaxRuns,                       \* Installer
    Generate, Restore, OldWords, Slack, PruneWindow, SidecarTime, MaxTimers,
    SidecarFaults,                                            \* BtcSidecar
    Bots, Chats, Messages, MaxUpdates, MaxSettings, BotFails, BotRestarts
                                                             \* TelegramBot

VARIABLES
    hash, secret, pHash, pSecret, token, at, req, cookie, shown, who,
    confirmedBy, torn, now, crashes,                            \* FirstRun
    pending, creds, minted, stepUps, enrolled, kept, raced, restarts,
                                                                \* Passkeys
    kind, entry, wrong, before,                                \* Throttles
    env, stack, data, web, queued, lock, answer, job, asked,
                                                           \* EnablerStacks
    feed, cache, prefs, version, anchor, get, result, quiet, started, acts,
                                                             \* UpdateCheck
    disk, registry, enabled, gen, modules, page, consent, installs,
                                                                 \* Plugins
    wallet, reachable, tick, known, fresh, base, told, events, outages,
    configs,                                              \* TelegramAlerts
    backups, fw, run, held, written, lost, ended, runs,        \* Installer
    seed, db, mem, sync, timers, node, request, up, seen, faults, deserted,
    bereft,                                                   \* BtcSidecar
    config, controls, sent, dropped, loop, running, burned, early, late,
    staking, heard, ran, settings, fails                     \* TelegramBot

First == INSTANCE FirstRun WITH
    Ttl <- SetupTtl, MaxTime <- SetupTime, MaxCrashes <- SetupCrashes

Pass == INSTANCE Passkeys WITH
    Keys <- KeyIds, Ttl <- ChallengeTtl, MaxTime <- SignInTime

Limits == INSTANCE Throttles WITH
    Requests <- Guessers, Limit <- GuessLimit, Window <- GuessWindow, MaxTime <- GuessTime

Optional == INSTANCE EnablerStacks WITH MaxCrashes <- StackCrashes

Updates == INSTANCE UpdateCheck WITH Window <- CheckWindow

Plugs == INSTANCE Plugins WITH Pages <- PluginPages, MaxCrashes <- PluginCrashes

Alerts == INSTANCE TelegramAlerts

Install == INSTANCE Installer

Sidecar == INSTANCE BtcSidecar WITH
    Old <- OldWords, MaxTime <- SidecarTime, MaxFaults <- SidecarFaults

Bot == INSTANCE TelegramBot WITH MaxFails <- BotFails, MaxRestarts <- BotRestarts

-----------------------------------------------------------------------------
(* Finite sets of which one grows by an element as another one shrinks,    *)
(* and the least of some numbers.                                          *)
LEMMA Smaller ==
    ASSUME NEW S, NEW T, IsFiniteSet(S), T \subseteq S
    PROVE  IsFiniteSet(T) /\ Cardinality(T) <= Cardinality(S) /\ Cardinality(T) \in Nat
BY FS_Subset, FS_CardinalityType

LEMMA Grown ==
    ASSUME NEW S, NEW T, NEW x, IsFiniteSet(S), T \subseteq S \cup {x}
    PROVE  IsFiniteSet(T) /\ Cardinality(T) <= Cardinality(S) + 1
<1>1. /\ IsFiniteSet(S \cup {x}) /\ Cardinality(S) \in Nat
      /\ Cardinality(S \cup {x}) = IF x \in S THEN Cardinality(S) ELSE Cardinality(S) + 1
  BY FS_AddElement, FS_CardinalityType
<1>2. Cardinality(S) \in Nat /\ Cardinality(S \cup {x}) \in Nat /\ Cardinality(T) \in Nat
  BY <1>1, FS_CardinalityType, FS_Subset
<1> QED
  BY <1>1, <1>2, FS_Subset

LEMMA Shrunk ==
    ASSUME NEW S, NEW T, NEW x \in S, IsFiniteSet(S), T \subseteq S \ {x}
    PROVE  IsFiniteSet(T) /\ Cardinality(T) <= Cardinality(S) - 1
<1>1. IsFiniteSet(S \ {x}) /\ Cardinality(S \ {x}) = Cardinality(S) - 1
  BY FS_RemoveElement
<1> QED
  BY <1>1, FS_Subset

LEMMA LeastNumber ==
    ASSUME NEW S, S \subseteq Nat, S # {}
    PROVE  \E n \in S : \A k \in S : n <= k
<1> DEFINE T == {0..n : n \in S}
<1>1. T # {} /\ T \subseteq FiniteSubsetsOf(Nat)
  <2>1. ASSUME NEW n \in S PROVE 0..n \in FiniteSubsetsOf(Nat)
    BY FS_Interval DEF FiniteSubsetsOf
  <2> QED
    BY <2>1
<1>2. PICK U \in T : \A V \in T : <<V, U>> \notin StrictSubsetOrdering(Nat)
  <2> HIDE DEF T
  <2> QED
    BY <1>1, WFMin, FS_StrictSubsetOrderingWellFounded
<1>3. PICK n \in S : U = 0..n
  OBVIOUS
<1>4. ASSUME NEW k \in S, k < n PROVE FALSE
  <2>1. 0..k \in T /\ 0..k \subseteq 0..n /\ 0..k \subseteq Nat /\ 0..n \subseteq Nat
    BY <1>4
  <2>2. n \in 0..n /\ n \notin 0..k
    BY <1>4
  <2> QED
    BY <1>2, <1>3, <2>1, <2>2 DEF StrictSubsetOrdering
<1> QED
  BY <1>4

-----------------------------------------------------------------------------
(* FirstRun.  The least number that no staging has is one of no visitor,   *)
(* so a cookie, a secret shown and a confirmation keep naming the staging  *)
(* of the visitor they were given to.                                      *)
LEMMA FirstInit ==
    ASSUME First!FirstRunConstants, First!Init
    PROVE  First!FirstRunInv
<1> USE First!FirstRunConstants, First!Init DEF First!FirstRunConstants, First!Init
<1>1. First!TypeOK
  <2>1. 0 \in First!StagingOrNone
    BY DEF First!StagingOrNone
  <2>2. shown \in [Visitors -> SUBSET First!StagingOrNone]
          /\ cookie \in [Visitors -> First!StagingOrNone]
    BY <2>1
  <2>3. who \in [First!Stagings -> Visitors \cup {None}]
          /\ req \in [Visitors -> First!Posts \cup {None}]
    OBVIOUS
  <2> QED
    BY <2>1, <2>2, <2>3 DEF First!TypeOK
<1> QED
  BY <1>1
  DEF First!FirstRunInv, First!CookiesOwn, First!RowsTogether, First!ShownOwn,
      First!Closed, First!Owned, First!Unconfigured

LEMMA FreshNumber ==
    ASSUME First!FirstRunConstants, First!FreeStagings # {}
    PROVE  First!NextStaging \in First!Stagings /\ who[First!NextStaging] = None
<1>1. First!FreeStagings \subseteq Nat /\ First!FreeStagings \subseteq First!Stagings
  BY First!FirstRunConstants
  DEF First!FreeStagings, First!Stagings, First!FirstRunConstants
<1>2. \E n \in First!FreeStagings : \A k \in First!FreeStagings : n <= k
  BY <1>1, First!FreeStagings # {}, LeastNumber
<1> QED
  BY <1>1, <1>2 DEF First!NextStaging, First!FreeStagings

LEMMA FirstStep ==
    ASSUME First!FirstRunConstants, First!FirstRunInv, [First!Next]_First!vars
    PROVE  First!FirstRunInv'
<1> USE DEF First!FirstRunConstants
<1> SUFFICES ASSUME First!Next PROVE First!FirstRunInv'
  BY DEF First!vars, First!pending, First!FirstRunInv, First!TypeOK,
     First!CookiesOwn, First!RowsTogether, First!ShownOwn, First!Closed,
     First!Owned, First!Unconfigured
<1> USE DEF First!FirstRunInv, First!TypeOK, First!CookiesOwn, First!RowsTogether,
            First!ShownOwn, First!Closed, First!Owned, First!Unconfigured, First!StagingOrNone
<1>1. ASSUME NEW v \in Visitors, First!Look(v) PROVE First!FirstRunInv'
  BY <1>1
  DEF First!Look, First!DropStale, First!Dropped, First!pending,
      First!StagedForViewer
<1>2. ASSUME NEW v \in Visitors, NEW act \in {"stage", "confirm", "restart"}, First!Post(v, act)
      PROVE  First!FirstRunInv'
  BY <1>2
  DEF First!Post, First!DropStale, First!Dropped, First!pending, First!Posts
<1>3. ASSUME NEW v \in Visitors, First!StartOver(v) PROVE First!FirstRunInv'
  BY <1>3 DEF First!StartOver, First!Dropped, First!pending, First!Ends
<1>4. ASSUME NEW v \in Visitors, First!StartHash(v) PROVE First!FirstRunInv'
  BY <1>4 DEF First!StartHash, First!pending, First!Ends, First!Posts, First!At
<1>5. ASSUME NEW v \in Visitors, First!Stage(v) PROVE First!FirstRunInv'
  <2>1. First!NextStaging \in First!Stagings /\ who[First!NextStaging] = None
    BY <1>5, FreshNumber DEF First!Stage
  <2>2. First!NextStaging # 0 /\ First!NextStaging \in First!StagingOrNone
    BY <2>1 DEF First!Stagings
  <2>3. \A u \in Visitors : cookie[u] # First!NextStaging
    BY <2>1, <2>2
  <2>4. ~torn => (~First!Unconfigured => First!NextStaging # hash)
          /\ \A u \in Visitors : First!NextStaging \notin shown[u]
    BY <2>1, <2>2
  <2>5. First!TypeOK'
    BY <1>5, <2>1, <2>2 DEF First!Stage, First!Ends
  <2> HIDE DEF First!TypeOK
  <2>6. First!CookiesOwn'
    BY <1>5, <2>1, <2>2, <2>3 DEF First!Stage, First!Ends, First!TypeOK
  <2> QED
    BY <1>5, <2>1, <2>2, <2>3, <2>4, <2>5, <2>6
    DEF First!Stage, First!Ends, First!TypeOK
<1>6. ASSUME NEW v \in Visitors, First!Confirm(v) PROVE First!FirstRunInv'
  BY <1>6
  DEF First!Confirm, First!Ends, First!Dropped, First!pending, First!CodeFits
<1>7. ASSUME NEW v \in Visitors, First!CrashMidStage(v) PROVE First!FirstRunInv'
  <2>1. First!NextStaging \in First!Stagings /\ who[First!NextStaging] = None
    BY <1>7, FreshNumber DEF First!CrashMidStage
  <2>2. First!NextStaging # 0 /\ First!NextStaging \in First!StagingOrNone
    BY <2>1 DEF First!Stagings
  <2>3. \A u \in Visitors : cookie[u] # First!NextStaging
    BY <2>1, <2>2
  <2>4. ~torn => (~First!Unconfigured => First!NextStaging # hash)
          /\ \A u \in Visitors : First!NextStaging \notin shown[u]
    BY <2>1, <2>2
  <2>5. First!TypeOK'
    BY <1>7, <2>1, <2>2 DEF First!CrashMidStage, First!Crash
  <2> HIDE DEF First!TypeOK
  <2>6. First!CookiesOwn'
    BY <1>7, <2>1, <2>2, <2>3 DEF First!CrashMidStage, First!Crash, First!TypeOK
  <2>7. ASSUME ~torn' PROVE pHash = 0 /\ pSecret = 0 /\ token = 0 /\ ~torn
    BY <1>7, <2>7 DEF First!CrashMidStage, First!TypeOK
  <2>8. ~torn' => First!RowsTogether' /\ First!ShownOwn'
    BY <1>7, <2>1, <2>2, <2>7 DEF First!CrashMidStage, First!Crash, First!TypeOK
  <2>9. ~torn' => First!Closed' /\ First!Owned'
    BY <1>7, <2>1, <2>2, <2>4, <2>7
    DEF First!CrashMidStage, First!Crash, First!TypeOK
  <2> QED
    BY <1>7, <2>5, <2>6, <2>8, <2>9 DEF First!CrashMidStage
<1>8. ASSUME NEW v \in Visitors, First!CrashMidConfirm(v)
      PROVE  First!FirstRunInv'
  BY <1>8 DEF First!CrashMidConfirm, First!Crash, First!pending, First!CodeFits
<1>9. CASE First!Tick
  BY <1>9 DEF First!Tick, First!pending
<1> QED
  BY <1>1, <1>2, <1>3, <1>4, <1>5, <1>6, <1>7, <1>8, <1>9 DEF First!Next

LEMMA FirstSound == First!FirstRunInv => First!OneOwner
BY DEF First!FirstRunInv, First!OneOwner, First!ShownOwn, First!Owned,
   First!Unconfigured, First!TypeOK

(* However visitors, expiry and restarts interleave, the password and the  *)
(* authenticator of an install were staged together, by the visitor who    *)
(* confirmed them, and no other visitor has seen the secret (login.astro). *)
THEOREM OneOwnerOfInstall ==
    ASSUME First!FirstRunConstants
    PROVE  First!Spec => []First!OneOwner
<1>1. First!Init => First!FirstRunInv
  BY FirstInit
<1>2. First!FirstRunInv /\ [First!Next]_First!vars => First!FirstRunInv'
  BY FirstStep
<1>3. First!FirstRunInv => First!OneOwner
  BY FirstSound
<1> QED
  BY <1>1, <1>2, <1>3, PTL DEF First!Spec

-----------------------------------------------------------------------------
(* Passkeys.  A burnt code pays for a challenge, then for the response     *)
(* being verified that consumed it, then for the enrolment.                *)
LEMMA PassCounts ==
    \A S : (Pass!IsFiniteSet(S) <=> IsFiniteSet(S)) /\ Pass!Cardinality(S) = Cardinality(S)
BY DEF Pass!IsFiniteSet, IsFiniteSet, Pass!Cardinality, Cardinality

LEMMA PassInit ==
    ASSUME Pass!PasskeysConstants, Pass!Init
    PROVE  Pass!PasskeysInv
<1> USE PassCounts
<1> USE Pass!PasskeysConstants, Pass!Init DEF Pass!PasskeysConstants, Pass!Init
<1>1. Pass!TypeOK
  <2>1. /\ pending \in [Pass!Tokens -> [purpose : Pass!Purposes, expiresAt : Nat] \cup {None}]
        /\ req \in [Browsers -> [kind : Pass!Purposes, key : KeyIds, read : SUBSET KeyIds] \cup {None}]
    OBVIOUS
  <2>2. cookie \in [Browsers -> 0..MaxTokens]
          /\ {minted, stepUps, enrolled, now, restarts} \subseteq Nat
    OBVIOUS
  <2> QED
    BY <2>1, <2>2 DEF Pass!TypeOK
<1>2. Pass!Outstanding = {} /\ Pass!Verifying = {}
  BY DEF Pass!Outstanding, Pass!Verifying, Pass!At, Pass!Tokens
<1> QED
  BY <1>1, <1>2, FS_EmptySet
  DEF Pass!PasskeysInv, Pass!CodesCover, Pass!ListIsCurrent

LEMMA Countable ==
    ASSUME Pass!PasskeysConstants
    PROVE  /\ IsFiniteSet(Pass!Outstanding) /\ Cardinality(Pass!Outstanding) \in Nat
           /\ IsFiniteSet(Pass!Verifying) /\ Cardinality(Pass!Verifying) \in Nat
<1> USE PassCounts
<1>1. IsFiniteSet(Pass!Tokens)
  BY Pass!PasskeysConstants, FS_Interval DEF Pass!Tokens, Pass!PasskeysConstants
<1>2. Pass!Outstanding \subseteq Pass!Tokens /\ Pass!Verifying \subseteq Browsers
  BY DEF Pass!Outstanding, Pass!Verifying
<1> QED
  BY Pass!PasskeysConstants, <1>1, <1>2, FS_Subset, FS_CardinalityType
  DEF Pass!PasskeysConstants

LEMMA PassType ==
    ASSUME Pass!PasskeysConstants, Pass!TypeOK, [Pass!Next]_Pass!vars
    PROVE  Pass!TypeOK'
<1> USE Pass!PasskeysConstants
    DEF Pass!PasskeysConstants, Pass!TypeOK, Pass!Purposes, Pass!Tokens
<1>1. ASSUME NEW b \in Browsers, NEW p \in Pass!Purposes, Pass!CreateChallenge(b, p)
      PROVE  /\ pending' \in [Pass!Tokens -> [purpose : Pass!Purposes, expiresAt : Nat] \cup {None}]
             /\ cookie' \in [Browsers -> 0..MaxTokens]
             /\ minted' \in Nat
  BY <1>1 DEF Pass!CreateChallenge
<1>2. ASSUME NEW b \in Browsers, Pass!RegisterOptions(b) \/ Pass!AuthOptions(b)
      PROVE  Pass!TypeOK'
  BY <1>1, <1>2 DEF Pass!RegisterOptions, Pass!AuthOptions
<1>3. ASSUME NEW b \in Browsers, NEW k \in KeyIds, NEW p \in Pass!Purposes, Pass!Verify(b, p, k)
      PROVE  Pass!TypeOK'
  <2>1. pending' \in [Pass!Tokens -> [purpose : Pass!Purposes, expiresAt : Nat] \cup {None}]
    BY <1>3 DEF Pass!Verify, Pass!Consumed
  <2>2. req' \in [Browsers -> [kind : Pass!Purposes, key : KeyIds, read : SUBSET KeyIds] \cup {None}]
    BY <1>3 DEF Pass!Verify
  <2> QED
    BY <1>3, <2>1, <2>2 DEF Pass!Verify
<1>4. ASSUME NEW b \in Browsers, Pass!Fails(b) \/ Pass!Registered(b) \/ Pass!SignedIn(b)
      PROVE  Pass!TypeOK'
  <2>1. req' \in [Browsers -> [kind : Pass!Purposes, key : KeyIds, read : SUBSET KeyIds] \cup {None}]
    BY <1>4 DEF Pass!Fails, Pass!Registered, Pass!SignedIn
  <2>2. req[b] # None
    BY <1>4 DEF Pass!Fails, Pass!Registered, Pass!SignedIn, Pass!At
  <2>3. req[b].key \in KeyIds /\ req[b].read \subseteq KeyIds
    BY <2>2
  <2>4. creds' \subseteq KeyIds /\ kept' \subseteq KeyIds /\ enrolled' \in Nat
    BY <1>4, <2>3 DEF Pass!Fails, Pass!Registered, Pass!SignedIn, Pass!ListRead
  <2>5. raced' \in BOOLEAN
    BY <1>4 DEF Pass!Fails, Pass!Registered, Pass!SignedIn
  <2> QED
    BY <1>4, <2>1, <2>4, <2>5 DEF Pass!Fails, Pass!Registered, Pass!SignedIn
<1>5. ASSUME NEW k \in KeyIds, Pass!Remove(k) PROVE Pass!TypeOK'
  BY <1>5 DEF Pass!Remove
<1>6. CASE Pass!Restart \/ Pass!Tick \/ UNCHANGED Pass!vars
  BY <1>6 DEF Pass!Restart, Pass!Tick, Pass!vars
<1> QED
  BY <1>2, <1>3, <1>4, <1>5, <1>6 DEF Pass!Next

LEMMA PassCodes ==
    ASSUME Pass!PasskeysConstants, Pass!TypeOK, Pass!TypeOK', Pass!CodesCover,
           [Pass!Next]_Pass!vars
    PROVE  Pass!CodesCover'
<1> USE PassCounts
<1> USE Pass!PasskeysConstants DEF Pass!CodesCover
<1>1. /\ IsFiniteSet(Pass!Outstanding) /\ Cardinality(Pass!Outstanding) \in Nat
      /\ IsFiniteSet(Pass!Verifying) /\ Cardinality(Pass!Verifying) \in Nat
  BY Countable
<1>2. Cardinality(Pass!Outstanding') \in Nat /\ Cardinality(Pass!Verifying') \in Nat
  <2>1. Pass!Outstanding' \subseteq Pass!Tokens /\ Pass!Verifying' \subseteq Browsers
    BY DEF Pass!Outstanding, Pass!Verifying, Pass!Tokens
  <2>2. IsFiniteSet(Pass!Tokens) /\ IsFiniteSet(Browsers)
    BY FS_Interval DEF Pass!Tokens, Pass!PasskeysConstants
  <2> QED
    BY <2>1, <2>2, FS_Subset, FS_CardinalityType
<1>3. {enrolled, stepUps, enrolled', stepUps'} \subseteq Nat
  BY DEF Pass!TypeOK
<1>4. ASSUME Pass!Outstanding' \subseteq Pass!Outstanding,
             Pass!Verifying' \subseteq Pass!Verifying,
             enrolled' = enrolled, stepUps' = stepUps
      PROVE  Pass!CodesCover'
  <2>1. Cardinality(Pass!Outstanding') <= Cardinality(Pass!Outstanding)
          /\ Cardinality(Pass!Verifying') <= Cardinality(Pass!Verifying)
    BY <1>1, <1>4, FS_Subset
  <2> QED
    BY <1>1, <1>2, <1>3, <1>4, <2>1
<1>5. ASSUME NEW b \in Browsers, Pass!RegisterOptions(b) PROVE Pass!CodesCover'
  <2>1. Pass!Outstanding' \subseteq Pass!Outstanding \cup {minted + 1}
          /\ Pass!Verifying' = Pass!Verifying
    BY <1>5
    DEF Pass!RegisterOptions, Pass!CreateChallenge, Pass!Outstanding,
        Pass!Verifying, Pass!At, Pass!Tokens
  <2>2. Cardinality(Pass!Outstanding') <= Cardinality(Pass!Outstanding) + 1
    BY <1>1, <2>1, Grown
  <2>3. stepUps' = stepUps + 1 /\ enrolled' = enrolled
    BY <1>5 DEF Pass!RegisterOptions
  <2> QED
    BY <1>1, <1>2, <1>3, <2>1, <2>2, <2>3
<1>6. ASSUME NEW b \in Browsers, Pass!AuthOptions(b) PROVE Pass!CodesCover'
  <2>1. Pass!Outstanding' \subseteq Pass!Outstanding /\ Pass!Verifying' = Pass!Verifying
    BY <1>6
    DEF Pass!AuthOptions, Pass!CreateChallenge, Pass!Outstanding, Pass!Verifying,
        Pass!At, Pass!Tokens
  <2> QED
    BY <1>4, <1>6, <2>1 DEF Pass!AuthOptions
<1>7. ASSUME NEW b \in Browsers, NEW k \in KeyIds, Pass!Verify(b, "registration", k)
      PROVE  Pass!CodesCover'
  <2>1. CASE Pass!Redeemable(b, "registration")
    <3>1. cookie[b] \in Pass!Outstanding
      BY <1>7, <2>1
      DEF Pass!Redeemable, Pass!Outstanding, Pass!TypeOK, Pass!Tokens,
          Pass!Verify
    <3>2. Pass!Outstanding' \subseteq Pass!Outstanding \ {cookie[b]}
            /\ Pass!Verifying' \subseteq Pass!Verifying \cup {b}
      BY <1>7, <2>1
      DEF Pass!Verify, Pass!Consumed, Pass!Outstanding, Pass!Verifying, Pass!At,
          Pass!TypeOK, Pass!Tokens
    <3>3. /\ Cardinality(Pass!Outstanding') <= Cardinality(Pass!Outstanding) - 1
          /\ Cardinality(Pass!Verifying') <= Cardinality(Pass!Verifying) + 1
      BY <1>1, <3>1, <3>2, Grown, Shrunk
    <3> QED
      BY <1>1, <1>2, <1>3, <1>7, <3>3 DEF Pass!Verify
  <2>2. CASE ~Pass!Redeemable(b, "registration")
    <3>1. Pass!Outstanding' \subseteq Pass!Outstanding /\ Pass!Verifying' = Pass!Verifying
      BY <1>7, <2>2
      DEF Pass!Verify, Pass!Consumed, Pass!Outstanding, Pass!Verifying, Pass!At,
          Pass!TypeOK, Pass!Tokens
    <3> QED
      BY <1>4, <1>7, <3>1 DEF Pass!Verify
  <2> QED
    BY <2>1, <2>2
<1>8. ASSUME NEW b \in Browsers, NEW k \in KeyIds, Pass!Verify(b, "authentication", k)
      PROVE  Pass!CodesCover'
  <2>1. Pass!Outstanding' \subseteq Pass!Outstanding /\ Pass!Verifying' \subseteq Pass!Verifying
    BY <1>8
    DEF Pass!Verify, Pass!Consumed, Pass!Outstanding, Pass!Verifying, Pass!At,
        Pass!TypeOK, Pass!Tokens
  <2> QED
    BY <1>4, <1>8, <2>1 DEF Pass!Verify
<1>9. ASSUME NEW b \in Browsers, Pass!Registered(b) PROVE Pass!CodesCover'
  <2>1. b \in Pass!Verifying /\ Pass!Verifying' \subseteq Pass!Verifying \ {b}
          /\ Pass!Outstanding' = Pass!Outstanding
    BY <1>9
    DEF Pass!Registered, Pass!Outstanding, Pass!Verifying, Pass!At, Pass!TypeOK
  <2>2. Cardinality(Pass!Verifying') <= Cardinality(Pass!Verifying) - 1
    BY <1>1, <2>1, Shrunk
  <2> QED
    BY <1>1, <1>2, <1>3, <1>9, <2>1, <2>2 DEF Pass!Registered
<1>10. ASSUME NEW b \in Browsers, Pass!Fails(b) \/ Pass!SignedIn(b)
       PROVE  Pass!CodesCover'
  <2>1. Pass!Outstanding' = Pass!Outstanding /\ Pass!Verifying' \subseteq Pass!Verifying
    BY <1>10
    DEF Pass!Fails, Pass!SignedIn, Pass!Outstanding, Pass!Verifying, Pass!At,
        Pass!TypeOK
  <2> QED
    BY <1>4, <1>10, <2>1 DEF Pass!Fails, Pass!SignedIn
<1>11. CASE Pass!Restart
  <2>1. Pass!Outstanding' = {} /\ Pass!Verifying' = {}
    BY <1>11 DEF Pass!Restart, Pass!Outstanding, Pass!Verifying, Pass!At
  <2> QED
    BY <1>4, <1>11, <2>1 DEF Pass!Restart
<1>12. CASE Pass!Tick \/ UNCHANGED Pass!vars \/ \E k \in KeyIds : Pass!Remove(k)
  <2>1. Pass!Outstanding' = Pass!Outstanding /\ Pass!Verifying' = Pass!Verifying
    BY <1>12
    DEF Pass!Tick, Pass!Remove, Pass!vars, Pass!Outstanding, Pass!Verifying,
        Pass!At
  <2> QED
    BY <1>4, <1>12, <2>1 DEF Pass!Tick, Pass!Remove, Pass!vars
<1> QED
  BY <1>5, <1>6, <1>7, <1>8, <1>9, <1>10, <1>11, <1>12 DEF Pass!Next

LEMMA PassList ==
    ASSUME Pass!ListIsCurrent, [Pass!Next]_Pass!vars
    PROVE  Pass!ListIsCurrent'
<1> USE DEF Pass!ListIsCurrent
<1>1. ASSUME NEW b \in Browsers, Pass!Registered(b) \/ Pass!SignedIn(b)
      PROVE  Pass!ListIsCurrent'
  BY <1>1 DEF Pass!Registered, Pass!SignedIn, Pass!ListRead
<1>2. ASSUME NEW k \in KeyIds, Pass!Remove(k) PROVE Pass!ListIsCurrent'
  BY <1>2 DEF Pass!Remove
<1>3. CASE UNCHANGED <<creds, kept, raced>>
  BY <1>3
<1> QED
  BY <1>1, <1>2, <1>3
  DEF Pass!Next, Pass!vars, Pass!RegisterOptions, Pass!AuthOptions, Pass!Verify,
      Pass!Fails, Pass!Restart, Pass!Tick

LEMMA PassStep ==
    ASSUME Pass!PasskeysConstants, Pass!PasskeysInv, [Pass!Next]_Pass!vars
    PROVE  Pass!PasskeysInv'
BY Pass!PasskeysConstants, Pass!PasskeysInv, PassType, PassCodes, PassList
DEF Pass!PasskeysInv

LEMMA PassSound ==
    ASSUME Pass!PasskeysConstants, Pass!PasskeysInv
    PROVE  Pass!EnrolmentsPaid /\ Pass!ListIsCurrent
BY PassCounts, Countable, Pass!PasskeysInv
DEF Pass!PasskeysInv, Pass!CodesCover, Pass!EnrolmentsPaid, Pass!TypeOK

(* Every enrolment has its own burnt code, and the list of keys holds what *)
(* was enrolled and not removed unless a sign-in wrote it back over a      *)
(* change, for any browsers, challenges and restarts (lib/passkey.ts).     *)
THEOREM EnrolmentsArePaid ==
    ASSUME Pass!PasskeysConstants
    PROVE  Pass!Spec => [](Pass!EnrolmentsPaid /\ Pass!ListIsCurrent)
<1>1. Pass!Init => Pass!PasskeysInv
  BY PassInit
<1>2. Pass!PasskeysInv /\ [Pass!Next]_Pass!vars => Pass!PasskeysInv'
  BY PassStep
<1>3. Pass!PasskeysInv => (Pass!EnrolmentsPaid /\ Pass!ListIsCurrent)
  BY PassSound
<1> QED
  BY <1>1, <1>2, <1>3, PTL DEF Pass!Spec

-----------------------------------------------------------------------------
(* Throttles.  An entry and the requests that may still count for it never *)
(* exceed the limit and the requests that overlap; the guesses of an entry *)
(* lie between its beginning and its end, where the next one may begin.    *)
LEMMA LimitsCounts ==
    \A S : (Limits!IsFiniteSet(S) <=> IsFiniteSet(S)) /\ Limits!Cardinality(S) = Cardinality(S)
BY DEF Limits!IsFiniteSet, IsFiniteSet, Limits!Cardinality, Cardinality

LEMMA ThrottleInit ==
    ASSUME Limits!ThrottlesConstants, Limits!Init
    PROVE  Limits!ThrottlesInv
<1> USE LimitsCounts
<1> USE Limits!ThrottlesConstants, Limits!Init DEF Limits!ThrottlesConstants, Limits!Init
<1>1. Limits!TypeOK
  BY DEF Limits!TypeOK
<1> QED
  BY <1>1 DEF Limits!ThrottlesInv, Limits!JudgedSoon, Limits!SpansPassed

LEMMA ThrottleType ==
    ASSUME Limits!ThrottlesConstants, Limits!TypeOK, [Limits!Next]_Limits!vars
    PROVE  Limits!TypeOK'
<1> USE Limits!ThrottlesConstants DEF Limits!ThrottlesConstants, Limits!TypeOK
<1>1. ASSUME NEW r \in Guessers, Limits!Begin(r) \/ Limits!DaemonDown(r)
      PROVE  Limits!TypeOK'
  BY <1>1 DEF Limits!Begin, Limits!DaemonDown
<1>2. ASSUME NEW r \in Guessers, Limits!Fails(r) PROVE Limits!TypeOK'
  <2>1. req[r] \in Nat
    BY <1>2 DEF Limits!Fails
  <2>2. entry' \in [count : Nat, until : Nat]
    BY <1>2, <2>1 DEF Limits!Fails, Limits!Recorded, Limits!Over
  <2> QED
    BY <1>2, <2>2 DEF Limits!Fails
<1>3. ASSUME NEW r \in Guessers, Limits!Succeeds(r) PROVE Limits!TypeOK'
  BY <1>3 DEF Limits!Succeeds
<1>4. CASE Limits!Tick
  BY <1>4 DEF Limits!Tick
<1> QED
  BY <1>1, <1>2, <1>3, <1>4 DEF Limits!Next, Limits!vars

LEMMA CountingFinite ==
    ASSUME Limits!ThrottlesConstants
    PROVE  /\ IsFiniteSet(Limits!Counting) /\ Cardinality(Limits!Counting) \in Nat
           /\ Cardinality(Limits!Counting) <= Cardinality(Guessers)
           /\ Cardinality(Guessers) \in Nat
<1> USE LimitsCounts
<1>1. Limits!Counting \subseteq Guessers
  BY DEF Limits!Counting
<1> QED
  BY <1>1, Smaller, Limits!ThrottlesConstants DEF Limits!ThrottlesConstants

LEMMA CountingNextFinite ==
    ASSUME Limits!ThrottlesConstants
    PROVE  IsFiniteSet(Limits!Counting') /\ Cardinality(Limits!Counting') \in Nat
<1> USE LimitsCounts
<1>1. Limits!Counting' \subseteq Guessers
  BY DEF Limits!Counting
<1> QED
  BY <1>1, Smaller, Limits!ThrottlesConstants DEF Limits!ThrottlesConstants

(* Only what an entry has and what may still count matters.                *)
LEMMA FillsLess ==
    ASSUME Limits!ThrottlesConstants, Limits!TypeOK, Limits!EntryFills, entry # None,
           entry' = entry, Limits!Counting' \subseteq Limits!Counting
    PROVE  Limits!EntryFills'
<1> USE LimitsCounts
<1>1. Cardinality(Limits!Counting') <= Cardinality(Limits!Counting)
  BY CountingFinite, Smaller
<1> QED
  BY <1>1, CountingFinite, CountingNextFinite
  DEF Limits!EntryFills, Limits!MostPerEntry, Limits!TypeOK,
      Limits!ThrottlesConstants

LEMMA MostNatural ==
    ASSUME Limits!ThrottlesConstants
    PROVE  Limits!MostPerEntry \in Nat
BY LimitsCounts, Limits!ThrottlesConstants, CountingFinite
DEF Limits!MostPerEntry, Limits!ThrottlesConstants

(* A span that ends now meets the entry's window and the one before it.    *)
LEMMA SpanNow ==
    ASSUME Limits!ThrottlesConstants, Limits!ThrottlesInv, NEW t \in 0..now,
           t + GuessWindow > now
    PROVE  wrong - before[t] <= 2 * Limits!MostPerEntry
<1> USE LimitsCounts
<1>1. Limits!TypeOK /\ GuessWindow \in Nat /\ Limits!MostPerEntry \in Nat
  BY MostNatural DEF Limits!ThrottlesInv, Limits!ThrottlesConstants
<1>2. CASE entry = None
  BY <1>1, <1>2 DEF Limits!ThrottlesInv
<1>3. CASE entry # None
  <2>1. entry.count \in Nat /\ entry.until \in Nat /\ before[t] \in Nat
    BY <1>1, <1>3, Limits!ThrottlesConstants
    DEF Limits!TypeOK, Limits!ThrottlesConstants
  <2>2. entry.count <= Limits!MostPerEntry
    BY <1>1, <1>3, <2>1, CountingFinite
    DEF Limits!ThrottlesInv, Limits!EntryFills
  <2>3. Limits!Earlier - before[t] <= Limits!MostPerEntry
    BY <1>1, <1>3, <2>1
    DEF Limits!ThrottlesInv, Limits!WindowsApart, Limits!Began, Limits!TypeOK
  <2> QED
    BY <1>1, <2>1, <2>2, <2>3 DEF Limits!Earlier, Limits!TypeOK
<1> QED
  BY <1>2, <1>3

LEMMA ThrottleStep ==
    ASSUME Limits!ThrottlesConstants, Limits!ThrottlesInv, [Limits!Next]_Limits!vars
    PROVE  Limits!ThrottlesInv'
<1> USE LimitsCounts
<1> USE Limits!ThrottlesConstants DEF Limits!ThrottlesConstants
<1>1. Limits!TypeOK /\ Limits!TypeOK'
  BY ThrottleType DEF Limits!ThrottlesInv
<1>2. ASSUME NEW r \in Guessers, Limits!Begin(r) PROVE Limits!ThrottlesInv'
  <2>1. Limits!JudgedSoon'
    BY <1>1, <1>2
    DEF Limits!Begin, Limits!ThrottlesInv, Limits!JudgedSoon, Limits!TypeOK
  <2>2. ASSUME entry # None PROVE Limits!EntryFills'
    <3>1. CASE now >= entry.until
      <4>1. Limits!Counting' \subseteq Limits!Counting
        BY <1>1, <1>2, <2>2, <3>1
        DEF Limits!Begin, Limits!Counting, Limits!TypeOK
      <4> QED
        BY <1>1, <1>2, <2>2, <4>1, FillsLess
        DEF Limits!Begin, Limits!ThrottlesInv
    <3>2. CASE ~(now >= entry.until)
      <4>1. entry.count < GuessLimit /\ entry' = entry
        BY <1>2, <2>2, <3>2 DEF Limits!Begin, Limits!Allowed, Limits!Over
      <4>2. Cardinality(Limits!Counting') <= Cardinality(Guessers)
        <5>1. Limits!Counting' \subseteq Guessers
          BY DEF Limits!Counting
        <5> QED
          BY <5>1, Smaller
      <4>3. entry.count \in Nat /\ entry.count >= 1
        BY <1>1, <2>2 DEF Limits!TypeOK, Limits!ThrottlesInv, Limits!EntryFills
      <4> QED
        BY <4>1, <4>2, <4>3, CountingNextFinite, CountingFinite
        DEF Limits!EntryFills, Limits!MostPerEntry
    <3> QED
      BY <3>1, <3>2
  <2> QED
    BY <1>1, <1>2, <2>1, <2>2
    DEF Limits!Begin, Limits!ThrottlesInv, Limits!SpansPassed,
        Limits!WindowsApart, Limits!Earlier, Limits!Began, Limits!MostPerEntry
<1>3. ASSUME NEW r \in Guessers, Limits!DaemonDown(r) \/ (Limits!Succeeds(r) /\ kind # "change")
      PROVE  Limits!ThrottlesInv'
  <2>1. Limits!JudgedSoon'
    BY <1>1, <1>3
    DEF Limits!DaemonDown, Limits!Succeeds, Limits!ThrottlesInv,
        Limits!JudgedSoon, Limits!TypeOK
  <2>2. Limits!Counting' \subseteq Limits!Counting
    BY <1>1, <1>3
    DEF Limits!DaemonDown, Limits!Succeeds, Limits!Counting, Limits!TypeOK
  <2> QED
    BY <1>1, <1>3, <2>1, <2>2, FillsLess
    DEF Limits!DaemonDown, Limits!Succeeds, Limits!ThrottlesInv, Limits!SpansPassed,
        Limits!WindowsApart, Limits!Earlier, Limits!Began, Limits!MostPerEntry
<1>4. ASSUME NEW r \in Guessers, Limits!Succeeds(r), kind = "change"
      PROVE  Limits!ThrottlesInv'
  <2>1. entry' = None /\ wrong' = 0 /\ now' = now /\ \A t \in 0..GuessTime : before'[t] = 0
    BY <1>1, <1>4 DEF Limits!Succeeds
  <2>2. Limits!JudgedSoon'
    BY <1>1, <1>4
    DEF Limits!Succeeds, Limits!ThrottlesInv, Limits!JudgedSoon, Limits!TypeOK
  <2>3. Limits!SpansPassed'
    BY <1>1, <2>1, MostNatural
    DEF Limits!SpansPassed, Limits!TypeOK, Limits!MostPerEntry
  <2> QED
    BY <1>1, <2>1, <2>2, <2>3 DEF Limits!ThrottlesInv, Limits!TypeOK
<1>5. CASE Limits!Tick
  <2>1. Limits!JudgedSoon'
    BY <1>1, <1>5
    DEF Limits!Tick, Limits!ThrottlesInv, Limits!JudgedSoon, Limits!TypeOK
  <2>2. /\ now' = now + 1 /\ entry' = entry /\ wrong' = wrong /\ req' = req
        /\ before'[now + 1] = wrong /\ \A t \in 0..now : before'[t] = before[t]
    BY <1>1, <1>5 DEF Limits!Tick, Limits!TypeOK
  <2>3. Limits!Counting' = Limits!Counting /\ (entry # None => Limits!EntryFills')
    BY <2>2
    DEF Limits!Counting, Limits!ThrottlesInv, Limits!EntryFills,
        Limits!MostPerEntry
  <2>4. ASSUME NEW t \in 0..now, t + GuessWindow > now
        PROVE  wrong - before[t] <= 2 * Limits!MostPerEntry
    BY <1>1, <2>4, SpanNow DEF Limits!ThrottlesInv
  <2>5. Limits!SpansPassed'
    <3> SUFFICES ASSUME NEW t \in 0..(now + 1), t + GuessWindow <= now + 1
                 PROVE  before'[t + GuessWindow] - before'[t] <= 2 * Limits!MostPerEntry
      BY <2>2 DEF Limits!SpansPassed, Limits!MostPerEntry
    <3>1. now \in Nat /\ t \in 0..now /\ before'[t] = before[t]
      BY <1>1, <2>2 DEF Limits!TypeOK
    <3>2. CASE t + GuessWindow = now + 1
      BY <2>2, <2>4, <3>1, <3>2
    <3>3. CASE t + GuessWindow # now + 1
      <4>1. t + GuessWindow \in 0..now /\ t + GuessWindow <= now
        BY <3>1, <3>3
      <4> QED
        BY <2>2, <3>1, <4>1 DEF Limits!ThrottlesInv, Limits!SpansPassed
    <3> QED
      BY <3>2, <3>3
  <2>6. entry # None => Limits!WindowsApart'
    <3> SUFFICES ASSUME entry # None PROVE Limits!WindowsApart'
      OBVIOUS
    <3>1. Limits!WindowsApart /\ now \in Nat /\ entry.count \in Nat /\ entry.until \in Nat
            /\ wrong \in Nat
      BY <1>1 DEF Limits!ThrottlesInv, Limits!TypeOK
    <3>2. Limits!Earlier' = Limits!Earlier /\ Limits!Began' = Limits!Began
            /\ Limits!MostPerEntry' = Limits!MostPerEntry
      BY <2>2 DEF Limits!Earlier, Limits!Began, Limits!MostPerEntry
    <3>3. Limits!Earlier \in Nat /\ Limits!Began \in Nat /\ Limits!Earlier <= wrong
      BY <3>1 DEF Limits!WindowsApart, Limits!Earlier, Limits!Began
    <3>4. ASSUME NEW t \in 0..now
          PROVE  /\ t > Limits!Began => before'[t] >= Limits!Earlier
                 /\ t > Limits!Began - GuessWindow
                    => Limits!Earlier - before'[t] <= Limits!MostPerEntry
                 /\ t > entry.until => before'[t] >= wrong
      BY <2>2, <3>1 DEF Limits!WindowsApart
    <3>5. /\ before'[now + 1] >= Limits!Earlier /\ before'[now + 1] >= wrong
          /\ Limits!Earlier - before'[now + 1] <= Limits!MostPerEntry
      BY <2>2, <3>1, <3>3, MostNatural
    <3>6. \A t \in 0..(now + 1) : t \in 0..now \/ t = now + 1
      BY <3>1
    <3> QED
      BY <2>2, <3>1, <3>2, <3>3, <3>4, <3>5, <3>6 DEF Limits!WindowsApart
  <2> QED
    BY <1>1, <2>1, <2>2, <2>3, <2>5, <2>6 DEF Limits!ThrottlesInv, Limits!TypeOK
<1>6. ASSUME NEW r \in Guessers, Limits!Fails(r) PROVE Limits!ThrottlesInv'
  <2> DEFINE tau == IF kind = "change" THEN req[r] ELSE now
  <2>1. /\ req[r] \in Nat /\ tau \in Nat /\ req[r] <= tau /\ tau <= now /\ now <= tau + 1
        /\ entry' = Limits!Recorded(tau) /\ wrong' = wrong + 1
        /\ req' = [req EXCEPT ![r] = None] /\ UNCHANGED <<kind, before, now>>
    BY <1>1, <1>6
    DEF Limits!Fails, Limits!TypeOK, Limits!ThrottlesInv, Limits!JudgedSoon
  <2> HIDE DEF tau
  <2>2. Limits!JudgedSoon' /\ Limits!SpansPassed'
    BY <1>1, <2>1
    DEF Limits!ThrottlesInv, Limits!JudgedSoon, Limits!SpansPassed,
        Limits!TypeOK, Limits!MostPerEntry
  <2>3. CASE entry # None /\ tau < entry.until
    <3>1. /\ entry' # None /\ entry'.count = entry.count + 1 /\ entry'.until = entry.until
          /\ entry.count \in Nat /\ entry.until \in Nat
      BY <1>1, <2>1, <2>3 DEF Limits!Recorded, Limits!Over, Limits!TypeOK
    <3>2. r \in Limits!Counting /\ Limits!Counting' \subseteq Limits!Counting \ {r}
      BY <1>1, <2>1, <2>3, <3>1 DEF Limits!Counting, Limits!TypeOK
    <3>3. Cardinality(Limits!Counting') <= Cardinality(Limits!Counting) - 1
      BY <3>2, CountingFinite, Shrunk
    <3>4. Limits!EntryFills'
      BY <2>3, <3>1, <3>3, CountingFinite, CountingNextFinite
      DEF Limits!EntryFills, Limits!ThrottlesInv, Limits!MostPerEntry
    <3>5. Limits!WindowsApart'
      <4>1. /\ Limits!WindowsApart /\ now \in Nat /\ now <= entry.until
            /\ wrong \in Nat /\ UNCHANGED <<now, before>>
        BY <1>1, <2>1, <2>3, <3>1 DEF Limits!ThrottlesInv, Limits!TypeOK
      <4>2. Limits!Earlier' = Limits!Earlier /\ Limits!Began' = Limits!Began
              /\ Limits!MostPerEntry' = Limits!MostPerEntry
        BY <2>1, <3>1, <4>1
        DEF Limits!Earlier, Limits!Began, Limits!MostPerEntry
      <4> QED
        BY <3>1, <4>1, <4>2 DEF Limits!WindowsApart
    <3> QED
      BY <1>1, <2>2, <3>1, <3>4, <3>5 DEF Limits!ThrottlesInv
  <2>4. CASE ~(entry # None /\ tau < entry.until)
    <3>1. entry' = [count |-> 1, until |-> tau + GuessWindow] /\ entry' # None
      <4>1. entry' = [count |-> 1, until |-> tau + GuessWindow]
        BY <1>1, <2>1, <2>4 DEF Limits!Recorded, Limits!Over, Limits!TypeOK
      <4>2. entry' \in [count : Nat, until : Nat]
        BY <2>1, <4>1
      <4> QED
        BY <4>1, <4>2
    <3>2. Cardinality(Limits!Counting') <= Cardinality(Guessers) - 1
      <4>1. Limits!Counting' \subseteq Guessers \ {r}
        BY <1>1, <2>1 DEF Limits!Counting, Limits!TypeOK
      <4> QED
        BY <4>1, Shrunk
    <3>3. Limits!EntryFills'
      BY <3>1, <3>2, CountingFinite, CountingNextFinite
      DEF Limits!EntryFills, Limits!MostPerEntry
    <3>4. Limits!WindowsApart'
      <4>1. CASE entry = None
        <5>1. wrong = 0 /\ \A t \in 0..now : before[t] = 0
          BY <4>1 DEF Limits!ThrottlesInv
        <5>2. Limits!Earlier' = 0 /\ Limits!Began' = tau /\ entry'.until = tau + GuessWindow
          BY <2>1, <3>1, <5>1 DEF Limits!Earlier, Limits!Began
        <5>3. Limits!MostPerEntry' = Limits!MostPerEntry /\ Limits!MostPerEntry \in Nat
          BY MostNatural DEF Limits!MostPerEntry
        <5>4. now \in Nat /\ GuessWindow \in Nat
          BY <1>1 DEF Limits!TypeOK
        <5>5. \A t \in 0..now : ~(t > tau + GuessWindow)
          BY <2>1, <5>4
        <5> QED
          BY <2>1, <5>1, <5>2, <5>3, <5>4, <5>5 DEF Limits!WindowsApart
      <4>2. CASE entry # None
        <5>1. entry.count \in Nat /\ entry.count <= Limits!MostPerEntry /\ tau >= entry.until
                /\ entry.until \in Nat
          BY <1>1, <2>1, <2>4, <4>2, CountingFinite, MostNatural
          DEF Limits!ThrottlesInv, Limits!EntryFills, Limits!TypeOK
        <5>2. \A t \in 0..now : t > tau => before[t] >= wrong
          BY <1>1, <2>1, <4>2, <5>1
          DEF Limits!ThrottlesInv, Limits!WindowsApart, Limits!TypeOK
        <5>3. \A t \in 0..now : t > tau - GuessWindow
                => wrong - before[t] <= Limits!MostPerEntry
          <6> SUFFICES ASSUME NEW t \in 0..now, t > tau - GuessWindow
                       PROVE  wrong - before[t] <= Limits!MostPerEntry
            OBVIOUS
          <6>1. t > Limits!Began /\ before[t] \in Nat /\ wrong \in Nat
            BY <1>1, <2>1, <5>1 DEF Limits!Began, Limits!TypeOK
          <6>2. before[t] >= wrong - entry.count
            BY <4>2, <6>1
            DEF Limits!ThrottlesInv, Limits!WindowsApart, Limits!Earlier
          <6> QED
            BY <5>1, <6>1, <6>2, MostNatural
        <5>4. Limits!Earlier' = wrong /\ Limits!Began' = tau /\ entry'.until = tau + GuessWindow
          BY <1>1, <2>1, <3>1 DEF Limits!Earlier, Limits!Began, Limits!TypeOK
        <5>5. Limits!MostPerEntry' = Limits!MostPerEntry
          BY DEF Limits!MostPerEntry
        <5>6. now \in Nat /\ GuessWindow \in Nat \ {0} /\ wrong \in Nat
          BY <1>1 DEF Limits!TypeOK
        <5>7. \A t \in 0..now : ~(t > tau + GuessWindow)
          BY <2>1, <5>6
        <5> QED
          BY <2>1, <5>2, <5>3, <5>4, <5>5, <5>6, <5>7 DEF Limits!WindowsApart
      <4> QED
        BY <4>1, <4>2
    <3> QED
      BY <1>1, <2>2, <3>1, <3>3, <3>4 DEF Limits!ThrottlesInv
  <2> QED
    BY <2>3, <2>4
<1>7. CASE UNCHANGED Limits!vars
  <2>1. Limits!Counting' = Limits!Counting
    BY <1>7 DEF Limits!vars, Limits!Counting
  <2> QED
    BY <1>7, <2>1
    DEF Limits!vars, Limits!ThrottlesInv, Limits!TypeOK, Limits!JudgedSoon,
        Limits!SpansPassed, Limits!EntryFills, Limits!WindowsApart,
        Limits!Earlier, Limits!Began, Limits!MostPerEntry
<1> QED
  BY <1>2, <1>3, <1>4, <1>5, <1>6, <1>7 DEF Limits!Next, Limits!Succeeds

LEMMA ThrottleSound ==
    ASSUME Limits!ThrottlesConstants, Limits!ThrottlesInv
    PROVE  Limits!GuessesBounded
<1> USE LimitsCounts
<1> SUFFICES ASSUME NEW t \in 0..now
             PROVE  Limits!InSpan(t) <= 2 * Limits!MostPerEntry
  BY DEF Limits!GuessesBounded
<1>1. now \in Nat /\ GuessWindow \in Nat
  BY Limits!ThrottlesConstants
  DEF Limits!ThrottlesInv, Limits!TypeOK, Limits!ThrottlesConstants
<1>2. CASE t + GuessWindow > now
  BY <1>2, SpanNow DEF Limits!InSpan
<1>3. CASE t + GuessWindow <= now
  BY <1>1, <1>3 DEF Limits!ThrottlesInv, Limits!SpansPassed, Limits!InSpan
<1> QED
  BY <1>1, <1>2, <1>3

(* In any span as long as a window no more wrong guesses are judged than   *)
(* two entries allow, each of them exceeding the limit by at most the      *)
(* other requests in flight (login.astro:194, password-change.ts:77).      *)
THEOREM GuessesAreBounded ==
    ASSUME Limits!ThrottlesConstants
    PROVE  Limits!Spec => []Limits!GuessesBounded
<1>1. Limits!Init => Limits!ThrottlesInv
  BY ThrottleInit
<1>2. Limits!ThrottlesInv /\ [Limits!Next]_Limits!vars => Limits!ThrottlesInv'
  BY ThrottleStep
<1>3. Limits!ThrottlesInv => Limits!GuessesBounded
  BY ThrottleSound
<1> QED
  BY <1>1, <1>2, <1>3, PTL DEF Limits!Spec

-----------------------------------------------------------------------------
(* EnablerStacks.  What a job has yet to write is ahead of its position in *)
(* its list of commands; all that is behind says what it was asked.        *)
(* The three command lists: where they end, and in which order they write. *)
LEMMA CommandLists ==
    ASSUME NEW s \in Optional!Services, NEW r \in Optional!Requests, NEW P,
           P = Optional!Commands(s, r)
    PROVE  /\ Len(P) \in Nat /\ Len(P) >= 1
           /\ \A j \in 1 .. Len(P) : P[j] = "web" <=> j = Len(P)
           /\ \A c \in {"flag", "profile"} : \E j \in 1 .. Len(P) : P[j] = c
           /\ \A j \in 1 .. Len(P) : P[j] \in {"web", "mkdir"} =>
                \A i \in j .. Len(P) : P[i] \notin {"flag", "profile"} \cup Optional!SettingNames
           /\ \A j \in 1 .. Len(P) : P[j] \in Optional!SettingNames
              => s = "bitcoin" /\ r.action = "enable"
           /\ s = "bitcoin" /\ r.action = "enable" =>
                \A k \in Optional!SettingNames : \E j \in 1 .. Len(P) : P[j] = k
           /\ \A j \in 1 .. Len(P) : P[j] = "up" =>
                r.action = "enable" /\ \A i \in j .. Len(P) : P[i] \notin Optional!SettingNames
<1>1. CASE r.action = "disable"
  <2>1. P = Optional!Disable
    BY <1>1 DEF Optional!Commands
  <2> QED
    BY <1>1, <2>1 DEF Optional!Disable, Optional!SettingNames
<1>2. CASE r.action # "disable" /\ s = "bitcoin"
  <2>1. P = Optional!EnableBitcoin /\ r.action = "enable"
    BY <1>2 DEF Optional!Commands, Optional!Requests
  <2>2. /\ Len(P) = 9 /\ P[1] = "flag" /\ P[2] = "network" /\ P[3] = "chain" /\ P[4] = "prune"
        /\ P[5] = "txindex" /\ P[6] = "profile" /\ P[7] = "mkdir" /\ P[8] = "up" /\ P[9] = "web"
    BY <2>1 DEF Optional!EnableBitcoin
  <2>3. \A j \in 1 .. 9 : j = 1 \/ j = 2 \/ j = 3 \/ j = 4 \/ j = 5 \/ j = 6 \/ j = 7 \/ j = 8
          \/ j = 9
    OBVIOUS
  <2>4. \A j \in 1 .. Len(P) : P[j] = "web" <=> j = Len(P)
    BY <2>2, <2>3
  <2>5. \A c \in {"flag", "profile"} : \E j \in 1 .. Len(P) : P[j] = c
    BY <2>2
  <2>6. \A j \in 1 .. Len(P) : P[j] \in {"web", "mkdir"} =>
          \A i \in j .. Len(P) : P[i] \notin {"flag", "profile"} \cup Optional!SettingNames
    <3>1. \A j \in 1 .. Len(P) : P[j] \in {"web", "mkdir"} => j >= 7
      BY <2>2, <2>3
    <3>2. \A i \in 1 .. Len(P) : i >= 7
            => P[i] \notin {"flag", "profile"} \cup Optional!SettingNames
      BY <2>2, <2>3 DEF Optional!SettingNames
    <3> QED
      BY <2>2, <3>1, <3>2
  <2>7. \A k \in Optional!SettingNames : \E j \in 1 .. Len(P) : P[j] = k
    BY <2>2 DEF Optional!SettingNames
  <2>8. \A j \in 1 .. Len(P) : P[j] = "up"
          => \A i \in j .. Len(P) : P[i] \notin Optional!SettingNames
    <3>1. \A j \in 1 .. Len(P) : P[j] = "up" => j = 8
      BY <2>2, <2>3
    <3>2. \A i \in 8 .. Len(P) : P[i] \notin Optional!SettingNames
      BY <2>2 DEF Optional!SettingNames
    <3> QED
      BY <3>1, <3>2
  <2> QED
    BY <1>2, <2>1, <2>2, <2>4, <2>5, <2>6, <2>7, <2>8
<1>3. CASE r.action # "disable" /\ s # "bitcoin"
  <2>1. P = Optional!EnableIndexer /\ r.action = "enable"
    BY <1>3 DEF Optional!Commands, Optional!Requests
  <2> QED
    BY <1>3, <2>1 DEF Optional!EnableIndexer, Optional!SettingNames
<1> QED
  BY <1>1, <1>2, <1>3

LEMMA NothingAsked ==
    ASSUME Optional!StacksConstants
    PROVE  Optional!Init => Optional!StacksInv
<1> SUFFICES ASSUME Optional!Init PROVE Optional!StacksInv
  OBVIOUS
<1>1. job = Optional!NoJob /\ env.profiles = {} /\ job.service = None
  BY DEF Optional!Init, Optional!NoJob
<1>2. Optional!TypeOK
  <2>1. {} \in SUBSET Optional!Services
    OBVIOUS
  <2> QED
    BY <2>1 DEF Optional!Init, Optional!TypeOK, Optional!BitcoinSettings
<1>3. Optional!StacksSound
  BY <1>1
  DEF Optional!Init, Optional!StacksSound, Optional!HostUpMatches,
      Optional!SettingsWhole, Optional!PasswordKept, Optional!OkMeansRecreated,
      Optional!Services
<1> QED
  BY <1>1, <1>2, <1>3
  DEF Optional!StacksInv, Optional!JobOK, Optional!JobWrites,
      Optional!ProfileWhole

(* A job moves to its next command: what was ahead of it still is, but for *)
(* the command that is done.                                               *)
LEMMA JobMoves ==
    ASSUME Optional!StacksConstants, Optional!JobOK, job # Optional!NoJob, Optional!Done,
           Optional!Steps[job.at] # "web"
    PROVE  /\ job'.service = job.service /\ job'.request = job.request
           /\ job' # Optional!NoJob /\ Optional!JobOK'
              /\ (Optional!Enabling' <=> Optional!Enabling)
           /\ \A c : Optional!Ahead(c) /\ c # Optional!Steps[job.at] => Optional!Ahead(c)'
<1>1. /\ job.service \in Optional!Services /\ job.request \in Optional!Requests
         /\ job.at \in 1 .. Len(Optional!Steps)
      /\ job = [service |-> job.service, request |-> job.request, at |-> job.at]
  BY DEF Optional!JobOK
<1>2. job' = [service |-> job.service, request |-> job.request, at |-> job.at + 1]
  BY <1>1 DEF Optional!Done
<1>3. job'.service = job.service /\ job'.request = job.request /\ job'.at = job.at + 1
  BY <1>2
<1>4. job' # Optional!NoJob
  BY <1>1, <1>3 DEF Optional!StacksConstants, Optional!NoJob
<1>5. Optional!Steps' = Optional!Steps
  BY <1>3 DEF Optional!Steps, Optional!Commands
<1>6. Len(Optional!Steps) \in Nat /\ job.at # Len(Optional!Steps)
  BY <1>1, CommandLists DEF Optional!Steps
<1>7. job.at + 1 \in 1 .. Len(Optional!Steps)
  BY <1>1, <1>6
<1>8. Optional!JobOK'
  BY <1>1, <1>2, <1>3, <1>5, <1>7 DEF Optional!JobOK
<1>9. ASSUME NEW c, Optional!Ahead(c), c # Optional!Steps[job.at]
      PROVE  Optional!Ahead(c)'
  <2>1. PICK j \in job.at .. Len(Optional!Steps) : Optional!Steps[j] = c
    BY <1>9 DEF Optional!Ahead
  <2>2. j \in job.at + 1 .. Len(Optional!Steps)
    BY <1>1, <1>6, <1>9, <2>1
  <2> QED
    BY <1>3, <1>5, <2>1, <2>2 DEF Optional!Ahead
<1>10. Optional!Enabling' <=> Optional!Enabling
  BY <1>3, <1>4 DEF Optional!Enabling
<1> QED
  BY <1>3, <1>4, <1>8, <1>9, <1>10

LEMMA Asking ==
    ASSUME Optional!StacksInv, \E s \in Optional!Services,
           r \in Optional!Requests : Optional!Ask(s, r)
    PROVE  Optional!StacksInv'
<1>1. PICK s \in Optional!Services, r \in Optional!Requests : Optional!Ask(s, r)
  OBVIOUS
<1>2. queued' \in [Optional!Services -> Optional!Requests \cup {None}]
  BY <1>1 DEF Optional!Ask, Optional!StacksInv, Optional!TypeOK
<1>3. UNCHANGED <<env, stack, data, web, lock, answer, job, torn>>
  BY <1>1 DEF Optional!Ask
<1> QED
  BY <1>2, <1>3
  DEF Optional!StacksInv, Optional!TypeOK, Optional!JobOK, Optional!Ahead,
      Optional!Enabling, Optional!Steps, Optional!JobWrites,
      Optional!ProfileWhole,
       Optional!StacksSound, Optional!HostUpMatches, Optional!SettingsWhole, Optional!PasswordKept, Optional!OkMeansRecreated

LEMMA Claiming ==
    ASSUME Optional!StacksConstants, Optional!StacksInv, NEW s \in Optional!Services,
           Optional!Claim(s)
    PROVE  Optional!StacksInv'
<1> DEFINE r == queued[s]
<1>1. /\ job = Optional!NoJob /\ r \in Optional!Requests /\ torn' = torn \ {s}
      /\ job' = [service |-> s, request |-> r, at |-> 1]
      /\ UNCHANGED <<env, stack, data, web, answer>>
  BY DEF Optional!Claim, Optional!StacksInv, Optional!TypeOK
<1>2. /\ job'.service = s /\ job'.request = r /\ job'.at = 1
      /\ job.service = None /\ Optional!Steps' = Optional!Commands(s, r)
  BY <1>1 DEF Optional!NoJob, Optional!Steps
<1>3. Optional!TypeOK'
  <2>1. /\ queued' = [queued EXCEPT ![s] = None] /\ lock' = [lock EXCEPT ![s] = r]
    BY DEF Optional!Claim
  <2> HIDE DEF r
  <2> QED
    BY <1>1, <2>1 DEF Optional!StacksInv, Optional!TypeOK
<1> HIDE DEF r
<1>4. /\ Len(Optional!Steps') \in Nat /\ Len(Optional!Steps') >= 1
      /\ \A c \in {"flag", "profile"} : \E j \in 1 .. Len(Optional!Steps') : Optional!Steps'[j]
         = c
      /\ s = "bitcoin" /\ r.action = "enable" =>
                \A k \in Optional!SettingNames : \E j
                    \in 1 .. Len(Optional!Steps') : Optional!Steps'[j] = k
  BY <1>1, <1>2, CommandLists
<1>5. Optional!JobOK'
  BY <1>1, <1>2, <1>4 DEF Optional!JobOK
<1>6. Optional!JobWrites'
  BY <1>1, <1>2, <1>4 DEF Optional!JobWrites, Optional!Ahead, Optional!Enabling
<1>7. \A x \in Optional!Services : x \notin torn' \cup {job'.service}
        => x \notin torn \cup {job.service}
  BY <1>1, <1>2 DEF Optional!StacksConstants
<1>8. Optional!HostUpMatches' /\ Optional!OkMeansRecreated' /\ Optional!ProfileWhole'
  BY <1>1, <1>7
  DEF Optional!StacksInv, Optional!StacksSound, Optional!HostUpMatches,
      Optional!OkMeansRecreated, Optional!ProfileWhole, Optional!Services
<1> QED
  BY <1>1, <1>3, <1>5, <1>6, <1>8
  DEF Optional!StacksInv, Optional!StacksSound, Optional!SettingsWhole,
      Optional!PasswordKept

LEMMA Expiring ==
    ASSUME Optional!StacksInv, NEW s \in Optional!Services, Optional!Expire(s)
    PROVE  Optional!StacksInv'
<1>1. /\ answer' = [answer EXCEPT ![s] = "failed"] /\ queued' = [queued EXCEPT ![s] = None]
      /\ UNCHANGED <<env, stack, data, web, lock, job, torn>>
  BY DEF Optional!Expire
<1>2. Optional!TypeOK'
  BY <1>1 DEF Optional!StacksInv, Optional!TypeOK
<1>3. Optional!OkMeansRecreated'
  BY <1>1
  DEF Optional!StacksInv, Optional!StacksSound, Optional!OkMeansRecreated,
      Optional!TypeOK
<1> QED
  BY <1>1, <1>2, <1>3
  DEF Optional!StacksInv, Optional!JobOK, Optional!Ahead, Optional!Enabling,
      Optional!Steps, Optional!JobWrites, Optional!ProfileWhole,
       Optional!StacksSound, Optional!HostUpMatches, Optional!SettingsWhole, Optional!PasswordKept

(* Each of the four writes is of a key of the job's own service.           *)
LEMMA FlagWritten ==
    ASSUME Optional!StacksConstants, Optional!StacksInv, Optional!WriteFlag
    PROVE  Optional!StacksInv'
<1> DEFINE b == job.request.action = "enable"
           s == job.service
<1>1. /\ job # Optional!NoJob /\ Optional!Steps[job.at] = "flag" /\ Optional!Done
      /\ env' = [env EXCEPT !.flag[s] = b]
      /\ UNCHANGED <<stack, data, web, queued, lock, answer, torn>>
  BY DEF Optional!WriteFlag, Optional!Busy, Optional!Wrote
<1>2. b \in BOOLEAN /\ (b <=> Optional!Enabling) /\ s \in Optional!Services
  BY <1>1 DEF Optional!Enabling, Optional!StacksInv, Optional!JobOK
<1>3. /\ job'.service = s /\ job'.request = job.request
      /\ job' # Optional!NoJob /\ Optional!JobOK' /\ (Optional!Enabling' <=> Optional!Enabling)
      /\ \A c : Optional!Ahead(c) /\ c # "flag" => Optional!Ahead(c)'
  BY <1>1, JobMoves DEF Optional!StacksInv
<1> HIDE DEF b, s
<1>4. /\ env'.flag = [env.flag EXCEPT ![s] = b] /\ env'.profiles = env.profiles
      /\ env'.bitcoin = env.bitcoin /\ env'.password = env.password
      /\ env' \in [flag : [Optional!Services -> BOOLEAN], profiles : SUBSET Optional!Services,
                   bitcoin : Optional!BitcoinSettings, password : Passwords \cup {None}]
  <2> DEFINE f == [env.flag EXCEPT ![s] = b]
  <2>1. env' = [env EXCEPT !.flag = f] /\ f \in [Optional!Services -> BOOLEAN]
    BY <1>1, <1>2 DEF Optional!StacksInv, Optional!TypeOK
  <2> HIDE DEF f
  <2>2. env' \in [flag : [Optional!Services -> BOOLEAN], profiles : SUBSET Optional!Services,
                   bitcoin : Optional!BitcoinSettings, password : Passwords \cup {None}]
    BY <2>1 DEF Optional!StacksInv, Optional!TypeOK
  <2> QED
    BY <2>1, <2>2 DEF Optional!StacksInv, Optional!TypeOK, f
<1>5. Optional!TypeOK'
  BY <1>1, <1>4 DEF Optional!StacksInv, Optional!TypeOK
<1>6. Optional!JobWrites'
  <2>1. env'.flag[s] = b
    BY <1>2, <1>4 DEF Optional!StacksInv, Optional!TypeOK
  <2> QED
    BY <1>1, <1>2, <1>3, <1>4, <2>1
    DEF Optional!StacksInv, Optional!JobWrites, Optional!SettingNames, s
<1>7. Optional!HostUpMatches' /\ Optional!OkMeansRecreated'
  BY <1>1, <1>2, <1>3, <1>4
  DEF Optional!StacksInv, Optional!StacksSound, Optional!HostUpMatches,
      Optional!OkMeansRecreated, Optional!TypeOK, s
<1>8. Optional!ProfileWhole'
  BY <1>1, <1>3, <1>4 DEF Optional!StacksInv, Optional!ProfileWhole, s
<1> QED
  BY <1>1, <1>3, <1>4, <1>5, <1>6, <1>7, <1>8
  DEF Optional!StacksInv, Optional!StacksSound, Optional!SettingsWhole,
      Optional!PasswordKept

LEMMA SettingWritten ==
    ASSUME Optional!StacksConstants, Optional!StacksInv, Optional!WriteSetting
    PROVE  Optional!StacksInv'
<1> DEFINE all == Optional!Settings(job.request.network, job.request.pruned)
<1>0. PICK k \in Optional!SettingNames : Optional!Busy(k)
        /\ Optional!Wrote([env EXCEPT !.bitcoin[k] = all[k]])
  BY DEF Optional!WriteSetting, Optional!SettingNames
<1>1. /\ job # Optional!NoJob /\ Optional!Steps[job.at] = k /\ Optional!Done
      /\ env' = [env EXCEPT !.bitcoin[k] = all[k]]
      /\ UNCHANGED <<stack, data, web, queued, lock, answer, torn>>
  BY <1>0 DEF Optional!Busy, Optional!Wrote
<1>2. job.service = "bitcoin" /\ Optional!Enabling /\ job.request.network \in Nets
        /\ job.request.pruned \in BOOLEAN
  <2>1. job.service \in Optional!Services /\ job.request \in Optional!Requests
          /\ job.at \in 1 .. Len(Optional!Steps)
    BY <1>1 DEF Optional!StacksInv, Optional!JobOK
  <2>2. job.service = "bitcoin" /\ job.request.action = "enable"
    BY <1>1, <2>1, CommandLists DEF Optional!Steps
  <2> QED
    BY <1>1, <2>1, <2>2 DEF Optional!Enabling, Optional!Requests
<1>3. /\ job'.service = job.service /\ job'.request = job.request
      /\ job' # Optional!NoJob /\ Optional!JobOK' /\ (Optional!Enabling' <=> Optional!Enabling)
      /\ \A c : Optional!Ahead(c) /\ c # k => Optional!Ahead(c)'
  BY <1>1, <1>0, JobMoves DEF Optional!StacksInv, Optional!SettingNames
<1>4. /\ all.network \in Nets \cup {None} /\ all.chain \in Nets \cup {None}
      /\ all.prune \in BOOLEAN /\ all.txindex \in BOOLEAN
  BY <1>2 DEF Optional!Settings
<1> HIDE DEF all
<1>5. /\ env'.flag = env.flag /\ env'.profiles = env.profiles /\ env'.password = env.password
      /\ env'.bitcoin \in Optional!BitcoinSettings /\ env'.bitcoin[k] = all[k]
      /\ \A c \in Optional!SettingNames : c # k => env'.bitcoin[c] = env.bitcoin[c]
      /\ env' \in [flag : [Optional!Services -> BOOLEAN], profiles : SUBSET Optional!Services,
                   bitcoin : Optional!BitcoinSettings, password : Passwords \cup {None}]
  <2> DEFINE f == [env.bitcoin EXCEPT ![k] = all[k]]
  <2>1. env' = [env EXCEPT !.bitcoin = f] /\ env.bitcoin \in Optional!BitcoinSettings
    BY <1>1 DEF Optional!StacksInv, Optional!TypeOK
  <2>2. f \in Optional!BitcoinSettings /\ f[k] = all[k]
          /\ \A c \in Optional!SettingNames : c # k => f[c] = env.bitcoin[c]
    <3>1. CASE k = "network"
      BY <1>4, <2>1, <3>1 DEF Optional!BitcoinSettings, Optional!SettingNames
    <3>2. CASE k = "chain"
      BY <1>4, <2>1, <3>2 DEF Optional!BitcoinSettings, Optional!SettingNames
    <3>3. CASE k = "prune"
      BY <1>4, <2>1, <3>3 DEF Optional!BitcoinSettings, Optional!SettingNames
    <3>4. CASE k = "txindex"
      BY <1>4, <2>1, <3>4 DEF Optional!BitcoinSettings, Optional!SettingNames
    <3> QED
      BY <3>1, <3>2, <3>3, <3>4 DEF Optional!SettingNames
  <2> HIDE DEF f
  <2>3. env' \in [flag : [Optional!Services -> BOOLEAN], profiles : SUBSET Optional!Services,
                   bitcoin : Optional!BitcoinSettings, password : Passwords \cup {None}]
    BY <2>1, <2>2 DEF Optional!StacksInv, Optional!TypeOK
  <2>4. env'.flag = env.flag /\ env'.profiles = env.profiles /\ env'.password = env.password
        /\ env'.bitcoin = f
    BY <2>1 DEF Optional!StacksInv, Optional!TypeOK
  <2> QED
    BY <2>2, <2>3, <2>4
<1>6. Optional!TypeOK'
  BY <1>1, <1>5 DEF Optional!StacksInv, Optional!TypeOK
<1>7. Optional!JobWrites'
  <2>1. Optional!Ahead("flag")' \/ (env'.flag[job'.service] <=> Optional!Enabling')
    BY <1>0, <1>1, <1>3, <1>5
    DEF Optional!StacksInv, Optional!JobWrites, Optional!SettingNames
  <2>2. Optional!Ahead("profile")' \/ (job'.service \in env'.profiles <=> Optional!Enabling')
    BY <1>0, <1>1, <1>3, <1>5
    DEF Optional!StacksInv, Optional!JobWrites, Optional!SettingNames
  <2>3. \A c \in Optional!SettingNames : Optional!Ahead(c)' \/ env'.bitcoin[c] = all[c]
    BY <1>0, <1>1, <1>2, <1>3, <1>5
    DEF Optional!StacksInv, Optional!JobWrites, all
  <2> QED
    BY <1>3, <2>1, <2>2, <2>3 DEF Optional!JobWrites, all
<1>8. Optional!HostUpMatches' /\ Optional!OkMeansRecreated'
  BY <1>1, <1>3, <1>5
  DEF Optional!StacksInv, Optional!StacksSound, Optional!HostUpMatches,
      Optional!OkMeansRecreated
<1>9. Optional!ProfileWhole'
  BY <1>2, <1>3 DEF Optional!ProfileWhole
<1> QED
  BY <1>1, <1>3, <1>5, <1>6, <1>7, <1>8, <1>9
  DEF Optional!StacksInv, Optional!StacksSound, Optional!SettingsWhole,
      Optional!PasswordKept

LEMMA PasswordWritten ==
    ASSUME Optional!StacksConstants, Optional!StacksInv, NEW p \in Passwords,
           Optional!WritePassword(p)
    PROVE  Optional!StacksInv'
<1> DEFINE w == IF env.password = None THEN p ELSE env.password
<1>1. /\ job # Optional!NoJob /\ Optional!Steps[job.at] = "password" /\ Optional!Done
      /\ env' = [env EXCEPT !.password = w]
      /\ UNCHANGED <<stack, data, web, queued, lock, answer, torn>>
  BY DEF Optional!WritePassword, Optional!Busy, Optional!Wrote
<1>2. w \in Passwords \cup {None} /\ (env.password # None => w = env.password)
  BY DEF Optional!StacksInv, Optional!TypeOK
<1>3. /\ job'.service = job.service /\ job'.request = job.request
      /\ job' # Optional!NoJob /\ Optional!JobOK' /\ (Optional!Enabling' <=> Optional!Enabling)
      /\ \A c : Optional!Ahead(c) /\ c # "password" => Optional!Ahead(c)'
  BY <1>1, JobMoves DEF Optional!StacksInv
<1> HIDE DEF w
<1>4. /\ env'.flag = env.flag /\ env'.profiles = env.profiles
      /\ env'.bitcoin = env.bitcoin /\ env'.password = w
  BY <1>1 DEF Optional!StacksInv, Optional!TypeOK
<1>5. Optional!TypeOK'
  BY <1>1, <1>2 DEF Optional!StacksInv, Optional!TypeOK
<1>6. Optional!JobWrites'
  BY <1>1, <1>3, <1>4
  DEF Optional!StacksInv, Optional!JobWrites, Optional!SettingNames
<1>7. Optional!HostUpMatches' /\ Optional!OkMeansRecreated' /\ Optional!ProfileWhole'
  BY <1>1, <1>3, <1>4
  DEF Optional!StacksInv, Optional!StacksSound, Optional!HostUpMatches,
      Optional!OkMeansRecreated, Optional!ProfileWhole
<1>8. Optional!PasswordKept'
  BY <1>1, <1>2, <1>4
  DEF Optional!StacksInv, Optional!StacksSound, Optional!PasswordKept
<1> QED
  BY <1>1, <1>3, <1>5, <1>6, <1>7, <1>8
  DEF Optional!StacksInv, Optional!StacksSound, Optional!SettingsWhole

LEMMA ProfilesWritten ==
    ASSUME Optional!StacksConstants, Optional!StacksInv, Optional!WriteProfiles
    PROVE  Optional!StacksInv'
<1>1. /\ job # Optional!NoJob /\ Optional!Steps[job.at] = "profile" /\ Optional!Done
      /\ env' = [env EXCEPT !.profiles = Optional!Profiles]
      /\ UNCHANGED <<stack, data, web, queued, lock, answer, torn>>
  BY DEF Optional!WriteProfiles, Optional!Busy, Optional!Wrote
<1>2. /\ Optional!Profiles \in SUBSET Optional!Services /\ job.service \in Optional!Services
      /\ (job.service \in Optional!Profiles <=> Optional!Enabling)
      /\ \A x : x # job.service => (x \in Optional!Profiles <=> x \in env.profiles)
  BY <1>1
  DEF Optional!Profiles, Optional!Enabling, Optional!StacksInv, Optional!TypeOK,
      Optional!JobOK
<1>3. /\ job'.service = job.service /\ job'.request = job.request
      /\ job' # Optional!NoJob /\ Optional!JobOK' /\ (Optional!Enabling' <=> Optional!Enabling)
      /\ \A c : Optional!Ahead(c) /\ c # "profile" => Optional!Ahead(c)'
  BY <1>1, JobMoves DEF Optional!StacksInv
<1>4. /\ env'.flag = env.flag /\ env'.profiles = Optional!Profiles
      /\ env'.bitcoin = env.bitcoin /\ env'.password = env.password
  BY <1>1 DEF Optional!StacksInv, Optional!TypeOK
<1>5. Optional!TypeOK'
  BY <1>1, <1>2 DEF Optional!StacksInv, Optional!TypeOK
<1>6. Optional!JobWrites'
  BY <1>1, <1>2, <1>3, <1>4
  DEF Optional!StacksInv, Optional!JobWrites, Optional!SettingNames
<1>7. Optional!HostUpMatches' /\ Optional!OkMeansRecreated'
  BY <1>1, <1>2, <1>3, <1>4
  DEF Optional!StacksInv, Optional!StacksSound, Optional!HostUpMatches,
      Optional!OkMeansRecreated
<1>8. Optional!ProfileWhole'
  BY <1>1, <1>2, <1>3, <1>4 DEF Optional!StacksInv, Optional!ProfileWhole
<1> QED
  BY <1>1, <1>3, <1>4, <1>5, <1>6, <1>7, <1>8
  DEF Optional!StacksInv, Optional!StacksSound, Optional!SettingsWhole,
      Optional!PasswordKept

LEMMA SettingsMade ==
    ASSUME Optional!StacksInv, Optional!Enabling, job.request \in Optional!Requests,
           \A k \in Optional!SettingNames :
             env.bitcoin[k] = Optional!Settings(job.request.network, job.request.pruned)[k]
    PROVE  \E n \in Nets, p \in BOOLEAN : env.bitcoin = Optional!Settings(n, p)
<1> DEFINE n == job.request.network
           p == job.request.pruned
<1>1. n \in Nets /\ p \in BOOLEAN
  BY DEF Optional!Enabling, Optional!Requests
<1>2. env.bitcoin \in Optional!BitcoinSettings
  BY DEF Optional!StacksInv, Optional!TypeOK
<1>3. /\ env.bitcoin["network"] = Optional!Settings(n, p)["network"]
         /\ env.bitcoin["chain"] = Optional!Settings(n, p)["chain"]
      /\ env.bitcoin["prune"] = Optional!Settings(n, p)["prune"]
         /\ env.bitcoin["txindex"] = Optional!Settings(n, p)["txindex"]
  BY DEF Optional!SettingNames
<1> HIDE DEF n, p
<1>4. env.bitcoin = Optional!Settings(n, p)
  BY <1>2, <1>3 DEF Optional!BitcoinSettings, Optional!Settings
<1> QED
  BY <1>1, <1>4

(* A job ends when its last write is behind it.                            *)
LEMMA JobEnds ==
    ASSUME Optional!StacksInv, job # Optional!NoJob, Optional!Steps[job.at] \in {"web", "mkdir"}
    PROVE  /\ job.service \in env.profiles <=> env.flag[job.service]
           /\ job.service = "bitcoin" /\ "bitcoin" \in env.profiles =>
                \E n \in Nets, p \in BOOLEAN : env.bitcoin = Optional!Settings(n, p)
<1>1. job.service \in Optional!Services /\ job.request \in Optional!Requests
        /\ job.at \in 1 .. Len(Optional!Steps)
  BY DEF Optional!StacksInv, Optional!JobOK
<1>2. ~Optional!Ahead("flag") /\ ~Optional!Ahead("profile")
        /\ \A k \in Optional!SettingNames : ~Optional!Ahead(k)
  BY <1>1, CommandLists DEF Optional!Ahead, Optional!Steps
<1>3. /\ env.flag[job.service] <=> Optional!Enabling
      /\ job.service \in env.profiles <=> Optional!Enabling
      /\ Optional!Enabling /\ job.service = "bitcoin" => \A k \in Optional!SettingNames :
            env.bitcoin[k] = Optional!Settings(job.request.network, job.request.pruned)[k]
  BY <1>2 DEF Optional!StacksInv, Optional!JobWrites
<1>4. ASSUME job.service = "bitcoin", Optional!Enabling
      PROVE  \E n \in Nets, p \in BOOLEAN : env.bitcoin = Optional!Settings(n, p)
  BY <1>1, <1>3, <1>4, SettingsMade
<1> QED
  BY <1>3, <1>4

LEMMA JobGone ==
    ASSUME Optional!StacksConstants, Optional!StacksInv, job # Optional!NoJob,
           Optional!Steps[job.at] \in {"web", "mkdir"},
           job' = Optional!NoJob, UNCHANGED <<env, torn>>
    PROVE  Optional!JobOK' /\ Optional!JobWrites' /\ Optional!HostUpMatches'
             /\ Optional!ProfileWhole'
<1>1. job'.service = None /\ job.service \in Optional!Services
  BY DEF Optional!NoJob, Optional!StacksInv, Optional!JobOK
<1>2. Optional!HostUpMatches'
  BY <1>1, JobEnds
  DEF Optional!StacksInv, Optional!StacksSound, Optional!HostUpMatches
<1>3. Optional!ProfileWhole'
  BY <1>1, JobEnds DEF Optional!StacksInv, Optional!ProfileWhole
<1> QED
  BY <1>2, <1>3 DEF Optional!JobOK, Optional!JobWrites

LEMMA DirectoriesMade ==
    ASSUME Optional!StacksConstants, Optional!StacksInv, NEW ok \in BOOLEAN, Optional!Mkdir(ok)
    PROVE  Optional!StacksInv'
<1>1. /\ job # Optional!NoJob /\ Optional!Steps[job.at] = "mkdir"
      /\ UNCHANGED <<env, stack, data, web, queued, torn>>
  BY DEF Optional!Mkdir, Optional!Busy
<1>2. CASE ok
  <2>1. Optional!Done /\ UNCHANGED <<answer, lock>>
    BY <1>2 DEF Optional!Mkdir
  <2>2. /\ job'.service = job.service /\ job'.request = job.request
        /\ job' # Optional!NoJob /\ Optional!JobOK'
           /\ (Optional!Enabling' <=> Optional!Enabling)
        /\ \A c : Optional!Ahead(c) /\ c # "mkdir" => Optional!Ahead(c)'
    BY <1>1, <2>1, JobMoves DEF Optional!StacksInv
  <2>3. Optional!TypeOK'
    BY <1>1, <2>1 DEF Optional!StacksInv, Optional!TypeOK
  <2>4. Optional!JobWrites'
    BY <1>1, <2>2
    DEF Optional!StacksInv, Optional!JobWrites, Optional!SettingNames
  <2> QED
    BY <1>1, <2>1, <2>2, <2>3, <2>4
    DEF Optional!StacksInv, Optional!StacksSound, Optional!HostUpMatches,
        Optional!OkMeansRecreated,
         Optional!ProfileWhole, Optional!SettingsWhole, Optional!PasswordKept
<1>3. CASE ~ok
  <2>1. /\ job' = Optional!NoJob /\ answer' = [answer EXCEPT ![job.service] = "failed"]
        /\ lock' = [lock EXCEPT ![job.service] = None]
    BY <1>3 DEF Optional!Mkdir
  <2>2. Optional!JobOK' /\ Optional!JobWrites' /\ Optional!HostUpMatches'
          /\ Optional!ProfileWhole'
    BY <1>1, <2>1, JobGone
  <2>3. Optional!TypeOK'
    BY <1>1, <2>1 DEF Optional!StacksInv, Optional!TypeOK, Optional!JobOK
  <2>4. Optional!OkMeansRecreated'
    BY <1>1, <2>1
    DEF Optional!StacksInv, Optional!StacksSound, Optional!OkMeansRecreated,
        Optional!TypeOK, Optional!JobOK
  <2> QED
    BY <1>1, <2>2, <2>3, <2>4
    DEF Optional!StacksInv, Optional!StacksSound, Optional!SettingsWhole,
        Optional!PasswordKept
<1> QED
  BY <1>2, <1>3

(* compose up starts bitcoind when the four settings are written.          *)
LEMMA StackComposed ==
    ASSUME Optional!StacksConstants, Optional!StacksInv, NEW ok \in BOOLEAN,
           Optional!ComposeStack(ok)
    PROVE  Optional!StacksInv'
<1>1. PICK c \in {"up", "stop"} :
        /\ job # Optional!NoJob /\ Optional!Steps[job.at] = c /\ Optional!Done
        /\ stack' = IF ok THEN [stack EXCEPT ![job.service] =
                                    IF c = "up" THEN Optional!StartedWith(job.service) ELSE None]
                    ELSE stack
        /\ data' = IF ok /\ c = "up" THEN Optional!Initialised(job.service) ELSE data
        /\ UNCHANGED <<env, web, queued, lock, answer, torn>>
  BY DEF Optional!ComposeStack, Optional!Busy
<1>2. /\ job'.service = job.service /\ job'.request = job.request
      /\ job' # Optional!NoJob /\ Optional!JobOK' /\ (Optional!Enabling' <=> Optional!Enabling)
      /\ \A k : Optional!Ahead(k) /\ k # c => Optional!Ahead(k)'
  BY <1>1, JobMoves DEF Optional!StacksInv
<1>3. Optional!TypeOK'
  BY <1>1 DEF Optional!StacksInv, Optional!TypeOK
<1>4. Optional!JobWrites'
  BY <1>1, <1>2
  DEF Optional!StacksInv, Optional!JobWrites, Optional!SettingNames
<1>5. Optional!SettingsWhole'
  <2>1. job.service \in Optional!Services /\ job.request \in Optional!Requests
          /\ job.at \in 1 .. Len(Optional!Steps)
    BY <1>1 DEF Optional!StacksInv, Optional!JobOK
  <2>2. CASE job.service = "bitcoin" /\ c = "up"
    <3>1. Optional!Enabling /\ \A k \in Optional!SettingNames : ~Optional!Ahead(k)
      BY <1>1, <2>1, <2>2, CommandLists
      DEF Optional!Ahead, Optional!Steps, Optional!Enabling
    <3>2. \A k \in Optional!SettingNames :
             env.bitcoin[k] = Optional!Settings(job.request.network, job.request.pruned)[k]
      BY <1>1, <2>2, <3>1 DEF Optional!StacksInv, Optional!JobWrites
    <3>3. \E n \in Nets, p \in BOOLEAN : env.bitcoin = Optional!Settings(n, p)
      BY <2>1, <3>1, <3>2, SettingsMade
    <3>4. stack'["bitcoin"] \in {stack["bitcoin"], env.bitcoin}
      BY <1>1, <2>2
      DEF Optional!StacksInv, Optional!TypeOK, Optional!StartedWith,
          Optional!Services
    <3> QED
      BY <3>3, <3>4
      DEF Optional!StacksInv, Optional!StacksSound, Optional!SettingsWhole
  <2>3. CASE ~(job.service = "bitcoin" /\ c = "up")
    <3>1. stack'["bitcoin"] \in {stack["bitcoin"], None}
      BY <1>1, <2>3 DEF Optional!StacksInv, Optional!TypeOK, Optional!Services
    <3> QED
      BY <3>1
      DEF Optional!StacksInv, Optional!StacksSound, Optional!SettingsWhole
  <2> QED
    BY <2>2, <2>3
<1>6. Optional!PasswordKept'
  BY <1>1
  DEF Optional!StacksInv, Optional!StacksSound, Optional!PasswordKept,
      Optional!Initialised
<1> QED
  BY <1>1, <1>2, <1>3, <1>4, <1>5, <1>6
  DEF Optional!StacksInv, Optional!StacksSound, Optional!HostUpMatches,
      Optional!OkMeansRecreated,
       Optional!ProfileWhole

LEMMA WebComposed ==
    ASSUME Optional!StacksConstants, Optional!StacksInv, NEW ok \in BOOLEAN,
           Optional!ComposeWeb(ok)
    PROVE  Optional!StacksInv'
<1> DEFINE a == IF ok THEN "ok" ELSE "failed"
<1>1. /\ job # Optional!NoJob /\ Optional!Steps[job.at] = "web" /\ job' = Optional!NoJob
      /\ web' = IF ok THEN env.flag ELSE web
      /\ answer' = [answer EXCEPT ![job.service] = a]
      /\ lock' = [lock EXCEPT ![job.service] = None]
      /\ UNCHANGED <<env, stack, data, queued, torn>>
  BY DEF Optional!ComposeWeb, Optional!Busy
<1>2. a \in {"ok", "failed"} /\ (a = "ok" => ok)
  OBVIOUS
<1> HIDE DEF a
<1>3. Optional!JobOK' /\ Optional!JobWrites' /\ Optional!HostUpMatches'
        /\ Optional!ProfileWhole'
  BY <1>1, JobGone
<1>4. Optional!TypeOK'
  BY <1>1, <1>2 DEF Optional!StacksInv, Optional!TypeOK, Optional!JobOK
<1>5. Optional!OkMeansRecreated'
  BY <1>1, <1>2
  DEF Optional!StacksInv, Optional!StacksSound, Optional!OkMeansRecreated,
      Optional!TypeOK, Optional!JobOK
<1> QED
  BY <1>1, <1>3, <1>4, <1>5
  DEF Optional!StacksInv, Optional!StacksSound, Optional!SettingsWhole,
      Optional!PasswordKept

LEMMA SidecarCrashes ==
    ASSUME Optional!StacksConstants, Optional!StacksInv, Optional!Crash
    PROVE  Optional!StacksInv'
<1> DEFINE s == job.service
<1>1. /\ job # Optional!NoJob /\ job' = Optional!NoJob /\ torn' = torn \cup {s}
      /\ lock' = [lock EXCEPT ![s] = None] /\ queued' = [queued EXCEPT ![s] = lock[s]]
      /\ UNCHANGED <<env, stack, data, web, answer>>
  BY DEF Optional!Crash
<1>2. s \in Optional!Services
  BY <1>1 DEF Optional!StacksInv, Optional!JobOK
<1> HIDE DEF s
<1>3. Optional!TypeOK'
  BY <1>1, <1>2 DEF Optional!StacksInv, Optional!TypeOK
<1>4. \A x : x \notin torn' \cup {job'.service} => x \notin torn \cup {job.service}
  BY <1>1 DEF s
<1>5. Optional!HostUpMatches' /\ Optional!OkMeansRecreated' /\ Optional!ProfileWhole'
  BY <1>1, <1>4
  DEF Optional!StacksInv, Optional!StacksSound, Optional!HostUpMatches,
      Optional!OkMeansRecreated, Optional!ProfileWhole
<1> QED
  BY <1>1, <1>3, <1>5
  DEF Optional!StacksInv, Optional!StacksSound, Optional!SettingsWhole,
      Optional!PasswordKept, Optional!JobOK, Optional!JobWrites

LEMMA HostStarts ==
    ASSUME Optional!StacksConstants, Optional!StacksInv, Optional!HostUp
    PROVE  Optional!StacksInv'
<1>1. /\ job = Optional!NoJob /\ torn = {} /\ web' = env.flag
      /\ stack' = [s \in Optional!Services |->
                    IF s \in env.profiles THEN Optional!StartedWith(s) ELSE stack[s]]
      /\ data' = IF "indexer" \in env.profiles THEN Optional!Initialised("indexer") ELSE data
      /\ UNCHANGED <<env, queued, lock, answer, job, torn>>
  BY DEF Optional!HostUp
<1>2. job.service = None /\ job' = Optional!NoJob
  BY <1>1 DEF Optional!NoJob
<1>3. Optional!TypeOK'
  BY <1>1 DEF Optional!StacksInv, Optional!TypeOK
<1>4. Optional!SettingsWhole'
  <2>1. stack'["bitcoin"] = IF "bitcoin" \in env.profiles THEN env.bitcoin ELSE stack["bitcoin"]
    BY <1>1 DEF Optional!StartedWith, Optional!Services
  <2>2. "bitcoin" \in env.profiles
          => \E n \in Nets, p \in BOOLEAN : env.bitcoin = Optional!Settings(n, p)
    BY <1>1, <1>2
    DEF Optional!StacksInv, Optional!ProfileWhole, Optional!StacksConstants,
        Optional!Services
  <2> QED
    BY <2>1, <2>2
    DEF Optional!StacksInv, Optional!StacksSound, Optional!SettingsWhole
<1>5. Optional!PasswordKept'
  BY <1>1
  DEF Optional!StacksInv, Optional!StacksSound, Optional!PasswordKept,
      Optional!Initialised
<1>6. Optional!OkMeansRecreated' /\ Optional!HostUpMatches' /\ Optional!ProfileWhole'
  BY <1>1
  DEF Optional!StacksInv, Optional!StacksSound, Optional!HostUpMatches,
      Optional!OkMeansRecreated, Optional!ProfileWhole
<1> QED
  BY <1>2, <1>3, <1>4, <1>5, <1>6
  DEF Optional!StacksInv, Optional!StacksSound, Optional!JobOK,
      Optional!JobWrites

LEMMA StacksStep ==
    ASSUME Optional!StacksConstants, Optional!StacksInv, [Optional!Next]_Optional!vars
    PROVE  Optional!StacksInv'
<1>1. CASE UNCHANGED Optional!vars
  BY <1>1
  DEF Optional!vars, Optional!StacksInv, Optional!TypeOK, Optional!JobOK,
      Optional!Ahead, Optional!Enabling, Optional!Steps, Optional!JobWrites,
      Optional!ProfileWhole,
       Optional!StacksSound, Optional!HostUpMatches, Optional!SettingsWhole, Optional!PasswordKept, Optional!OkMeansRecreated
<1>2. ASSUME NEW ok \in BOOLEAN,
             Optional!Mkdir(ok) \/ Optional!ComposeStack(ok) \/ Optional!ComposeWeb(ok)
      PROVE  Optional!StacksInv'
  BY <1>2, DirectoriesMade, StackComposed, WebComposed
<1>3. ASSUME NEW s \in Optional!Services, Optional!Claim(s) \/ Optional!Expire(s)
      PROVE  Optional!StacksInv'
  BY <1>3, Claiming, Expiring
<1> QED
  BY <1>1, <1>2, <1>3, Asking, FlagWritten, SettingWritten, ProfilesWritten,
     PasswordWritten,
     SidecarCrashes, HostStarts DEF Optional!Next

LEMMA StacksSafe == Optional!StacksInv => Optional!StacksSound
BY DEF Optional!StacksInv

(* For any services' requests, failures of any command and crashes of the  *)
(* sidecar between any two, flags, profiles and settings agree, a database *)
(* keeps its password and "ok" is said of a web-gui that runs with the     *)
(* flag (enabler.sh, apply_bitcoin and apply_indexer).                     *)
THEOREM StacksAreSound ==
    ASSUME Optional!StacksConstants
    PROVE  Optional!Spec => []Optional!StacksSound
<1>1. Optional!Init => Optional!StacksInv
  BY NothingAsked
<1>2. Optional!StacksInv /\ [Optional!Next]_Optional!vars => Optional!StacksInv'
  BY StacksStep
<1>3. Optional!StacksInv => Optional!StacksSound
  BY StacksSafe
<1> QED
  BY <1>1, <1>2, <1>3, PTL DEF Optional!Spec

-----------------------------------------------------------------------------
(* UpdateCheck.  What a check is about to queue was newer than what runs,  *)
(* and no failure was known, when it read them.                            *)
LEMMA UpdatesCounts ==
    \A S : (Updates!IsFiniteSet(S) <=> IsFiniteSet(S))
        /\ Updates!Cardinality(S) = Cardinality(S)
BY DEF Updates!IsFiniteSet, IsFiniteSet, Updates!Cardinality, Cardinality

LEMMA FeedLists ==
    ASSUME NEW s \in Seq(Releases), NEW r \in Releases
    PROVE  /\ Updates!Members(s) \in SUBSET Releases /\ <<r>> \o s \in Seq(Releases)
           /\ Len(s) > 1 => Tail(s) \in Seq(Releases)
           /\ \A pre \in BOOLEAN : Updates!Applicable(s, pre) \in SUBSET Releases
<1>0. \A i \in 1..Len(s) : s[i] \in Releases
  OBVIOUS
<1>1. Updates!Members(s) \in SUBSET Releases
  BY <1>0 DEF Updates!Members
<1>2. \A pre \in BOOLEAN : Updates!Applicable(s, pre) \in SUBSET Releases
  BY <1>0 DEF Updates!Applicable, Updates!Kept
<1>3. <<r>> \o s \in Seq(Releases)
  <2>1. <<r>> \in Seq(Releases)
    OBVIOUS
  <2> QED
    BY <2>1, ConcatProperties
<1>4. Len(s) > 1 => Tail(s) \in Seq(Releases)
  BY SMT
<1> QED
  BY <1>1, <1>2, <1>3, <1>4

(* What a check reports is newer than what runs and was asked for.         *)
LEMMA UpdateFound ==
    ASSUME NEW s \in Seq(Releases), NEW pre \in BOOLEAN, Updates!Update(s, pre) # None
    PROVE  /\ Updates!Update(s, pre) \in Releases
              /\ Updates!Newer(Updates!Update(s, pre), version)
           /\ Updates!Update(s, pre).prerelease => pre
<1> DEFINE best == {r \in Updates!Applicable(s, pre) :
                       /\ \A q \in Updates!Applicable(s, pre) : ~Updates!Newer(q, r)
                       /\ Updates!Newer(r, version)}
<1>1. Updates!Update(s, pre) \in best
  BY DEF Updates!Update
<1>2. \A r \in Updates!Applicable(s, pre) : r \in Releases /\ (r.prerelease => pre)
  <2>1. \A i \in 1..Len(s) : s[i] \in Releases
    OBVIOUS
  <2> QED
    BY <2>1, Zenon DEF Updates!Applicable, Updates!Kept
<1> QED
  BY <1>1, <1>2

GetRecords == [at : Updates!Stages, pre : BOOLEAN, latest : Releases \cup {None},
               last : {None, "ok", "failed"}, quiet : BOOLEAN]

LEMMA NotAskingType == Updates!NotAsking \in GetRecords
BY DEF Updates!NotAsking, GetRecords, Updates!Stages

LEMMA FirstCheck ==
    ASSUME Updates!UpdateConstants
    PROVE  Updates!Init => Updates!UpdateInv
<1> SUFFICES ASSUME Updates!Init PROVE Updates!UpdateInv
  OBVIOUS
<1>1. feed \in Seq(Releases)
  BY DEF Updates!Init, Updates!UpdateConstants
<1>2. get \in [Gets -> GetRecords] /\ \A g \in Gets : get[g].at = "idle" /\ get[g].quiet = FALSE
  BY NotAskingType DEF Updates!Init, Updates!NotAsking
<1>3. Updates!TypeOK
  BY <1>1, <1>2 DEF Updates!Init, Updates!TypeOK, GetRecords
<1> QED
  BY <1>2, <1>3
  DEF Updates!Init, Updates!UpdateInv, Updates!FoundNewer, Updates!FailureSeen,
      Updates!QueuedSound, Updates!Automatic

(* A step of a request that leaves the rest of what matters alone.         *)
LEMMA GetMoves ==
    ASSUME Updates!UpdateInv, NEW g \in Gets, NEW rec, rec \in GetRecords,
           get' = [get EXCEPT ![g] = rec],
           rec.at \in {"result", "queue", "lock", "link"} =>
             Updates!Newer(rec.latest, version) /\ (rec.latest.prerelease => rec.pre),
           rec.quiet => rec.at # "link"
               /\ (rec.at \in {"queue", "lock"} => rec.last = "failed"),
           UNCHANGED <<feed, prefs, version, result, quiet>>,
           cache' \in Seq(Releases) \cup {None}
    PROVE  Updates!TypeOK' /\ Updates!FoundNewer' /\ Updates!FailureSeen'
<1>1. /\ get' \in [Gets -> GetRecords] /\ get'[g] = rec
      /\ \A x \in Gets : x # g => get'[x] = get[x]
  BY DEF Updates!UpdateInv, Updates!TypeOK, GetRecords
<1>2. Updates!TypeOK'
  BY <1>1 DEF Updates!UpdateInv, Updates!TypeOK, GetRecords
<1>3. Updates!FoundNewer'
  <2>1. \A l : Updates!Newer(l, version)' <=> Updates!Newer(l, version)
    BY DEF Updates!Newer
  <2> QED
    BY <1>1, <2>1 DEF Updates!UpdateInv, Updates!FoundNewer
<1>4. Updates!FailureSeen'
  BY <1>1 DEF Updates!UpdateInv, Updates!FailureSeen
<1> QED
  BY <1>2, <1>3, <1>4

LEMMA Checks ==
    ASSUME Updates!UpdateInv, NEW g \in Gets, NEW s \in Seq(Releases), NEW pre \in BOOLEAN,
           Updates!Checked(g, s, pre), UNCHANGED <<feed, prefs, version, result, quiet>>,
           cache' \in Seq(Releases) \cup {None}
    PROVE  Updates!TypeOK' /\ Updates!FoundNewer' /\ Updates!FailureSeen'
<1>1. CASE Updates!Update(s, pre) = None \/ ~prefs.auto
  <2>1. get' = [get EXCEPT ![g] = Updates!NotAsking]
    BY <1>1 DEF Updates!Checked
  <2>2. Updates!NotAsking.at = "idle" /\ Updates!NotAsking.quiet = FALSE
    BY DEF Updates!NotAsking
  <2> QED
    BY <2>1, <2>2, NotAskingType, GetMoves
<1>2. CASE Updates!Update(s, pre) # None /\ prefs.auto
  <2> DEFINE u == Updates!Update(s, pre)
             rec == [at |-> "result", pre |-> pre, latest |-> u, last |-> None, quiet |-> FALSE]
  <2>1. get' = [get EXCEPT ![g] = rec]
    BY <1>2 DEF Updates!Checked
  <2>2. u \in Releases /\ Updates!Newer(u, version) /\ (u.prerelease => pre)
    BY <1>2, UpdateFound
  <2> HIDE DEF u
  <2>3. rec \in GetRecords
    BY <2>2 DEF GetRecords, Updates!Stages
  <2>4. rec.at = "result" /\ rec.latest = u /\ rec.pre = pre /\ rec.quiet = FALSE
    OBVIOUS
  <2> HIDE DEF rec
  <2> QED
    BY <2>1, <2>2, <2>3, <2>4, GetMoves
<1> QED
  BY <1>1, <1>2

(* What is queued depends on the files and on the release that runs.       *)
LEMMA QueueKept ==
    ASSUME Updates!UpdateInv, UNCHANGED <<queued, lock, version>>
    PROVE  Updates!QueuedSound'
BY DEF Updates!UpdateInv, Updates!QueuedSound, Updates!Automatic, Updates!Newer

LEMMA UpdateAsked ==
    ASSUME Updates!UpdateInv, NEW g \in Gets,
           Updates!GetCached(g) \/ Updates!GetFetches(g) \/ Updates!Fetched(g)
               \/ Updates!FetchFails(g)
    PROVE  Updates!UpdateInv'
<1>0. UNCHANGED <<feed, prefs, version, result, quiet, queued, lock>>
  BY DEF Updates!GetCached, Updates!GetFetches, Updates!Fetched,
     Updates!FetchFails, Updates!files
<1>1. /\ cache \in Seq(Releases) \cup {None} /\ feed \in Seq(Releases) /\ prefs.pre \in BOOLEAN
      /\ get[g] \in GetRecords /\ get[g].pre \in BOOLEAN
  BY DEF Updates!UpdateInv, Updates!TypeOK, GetRecords
<1>2. Updates!NotAsking.at = "idle" /\ Updates!NotAsking.quiet = FALSE
  BY DEF Updates!NotAsking
<1>3. CASE Updates!GetCached(g)
  <2>1. Updates!Checked(g, cache, prefs.pre) /\ cache \in Seq(Releases) /\ UNCHANGED cache
    BY <1>1, <1>3 DEF Updates!GetCached
  <2> QED
    BY <1>0, <1>1, <2>1, Checks, QueueKept DEF Updates!UpdateInv
<1>4. CASE Updates!Fetched(g)
  <2>1. Updates!Checked(g, feed, get[g].pre) /\ cache' = feed
    BY <1>4 DEF Updates!Fetched
  <2> QED
    BY <1>0, <1>1, <2>1, Checks, QueueKept DEF Updates!UpdateInv
<1>5. CASE Updates!GetFetches(g)
  <2> DEFINE rec == [Updates!NotAsking EXCEPT !.at = "fetch", !.pre = prefs.pre]
  <2>1. get' = [get EXCEPT ![g] = rec] /\ UNCHANGED cache
    BY <1>5 DEF Updates!GetFetches
  <2>2. rec \in GetRecords /\ rec.at = "fetch" /\ rec.quiet = FALSE
    BY <1>1, NotAskingType DEF Updates!NotAsking, GetRecords, Updates!Stages
  <2> HIDE DEF rec
  <2> QED
    BY <1>0, <1>1, <2>1, <2>2, GetMoves, QueueKept DEF Updates!UpdateInv
<1>6. CASE Updates!FetchFails(g)
  <2>1. get' = [get EXCEPT ![g] = Updates!NotAsking] /\ UNCHANGED cache
    BY <1>6 DEF Updates!FetchFails
  <2> QED
    BY <1>0, <1>1, <1>2, <2>1, NotAskingType, GetMoves, QueueKept
    DEF Updates!UpdateInv
<1> QED
  BY <1>3, <1>4, <1>5, <1>6

LEMMA Reading ==
    ASSUME Updates!UpdateInv, NEW g \in Gets,
           Updates!ReadResult(g) \/ Updates!StatQueue(g) \/ Updates!StatLock(g)
    PROVE  Updates!UpdateInv'
<1>0. UNCHANGED <<feed, cache, prefs, version, result, quiet, queued, lock>>
  BY DEF Updates!ReadResult, Updates!StatQueue, Updates!StatLock, Updates!files
<1>1. /\ cache \in Seq(Releases) \cup {None} /\ get[g] \in GetRecords
      /\ quiet \in BOOLEAN /\ result \in {None, "ok", "failed"} /\ (quiet => result = "failed")
  BY DEF Updates!UpdateInv, Updates!TypeOK, Updates!FailureSeen, GetRecords
<1>2. Updates!NotAsking.at = "idle" /\ Updates!NotAsking.quiet = FALSE
  BY DEF Updates!NotAsking
<1>3. CASE Updates!ReadResult(g)
  <2> DEFINE rec == [get[g] EXCEPT !.at = "queue", !.last = result, !.quiet = quiet]
  <2>1. get[g].at = "result" /\ get' = [get EXCEPT ![g] = rec]
    BY <1>3 DEF Updates!ReadResult
  <2>2. /\ rec \in GetRecords /\ rec.at = "queue" /\ rec.quiet = quiet /\ rec.last = result
        /\ rec.latest = get[g].latest /\ rec.pre = get[g].pre
    BY <1>1 DEF GetRecords, Updates!Stages
  <2> HIDE DEF rec
  <2>3. Updates!Newer(rec.latest, version) /\ (rec.latest.prerelease => rec.pre)
    BY <2>1, <2>2 DEF Updates!UpdateInv, Updates!FoundNewer
  <2> QED
    BY <1>0, <1>1, <2>1, <2>2, <2>3, GetMoves, QueueKept DEF Updates!UpdateInv
<1>4. CASE get' = [get EXCEPT ![g] = Updates!NotAsking]
  BY <1>0, <1>1, <1>2, <1>4, NotAskingType, GetMoves, QueueKept
  DEF Updates!UpdateInv
<1>5. ASSUME NEW from \in {"queue", "lock"}, NEW to \in {"lock", "link"}, get[g].at = from,
             get' = [get EXCEPT ![g] = [@ EXCEPT !.at = to]],
             to = "link" => get[g].last # "failed"
      PROVE  Updates!UpdateInv'
  <2> DEFINE rec == [get[g] EXCEPT !.at = to]
  <2>1. get' = [get EXCEPT ![g] = rec]
    BY <1>5
  <2>2. /\ rec \in GetRecords /\ rec.at = to /\ rec.quiet = get[g].quiet
           /\ rec.last = get[g].last
        /\ rec.latest = get[g].latest /\ rec.pre = get[g].pre
    BY <1>1 DEF GetRecords, Updates!Stages
  <2> HIDE DEF rec
  <2>3. Updates!Newer(rec.latest, version) /\ (rec.latest.prerelease => rec.pre)
    BY <1>5, <2>2 DEF Updates!UpdateInv, Updates!FoundNewer
  <2>4. rec.quiet => rec.at # "link" /\ rec.last = "failed"
    BY <1>5, <2>2 DEF Updates!UpdateInv, Updates!FailureSeen
  <2> QED
    BY <1>0, <1>1, <2>1, <2>2, <2>3, <2>4, GetMoves, QueueKept
    DEF Updates!UpdateInv
<1>6. CASE Updates!StatQueue(g)
  <2>1. \/ get' = [get EXCEPT ![g] = Updates!NotAsking]
        \/ get' = [get EXCEPT ![g] = [@ EXCEPT !.at = "lock"]]
    BY <1>6 DEF Updates!StatQueue
  <2>2. get[g].at = "queue"
    BY <1>6 DEF Updates!StatQueue
  <2> QED
    BY <1>4, <1>5, <2>1, <2>2
<1>7. CASE Updates!StatLock(g)
  <2>1. \/ get' = [get EXCEPT ![g] = Updates!NotAsking]
        \/ get' = [get EXCEPT ![g] = [@ EXCEPT !.at = "link"]] /\ get[g].last # "failed"
    BY <1>1, <1>7 DEF Updates!StatLock
  <2>2. get[g].at = "lock"
    BY <1>7 DEF Updates!StatLock
  <2> QED
    BY <1>4, <1>5, <2>1, <2>2
<1> QED
  BY <1>3, <1>6, <1>7

(* The link: the check that reaches it found a newer release and read no   *)
(* failure.                                                                *)
LEMMA Linking ==
    ASSUME Updates!UpdateInv, NEW g \in Gets, Updates!AutoLink(g)
    PROVE  Updates!UpdateInv'
<1> DEFINE link == [Updates!Request("upgrade", get[g].latest) EXCEPT
                          !.auto = TRUE, !.pre = get[g].pre,
                          !.quiet = get[g].quiet, !.overtook = lock # None]
<1>1. /\ get[g].at = "link" /\ queued' = (IF queued # None THEN queued ELSE link)
      /\ get' = [get EXCEPT ![g] = Updates!NotAsking]
      /\ UNCHANGED <<feed, cache, prefs, version, lock, result, quiet>>
  BY DEF Updates!AutoLink
<1>2. Updates!NotAsking.at = "idle" /\ Updates!NotAsking.quiet = FALSE
  BY DEF Updates!NotAsking
<1>3. Updates!TypeOK' /\ Updates!FoundNewer' /\ Updates!FailureSeen'
  <2>1. cache' \in Seq(Releases) \cup {None}
    BY <1>1 DEF Updates!UpdateInv, Updates!TypeOK
  <2> QED
    BY <1>1, <1>2, <2>1, NotAskingType, GetMoves
<1>4. /\ link.tag = get[g].latest /\ link.pre = get[g].pre /\ link.quiet = get[g].quiet
      /\ (link.overtook <=> lock # None)
  BY DEF Updates!Request
<1>5. ~get[g].quiet /\ Updates!Newer(get[g].latest, version)
        /\ (get[g].latest.prerelease => get[g].pre)
  BY <1>1 DEF Updates!UpdateInv, Updates!FoundNewer, Updates!FailureSeen
<1> HIDE DEF link
<1>6. Updates!QueuedSound'
  <2>1. CASE queued # None
    BY <1>1, <2>1, QueueKept
  <2>2. CASE queued = None
    <3>1. queued' = link /\ lock' = lock /\ version' = version
      BY <1>1, <2>2
    <3>2. Updates!Newer(queued'.tag, version') <=> Updates!Newer(link.tag, version)
      BY <3>1 DEF Updates!Newer
    <3> QED
      BY <1>4, <1>5, <3>1, <3>2
      DEF Updates!QueuedSound, Updates!Automatic, Updates!Newer
  <2> QED
    BY <2>1, <2>2
<1> QED
  BY <1>3, <1>6 DEF Updates!UpdateInv

LEMMA UserActs ==
    ASSUME Updates!UpdateInv, Updates!Upgrade \/ Updates!Rollback \/ Updates!SetPrefs
    PROVE  Updates!UpdateInv'
<1>1. ASSUME NEW action, NEW tag, Updates!Queue(Updates!Request(action, tag))
      PROVE  Updates!UpdateInv'
  <2>1. /\ queued' = Updates!Request(action, tag) /\ quiet' = FALSE
        /\ UNCHANGED <<feed, cache, prefs, version, get, lock, result>>
    BY <1>1 DEF Updates!Queue
  <2>2. ~Updates!Automatic'
    BY <2>1 DEF Updates!Automatic, Updates!Request
  <2> QED
    BY <2>1, <2>2
    DEF Updates!UpdateInv, Updates!TypeOK, Updates!FoundNewer,
        Updates!FailureSeen, Updates!QueuedSound, Updates!Newer
<1>2. CASE Updates!SetPrefs
  <2>1. /\ prefs' \in [auto : BOOLEAN, pre : BOOLEAN] /\ cache' = None
        /\ UNCHANGED <<feed, version, get, queued, lock, result, quiet>>
    BY <1>2 DEF Updates!SetPrefs, Updates!files
  <2> QED
    BY <2>1, QueueKept
    DEF Updates!UpdateInv, Updates!TypeOK, Updates!FoundNewer,
        Updates!FailureSeen, Updates!Newer
<1> QED
  BY <1>1, <1>2 DEF Updates!Upgrade, Updates!Rollback

LEMMA FeedMoves ==
    ASSUME Updates!UpdateInv, Updates!Publish \/ Updates!Withdraw
    PROVE  Updates!UpdateInv'
<1>1. UNCHANGED <<cache, prefs, version, get, queued, lock, result, quiet>>
  BY DEF Updates!Publish, Updates!Withdraw, Updates!files
<1>2. feed' \in Seq(Releases)
  <2>1. feed \in Seq(Releases)
    BY DEF Updates!UpdateInv, Updates!TypeOK
  <2>2. CASE Updates!Publish
    BY <2>1, <2>2, FeedLists DEF Updates!Publish
  <2>3. CASE Updates!Withdraw
    BY <2>1, <2>3 DEF Updates!Withdraw
  <2> QED
    BY <2>2, <2>3
<1> QED
  BY <1>1, <1>2, QueueKept
  DEF Updates!UpdateInv, Updates!TypeOK, Updates!FoundNewer, Updates!FailureSeen,
      Updates!Newer

LEMMA SidecarActs ==
    ASSUME Updates!UpdateInv,
           Updates!Claim \/ Updates!Deploy \/ Updates!DeployFails \/ Updates!Unlock
    PROVE  Updates!UpdateInv'
<1>1. CASE Updates!Claim
  <2>1. queued' = None /\ UNCHANGED <<feed, cache, prefs, version, get, result, quiet>>
    BY <1>1 DEF Updates!Claim
  <2> QED
    BY <2>1
    DEF Updates!UpdateInv, Updates!TypeOK, Updates!FoundNewer,
        Updates!FailureSeen, Updates!Newer, Updates!QueuedSound,
        Updates!Automatic
<1>2. CASE Updates!Deploy
  <2>1. lock # None /\ result' = "ok" /\ quiet' = FALSE /\ UNCHANGED <<feed, prefs, queued>>
    BY <1>2 DEF Updates!Deploy
  <2>2. Updates!QueuedSound'
    BY <2>1 DEF Updates!UpdateInv, Updates!QueuedSound, Updates!Automatic
  <2>3. CASE UNCHANGED <<version, get, cache>>
    BY <2>1, <2>2, <2>3
    DEF Updates!UpdateInv, Updates!TypeOK, Updates!FoundNewer,
        Updates!FailureSeen, Updates!Newer
  <2>4. CASE get' = [g \in Gets |-> Updates!NotAsking] /\ cache' = None
    <3>1. \A g \in Gets : get'[g] = Updates!NotAsking
      BY <2>4
    <3>2. Updates!NotAsking.at = "idle" /\ Updates!NotAsking.quiet = FALSE
      BY DEF Updates!NotAsking
    <3>3. get' \in [Gets -> GetRecords]
      BY <2>4, NotAskingType
    <3>4. Updates!TypeOK'
      BY <2>1, <2>4, <3>3 DEF Updates!UpdateInv, Updates!TypeOK, GetRecords
    <3> QED
      BY <2>1, <2>2, <3>1, <3>2, <3>4
      DEF Updates!UpdateInv, Updates!FoundNewer, Updates!FailureSeen
  <2> QED
    BY <1>2, <2>3, <2>4 DEF Updates!Deploy
<1>3. CASE Updates!DeployFails
  <2>1. /\ lock # None /\ result' = "failed" /\ quiet' = TRUE
        /\ UNCHANGED <<feed, cache, prefs, version, get, queued>>
    BY <1>3 DEF Updates!DeployFails
  <2>2. Updates!QueuedSound'
    BY <2>1 DEF Updates!UpdateInv, Updates!QueuedSound, Updates!Automatic
  <2> QED
    BY <2>1, <2>2
    DEF Updates!UpdateInv, Updates!TypeOK, Updates!FoundNewer,
        Updates!FailureSeen, Updates!Newer
<1>4. CASE Updates!Unlock
  <2>1. lock # None /\ lock' = None
          /\ UNCHANGED <<feed, cache, prefs, version, get, queued, result, quiet>>
    BY <1>4 DEF Updates!Unlock
  <2> QED
    BY <2>1
    DEF Updates!UpdateInv, Updates!TypeOK, Updates!FoundNewer,
        Updates!FailureSeen, Updates!Newer, Updates!QueuedSound,
        Updates!Automatic
<1> QED
  BY <1>1, <1>2, <1>3, <1>4

LEMMA UpdateStep ==
    ASSUME Updates!UpdateInv, [Updates!Next]_Updates!vars
    PROVE  Updates!UpdateInv'
<1>1. CASE UNCHANGED Updates!vars
  BY <1>1, QueueKept
  DEF Updates!vars, Updates!UpdateInv, Updates!TypeOK, Updates!FoundNewer,
      Updates!FailureSeen, Updates!Newer
<1>2. ASSUME NEW g \in Gets,
             \/ Updates!GetCached(g) \/ Updates!GetFetches(g) \/ Updates!Fetched(g)
                \/ Updates!FetchFails(g)
             \/ Updates!ReadResult(g) \/ Updates!StatQueue(g) \/ Updates!StatLock(g)
                \/ Updates!AutoLink(g)
      PROVE  Updates!UpdateInv'
  BY <1>2, UpdateAsked, Reading, Linking
<1> QED
  BY <1>1, <1>2, UserActs, FeedMoves, SidecarActs DEF Updates!Next

(* With candidates off the indices kept are those of the finals.           *)
LEMMA FinalsShown ==
    ASSUME Updates!UpdateConstants, Updates!TypeOK
    PROVE  Updates!FinalsNotHidden
<1> USE UpdatesCounts
<1> SUFFICES ASSUME cache # None, NEW i \in 1..Len(cache), ~cache[i].prerelease,
                    cache[i] \notin Updates!Applicable(cache, FALSE)
             PROVE  Cardinality({j \in 1..i - 1 : ~cache[j].prerelease}) >= CheckWindow
  BY DEF Updates!FinalsNotHidden
<1> DEFINE K == Updates!Kept(cache, FALSE)
           earlier == {j \in 1..i - 1 : ~cache[j].prerelease}
<1>0. cache \in Seq(Releases) /\ Len(cache) \in Nat
  BY DEF Updates!TypeOK
<1>1. i \in K
  BY DEF Updates!Kept
<1>2. ~(Cardinality({j \in K : j < i}) < CheckWindow)
  BY <1>1 DEF Updates!Applicable
<1>3. {j \in K : j < i} = earlier
  <2>1. \A j : j \in 1..i - 1 <=> j \in 1..Len(cache) /\ j < i
    BY <1>0
  <2>2. \A j : j \in K <=> j \in 1..Len(cache) /\ ~cache[j].prerelease
    BY DEF Updates!Kept
  <2> QED
    BY <2>1, <2>2
<1>4. IsFiniteSet(earlier)
  <2>1. IsFiniteSet(1..i - 1)
    BY FS_Interval
  <2> QED
    BY <2>1, FS_Subset
<1>5. Cardinality(earlier) \in Nat
  BY <1>4, FS_CardinalityType
<1>6. ~(Cardinality(earlier) < CheckWindow)
  BY <1>2, <1>3
<1> HIDE DEF earlier
<1>7. Cardinality(earlier) >= CheckWindow
  BY <1>5, <1>6 DEF Updates!UpdateConstants
<1> QED
  BY <1>7 DEF earlier

LEMMA UpdateSafe ==
    ASSUME Updates!UpdateConstants
    PROVE  Updates!UpdateInv => Updates!AutoInstallSound
<1> SUFFICES ASSUME Updates!UpdateInv
             PROVE  Updates!AutoMovesUp /\ Updates!AutoStaysQuiet /\ Updates!PrereleaseAsked
  BY FinalsShown DEF Updates!AutoInstallSound, Updates!UpdateInv
<1> QED
  BY DEF Updates!UpdateInv, Updates!QueuedSound, Updates!AutoMovesUp,
     Updates!AutoStaysQuiet, Updates!PrereleaseAsked

(* For any releases, any feed and any checks that overlap, what is         *)
(* installed by itself moves up, was asked for and does not follow a       *)
(* failure (lib/update-check.ts).                                          *)
THEOREM AutoInstallsAreSound ==
    ASSUME Updates!UpdateConstants
    PROVE  Updates!Spec => []Updates!AutoInstallSound
<1>1. Updates!Init => Updates!UpdateInv
  BY FirstCheck
<1>2. Updates!UpdateInv /\ [Updates!Next]_Updates!vars => Updates!UpdateInv'
  BY UpdateStep
<1>3. Updates!UpdateInv => Updates!AutoInstallSound
  BY UpdateSafe
<1> QED
  BY <1>1, <1>2, <1>3, PTL DEF Updates!Spec

-----------------------------------------------------------------------------
(* Plugins.  A module that a page is about to run was linked in the        *)
(* generation of an install that somebody enabled.                         *)
(* What an install or uninstall has left names its next write.             *)
LEMMA Lefts ==
    /\ Head(Plugs!Installing) = "copy" /\ Tail(Plugs!Installing) = Plugs!ToList
       /\ Plugs!Installing # <<>>
    /\ Head(Plugs!ToList) = "list" /\ Tail(Plugs!ToList) = Plugs!ToDisable
       /\ Plugs!ToList # <<>>
    /\ Head(Plugs!ToDisable) = "disable" /\ Tail(Plugs!ToDisable) = Plugs!ToInvalidate
       /\ Plugs!ToDisable # <<>>
    /\ Head(Plugs!Uninstalling) = "remove" /\ Tail(Plugs!Uninstalling) = Plugs!ToUnlist
       /\ Plugs!Uninstalling # <<>>
    /\ Head(Plugs!ToUnlist) = "unlist" /\ Tail(Plugs!ToUnlist) = Plugs!ToForget
       /\ Plugs!ToUnlist # <<>>
    /\ Head(Plugs!ToForget) = "forget" /\ Tail(Plugs!ToForget) = Plugs!ToInvalidate
       /\ Plugs!ToForget # <<>>
    /\ Head(Plugs!ToInvalidate) = "invalidate" /\ Tail(Plugs!ToInvalidate) = <<>>
       /\ Plugs!ToInvalidate # <<>>
BY DEF Plugs!Installing, Plugs!ToList, Plugs!ToDisable, Plugs!Uninstalling,
   Plugs!ToUnlist, Plugs!ToForget, Plugs!ToInvalidate

LEMMA NextNamed ==
    ASSUME Plugs!TypeOK, NEW w, Plugs!Write(w)
    PROVE  /\ w = "copy" => job = Plugs!Installing /\ job' = Plugs!ToList
           /\ w = "list" => job = Plugs!ToList /\ job' = Plugs!ToDisable
           /\ w = "disable" => job = Plugs!ToDisable /\ job' = Plugs!ToInvalidate
           /\ w = "remove" => job = Plugs!Uninstalling /\ job' = Plugs!ToUnlist
           /\ w = "unlist" => job = Plugs!ToUnlist /\ job' = Plugs!ToForget
           /\ w = "forget" => job = Plugs!ToForget /\ job' = Plugs!ToInvalidate
           /\ w = "invalidate" => job = Plugs!ToInvalidate /\ job' = <<>>
           /\ UNCHANGED <<modules, page, consent, installs, torn>>
<1>1. /\ job # <<>> /\ Head(job) = w /\ job' = Tail(job)
      /\ UNCHANGED <<modules, page, consent, installs, torn>>
  BY DEF Plugs!Write
<1>2. job \in {<<>>, Plugs!Installing, Plugs!ToList, Plugs!ToDisable, Plugs!Uninstalling, Plugs!ToUnlist, Plugs!ToForget, Plugs!ToInvalidate}
  BY DEF Plugs!TypeOK
<1> QED
  BY <1>1, <1>2, Lefts

(* The eight are different.                                                *)
LEMMA LeftsDiffer ==
    /\ Plugs!Installing \notin {<<>>, Plugs!ToList, Plugs!ToDisable, Plugs!Uninstalling, Plugs!ToUnlist, Plugs!ToForget, Plugs!ToInvalidate}
    /\ Plugs!ToList \notin {<<>>, Plugs!ToDisable, Plugs!Uninstalling, Plugs!ToUnlist, Plugs!ToForget, Plugs!ToInvalidate}
    /\ Plugs!ToDisable \notin {<<>>, Plugs!Uninstalling, Plugs!ToUnlist, Plugs!ToForget, Plugs!ToInvalidate}
    /\ Plugs!Uninstalling \notin {<<>>, Plugs!ToUnlist, Plugs!ToForget, Plugs!ToInvalidate}
    /\ Plugs!ToUnlist \notin {<<>>, Plugs!ToForget, Plugs!ToInvalidate}
    /\ Plugs!ToForget \notin {<<>>, Plugs!ToInvalidate}
    /\ Plugs!ToInvalidate # <<>>
BY Lefts, \A x, y : Head(x) # Head(y) => x # y

LEMMA NothingInstalled == Plugs!Init => Plugs!PluginsInv
<1> SUFFICES ASSUME Plugs!Init PROVE Plugs!PluginsInv
  OBVIOUS
<1>1. /\ job = <<>> /\ registry = None /\ disk = None /\ enabled = FALSE /\ gen = 0
         /\ cache = None
      /\ installs = 0 /\ torn = 0
      /\ DOMAIN modules.linked = {}
      /\ DOMAIN page = PluginPages /\ \A p \in PluginPages : page[p].at = "idle"
         /\ page[p].gen = 0
  BY DEF Plugs!Init, Plugs!NoModules, Plugs!NoPage
<1>2. 0 \in Nat /\ FALSE \in BOOLEAN /\ 0 \in 0 .. 0
  OBVIOUS
<1>3. Plugs!TypeOK
  BY <1>1, <1>2 DEF Plugs!TypeOK
<1>4. Plugs!DiskListed /\ Plugs!LoadedCurrent
  BY <1>1, LeftsDiffer
  DEF Plugs!DiskListed, Plugs!LoadedCurrent, Plugs!Undisturbed
<1>5. Plugs!PrefMeant
  BY <1>1 DEF Plugs!PrefMeant
<1> QED
  BY <1>3, <1>4, <1>5 DEF Plugs!PluginsInv

LEMMA PluginBegins ==
    ASSUME Plugs!PluginsInv, Plugs!Install \/ Plugs!Uninstall
    PROVE  Plugs!PluginsInv'
<1>1. /\ job = <<>> /\ installs' \in Nat
      /\ \/ registry = None /\ job' = Plugs!Installing
         \/ registry # None /\ job' = Plugs!Uninstalling
      /\ UNCHANGED <<disk, registry, enabled, gen, cache, modules, page, consent, torn>>
  BY DEF Plugs!Install, Plugs!Uninstall, Plugs!Awake, Plugs!PluginsInv,
     Plugs!TypeOK, Plugs!Installing, Plugs!Uninstalling
<1>2. ~Plugs!Awake'
  BY <1>1, LeftsDiffer DEF Plugs!Awake
<1>3. Plugs!TypeOK' /\ Plugs!LoadedCurrent'
  BY <1>1, <1>2 DEF Plugs!PluginsInv, Plugs!TypeOK, Plugs!LoadedCurrent
<1>4. Plugs!DiskListed'
  BY <1>1, LeftsDiffer DEF Plugs!PluginsInv, Plugs!DiskListed
<1>5. Plugs!PrefMeant'
  BY <1>1, <1>2, LeftsDiffer DEF Plugs!PluginsInv, Plugs!PrefMeant
<1> QED
  BY <1>3, <1>4, <1>5 DEF Plugs!PluginsInv

LEMMA Writes ==
    ASSUME Plugs!PluginsInv,
           Plugs!Copy \/ Plugs!Remove \/ Plugs!List \/ Plugs!Unlist \/ Plugs!Disable
    PROVE  Plugs!PluginsInv'
<1> USE DEF Plugs!PluginsInv
<1>1. CASE Plugs!Copy
  <2>1. /\ job = Plugs!Installing /\ job' = Plugs!ToList /\ disk' = installs
        /\ UNCHANGED <<registry, enabled, gen, cache, modules, page, consent, installs, torn>>
    BY <1>1, NextNamed DEF Plugs!Copy
  <2> QED
    BY <2>1, LeftsDiffer
    DEF Plugs!Awake, Plugs!TypeOK, Plugs!DiskListed, Plugs!LoadedCurrent,
        Plugs!PrefMeant, Plugs!Undisturbed
<1>2. CASE Plugs!Remove
  <2>1. /\ job = Plugs!Uninstalling /\ job' = Plugs!ToUnlist /\ disk' \in {None, disk}
        /\ UNCHANGED <<registry, enabled, gen, cache, modules, page, consent, installs, torn>>
    BY <1>2, NextNamed DEF Plugs!Remove
  <2> QED
    BY <2>1, LeftsDiffer
    DEF Plugs!Awake, Plugs!TypeOK, Plugs!DiskListed, Plugs!LoadedCurrent,
        Plugs!PrefMeant, Plugs!Undisturbed
<1>3. CASE Plugs!List
  <2>1. /\ job = Plugs!ToList /\ job' = Plugs!ToDisable /\ registry' = installs
        /\ UNCHANGED <<disk, enabled, gen, cache, modules, page, consent, installs, torn>>
    BY <1>3, NextNamed DEF Plugs!List
  <2> QED
    BY <2>1, LeftsDiffer
    DEF Plugs!Awake, Plugs!TypeOK, Plugs!DiskListed, Plugs!LoadedCurrent,
        Plugs!PrefMeant, Plugs!Undisturbed
<1>4. CASE Plugs!Unlist
  <2>1. /\ job = Plugs!ToUnlist /\ job' = Plugs!ToForget /\ registry' = None
        /\ UNCHANGED <<disk, enabled, gen, cache, modules, page, consent, installs, torn>>
    BY <1>4, NextNamed DEF Plugs!Unlist
  <2> QED
    BY <2>1, LeftsDiffer
    DEF Plugs!Awake, Plugs!TypeOK, Plugs!DiskListed, Plugs!LoadedCurrent,
        Plugs!PrefMeant, Plugs!Undisturbed
<1>5. CASE Plugs!Disable
  <2>1. /\ job \in {Plugs!ToDisable, Plugs!ToForget} /\ job' = Plugs!ToInvalidate
           /\ enabled' = FALSE
        /\ UNCHANGED <<disk, registry, gen, cache, modules, page, consent, installs, torn>>
    BY <1>5, NextNamed DEF Plugs!Disable
  <2> QED
    BY <2>1, LeftsDiffer
    DEF Plugs!Awake, Plugs!TypeOK, Plugs!DiskListed, Plugs!LoadedCurrent,
        Plugs!PrefMeant, Plugs!Undisturbed
<1> QED
  BY <1>1, <1>2, <1>3, <1>4, <1>5

(* A new generation: nothing that was loaded or opened belongs to it.      *)
LEMMA Invalidates ==
    ASSUME Plugs!PluginsInv, Plugs!Invalidate
    PROVE  Plugs!PluginsInv'
<1>1. /\ job = Plugs!ToInvalidate /\ job' = <<>> /\ gen' = gen + 1 /\ cache' = None
      /\ UNCHANGED <<disk, registry, enabled, modules, page, consent, installs, torn>>
  BY NextNamed DEF Plugs!Invalidate, Plugs!PluginsInv
<1>2. /\ \A p \in PluginPages : page[p].gen \in 0 .. gen' /\ page[p].gen # gen'
      /\ \A g \in DOMAIN modules.linked : g \in 0 .. gen' /\ g # gen'
      /\ gen' \in Nat
  BY <1>1 DEF Plugs!PluginsInv, Plugs!TypeOK
<1> QED
  BY <1>1, <1>2, LeftsDiffer
  DEF Plugs!PluginsInv, Plugs!TypeOK, Plugs!DiskListed, Plugs!LoadedCurrent,
      Plugs!PrefMeant, Plugs!Undisturbed

LEMMA Toggles ==
    ASSUME Plugs!PluginsInv, NEW on \in BOOLEAN, Plugs!Toggle(on)
    PROVE  Plugs!PluginsInv'
<1>1. /\ job = <<>> /\ registry # None /\ enabled' = on
      /\ consent' = IF on THEN consent \cup {registry} ELSE consent
      /\ UNCHANGED <<disk, registry, gen, cache, modules, job, page, installs, torn>>
  BY DEF Plugs!Toggle, Plugs!Awake
<1> QED
  BY <1>1, LeftsDiffer
  DEF Plugs!PluginsInv, Plugs!TypeOK, Plugs!DiskListed, Plugs!LoadedCurrent,
      Plugs!PrefMeant, Plugs!Undisturbed, Plugs!Awake

(* A page that begins or ends, in a state that is otherwise the same.      *)
LEMMA PageTurns ==
    ASSUME Plugs!PluginsInv, Plugs!Awake, NEW p \in PluginPages,
           DOMAIN page' = PluginPages, \A q \in PluginPages : q # p => page'[q] = page[q],
           page'[p].gen \in 0 .. gen, page'[p].at = "run" => page'[p].entry # None,
           page'[p].at = "run" /\ page'[p].gen = gen => page'[p].entry = disk,
           page'[p].at # "idle" /\ page'[p].gen = gen /\ torn < 2 =>
             registry # None /\ registry \in consent,
           UNCHANGED <<disk, registry, enabled, gen, job, consent, installs, torn>>
    PROVE  /\ DOMAIN page' = PluginPages
           /\ \A q \in PluginPages : page'[q].gen \in 0 .. gen'
           /\ \A q \in PluginPages : page'[q].at = "run" => page'[q].entry # None
           /\ \A q \in PluginPages : Plugs!Undisturbed(q)' => page'[q].entry = disk'
           /\ torn' < 2 => \A q \in PluginPages : page'[q].at # "idle" /\ page'[q].gen = gen' =>
                registry' # None /\ registry' \in consent'
BY DEF Plugs!PluginsInv, Plugs!TypeOK, Plugs!LoadedCurrent, Plugs!PrefMeant,
   Plugs!Undisturbed, Plugs!Awake

LEMMA Opens ==
    ASSUME Plugs!PluginsInv, NEW p \in PluginPages, Plugs!Open(p)
    PROVE  Plugs!PluginsInv'
<1>1. /\ Plugs!Awake /\ registry # None /\ enabled
      /\ UNCHANGED <<disk, registry, enabled, gen, cache, modules, job, consent, installs, torn>>
  BY DEF Plugs!Open
<1>2. torn < 2 => registry \in consent
  BY <1>1, LeftsDiffer DEF Plugs!PluginsInv, Plugs!PrefMeant, Plugs!Awake
<1>3. gen \in 0 .. gen
  BY DEF Plugs!PluginsInv, Plugs!TypeOK
<1>4. /\ DOMAIN page' = PluginPages
      /\ \A q \in PluginPages : page'[q].gen \in 0 .. gen'
      /\ \A q \in PluginPages : page'[q].at = "run" => page'[q].entry # None
      /\ \A q \in PluginPages : Plugs!Undisturbed(q)' => page'[q].entry = disk'
      /\ torn' < 2 => \A q \in PluginPages : page'[q].at # "idle" /\ page'[q].gen = gen' =>
           registry' # None /\ registry' \in consent'
  <2>1. CASE cache # None /\ cache.gen = gen
    <3>1. page' = [page EXCEPT ![p] = [at |-> "run", gen |-> gen, entry |-> cache.entry,
                                       helper |-> cache.helper]]
      BY <2>1 DEF Plugs!Open
    <3>2. cache.entry # None /\ cache.entry = disk
      BY <1>1, <2>1 DEF Plugs!PluginsInv, Plugs!LoadedCurrent
    <3>3. /\ DOMAIN page' = PluginPages /\ \A q \in PluginPages : q # p => page'[q] = page[q]
          /\ page'[p].at = "run" /\ page'[p].gen = gen /\ page'[p].entry = cache.entry
      BY <3>1 DEF Plugs!PluginsInv, Plugs!TypeOK
    <3> QED
      BY <1>1, <1>2, <1>3, <3>2, <3>3, PageTurns
  <2>2. CASE ~(cache # None /\ cache.gen = gen)
    <3> DEFINE opened == [Plugs!NoPage EXCEPT !.at = "import", !.gen = gen]
    <3>0. opened.at = "import" /\ opened.gen = gen
      BY DEF Plugs!NoPage
    <3> DEFINE hit == [at |-> "run", gen |-> gen, entry |-> cache.entry, helper |-> cache.helper]
    <3>1. page' = [page EXCEPT ![p] = IF cache # None /\ cache.gen = gen THEN hit ELSE opened]
      BY DEF Plugs!Open
    <3> HIDE DEF opened, hit
    <3>3. /\ DOMAIN page' = PluginPages /\ \A q \in PluginPages : q # p => page'[q] = page[q]
          /\ page'[p].at = "import" /\ page'[p].gen = gen
      BY <2>2, <3>0, <3>1 DEF Plugs!PluginsInv, Plugs!TypeOK
    <3> QED
      BY <1>1, <1>2, <1>3, <3>3, PageTurns
  <2> QED
    BY <2>1, <2>2
<1> QED
  BY <1>1, <1>4
  DEF Plugs!PluginsInv, Plugs!TypeOK, Plugs!DiskListed, Plugs!LoadedCurrent,
      Plugs!PrefMeant, Plugs!Awake

LEMMA Imports ==
    ASSUME Plugs!PluginsInv, NEW p \in PluginPages, Plugs!Imported(p)
    PROVE  Plugs!PluginsInv'
<1> DEFINE g == page[p].gen
           l == Plugs!Loaded(g)
<1>1. /\ Plugs!Awake /\ page[p].at = "import"
      /\ UNCHANGED <<disk, registry, enabled, gen, job, consent, installs, torn>>
  BY DEF Plugs!Imported
<1>2. g \in 0 .. gen /\ gen \in Nat /\ 0 \in 0 .. gen
  BY DEF Plugs!PluginsInv, Plugs!TypeOK
<1>3. g = gen /\ torn < 2 => registry # None /\ registry \in consent
  BY <1>1 DEF Plugs!PluginsInv, Plugs!PrefMeant
<1>4. l.gen = g /\ (g = gen => l.entry = disk)
  BY <1>1 DEF Plugs!Loaded, Plugs!PluginsInv, Plugs!TypeOK, Plugs!LoadedCurrent
<1>5. CASE l.entry = None
  <2>1. /\ page' = [page EXCEPT ![p]
           = [at |-> "idle", gen |-> 0, entry |-> None, helper |-> None]]
        /\ UNCHANGED <<modules, cache>>
    BY <1>5 DEF Plugs!Imported, Plugs!NoPage
  <2>3. /\ DOMAIN page' = PluginPages /\ \A q \in PluginPages : q # p => page'[q] = page[q]
        /\ page'[p].at = "idle" /\ page'[p].gen = 0
    BY <2>1 DEF Plugs!PluginsInv, Plugs!TypeOK
  <2>2. /\ DOMAIN page' = PluginPages
        /\ \A q \in PluginPages : page'[q].gen \in 0 .. gen'
        /\ \A q \in PluginPages : page'[q].at = "run" => page'[q].entry # None
        /\ \A q \in PluginPages : Plugs!Undisturbed(q)' => page'[q].entry = disk'
        /\ torn' < 2 => \A q \in PluginPages : page'[q].at # "idle" /\ page'[q].gen = gen' =>
             registry' # None /\ registry' \in consent'
    BY <1>1, <1>2, <2>3, PageTurns
  <2> QED
    BY <1>1, <2>1, <2>2
    DEF Plugs!PluginsInv, Plugs!TypeOK, Plugs!DiskListed, Plugs!LoadedCurrent,
        Plugs!PrefMeant, Plugs!Awake
<1>6. CASE l.entry # None
  <2>1. /\ modules' = [linked |-> [x
           \in DOMAIN modules.linked \cup {l.gen} |-> Plugs!Loaded(x)],
                       helper |-> l.helper]
        /\ cache' = l
        /\ page' = [page EXCEPT ![p]
           = [at |-> "run", gen |-> l.gen, entry |-> l.entry, helper |-> l.helper]]
    BY <1>6 DEF Plugs!Imported
  <2>2. /\ DOMAIN modules'.linked = DOMAIN modules.linked \cup {g}
        /\ \A x \in DOMAIN modules'.linked : modules'.linked[x] = Plugs!Loaded(x)
    BY <1>4, <2>1
  <2>3. \A x : Plugs!Loaded(x).gen
          = IF x \in DOMAIN modules.linked THEN modules.linked[x].gen ELSE x
    BY DEF Plugs!Loaded
  <2>9. \A x : Plugs!Loaded(x).entry
          = IF x \in DOMAIN modules.linked THEN modules.linked[x].entry ELSE disk
    BY DEF Plugs!Loaded
  <2>10. gen \in DOMAIN modules.linked => modules.linked[gen].entry = disk
    BY <1>1 DEF Plugs!PluginsInv, Plugs!LoadedCurrent
  <2>4. gen \in DOMAIN modules'.linked => modules'.linked[gen].entry = disk
    BY <2>2, <2>9, <2>10
  <2>5. \A x \in DOMAIN modules'.linked : x \in 0 .. gen' /\ modules'.linked[x].gen = x
    BY <1>1, <1>2, <2>2, <2>3 DEF Plugs!PluginsInv, Plugs!TypeOK
  <2> HIDE DEF l
  <2>8. /\ DOMAIN page' = PluginPages /\ \A q \in PluginPages : q # p => page'[q] = page[q]
        /\ page'[p].at = "run" /\ page'[p].gen = l.gen /\ page'[p].entry = l.entry
    BY <2>1 DEF Plugs!PluginsInv, Plugs!TypeOK
  <2>6. /\ DOMAIN page' = PluginPages
        /\ \A q \in PluginPages : page'[q].gen \in 0 .. gen'
        /\ \A q \in PluginPages : page'[q].at = "run" => page'[q].entry # None
        /\ \A q \in PluginPages : Plugs!Undisturbed(q)' => page'[q].entry = disk'
        /\ torn' < 2 => \A q \in PluginPages : page'[q].at # "idle" /\ page'[q].gen = gen' =>
             registry' # None /\ registry' \in consent'
    BY <1>1, <1>2, <1>3, <1>4, <1>6, <2>8, PageTurns
  <2>7. /\ cache' # None => cache'.gen \in 0 .. gen'
        /\ cache' # None => cache'.entry # None
        /\ cache' # None /\ cache'.gen = gen' => cache'.entry = disk'
    BY <1>1, <1>2, <1>4, <1>6, <2>1
  <2> QED
    BY <1>1, <2>4, <2>5, <2>6, <2>7
    DEF Plugs!PluginsInv, Plugs!TypeOK, Plugs!DiskListed, Plugs!LoadedCurrent,
        Plugs!PrefMeant, Plugs!Awake
<1> QED
  BY <1>5, <1>6

LEMMA Answers ==
    ASSUME Plugs!PluginsInv, NEW p \in PluginPages, Plugs!Answered(p)
    PROVE  Plugs!PluginsInv'
<1>1. /\ Plugs!Awake
         /\ page' = [page EXCEPT ![p] = [at |-> "idle", gen |-> 0, entry |-> None, helper |-> None]]
      /\ UNCHANGED <<disk, registry, enabled, gen, cache, modules, job, consent, installs, torn>>
  BY DEF Plugs!Answered, Plugs!NoPage
<1>2. 0 \in 0 .. gen
  BY DEF Plugs!PluginsInv, Plugs!TypeOK
<1>4. /\ DOMAIN page' = PluginPages /\ \A q \in PluginPages : q # p => page'[q] = page[q]
      /\ page'[p].at = "idle" /\ page'[p].gen = 0
  BY <1>1 DEF Plugs!PluginsInv, Plugs!TypeOK
<1>3. /\ DOMAIN page' = PluginPages
      /\ \A q \in PluginPages : page'[q].gen \in 0 .. gen'
      /\ \A q \in PluginPages : page'[q].at = "run" => page'[q].entry # None
      /\ \A q \in PluginPages : Plugs!Undisturbed(q)' => page'[q].entry = disk'
      /\ torn' < 2 => \A q \in PluginPages : page'[q].at # "idle" /\ page'[q].gen = gen' =>
           registry' # None /\ registry' \in consent'
  BY <1>1, <1>2, <1>4, PageTurns
<1> QED
  BY <1>1, <1>3
  DEF Plugs!PluginsInv, Plugs!TypeOK, Plugs!DiskListed, Plugs!LoadedCurrent,
      Plugs!PrefMeant, Plugs!Awake

LEMMA WebStops == ASSUME Plugs!PluginsInv, Plugs!Crash PROVE Plugs!PluginsInv'
<1>1. /\ torn' = (IF job = <<>> THEN torn ELSE torn + 1)
      /\ gen' = 0 /\ cache' = None /\ job' = <<>>
      /\ DOMAIN modules'.linked = {} /\ DOMAIN page' = PluginPages
      /\ \A p \in PluginPages : page'[p].at = "idle" /\ page'[p].gen = 0
      /\ UNCHANGED <<disk, registry, enabled, consent, installs>>
  BY DEF Plugs!Crash, Plugs!NoModules, Plugs!NoPage
<1>2. Plugs!TypeOK'
  BY <1>1 DEF Plugs!PluginsInv, Plugs!TypeOK
<1>3. Plugs!DiskListed' /\ Plugs!LoadedCurrent'
  BY <1>1, LeftsDiffer
  DEF Plugs!PluginsInv, Plugs!DiskListed, Plugs!LoadedCurrent, Plugs!Undisturbed
<1>4. Plugs!PrefMeant'
  BY <1>1, LeftsDiffer DEF Plugs!PluginsInv, Plugs!TypeOK, Plugs!PrefMeant
<1> QED
  BY <1>2, <1>3, <1>4 DEF Plugs!PluginsInv

LEMMA PluginsStep ==
    ASSUME Plugs!PluginsInv, [Plugs!Next]_Plugs!vars
    PROVE  Plugs!PluginsInv'
<1>1. CASE UNCHANGED Plugs!vars
  BY <1>1
  DEF Plugs!vars, Plugs!PluginsInv, Plugs!TypeOK, Plugs!DiskListed,
      Plugs!LoadedCurrent, Plugs!PrefMeant, Plugs!Undisturbed, Plugs!Awake
<1> QED
  BY <1>1, PluginBegins, Writes, Invalidates, Toggles, Opens, Imports, Answers,
     WebStops
  DEF Plugs!Next

LEMMA PluginsSafe == Plugs!PluginsInv => Plugs!PluginsSound
<1> SUFFICES ASSUME Plugs!PluginsInv, NEW p \in PluginPages, Plugs!Undisturbed(p)
             PROVE  /\ torn < 2 => page[p].entry \in consent
                    /\ disk = registry => page[p].entry = registry
  BY DEF Plugs!PluginsSound, Plugs!Consented, Plugs!EntryCurrent
<1>1. page[p].entry = disk /\ page[p].entry # None
  BY DEF Plugs!PluginsInv, Plugs!LoadedCurrent, Plugs!Undisturbed
<1>2. torn < 2 => registry # None /\ registry \in consent
  BY DEF Plugs!PluginsInv, Plugs!PrefMeant, Plugs!Undisturbed
<1> QED
  BY <1>1, <1>2 DEF Plugs!PluginsInv, Plugs!DiskListed

(* For any pages that overlap installs and crashes of the web process, the *)
(* code of a plugin runs only in a version that somebody enabled, and in   *)
(* the version installed (lib/plugins.ts).                                 *)
THEOREM PluginsAreSound ==
    Plugs!Spec => []Plugs!PluginsSound
<1>1. Plugs!Init => Plugs!PluginsInv
  BY NothingInstalled
<1>2. Plugs!PluginsInv /\ [Plugs!Next]_Plugs!vars => Plugs!PluginsInv'
  BY PluginsStep
<1>3. Plugs!PluginsInv => Plugs!PluginsSound
  BY PluginsSafe
<1> QED
  BY <1>1, <1>2, <1>3, PTL DEF Plugs!Spec

-----------------------------------------------------------------------------
(* TelegramAlerts.  What was told is what the ticks so far have read.      *)
LEMMA IdleType == Alerts!NoWallet \in Alerts!Wallets /\ Alerts!Idle \in Alerts!Wallets
<1>1. {} \in SUBSET Nat
  OBVIOUS
<1>2. Alerts!NoWallet \in Alerts!Wallets
  BY <1>1 DEF Alerts!NoWallet, Alerts!Wallets
<1>3. -1 \in Int
  OBVIOUS
<1>4. [Alerts!NoWallet EXCEPT !.balance = -1] \in Alerts!Wallets
  BY <1>2, <1>3 DEF Alerts!Wallets
<1> QED
  BY <1>2, <1>4 DEF Alerts!Idle

LEMMA FreshType ==
    Alerts!FreshState \in [init : BOOLEAN, online : BOOLEAN, failures : Nat, balance : Int,
                    blocks : Nat, txs : SUBSET Nat, behind : BOOLEAN]
<1>1. {} \in SUBSET Nat
  OBVIOUS
<1> QED
  BY <1>1 DEF Alerts!FreshState

LEMMA AlertsInit ==
    ASSUME Alerts!AlertsConstants
    PROVE  Alerts!Init => Alerts!AlertsInv
<1> SUFFICES ASSUME Alerts!Init PROVE Alerts!AlertsInv
  OBVIOUS
<1>1. Alerts!TypeOK
  BY IdleType, FreshType DEF Alerts!Init, Alerts!TypeOK, Alerts!NothingTold
<1> QED
  BY <1>1
  DEF Alerts!AlertsConstants, Alerts!Init, Alerts!AlertsInv, Alerts!AlarmsPaired,
      Alerts!AlarmAtThreshold, Alerts!BlocksInOrder,
              Alerts!SyncFollowed, Alerts!Idle, Alerts!NoWallet, Alerts!FreshState, Alerts!NothingTold

LEMMA OneCounts == \A topic, condition : Alerts!One(topic, condition) \in {0, 1}
BY DEF Alerts!One

LEMMA Paid ==
    ASSUME NEW w \in Alerts!Wallets, NEW b \in Int, NEW T \in SUBSET Nat
    PROVE  /\ [w EXCEPT !.balance = b, !.txs = T] \in Alerts!Wallets
           /\ [w EXCEPT !.balance = b, !.txs = T].blocks = w.blocks
BY DEF Alerts!Wallets

LEMMA Mined ==
    ASSUME NEW w \in Alerts!Wallets, NEW b \in Int, NEW n \in Nat
    PROVE  /\ [w EXCEPT !.blocks = n, !.balance = b] \in Alerts!Wallets
           /\ [w EXCEPT !.blocks = n, !.balance = b].blocks = n
BY DEF Alerts!Wallets

LEMMA Turned ==
    ASSUME NEW w \in Alerts!Wallets, NEW h \in BOOLEAN
    PROVE  /\ [w EXCEPT !.behind = h] \in Alerts!Wallets
           /\ [w EXCEPT !.behind = h].blocks = w.blocks
BY DEF Alerts!Wallets

(* A step of the wallet: blocks are only added.                            *)
LEMMA AlertsEvent ==
    ASSUME Alerts!AlertsInv, Alerts!Event
    PROVE  Alerts!AlertsInv'
<1> USE DEF Alerts!AlertsInv
<1>1. wallet' \in Alerts!Wallets /\ wallet'.blocks >= wallet.blocks /\ events' \in Nat
  <2> DEFINE more == wallet.balance + 1
             less == wallet.balance - 1
             mined == wallet.blocks + 1
             txs == wallet.txs \cup {events'}
             other == ~wallet.behind
  <2>0. events' = events + 1 /\ events' \in Nat
    BY DEF Alerts!Event, Alerts!TypeOK
  <2>1. /\ wallet \in Alerts!Wallets /\ wallet.balance \in Int /\ wallet.blocks \in Nat
        /\ wallet.txs \in SUBSET Nat /\ wallet.behind \in BOOLEAN
    BY DEF Alerts!TypeOK, Alerts!Wallets
  <2>2. /\ more \in Int /\ less \in Int /\ mined \in Nat /\ txs \in SUBSET Nat
        /\ mined >= wallet.blocks /\ wallet.blocks >= wallet.blocks /\ other \in BOOLEAN
    BY <2>0, <2>1
  <2>3. wallet' \in {[wallet EXCEPT !.balance = more, !.txs = txs],
                    [wallet EXCEPT !.blocks = mined, !.balance = more],
                    [wallet EXCEPT !.behind = other],
                    [wallet EXCEPT !.balance = less, !.txs = txs]}
    BY DEF Alerts!Event
  <2> HIDE DEF more, less, mined, txs, other
  <2>4. CASE wallet' = [wallet EXCEPT !.balance = more, !.txs = txs]
    <3>1. /\ [wallet EXCEPT !.balance = more, !.txs = txs] \in Alerts!Wallets
          /\ [wallet EXCEPT !.balance = more, !.txs = txs].blocks = wallet.blocks
      BY <2>1, <2>2, Paid
    <3> QED
      BY <2>0, <2>2, <2>4, <3>1
  <2>5. CASE wallet' = [wallet EXCEPT !.blocks = mined, !.balance = more]
    <3>1. /\ [wallet EXCEPT !.blocks = mined, !.balance = more] \in Alerts!Wallets
          /\ [wallet EXCEPT !.blocks = mined, !.balance = more].blocks = mined
      BY <2>1, <2>2, Mined
    <3> QED
      BY <2>0, <2>2, <2>5, <3>1
  <2>6. CASE wallet' = [wallet EXCEPT !.behind = other]
    <3>1. /\ [wallet EXCEPT !.behind = other] \in Alerts!Wallets
          /\ [wallet EXCEPT !.behind = other].blocks = wallet.blocks
      BY <2>1, <2>2, Turned
    <3> QED
      BY <2>0, <2>2, <2>6, <3>1
  <2>7. CASE wallet' = [wallet EXCEPT !.balance = less, !.txs = txs]
    <3>1. /\ [wallet EXCEPT !.balance = less, !.txs = txs] \in Alerts!Wallets
          /\ [wallet EXCEPT !.balance = less, !.txs = txs].blocks = wallet.blocks
      BY <2>1, <2>2, Paid
    <3> QED
      BY <2>0, <2>2, <2>7, <3>1
  <2> QED
    BY <2>3, <2>4, <2>5, <2>6, <2>7
<1>2. wallet.blocks \in Nat /\ wallet'.blocks \in Nat /\ tick.blocks \in Nat
  BY <1>1 DEF Alerts!TypeOK, Alerts!Wallets
<1>3. UNCHANGED <<tick, known, base, told>>
  BY DEF Alerts!Event
<1>4. Alerts!TypeOK'
  BY <1>1, <1>3 DEF Alerts!TypeOK
<1>5. Alerts!BlocksInOrder'
  BY <1>1, <1>2, <1>3 DEF Alerts!TypeOK, Alerts!BlocksInOrder
<1> QED
  BY <1>3, <1>4, <1>5
  DEF Alerts!AlarmsPaired, Alerts!AlarmAtThreshold, Alerts!SyncFollowed

LEMMA AlertsBegin ==
    ASSUME Alerts!AlertsConstants, Alerts!AlertsInv, Alerts!Begin
    PROVE  Alerts!AlertsInv'
<1> USE DEF Alerts!AlertsInv, Alerts!TypeOK
<1>1. tick' = wallet /\ UNCHANGED <<wallet, events>>
  BY DEF Alerts!Begin
<1>2. wallet.blocks \in Nat
  BY DEF Alerts!Wallets
<1>3. CASE fresh
  <2>1. known' = Alerts!FreshState /\ base' = wallet.blocks /\ told' = Alerts!NothingTold
    BY <1>3 DEF Alerts!Begin
  <2>2. Alerts!TypeOK'
    BY <1>1, <1>2, <2>1, FreshType DEF Alerts!NothingTold
  <2> QED
    BY <1>1, <1>2, <2>1, <2>2
    DEF Alerts!AlertsConstants, Alerts!AlarmsPaired, Alerts!AlarmAtThreshold,
        Alerts!BlocksInOrder,
                                  Alerts!SyncFollowed, Alerts!FreshState, Alerts!NothingTold
<1>4. CASE ~fresh
  <2>1. UNCHANGED <<known, base, told>>
    BY <1>4 DEF Alerts!Begin
  <2> QED
    BY <1>1, <1>2, <2>1
    DEF Alerts!AlarmsPaired, Alerts!AlarmAtThreshold, Alerts!BlocksInOrder,
        Alerts!SyncFollowed
<1> QED
  BY <1>3, <1>4

LEMMA AlertsTickFails ==
    ASSUME Alerts!AlertsConstants, Alerts!AlertsInv, Alerts!TickFails
    PROVE  Alerts!AlertsInv'
<1> DEFINE one == Alerts!One("offline", Alerts!Alarm)
<1> USE DEF Alerts!AlertsInv
<1> DEFINE online == known.online /\ ~Alerts!Alarm
<1>1. /\ tick' = Alerts!Idle /\ UNCHANGED <<wallet, base, events>>
      /\ known' = [known EXCEPT !.failures = @ + 1, !.online = online]
      /\ told' = [told EXCEPT !.offline = @ + one]
  BY DEF Alerts!TickFails
<1>2. one \in {0, 1} /\ online \in BOOLEAN
  BY OneCounts
<1>0. online <=> known.online /\ ~Alerts!Alarm
  OBVIOUS
<1> HIDE DEF online
<1>3. Alerts!TypeOK'
  <2>1. tick' \in Alerts!Wallets
    BY <1>1, IdleType
  <2>2. told' \in [offline : Nat, online : Nat, blocks : Nat, received : Nat,
                   confirmed : Nat, behind : Nat, synced : Nat]
    BY <1>1, <1>2 DEF Alerts!TypeOK
  <2>3. known' \in [init : BOOLEAN, online : BOOLEAN, failures : Nat, balance : Int,
                    blocks : Nat, txs : SUBSET Nat, behind : BOOLEAN]
    <3> DEFINE failures == known.failures + 1
    <3>1. failures \in Nat /\ known' = [known EXCEPT !.failures = failures, !.online = online]
      BY <1>1 DEF Alerts!TypeOK
    <3> HIDE DEF failures
    <3> QED
      BY <1>2, <3>1 DEF Alerts!TypeOK
  <2> QED
    BY <1>1, <2>1, <2>2, <2>3 DEF Alerts!TypeOK
<1>4. /\ known'.failures = known.failures + 1 /\ known'.online = online
      /\ known'.init = known.init /\ known'.blocks = known.blocks
      /\ known'.behind = known.behind
  BY <1>1 DEF Alerts!TypeOK
<1>5. /\ told'.offline = told.offline + one /\ told'.online = told.online
      /\ told'.blocks = told.blocks /\ told'.behind = told.behind /\ told'.synced = told.synced
  BY <1>1 DEF Alerts!TypeOK
<1>6. Alerts!AlarmAtThreshold'
  BY <1>0, <1>4
  DEF Alerts!AlertsConstants, Alerts!AlarmAtThreshold, Alerts!Alarm,
      Alerts!TypeOK
<1>7. Alerts!AlarmsPaired'
  <2> SUFFICES ASSUME "offline" \in Kinds
               PROVE  told'.offline - told'.online = IF known'.online THEN 0 ELSE 1
    BY DEF Alerts!AlarmsPaired
  <2>1. one = IF Alerts!Alarm THEN 1 ELSE 0
    BY DEF Alerts!One
  <2>2. Alerts!Alarm => known.online
    BY DEF Alerts!AlertsConstants, Alerts!AlarmAtThreshold, Alerts!Alarm,
       Alerts!TypeOK
  <2>3. told.offline - told.online = IF known.online THEN 0 ELSE 1
    BY DEF Alerts!AlarmsPaired
  <2>4. told.offline \in Nat /\ told.online \in Nat
    BY DEF Alerts!TypeOK
  <2> HIDE DEF one
  <2> QED
    BY <1>0, <1>4, <1>5, <2>1, <2>2, <2>3, <2>4
<1>8. Alerts!BlocksInOrder'
  BY <1>1, <1>4, <1>5 DEF Alerts!BlocksInOrder
<1>9. Alerts!SyncFollowed'
  BY <1>4, <1>5 DEF Alerts!SyncFollowed
<1> QED
  BY <1>3, <1>6, <1>7, <1>8, <1>9

(* What a tick reads lies between what it began with and what is there.    *)
LEMMA ReadingsNow ==
    ASSUME Alerts!AlertsConstants, Alerts!AlertsInv, tick # Alerts!Idle,
           NEW r \in Alerts!Readings
    PROVE  /\ r.balance \in Int /\ r.blocks \in Nat /\ r.txs \in SUBSET Nat
              /\ r.behind \in BOOLEAN
           /\ base <= r.blocks /\ known.blocks <= r.blocks /\ r.blocks <= wallet.blocks
<1> USE DEF Alerts!AlertsInv
<1>1. /\ r.balance \in {tick.balance, wallet.balance}
         /\ r.blocks \in {tick.blocks, wallet.blocks}
      /\ r.txs \in {tick.txs, wallet.txs} /\ r.behind \in {tick.behind, wallet.behind}
  BY DEF Alerts!AlertsConstants, Alerts!Readings
<1>2. /\ tick.balance \in Int /\ tick.blocks \in Nat /\ tick.txs \in SUBSET Nat
         /\ tick.behind \in BOOLEAN
      /\ wallet.balance \in Int /\ wallet.blocks \in Nat /\ wallet.txs \in SUBSET Nat
      /\ wallet.behind \in BOOLEAN
  BY DEF Alerts!TypeOK, Alerts!Wallets
<1>3. /\ base <= wallet.blocks /\ known.blocks <= wallet.blocks
      /\ base <= tick.blocks /\ known.blocks <= tick.blocks /\ tick.blocks <= wallet.blocks
  BY DEF Alerts!BlocksInOrder
<1> QED
  BY <1>1, <1>2, <1>3

Tallies == [offline : Nat, online : Nat, blocks : Nat, received : Nat,
            confirmed : Nat, behind : Nat, synced : Nat]

LEMMA AlertsTickAnswered ==
    ASSUME Alerts!AlertsConstants, Alerts!AlertsInv, Alerts!TickAnswered
    PROVE  Alerts!AlertsInv'
<1> USE DEF Alerts!AlertsInv
<1>1. PICK r \in Alerts!Readings :
         /\ known' = Alerts!Noted(r)
         /\ told' = IF known.init THEN Alerts!Compared(r)
                    ELSE [told EXCEPT !.online = @ + Alerts!One("offline", ~known.online)]
  BY DEF Alerts!TickAnswered
<1>2. tick # Alerts!Idle /\ tick' = Alerts!Idle /\ UNCHANGED <<wallet, base, events>>
  BY DEF Alerts!TickAnswered
<1>3. /\ r.balance \in Int /\ r.blocks \in Nat /\ r.txs \in SUBSET Nat /\ r.behind \in BOOLEAN
      /\ base <= r.blocks /\ known.blocks <= r.blocks /\ r.blocks <= wallet.blocks
  BY <1>2, ReadingsNow
<1>4. /\ known'.init /\ known'.online /\ known'.failures = 0 /\ known'.blocks = r.blocks
      /\ known'.behind = r.behind
  BY <1>1 DEF Alerts!Noted
<1>5. /\ known' \in [init : BOOLEAN, online : BOOLEAN, failures : Nat, balance : Int,
                     blocks : Nat, txs : SUBSET Nat, behind : BOOLEAN]
      /\ tick' \in Alerts!Wallets
  BY <1>1, <1>2, <1>3, IdleType DEF Alerts!Noted
<1>6. /\ told.offline \in Nat /\ told.online \in Nat /\ told.blocks \in Nat
      /\ told.behind \in Nat /\ told.synced \in Nat
      /\ known.blocks \in Nat /\ known.behind \in BOOLEAN /\ known.online \in BOOLEAN
         /\ base \in Nat
      /\ known.init \in BOOLEAN
  BY DEF Alerts!TypeOK
<1> DEFINE online == Alerts!One("offline", ~known.online)
           behind == Alerts!One("sync", r.behind /\ ~known.behind)
           synced == Alerts!One("sync", ~r.behind /\ known.behind)
           news == IF "staking" \in Kinds /\ r.blocks - known.blocks > 0
                   THEN r.blocks - known.blocks ELSE 0
<1>7. /\ online \in {0, 1} /\ behind \in {0, 1} /\ synced \in {0, 1} /\ news \in Nat
      /\ news <= r.blocks - known.blocks
  BY <1>3, <1>6, OneCounts
<1>8. CASE known.init
  <2>1. /\ told' \in [offline : Nat, online : Nat, blocks : Nat, received : Nat,
                      confirmed : Nat, behind : Nat, synced : Nat]
        /\ told'.offline = told.offline /\ told'.online = told.online + online
        /\ told'.blocks = told.blocks + news
        /\ told'.behind = told.behind + behind /\ told'.synced = told.synced + synced
    <3> DEFINE incoming == r.balance > known.balance /\ r.blocks - known.blocks = 0
               received == Alerts!One("received", incoming)
               confirmed ==
                 Alerts!One("confirmed", /\ r.txs \ known.txs # {} /\ known.txs # {}
                                         /\ ~(incoming /\ "received" \in Kinds))
    <3>1. told' = [told EXCEPT !.online = @ + online, !.blocks = @ + news,
                     !.received = @ + received, !.confirmed = @ + confirmed,
                     !.behind = @ + behind, !.synced = @ + synced]
      BY <1>1, <1>8 DEF Alerts!Compared
    <3>2. received \in {0, 1} /\ confirmed \in {0, 1}
      BY OneCounts
    <3>3. told \in Tallies
      BY DEF Alerts!TypeOK, Tallies
    <3> DEFINE o == told.online + online
               b == told.blocks + news
               i == told.received + received
               c == told.confirmed + confirmed
               d == told.behind + behind
               u == told.synced + synced
    <3>4. told' = [told EXCEPT !.online = o, !.blocks = b, !.received = i,
                     !.confirmed = c, !.behind = d, !.synced = u]
      BY <3>1
    <3> HIDE DEF received, confirmed, online, behind, synced, news
    <3>5. o \in Nat /\ b \in Nat /\ i \in Nat /\ c \in Nat /\ d \in Nat /\ u \in Nat
      BY <1>7, <3>2, <3>3 DEF Tallies
    <3> HIDE DEF o, b, i, c, d, u
    <3> DEFINE v == [told EXCEPT !.online = o, !.blocks = b, !.received = i,
                       !.confirmed = c, !.behind = d, !.synced = u]
    <3>6. /\ v \in Tallies /\ v.offline = told.offline /\ v.online = o
          /\ v.blocks = b /\ v.behind = d /\ v.synced = u
      BY <3>3, <3>5 DEF Tallies
    <3>7. told' = v
      BY <3>4
    <3> HIDE DEF v
    <3> QED
      BY <3>6, <3>7 DEF Tallies, o, b, d, u
  <2>2. Alerts!TypeOK'
    BY <1>2, <1>5, <2>1 DEF Alerts!TypeOK
  <2>3. Alerts!AlarmsPaired'
    <3> SUFFICES ASSUME "offline" \in Kinds
                 PROVE  told'.offline - told'.online = 0
      BY <1>4 DEF Alerts!AlarmsPaired
    <3>1. online = IF known.online THEN 0 ELSE 1
      BY DEF Alerts!One
    <3> HIDE DEF online
    <3> QED
      BY <1>6, <2>1, <3>1 DEF Alerts!AlarmsPaired
  <2>4. Alerts!AlarmAtThreshold'
    BY <1>4 DEF Alerts!AlertsConstants, Alerts!AlarmAtThreshold
  <2>5. Alerts!BlocksInOrder'
    <3> HIDE DEF news
    <3> QED
      BY <1>2, <1>3, <1>4, <1>6, <1>7, <1>8, <2>1 DEF Alerts!BlocksInOrder
  <2>6. Alerts!SyncFollowed'
    <3>1. CASE "sync" \in Kinds
      <4>1. /\ behind = IF r.behind /\ ~known.behind THEN 1 ELSE 0
            /\ synced = IF ~r.behind /\ known.behind THEN 1 ELSE 0
        BY <3>1 DEF Alerts!One
      <4> HIDE DEF behind, synced
      <4> QED
        <5>1. /\ known.behind => told.behind - told.synced \in {0, 1}
              /\ ~known.behind => told.behind - told.synced \in {-1, 0}
          BY DEF Alerts!SyncFollowed
        <5>2. /\ r.behind => told'.behind - told'.synced \in {0, 1}
              /\ ~r.behind => told'.behind - told'.synced \in {-1, 0}
          <6>1. CASE r.behind /\ ~known.behind
            BY <1>6, <2>1, <4>1, <5>1, <6>1
          <6>2. CASE ~r.behind /\ known.behind
            BY <1>6, <2>1, <4>1, <5>1, <6>2
          <6>3. CASE r.behind = known.behind
            BY <1>6, <2>1, <4>1, <5>1, <6>3
          <6> QED
            BY <1>3, <1>6, <6>1, <6>2, <6>3
        <5> QED
          BY <1>4, <3>1, <5>2 DEF Alerts!SyncFollowed
    <3>2. CASE "sync" \notin Kinds
      <4>1. behind = 0 /\ synced = 0
        BY <3>2 DEF Alerts!One
      <4> HIDE DEF behind, synced
      <4> QED
        BY <1>3, <1>4, <1>6, <2>1, <3>2, <4>1 DEF Alerts!SyncFollowed
    <3> QED
      BY <3>1, <3>2
  <2> QED
    BY <2>2, <2>3, <2>4, <2>5, <2>6
<1>9. CASE ~known.init
  <2>1. told' = [told EXCEPT !.online = @ + online]
    BY <1>1, <1>9
  <2>2. /\ told' \in [offline : Nat, online : Nat, blocks : Nat, received : Nat,
                      confirmed : Nat, behind : Nat, synced : Nat]
        /\ told'.offline = told.offline /\ told'.online = told.online + online
        /\ told'.blocks = told.blocks /\ told'.behind = told.behind
           /\ told'.synced = told.synced
    BY <1>7, <2>1 DEF Alerts!TypeOK
  <2>3. Alerts!TypeOK'
    BY <1>2, <1>5, <2>2 DEF Alerts!TypeOK
  <2>4. Alerts!AlarmsPaired'
    <3> SUFFICES ASSUME "offline" \in Kinds
                 PROVE  told'.offline - told'.online = 0
      BY <1>4 DEF Alerts!AlarmsPaired
    <3>1. online = IF known.online THEN 0 ELSE 1
      BY DEF Alerts!One
    <3> HIDE DEF online
    <3> QED
      BY <1>6, <2>2, <3>1 DEF Alerts!AlarmsPaired
  <2>5. Alerts!AlarmAtThreshold' /\ Alerts!BlocksInOrder' /\ Alerts!SyncFollowed'
    BY <1>2, <1>3, <1>4, <1>6, <1>9, <2>2
    DEF Alerts!AlertsConstants, Alerts!AlarmAtThreshold, Alerts!BlocksInOrder,
        Alerts!SyncFollowed
  <2> QED
    BY <2>3, <2>4, <2>5
<1> QED
  BY <1>8, <1>9

LEMMA AlertsStep ==
    ASSUME Alerts!AlertsConstants, Alerts!AlertsInv, [Alerts!Next]_Alerts!vars
    PROVE  Alerts!AlertsInv'
<1>1. CASE Alerts!Outage \/ Alerts!Return \/ Alerts!Configure \/ UNCHANGED Alerts!vars
  BY <1>1
  DEF Alerts!Outage, Alerts!Return, Alerts!Configure, Alerts!vars,
      Alerts!AlertsInv, Alerts!TypeOK, Alerts!AlarmsPaired,
      Alerts!AlarmAtThreshold,
              Alerts!BlocksInOrder, Alerts!SyncFollowed
<1> QED
  BY <1>1, AlertsEvent, AlertsBegin, AlertsTickFails, AlertsTickAnswered
  DEF Alerts!Next

LEMMA AlertsSafe == Alerts!AlertsInv => Alerts!AlertsSound
<1> SUFFICES ASSUME Alerts!AlertsInv
             PROVE  Alerts!BlocksToldOnce /\ Alerts!SyncPaired
  BY DEF Alerts!AlertsInv, Alerts!AlertsSound
<1>1. Alerts!BlocksToldOnce
  BY DEF Alerts!AlertsInv, Alerts!TypeOK, Alerts!Wallets, Alerts!BlocksInOrder,
     Alerts!BlocksToldOnce
<1>2. Alerts!SyncPaired
  BY DEF Alerts!AlertsInv, Alerts!TypeOK, Alerts!SyncFollowed, Alerts!SyncPaired
<1> QED
  BY <1>1, <1>2

(* For any threshold, deposits, blocks, outages and changes of the bot,    *)
(* alarms and all-clears alternate, and no block is announced twice        *)
(* (telegram-notifications.ts).                                            *)
THEOREM AlertsAreSound ==
    ASSUME Alerts!AlertsConstants
    PROVE  Alerts!Spec => []Alerts!AlertsSound
<1>1. Alerts!Init => Alerts!AlertsInv
  BY AlertsInit
<1>2. Alerts!AlertsInv /\ [Alerts!Next]_Alerts!vars => Alerts!AlertsInv'
  BY AlertsStep
<1>3. Alerts!AlertsInv => Alerts!AlertsSound
  BY AlertsSafe
<1> QED
  BY <1>1, <1>2, <1>3, PTL DEF Alerts!Spec

-----------------------------------------------------------------------------
(* Installer.  A run that has reached a stage has done what comes before.  *)
(* The stages of a run, in their order.                                    *)
LEMMA AskedOnly ==
    /\ Len(Install!Asked \o << >>) = 7 /\ DOMAIN (Install!Asked \o << >>) = 1 .. 7
    /\ (Install!Asked \o << >>)[1] = "summary" /\ (Install!Asked \o << >>)[2] = "backup"
    /\ (Install!Asked \o << >>)[3] = "env" /\ (Install!Asked \o << >>)[4] = "path"
    /\ (Install!Asked \o << >>)[5] = "seed" /\ (Install!Asked \o << >>)[6] = "seed2"
    /\ (Install!Asked \o << >>)[7] = "up"
BY DEF Install!Asked

LEMMA SilentOnly ==
    /\ Len(Install!Silent \o << >>) = 7 /\ DOMAIN (Install!Silent \o << >>) = 1 .. 7
    /\ (Install!Silent \o << >>)[1] = "summary" /\ (Install!Silent \o << >>)[2] = "backup"
    /\ (Install!Silent \o << >>)[3] = "env" /\ (Install!Silent \o << >>)[4] = "totp"
    /\ (Install!Silent \o << >>)[5] = "seed" /\ (Install!Silent \o << >>)[6] = "seed2"
    /\ (Install!Silent \o << >>)[7] = "up"
BY DEF Install!Silent

LEMMA AskedFire ==
    /\ Len(Install!Asked \o Install!Fire) = 10
       /\ DOMAIN (Install!Asked \o Install!Fire) = 1 .. 10
    /\ (Install!Asked \o Install!Fire)[1] = "summary"
       /\ (Install!Asked \o Install!Fire)[2] = "backup"
    /\ (Install!Asked \o Install!Fire)[3] = "env" /\ (Install!Asked \o Install!Fire)[4] = "path"
    /\ (Install!Asked \o Install!Fire)[5] = "seed"
       /\ (Install!Asked \o Install!Fire)[6] = "seed2"
    /\ (Install!Asked \o Install!Fire)[7] = "up" /\ (Install!Asked \o Install!Fire)[8] = "deny"
    /\ (Install!Asked \o Install!Fire)[9] = "allow"
       /\ (Install!Asked \o Install!Fire)[10] = "enable"
BY DEF Install!Asked, Install!Fire

LEMMA SilentFire ==
    /\ Len(Install!Silent \o Install!Fire) = 10
       /\ DOMAIN (Install!Silent \o Install!Fire) = 1 .. 10
    /\ (Install!Silent \o Install!Fire)[1] = "summary"
       /\ (Install!Silent \o Install!Fire)[2] = "backup"
    /\ (Install!Silent \o Install!Fire)[3] = "env"
       /\ (Install!Silent \o Install!Fire)[4] = "totp"
    /\ (Install!Silent \o Install!Fire)[5] = "seed"
       /\ (Install!Silent \o Install!Fire)[6] = "seed2"
    /\ (Install!Silent \o Install!Fire)[7] = "up"
       /\ (Install!Silent \o Install!Fire)[8] = "deny"
    /\ (Install!Silent \o Install!Fire)[9] = "allow"
       /\ (Install!Silent \o Install!Fire)[10] = "enable"
BY DEF Install!Silent, Install!Fire

LEMMA StageList ==
    /\ Len(Install!Stages) = (IF run.tool = None THEN 7 ELSE 10)
       /\ DOMAIN Install!Stages = 1 .. Len(Install!Stages)
    /\ Install!Stages[1] = "summary" /\ Install!Stages[2] = "backup"
       /\ Install!Stages[3] = "env"
    /\ Install!Stages[4] = (IF run.asks THEN "path" ELSE "totp")
    /\ Install!Stages[5] = "seed" /\ Install!Stages[6] = "seed2" /\ Install!Stages[7] = "up"
    /\ run.tool # None
       => Install!Stages[8] = "deny" /\ Install!Stages[9] = "allow"
       /\ Install!Stages[10] = "enable"
<1>1. CASE run.asks /\ run.tool = None
  <2>1. Install!Stages = Install!Asked \o << >>
    BY <1>1 DEF Install!Stages
  <2> QED
    BY <1>1, <2>1, AskedOnly
<1>2. CASE run.asks /\ run.tool # None
  <2>1. Install!Stages = Install!Asked \o Install!Fire
    BY <1>2 DEF Install!Stages
  <2> QED
    BY <1>2, <2>1, AskedFire
<1>3. CASE ~run.asks /\ run.tool = None
  <2>1. Install!Stages = Install!Silent \o << >>
    BY <1>3 DEF Install!Stages
  <2> QED
    BY <1>3, <2>1, SilentOnly
<1>4. CASE ~run.asks /\ run.tool # None
  <2>1. Install!Stages = Install!Silent \o Install!Fire
    BY <1>4 DEF Install!Stages
  <2> QED
    BY <1>4, <2>1, SilentFire
<1> QED
  BY <1>1, <1>2, <1>3, <1>4

LEMMA StagesDiffer ==
    \A i, j \in DOMAIN Install!Stages : Install!Stages[i] = Install!Stages[j] => i = j
<1>1. \A i \in 1 .. 10 : i = 1 \/ i = 2 \/ i = 3 \/ i = 4 \/ i = 5 \/ i = 6 \/ i = 7 \/ i = 8
        \/ i = 9 \/ i = 10
  OBVIOUS
<1>2. \A i \in 1 .. 7 : i = 1 \/ i = 2 \/ i = 3 \/ i = 4 \/ i = 5 \/ i = 6 \/ i = 7
  OBVIOUS
<1>3. CASE run.tool = None
  BY <1>2, <1>3, StageList
<1>4. CASE run.tool # None
  <2> SUFFICES ASSUME NEW i \in 1 .. 10, NEW j \in 1 .. 10,
                      Install!Stages[i] = Install!Stages[j]
               PROVE  i = j
    BY <1>4, StageList
  <2>1. CASE i <= 4
    BY <1>1, <1>2, <1>4, <2>1, StageList
  <2>2. CASE i \in {5, 6, 7}
    BY <1>1, <1>4, <2>2, StageList
  <2>3. CASE i \in {8, 9, 10}
    BY <1>1, <1>4, <2>3, StageList
  <2> QED
    BY <1>1, <2>1, <2>2, <2>3
<1> QED
  BY <1>3, <1>4

LEMMA StageGoes ==
    ASSUME Install!Done, NEW k \in DOMAIN Install!Stages, Install!Stages[k] = run.at
    PROVE  /\ k < Len(Install!Stages)
              => run' = [run EXCEPT !.at = Install!Stages[k + 1]] /\ ended' = ended
           /\ k = Len(Install!Stages) => /\ run' = Install!NoRun
                                         /\ ended' = IF run.start THEN "started" ELSE "written"
<1> DEFINE i == CHOOSE j \in DOMAIN Install!Stages : Install!Stages[j] = run.at
<1>1. i \in DOMAIN Install!Stages /\ Install!Stages[i] = run.at
  OBVIOUS
<1>2. i = k
  BY <1>1, StagesDiffer
<1>3. k \in 1 .. Len(Install!Stages) /\ Len(Install!Stages) \in Nat
  BY StageList
<1>4. IF i < Len(Install!Stages)
      THEN run' = [run EXCEPT !.at = Install!Stages[i + 1]] /\ UNCHANGED ended
      ELSE Install!End(IF run.start THEN "started" ELSE "written")
  BY DEF Install!Done
<1> HIDE DEF i
<1> QED
  BY <1>2, <1>3, <1>4 DEF Install!End

(* A run that goes on is the same run at its next stage.                   *)
Goes(stage) ==
    /\ run' \in Install!Runs /\ run'.at = stage /\ ended' = ended
    /\ run'.script = run.script /\ run'.asks = run.asks /\ run'.start = run.start
    /\ run'.stacks = run.stacks /\ run'.tool = run.tool

LEMMA RunType ==
    ASSUME Install!TypeOK, run.at # "none" \/ run # Install!NoRun
    PROVE  run \in Install!Runs /\ run.at # "none"
BY DEF Install!TypeOK, Install!Runs, Install!NoRun

LEMMA NextStage ==
    ASSUME Install!TypeOK, Install!RunOK, run.at # "none", Install!Done
    PROVE  /\ run.at = "summary" => Goes("backup")
           /\ run.at = "backup" => Goes("env")
           /\ run.at = "env" => Goes(IF run.asks THEN "path" ELSE "totp")
           /\ run.at \in {"path", "totp"} => Goes("seed")
           /\ run.at = "seed" => Goes("seed2")
           /\ run.at = "seed2" => Goes("up")
           /\ run.at = "up" /\ run.tool # None => Goes("deny")
           /\ run.at = "deny" => Goes("allow")
           /\ run.at = "allow" => Goes("enable")
           /\ run.at = "enable" \/ (run.at = "up" /\ run.tool = None) =>
                run' = Install!NoRun /\ ended' = IF run.start THEN "started" ELSE "written"
<1>1. run \in Install!Runs
  BY RunType
<1>2. ASSUME NEW stage \in {"summary", "backup", "env", "path", "totp", "seed", "seed2", "up", "deny",
                           "allow", "enable"},
             run' = [run EXCEPT !.at = stage], ended' = ended
      PROVE  Goes(stage)
  BY <1>1, <1>2 DEF Goes, Install!Runs
<1>3. run.asks \in BOOLEAN
  BY <1>1 DEF Install!Runs
<1>4. ASSUME NEW k \in DOMAIN Install!Stages, Install!Stages[k] = run.at
      PROVE  /\ k < Len(Install!Stages)
                => run' = [run EXCEPT !.at = Install!Stages[k + 1]] /\ ended' = ended
             /\ k = Len(Install!Stages) => /\ run' = Install!NoRun
                                           /\ ended' = IF run.start THEN "started" ELSE "written"
  BY <1>4, StageGoes
<1>5. 1 \in DOMAIN Install!Stages /\ 2 \in DOMAIN Install!Stages /\ 3 \in DOMAIN Install!Stages
        /\ 4 \in DOMAIN Install!Stages
      /\ 5 \in DOMAIN Install!Stages /\ 6 \in DOMAIN Install!Stages
         /\ 7 \in DOMAIN Install!Stages
      /\ (run.tool # None
         => 8 \in DOMAIN Install!Stages /\ 9 \in DOMAIN Install!Stages
         /\ 10 \in DOMAIN Install!Stages)
      /\ 6 < Len(Install!Stages) /\ (run.tool # None => 10 = Len(Install!Stages))
      /\ (run.tool = None => 7 = Len(Install!Stages))
      /\ 1 < Len(Install!Stages) /\ 2 < Len(Install!Stages) /\ 3 < Len(Install!Stages)
         /\ 4 < Len(Install!Stages) /\ 5 < Len(Install!Stages)
      /\ (run.tool # None
         => 7 < Len(Install!Stages) /\ 8 < Len(Install!Stages) /\ 9 < Len(Install!Stages))
  BY StageList
<1>6. CASE run.at = "summary"
  <2>1. run' = [run EXCEPT !.at = "backup"] /\ ended' = ended
    <3>1. 1 \in DOMAIN Install!Stages /\ Install!Stages[1] = run.at /\ 1 < Len(Install!Stages)
      BY <1>5, <1>6, StageList
    <3>2. run' = [run EXCEPT !.at = Install!Stages[1 + 1]] /\ ended' = ended
      BY <1>4, <3>1
    <3>3. Install!Stages[1 + 1] = "backup"
      BY StageList
    <3> QED
      BY <3>2, <3>3
  <2> QED
    BY <1>2, <1>6, <2>1
<1>7. CASE run.at = "backup"
  <2>1. run' = [run EXCEPT !.at = "env"] /\ ended' = ended
    <3>1. 2 \in DOMAIN Install!Stages /\ Install!Stages[2] = run.at /\ 2 < Len(Install!Stages)
      BY <1>5, <1>7, StageList
    <3>2. run' = [run EXCEPT !.at = Install!Stages[2 + 1]] /\ ended' = ended
      BY <1>4, <3>1
    <3>3. Install!Stages[2 + 1] = "env"
      BY StageList
    <3> QED
      BY <3>2, <3>3
  <2> QED
    BY <1>2, <1>7, <2>1
<1>8. CASE run.at = "env"
  <2>1. run' = [run EXCEPT !.at = IF run.asks THEN "path" ELSE "totp"] /\ ended' = ended
    <3>1. 3 \in DOMAIN Install!Stages /\ Install!Stages[3] = run.at /\ 3 < Len(Install!Stages)
      BY <1>5, <1>8, StageList
    <3>2. run' = [run EXCEPT !.at = Install!Stages[3 + 1]] /\ ended' = ended
      BY <1>4, <3>1
    <3>3. Install!Stages[3 + 1] = IF run.asks THEN "path" ELSE "totp"
      BY StageList
    <3> QED
      BY <3>2, <3>3
  <2>2. CASE run.asks
    BY <1>2, <1>8, <2>1, <2>2
  <2>3. CASE ~run.asks
    BY <1>2, <1>8, <2>1, <2>3
  <2> QED
    BY <2>2, <2>3
<1>9. CASE run.at \in {"path", "totp"}
  <2>0. run.at = IF run.asks THEN "path" ELSE "totp"
    BY <1>9 DEF Install!RunOK
  <2>1. run' = [run EXCEPT !.at = "seed"] /\ ended' = ended
    <3>1. 4 \in DOMAIN Install!Stages /\ Install!Stages[4] = run.at /\ 4 < Len(Install!Stages)
      BY <1>5, <2>0, StageList
    <3>2. run' = [run EXCEPT !.at = Install!Stages[4 + 1]] /\ ended' = ended
      BY <1>4, <3>1
    <3>3. Install!Stages[4 + 1] = "seed"
      BY StageList
    <3> QED
      BY <3>2, <3>3
  <2> QED
    BY <1>2, <1>9, <2>1
<1>10. CASE run.at = "seed"
  <2>1. run' = [run EXCEPT !.at = "seed2"] /\ ended' = ended
    <3>1. 5 \in DOMAIN Install!Stages /\ Install!Stages[5] = run.at /\ 5 < Len(Install!Stages)
      BY <1>5, <1>10, StageList
    <3>2. run' = [run EXCEPT !.at = Install!Stages[5 + 1]] /\ ended' = ended
      BY <1>4, <3>1
    <3>3. Install!Stages[5 + 1] = "seed2"
      BY StageList
    <3> QED
      BY <3>2, <3>3
  <2> QED
    BY <1>2, <1>10, <2>1
<1>11. CASE run.at = "seed2"
  <2>1. run' = [run EXCEPT !.at = "up"] /\ ended' = ended
    <3>1. 6 \in DOMAIN Install!Stages /\ Install!Stages[6] = run.at /\ 6 < Len(Install!Stages)
      BY <1>5, <1>11, StageList
    <3>2. run' = [run EXCEPT !.at = Install!Stages[6 + 1]] /\ ended' = ended
      BY <1>4, <3>1
    <3>3. Install!Stages[6 + 1] = "up"
      BY StageList
    <3> QED
      BY <3>2, <3>3
  <2> QED
    BY <1>2, <1>11, <2>1
<1>12. CASE run.at = "up"
  <2>1. CASE run.tool = None
    BY <1>4, <1>5, <1>12, <2>1, StageList
  <2>2. CASE run.tool # None
    <3>1. run' = [run EXCEPT !.at = "deny"] /\ ended' = ended
      BY <1>4, <1>5, <1>12, <2>2, StageList
    <3> QED
      BY <1>2, <1>12, <2>2, <3>1
  <2> QED
    BY <2>1, <2>2
<1>13. CASE run.at \in {"deny", "allow", "enable"}
  <2>0. run.tool # None
    BY <1>13 DEF Install!RunOK
  <2>1. CASE run.at = "deny"
    <3>1. run' = [run EXCEPT !.at = "allow"] /\ ended' = ended
      BY <1>4, <1>5, <2>0, <2>1, StageList
    <3> QED
      BY <1>2, <2>1, <3>1
  <2>2. CASE run.at = "allow"
    <3>1. run' = [run EXCEPT !.at = "enable"] /\ ended' = ended
      BY <1>4, <1>5, <2>0, <2>2, StageList
    <3> QED
      BY <1>2, <2>2, <3>1
  <2>3. CASE run.at = "enable"
    BY <1>4, <1>5, <2>0, <2>3, StageList
  <2> QED
    BY <1>13, <2>1, <2>2, <2>3
<1> QED
  BY <1>1, <1>6, <1>7, <1>8, <1>9, <1>10, <1>11, <1>12, <1>13 DEF Install!Runs

LEMMA NothingRun ==
    ASSUME Install!InstallerConstants
    PROVE  Install!Init => Install!InstallInv
<1> SUFFICES ASSUME Install!Init PROVE Install!InstallInv
  OBVIOUS
<1>1. /\ run = Install!NoRun /\ runs = 0 /\ written = {} /\ held = {} /\ ended = "never"
      /\ prefs = [password |-> None, totp |-> None] /\ stack = [s \in Install!Services |-> None]
      /\ fw = [tool |-> None, on |-> FALSE, ssh |-> FALSE]
  BY DEF Install!Init
<1>2. run.at = "none" /\ run.asks = FALSE
  BY <1>1 DEF Install!NoRun
<1>3. {} \in SUBSET Nat
  OBVIOUS
<1>4. Install!TypeOK
  BY <1>1, <1>3 DEF Install!TypeOK
<1>5. Install!RunOK /\ Install!Given /\ Install!EnvOK /\ Install!SeedOK /\ Install!StackOK
        /\ Install!FireOK
  BY <1>2
  DEF Install!RunOK, Install!Given, Install!EnvOK, Install!SeedOK,
      Install!StackOK, Install!FireOK
<1>6. Install!InstallSound
  BY <1>1
  DEF Install!InstallSound, Install!NoLockout, Install!CredentialsKept,
      Install!CompleteIsWhole, Install!SshReachable
<1> QED
  BY <1>4, <1>5, <1>6 DEF Install!InstallInv

LEMMA RunBegins ==
    ASSUME Install!InstallerConstants, Install!InstallInv, NEW s \in Flavours, Install!Begin(s)
    PROVE  Install!InstallInv'
<1>1. /\ run = Install!NoRun /\ runs' = runs + 1 /\ ended' = "running"
      /\ UNCHANGED <<env, backups, prefs, stack, fw, written, lost>>
  BY DEF Install!Begin, Install!disk, Install!host
<1>2. PICK asks \in BOOLEAN, exported \in BOOLEAN, start \in BOOLEAN, o \in Install!Answers(s),
           tool \in Install!Firewalls(s) :
         /\ run' = [at |-> "summary", script |-> s, asks |-> asks, exported |-> exported,
                    start |-> start, stacks |-> o, tool |-> tool]
         /\ held' = IF asks THEN held \cup {runs'} ELSE held
  BY DEF Install!Begin
<1>3. o \in SUBSET Stacks /\ tool \in Install!Tools \cup {None}
  BY DEF Install!Answers, Install!Firewalls, Install!Tools
<1>4. run'.at = "summary" /\ run'.asks = asks /\ run' \in Install!Runs
  BY <1>2, <1>3 DEF Install!Runs
<1>5. runs \in Nat /\ runs' \in Nat
        /\ \A s1 \in Install!Services : stack[s1] \in (0 .. runs) \cup {None}
  BY <1>1 DEF Install!InstallInv, Install!TypeOK
<1>6. stack' \in [Install!Services -> (0 .. runs') \cup {None}]
  <2>1. \A x \in (0 .. runs) \cup {None} : x \in (0 .. runs') \cup {None}
    BY <1>1, <1>5
  <2> QED
    BY <1>1, <2>1 DEF Install!InstallInv, Install!TypeOK
<1>7. Install!TypeOK'
  BY <1>1, <1>4, <1>5, <1>6 DEF Install!InstallInv, Install!TypeOK
<1>8. \A x \in (0 .. runs) \cup {None} : x # runs'
  BY <1>1, <1>5 DEF Install!InstallerConstants
<1>9. Install!StackOK'
  BY <1>1, <1>4, <1>5, <1>8 DEF Install!StackOK
<1>10. Install!Given'
  BY <1>2, <1>4 DEF Install!Given
<1>11. Install!RunOK' /\ Install!EnvOK' /\ Install!SeedOK' /\ Install!FireOK'
  BY <1>1, <1>4 DEF Install!RunOK, Install!EnvOK, Install!SeedOK, Install!FireOK
<1>12. Install!NoLockout'
  BY <1>1, <1>2 DEF Install!InstallInv, Install!InstallSound, Install!NoLockout
<1>13. Install!CredentialsKept' /\ Install!CompleteIsWhole' /\ Install!SshReachable'
  BY <1>1
  DEF Install!InstallInv, Install!InstallSound, Install!CredentialsKept,
      Install!CompleteIsWhole, Install!SshReachable
<1> QED
  BY <1>7, <1>9, <1>10, <1>11, <1>12, <1>13
  DEF Install!InstallInv, Install!InstallSound

(* A run that is over without having said that it is complete.             *)
LEMMA Stops ==
    ASSUME Install!InstallInv, run' = Install!NoRun, ended' \notin {"written", "started"},
           Install!CredentialsKept',
           prefs' \in [password : Nat \cup {None}, totp : Nat \cup {None}],
           stack' \in [Install!Services -> (0 .. runs) \cup {None}],
           {prefs'.password, prefs'.totp} \subseteq {prefs.password, prefs.totp, None},
           written' \in SUBSET Nat, UNCHANGED <<fw, held, lost, runs>>
    PROVE  Install!InstallInv'
<1>1. run'.at = "none" /\ run'.asks = FALSE
  BY DEF Install!NoRun
<1>2. Install!TypeOK'
  BY DEF Install!InstallInv, Install!TypeOK
<1>3. Install!RunOK' /\ Install!Given' /\ Install!EnvOK' /\ Install!SeedOK' /\ Install!StackOK'
        /\ Install!FireOK'
  BY <1>1
  DEF Install!RunOK, Install!Given, Install!EnvOK, Install!SeedOK,
      Install!StackOK, Install!FireOK
<1>4. Install!NoLockout' /\ Install!CompleteIsWhole' /\ Install!SshReachable'
  BY DEF Install!InstallInv, Install!InstallSound, Install!NoLockout,
     Install!CompleteIsWhole, Install!SshReachable
<1> QED
  BY <1>2, <1>3, <1>4 DEF Install!InstallInv, Install!InstallSound

LEMMA Endings ==
    ASSUME Install!InstallerConstants, Install!InstallInv,
           Install!Unfit \/ Install!Declined \/ Install!SeedFails \/ Install!UpFails
               \/ Install!Interrupt \/ Install!Uninstall
    PROVE  Install!InstallInv'
<1>1. /\ prefs \in [password : Nat \cup {None}, totp : Nat \cup {None}]
      /\ stack \in [Install!Services -> (0 .. runs) \cup {None}] /\ written \in SUBSET Nat
      /\ {prefs.password, prefs.totp} \subseteq {prefs.password, prefs.totp, None}
      /\ Install!CredentialsKept
  BY DEF Install!InstallInv, Install!InstallSound, Install!TypeOK
<1>2. ASSUME run' = Install!NoRun, ended' \notin {"written", "started"},
             UNCHANGED <<env, backups, prefs, stack, fw, held, written, lost, runs>>
      PROVE  Install!InstallInv'
  <2>1. Install!CredentialsKept'
    BY <1>1, <1>2 DEF Install!CredentialsKept
  <2> QED
    BY <1>1, <1>2, <2>1, Stops
<1>3. CASE Install!Unfit \/ Install!Declined \/ Install!SeedFails \/ Install!UpFails
  BY <1>2, <1>3
  DEF Install!Unfit, Install!Declined, Install!SeedFails, Install!UpFails,
      Install!End, Install!disk, Install!host, Install!told
<1>4. CASE Install!Interrupt
  <2>1. /\ run' = Install!NoRun /\ ended' = "interrupted"
        /\ UNCHANGED <<backups, prefs, stack, fw, held, written, lost, runs>>
    BY <1>4 DEF Install!Interrupt, Install!End, Install!host, Install!told
  <2>4. UNCHANGED env \/ run.at = "env"
    BY <1>4 DEF Install!Interrupt
  <2>2. CASE UNCHANGED env
    BY <1>2, <2>1, <2>2
  <2>3. CASE run.at = "env"
    <3>1. env.gen \in backups \cup lost \cup {None} /\ None \notin written
      <4>1. None \notin Int
        BY DEF Install!InstallerConstants
      <4>2. written \subseteq Int
        BY <1>1
      <4>3. env.gen \in backups \cup lost \cup {None}
        BY <2>3 DEF Install!InstallInv, Install!EnvOK
      <4> QED
        BY <4>1, <4>2, <4>3
    <3>2. Install!CredentialsKept'
      BY <1>1, <2>1, <3>1 DEF Install!CredentialsKept
    <3> QED
      BY <1>1, <2>1, <3>2, Stops
  <2> QED
    BY <2>2, <2>3, <2>4
<1>5. CASE Install!Uninstall
  <2>1. PICK down \in BOOLEAN, forget \in BOOLEAN, file \in BOOLEAN :
         /\ stack' = [s \in Install!Services |->
              IF down /\ s \in {"core"} \cup env.stacks THEN None ELSE stack[s]]
         /\ prefs' = IF forget THEN [password |-> None, totp |-> None] ELSE prefs
         /\ env' = IF file THEN Install!NoEnv ELSE env
         /\ written' = IF file THEN {} ELSE written
    BY <1>5 DEF Install!Uninstall
  <2>2. run' = Install!NoRun /\ ended' = "uninstalled"
          /\ UNCHANGED <<backups, fw, held, lost, runs>>
    BY <1>5 DEF Install!Uninstall
  <2>3. stack' \in [Install!Services -> (0 .. runs) \cup {None}]
    BY <1>1, <2>1
  <2>4. /\ prefs' \in [password : Nat \cup {None}, totp : Nat \cup {None}]
        /\ {prefs'.password, prefs'.totp} \subseteq {prefs.password, prefs.totp, None}
    BY <1>1, <2>1
  <2>5. Install!CredentialsKept' /\ written' \in SUBSET Nat
    BY <1>1, <2>1, <2>2 DEF Install!CredentialsKept
  <2> QED
    BY <1>1, <2>2, <2>3, <2>4, <2>5, Stops
<1> QED
  BY <1>3, <1>4, <1>5

(* A run that goes on keeps what it is, and the last run is not over.      *)
LEMMA OnTheWay ==
    ASSUME Install!InstallInv, run.at # "none", NEW stage, Goes(stage),
           stage = "path" => run.asks, stage = "totp" => ~run.asks,
           stage \in {"deny", "allow", "enable"} => run.tool # None
    PROVE  run' \in Install!Runs \cup {Install!NoRun} /\ Install!RunOK'
             /\ Install!CompleteIsWhole'
<1>1. ended = "running"
  BY DEF Install!InstallInv, Install!RunOK
<1> QED
  BY <1>1 DEF Goes, Install!RunOK, Install!CompleteIsWhole

LEMMA Confirms ==
    ASSUME Install!InstallInv, Install!Confirmed
    PROVE  Install!InstallInv'
<1>1. /\ run.at = "summary" /\ Install!Done
         /\ UNCHANGED <<env, backups, prefs, stack, fw, held, written, lost, runs>>
  BY DEF Install!Confirmed, Install!disk, Install!host, Install!told
<1>2. Goes("backup")
  BY <1>1, NextStage DEF Install!InstallInv
<1>3. run' \in Install!Runs \cup {Install!NoRun} /\ Install!RunOK' /\ Install!CompleteIsWhole'
  BY <1>1, <1>2, OnTheWay
<1>4. run'.at = "backup" /\ run'.asks = run.asks
  BY <1>2 DEF Goes
<1>5. Install!TypeOK'
  BY <1>1, <1>3 DEF Install!InstallInv, Install!TypeOK
<1>6. Install!Given' /\ Install!EnvOK' /\ Install!SeedOK' /\ Install!FireOK'
  BY <1>1, <1>4
  DEF Install!InstallInv, Install!Given, Install!EnvOK, Install!SeedOK,
      Install!FireOK
<1>7. Install!StackOK'
  BY <1>1, <1>4 DEF Install!InstallInv, Install!StackOK
<1>8. Install!NoLockout' /\ Install!CredentialsKept' /\ Install!SshReachable'
  BY <1>1
  DEF Install!InstallInv, Install!InstallSound, Install!NoLockout,
      Install!CredentialsKept, Install!SshReachable
<1> QED
  BY <1>3, <1>5, <1>6, <1>7, <1>8 DEF Install!InstallInv, Install!InstallSound

LEMMA BacksUp ==
    ASSUME Install!InstallInv, Install!Backup
    PROVE  Install!InstallInv'
<1>1. /\ run.at = "backup" /\ Install!Done
         /\ UNCHANGED <<env, prefs, stack, fw, held, written, runs>>
      /\ backups' \cup lost' = backups \cup lost \cup ({env.gen} \ {None})
  BY DEF Install!Backup, Install!host
<1>2. Goes("env")
  BY <1>1, NextStage DEF Install!InstallInv
<1>3. run' \in Install!Runs \cup {Install!NoRun} /\ Install!RunOK' /\ Install!CompleteIsWhole'
  BY <1>1, <1>2, OnTheWay
<1>4. run'.at = "env" /\ run'.asks = run.asks
  BY <1>2 DEF Goes
<1>5. Install!TypeOK'
  BY <1>1, <1>3 DEF Install!InstallInv, Install!TypeOK
<1>6. Install!Given' /\ Install!SeedOK' /\ Install!FireOK'
  BY <1>1, <1>4
  DEF Install!InstallInv, Install!Given, Install!SeedOK, Install!FireOK
<1>10. Install!EnvOK'
  BY <1>1, <1>4 DEF Install!EnvOK
<1>7. Install!StackOK'
  BY <1>1, <1>4 DEF Install!InstallInv, Install!StackOK
<1>8. Install!NoLockout' /\ Install!CredentialsKept' /\ Install!SshReachable'
  BY <1>1
  DEF Install!InstallInv, Install!InstallSound, Install!NoLockout,
      Install!CredentialsKept, Install!SshReachable
<1> QED
  BY <1>3, <1>5, <1>6, <1>7, <1>8, <1>10
  DEF Install!InstallInv, Install!InstallSound

(* The one place where the old .env goes: its copy is there, or failed.    *)
LEMMA WritesEnv ==
    ASSUME Install!InstallerConstants, Install!InstallInv, Install!WriteEnv
    PROVE  Install!InstallInv'
<1> DEFINE stage == IF run.asks THEN "path" ELSE "totp"
<1>1. /\ run.at = "env" /\ Install!Done
         /\ UNCHANGED <<backups, prefs, stack, fw, held, lost, runs>>
      /\ env' = [gen |-> runs, stacks |-> IF run.script
         = "init" THEN Install!InitProfiles ELSE Install!LinuxProfiles]
      /\ written' = written \cup {runs}
  BY DEF Install!WriteEnv, Install!host
<1>2. Goes(stage)
  BY <1>1, NextStage DEF Install!InstallInv
<1>3. run' \in Install!Runs \cup {Install!NoRun} /\ Install!RunOK' /\ Install!CompleteIsWhole'
  <2>1. /\ stage = "path" => run.asks
        /\ stage = "totp" => ~run.asks
        /\ stage \notin {"deny", "allow", "enable"}
    OBVIOUS
  <2> HIDE DEF stage
  <2> QED
    BY <1>1, <1>2, <2>1, OnTheWay
<1>4. run'.at \in {"path", "totp"} /\ run'.asks = run.asks /\ run'.script = run.script
      /\ run'.stacks = run.stacks
  BY <1>2 DEF Goes
<1>5. Install!TypeOK'
  BY <1>1, <1>3 DEF Install!InstallInv, Install!TypeOK
<1>6. Install!Given' /\ Install!SeedOK' /\ Install!FireOK'
  BY <1>1, <1>4
  DEF Install!InstallInv, Install!Given, Install!SeedOK, Install!FireOK
<1>7. Install!StackOK'
  BY <1>1, <1>4 DEF Install!InstallInv, Install!StackOK
<1>8. Install!EnvOK'
  BY <1>1, <1>4 DEF Install!EnvOK, Install!InitProfiles, Install!LinuxProfiles
<1>9. Install!CredentialsKept'
  <2>1. env.gen \in backups \cup lost \cup {None} /\ None \notin written
    <3>1. None \notin Int
      BY DEF Install!InstallerConstants
    <3>2. written \subseteq Int
      BY DEF Install!InstallInv, Install!TypeOK
    <3>3. env.gen \in backups \cup lost \cup {None}
      BY <1>1 DEF Install!InstallInv, Install!EnvOK
    <3> QED
      BY <3>1, <3>2, <3>3
  <2> QED
    BY <1>1, <2>1
    DEF Install!InstallInv, Install!InstallSound, Install!CredentialsKept
<1>10. Install!NoLockout' /\ Install!SshReachable'
  BY <1>1
  DEF Install!InstallInv, Install!InstallSound, Install!NoLockout,
      Install!SshReachable
<1> QED
  BY <1>3, <1>5, <1>6, <1>7, <1>8, <1>9, <1>10
  DEF Install!InstallInv, Install!InstallSound

LEMMA ChecksPath ==
    ASSUME Install!InstallInv, Install!CheckPath
    PROVE  Install!InstallInv'
<1>1. /\ run.at = "path"
         /\ UNCHANGED <<env, backups, prefs, stack, fw, held, written, lost, runs>>
  BY DEF Install!CheckPath, Install!disk, Install!host, Install!told
<1>2. CASE Install!End("stopped")
  <2>1. Install!CredentialsKept'
    BY <1>1
    DEF Install!InstallInv, Install!InstallSound, Install!CredentialsKept
  <2>2. run' = Install!NoRun /\ ended' = "stopped"
    BY <1>2 DEF Install!End
  <2> QED
    BY <1>1, <2>1, <2>2, Stops DEF Install!InstallInv, Install!TypeOK
<1>3. CASE Install!Done
  <2>1. Goes("seed")
    BY <1>1, <1>3, NextStage DEF Install!InstallInv
  <2>2. run' \in Install!Runs \cup {Install!NoRun} /\ Install!RunOK' /\ Install!CompleteIsWhole'
    BY <1>1, <2>1, OnTheWay
  <2>3. /\ run'.at = "seed" /\ run'.asks = run.asks /\ run'.script = run.script
        /\ run'.stacks = run.stacks /\ run.asks
    BY <1>1, <2>1 DEF Goes, Install!InstallInv, Install!RunOK
  <2>4. Install!TypeOK'
    BY <1>1, <2>2 DEF Install!InstallInv, Install!TypeOK
  <2>5. Install!Given' /\ Install!SeedOK' /\ Install!FireOK'
    BY <1>1, <2>3
    DEF Install!InstallInv, Install!Given, Install!SeedOK, Install!FireOK
  <2>6. Install!StackOK'
    BY <1>1, <2>3 DEF Install!InstallInv, Install!StackOK
  <2>7. Install!EnvOK'
    BY <1>1, <2>3
    DEF Install!InstallInv, Install!EnvOK, Install!InitProfiles,
        Install!LinuxProfiles
  <2>8. Install!NoLockout' /\ Install!CredentialsKept' /\ Install!SshReachable'
    BY <1>1
    DEF Install!InstallInv, Install!InstallSound, Install!NoLockout,
        Install!CredentialsKept, Install!SshReachable
  <2> QED
    BY <2>2, <2>4, <2>5, <2>6, <2>7, <2>8
    DEF Install!InstallInv, Install!InstallSound
<1> QED
  BY <1>2, <1>3 DEF Install!CheckPath

(* From here on whoever runs the script has what the database will ask for.*)
LEMMA FilesTotp ==
    ASSUME Install!InstallInv, Install!TotpFile
    PROVE  Install!InstallInv'
<1>1. /\ run.at = "totp" /\ Install!Done
         /\ UNCHANGED <<env, backups, prefs, stack, fw, written, lost, runs>>
      /\ held' = held \cup {runs}
  BY DEF Install!TotpFile, Install!disk, Install!host
<1>2. Goes("seed")
  BY <1>1, NextStage DEF Install!InstallInv
<1>3. run' \in Install!Runs \cup {Install!NoRun} /\ Install!RunOK' /\ Install!CompleteIsWhole'
  BY <1>1, <1>2, OnTheWay
<1>4. /\ run'.at = "seed" /\ run'.asks = run.asks /\ run'.script = run.script
      /\ run'.stacks = run.stacks
  BY <1>2 DEF Goes
<1>5. Install!TypeOK'
  BY <1>1, <1>3 DEF Install!InstallInv, Install!TypeOK
<1>6. Install!Given' /\ Install!SeedOK' /\ Install!FireOK'
  BY <1>1, <1>4
  DEF Install!InstallInv, Install!Given, Install!SeedOK, Install!FireOK
<1>7. Install!StackOK'
  BY <1>1, <1>4 DEF Install!InstallInv, Install!StackOK
<1>8. Install!EnvOK'
  BY <1>1, <1>4
  DEF Install!InstallInv, Install!EnvOK, Install!InitProfiles,
      Install!LinuxProfiles
<1>9. Install!NoLockout' /\ Install!CredentialsKept' /\ Install!SshReachable'
  BY <1>1
  DEF Install!InstallInv, Install!InstallSound, Install!NoLockout,
      Install!CredentialsKept, Install!SshReachable
<1> QED
  BY <1>3, <1>5, <1>6, <1>7, <1>8, <1>9
  DEF Install!InstallInv, Install!InstallSound

LEMMA Seeds ==
    ASSUME Install!InstallInv, Install!Seed \/ Install!SeedSecond
    PROVE  Install!InstallInv'
<1>1. /\ Install!Done /\ UNCHANGED <<env, backups, stack, fw, held, written, lost, runs>>
      /\ \/ run.at = "seed" /\ prefs' = [prefs EXCEPT !.password = runs]
         \/ run.at = "seed2" /\ prefs' = [prefs EXCEPT !.totp = runs]
  BY DEF Install!Seed, Install!SeedSecond, Install!host, Install!told
<1> DEFINE stage == IF run.at = "seed" THEN "seed2" ELSE "up"
<1>2. Goes(stage)
  <2>1. CASE run.at = "seed"
    BY <1>1, <2>1, NextStage DEF Install!InstallInv
  <2>2. CASE run.at = "seed2"
    BY <1>1, <2>2, NextStage DEF Install!InstallInv
  <2> QED
    BY <1>1, <2>1, <2>2
<1>3. run' \in Install!Runs \cup {Install!NoRun} /\ Install!RunOK' /\ Install!CompleteIsWhole'
  <2>1. stage \notin {"path", "totp", "deny", "allow", "enable"}
    OBVIOUS
  <2> HIDE DEF stage
  <2> QED
    BY <1>1, <1>2, <2>1, OnTheWay
<1>4. /\ run'.at = stage /\ run'.asks = run.asks /\ run'.script = run.script
      /\ run'.stacks = run.stacks
  BY <1>2 DEF Goes
<1>5. runs \in held /\ runs \in Nat
  BY <1>1 DEF Install!InstallInv, Install!Given, Install!TypeOK
<1>6. /\ prefs' \in [password : Nat \cup {None}, totp : Nat \cup {None}]
      /\ run.at = "seed" => prefs'.password = runs /\ prefs'.totp = prefs.totp
      /\ run.at = "seed2" => prefs'.totp = runs /\ prefs'.password = prefs.password
  BY <1>1, <1>5 DEF Install!InstallInv, Install!TypeOK
<1>7. Install!TypeOK'
  BY <1>1, <1>3, <1>6 DEF Install!InstallInv, Install!TypeOK
<1>8. Install!Given' /\ Install!FireOK'
  BY <1>1, <1>4, <1>5 DEF Install!InstallInv, Install!Given, Install!FireOK
<1>9. Install!SeedOK'
  BY <1>1, <1>4, <1>6 DEF Install!InstallInv, Install!SeedOK
<1>10. Install!StackOK'
  BY <1>1, <1>4 DEF Install!InstallInv, Install!StackOK
<1>11. Install!EnvOK'
  BY <1>1, <1>4
  DEF Install!InstallInv, Install!EnvOK, Install!InitProfiles,
      Install!LinuxProfiles
<1>12. Install!NoLockout' /\ Install!CredentialsKept' /\ Install!SshReachable'
  BY <1>1, <1>5, <1>6
  DEF Install!InstallInv, Install!InstallSound, Install!NoLockout,
      Install!CredentialsKept, Install!SshReachable
<1> QED
  BY <1>3, <1>7, <1>8, <1>9, <1>10, <1>11, <1>12
  DEF Install!InstallInv, Install!InstallSound

(* Only now do containers get the credentials, all that the flags name.    *)
LEMMA Ups ==
    ASSUME Install!InstallerConstants, Install!InstallInv, Install!Up
    PROVE  Install!InstallInv'
<1> DEFINE flags == IF run.script = "init" THEN Install!InitFlags ELSE Install!LinuxFlags
<1>1. /\ run.at = "up" /\ Install!Done
         /\ UNCHANGED <<env, backups, prefs, fw, held, written, lost, runs>>
      /\ stack' = [s \in Install!Services |->
           IF run.start /\ s \in {"core"} \cup flags THEN env.gen ELSE stack[s]]
  BY DEF Install!Up, Install!disk, Install!told
<1>2. /\ env.gen = runs /\ env.stacks = flags /\ runs \in Nat
      /\ prefs.password = runs /\ prefs.totp = runs
  BY <1>1
  DEF Install!InstallInv, Install!EnvOK, Install!SeedOK, Install!TypeOK,
      Install!InitProfiles, Install!InitFlags, Install!LinuxProfiles,
      Install!LinuxFlags
<1>3. run \in Install!Runs
  BY <1>1, RunType DEF Install!InstallInv
<1>4. flags \subseteq Stacks
  BY <1>3 DEF Install!Runs, Install!InitFlags, Install!LinuxFlags
<1> HIDE DEF flags
<1>5. \A s \in Install!Services : stack[s] # runs /\ stack[s] \in (0 .. runs) \cup {None}
  BY <1>1 DEF Install!InstallInv, Install!StackOK, Install!TypeOK
<1>6. stack' \in [Install!Services -> (0 .. runs) \cup {None}]
  BY <1>1, <1>2, <1>5
<1>7. run.start => {s \in Install!Services : stack'[s] = env.gen} = {"core"} \cup env.stacks
  BY <1>1, <1>2, <1>4, <1>5 DEF Install!Services
<1> HIDE <1>5
<1>8. Install!NoLockout' /\ Install!CredentialsKept' /\ Install!SshReachable'
  BY <1>1
  DEF Install!InstallInv, Install!InstallSound, Install!NoLockout,
      Install!CredentialsKept, Install!SshReachable
<1>9. CASE run.tool = None
  <2>1. run' = Install!NoRun /\ ended' = IF run.start THEN "started" ELSE "written"
    BY <1>1, <1>9, NextStage DEF Install!InstallInv
  <2>2. run'.at = "none" /\ run'.asks = FALSE
    BY <2>1 DEF Install!NoRun
  <2>3. Install!TypeOK'
    BY <1>1, <1>6, <2>1 DEF Install!InstallInv, Install!TypeOK
  <2>4. Install!RunOK' /\ Install!Given' /\ Install!EnvOK' /\ Install!SeedOK'
          /\ Install!StackOK' /\ Install!FireOK'
    BY <2>2
    DEF Install!RunOK, Install!Given, Install!EnvOK, Install!SeedOK,
        Install!StackOK, Install!FireOK
  <2>5. Install!CompleteIsWhole'
    <3>1. ended' = "started" => run.start
      BY <2>1
    <3> QED
      BY <1>1, <1>2, <1>7, <3>1 DEF Install!CompleteIsWhole
  <2> QED
    BY <1>8, <2>3, <2>4, <2>5 DEF Install!InstallInv, Install!InstallSound
<1>10. CASE run.tool # None
  <2>1. Goes("deny")
    BY <1>1, <1>10, NextStage DEF Install!InstallInv
  <2>2. run' \in Install!Runs \cup {Install!NoRun} /\ Install!RunOK' /\ Install!CompleteIsWhole'
    BY <1>1, <1>10, <2>1, OnTheWay
  <2>3. /\ run'.at = "deny" /\ run'.asks = run.asks /\ run'.script = run.script
        /\ run'.stacks = run.stacks /\ run'.start = run.start
    BY <2>1 DEF Goes
  <2>4. Install!TypeOK'
    BY <1>1, <1>6, <2>2 DEF Install!InstallInv, Install!TypeOK
  <2>5. Install!Given' /\ Install!FireOK' /\ Install!SeedOK'
    BY <1>1, <1>2, <2>3
    DEF Install!InstallInv, Install!Given, Install!FireOK, Install!SeedOK
  <2>6. Install!StackOK'
    BY <1>1, <1>7, <2>3 DEF Install!StackOK
  <2>7. Install!EnvOK'
    BY <1>1, <2>3
    DEF Install!InstallInv, Install!EnvOK, Install!InitProfiles,
        Install!LinuxProfiles
  <2> QED
    BY <1>8, <2>2, <2>4, <2>5, <2>6, <2>7
    DEF Install!InstallInv, Install!InstallSound
<1> QED
  BY <1>9, <1>10

(* ufw is not on without letting ssh in: that comes before it is enabled.  *)
LEMMA FirewallGoes ==
    ASSUME Install!InstallInv, Install!Firewall
    PROVE  Install!InstallInv'
<1>1. /\ run.at \in {"deny", "allow", "enable"} /\ Install!Done /\ run.tool \in Install!Tools
      /\ UNCHANGED <<env, backups, prefs, stack, held, written, lost, runs>>
  BY DEF Install!Firewall, Install!Ufw, Install!Firewalld, Install!Tools,
     Install!disk, Install!told
<1>2. /\ fw' \in [tool : Install!Tools \cup {None}, on : BOOLEAN, ssh : BOOLEAN]
      /\ fw'.tool = "ufw" /\ fw'.on => fw'.ssh
      /\ run.at \in {"deny", "allow"} /\ run.tool = "ufw" => fw'.tool = "ufw"
      /\ run.at = "allow" /\ run.tool = "ufw" => fw'.ssh
  <2>1. /\ fw \in [tool : Install!Tools \cup {None}, on : BOOLEAN, ssh : BOOLEAN]
        /\ fw.tool = "ufw" /\ fw.on => fw.ssh
        /\ run.at \in {"allow", "enable"} /\ run.tool = "ufw" => fw.tool = "ufw"
        /\ run.at = "enable" /\ run.tool = "ufw" => fw.ssh
    BY DEF Install!InstallInv, Install!TypeOK, Install!FireOK,
       Install!InstallSound, Install!SshReachable
  <2>2. "ufw" \in Install!Tools \cup {None} /\ "firewalld" \in Install!Tools \cup {None}
    BY DEF Install!Tools
  <2>3. CASE run.at = "deny" /\ fw' = [tool |-> "ufw", on |-> FALSE, ssh |-> FALSE]
    BY <2>2, <2>3
  <2>4. CASE /\ run.at = "deny" /\ run.tool = "firewalld"
             /\ fw' = [tool |-> "firewalld", on |-> TRUE, ssh |-> FALSE]
    BY <2>2, <2>4
  <2>5. CASE run.at \in {"allow", "enable"} /\ fw' = [fw EXCEPT !.ssh = TRUE]
    BY <2>1, <2>5
  <2>6. CASE run.at = "enable" /\ run.tool = "ufw" /\ fw' = [fw EXCEPT !.on = TRUE]
    BY <2>1, <2>6
  <2>7. CASE run.at = "allow" /\ run.tool = "firewalld" /\ UNCHANGED fw
    BY <2>1, <2>7
  <2> QED
    BY <2>3, <2>4, <2>5, <2>6, <2>7
    DEF Install!Firewall, Install!Ufw, Install!Firewalld
<1>3. /\ env.gen = runs /\ prefs.password = runs /\ prefs.totp = runs /\ runs \in held
      /\ run.start => {s \in Install!Services : stack[s] = env.gen} = {"core"} \cup env.stacks
  BY <1>1
  DEF Install!InstallInv, Install!EnvOK, Install!SeedOK, Install!Given,
      Install!StackOK
<1>4. Install!NoLockout' /\ Install!CredentialsKept'
  BY <1>1
  DEF Install!InstallInv, Install!InstallSound, Install!NoLockout,
      Install!CredentialsKept
<1>5. Install!SshReachable'
  BY <1>2 DEF Install!SshReachable
<1>6. CASE run.at = "enable"
  <2>1. run' = Install!NoRun /\ ended' = IF run.start THEN "started" ELSE "written"
    <3>1. Install!TypeOK /\ Install!RunOK /\ Install!Done
      BY <1>1 DEF Install!InstallInv
    <3> QED
      BY <1>6, <3>1, NextStage
  <2>2. run'.at = "none" /\ run'.asks = FALSE
    BY <2>1 DEF Install!NoRun
  <2>3. Install!TypeOK'
    BY <1>1, <1>2, <2>1 DEF Install!InstallInv, Install!TypeOK
  <2>4. Install!RunOK' /\ Install!Given' /\ Install!EnvOK' /\ Install!SeedOK'
          /\ Install!StackOK' /\ Install!FireOK'
    BY <2>2
    DEF Install!RunOK, Install!Given, Install!EnvOK, Install!SeedOK,
        Install!StackOK, Install!FireOK
  <2>5. Install!CompleteIsWhole'
    <3>1. ended' = "started" => run.start
      BY <2>1
    <3> QED
      BY <1>1, <1>3, <3>1 DEF Install!CompleteIsWhole
  <2> QED
    BY <1>4, <1>5, <2>3, <2>4, <2>5 DEF Install!InstallInv, Install!InstallSound
<1>7. CASE run.at \in {"deny", "allow"}
  <2> DEFINE stage == IF run.at = "deny" THEN "allow" ELSE "enable"
  <2>1. Goes(stage) /\ run.tool # None
    <3>1. Install!TypeOK /\ Install!RunOK /\ Install!Done
      BY <1>1 DEF Install!InstallInv
    <3>2. CASE run.at = "deny"
      BY <3>1, <3>2, NextStage DEF Install!RunOK
    <3>3. CASE run.at = "allow"
      BY <3>1, <3>3, NextStage DEF Install!RunOK
    <3> QED
      BY <1>7, <3>2, <3>3
  <2>2. stage \in {"allow", "enable"} /\ (stage = "enable" <=> run.at = "allow")
    BY <1>7
  <2> HIDE DEF stage
  <2>3. run' \in Install!Runs \cup {Install!NoRun} /\ Install!RunOK' /\ Install!CompleteIsWhole'
    BY <1>1, <2>1, <2>2, OnTheWay
  <2>4. /\ run'.at = stage /\ run'.asks = run.asks /\ run'.script = run.script
        /\ run'.stacks = run.stacks /\ run'.start = run.start /\ run'.tool = run.tool
    BY <2>1 DEF Goes
  <2>5. Install!TypeOK'
    BY <1>1, <1>2, <2>3 DEF Install!InstallInv, Install!TypeOK
  <2>6. Install!Given' /\ Install!SeedOK'
    BY <1>1, <1>3, <2>2, <2>4 DEF Install!Given, Install!SeedOK
  <2>7. Install!StackOK'
    BY <1>1, <1>3, <2>2, <2>4 DEF Install!StackOK
  <2>8. Install!EnvOK'
    BY <1>1, <2>2, <2>4
    DEF Install!InstallInv, Install!EnvOK, Install!InitProfiles,
        Install!LinuxProfiles
  <2>9. Install!FireOK'
    BY <1>2, <1>7, <2>2, <2>4 DEF Install!FireOK
  <2> QED
    BY <1>4, <1>5, <2>3, <2>5, <2>6, <2>7, <2>8, <2>9
    DEF Install!InstallInv, Install!InstallSound
<1> QED
  BY <1>1, <1>6, <1>7

LEMMA InstallStep ==
    ASSUME Install!InstallerConstants, Install!InstallInv, [Install!Next]_Install!vars
    PROVE  Install!InstallInv'
<1>1. CASE \E s \in Flavours : Install!Begin(s)
  BY <1>1, RunBegins
<1>2. CASE Install!Unfit \/ Install!Declined \/ Install!SeedFails \/ Install!UpFails
             \/ Install!Interrupt \/ Install!Uninstall
  BY <1>2, Endings
<1>3. CASE Install!Confirmed \/ Install!Backup
  BY <1>3, Confirms, BacksUp
<1>4. CASE Install!WriteEnv
  BY <1>4, WritesEnv
<1>5. CASE Install!CheckPath \/ Install!TotpFile
  BY <1>5, ChecksPath, FilesTotp
<1>6. CASE Install!Seed \/ Install!SeedSecond
  BY <1>6, Seeds
<1>7. CASE Install!Up
  BY <1>7, Ups
<1>8. CASE Install!Firewall
  BY <1>8, FirewallGoes
<1>9. CASE UNCHANGED Install!vars
  BY <1>9
  DEF Install!vars, Install!disk, Install!host, Install!told, Install!InstallInv,
      Install!TypeOK, Install!RunOK, Install!Given, Install!EnvOK,
      Install!InitProfiles,
     Install!LinuxProfiles, Install!SeedOK, Install!StackOK, Install!FireOK, Install!InstallSound, Install!NoLockout, Install!CredentialsKept,
     Install!CompleteIsWhole, Install!SshReachable
<1> QED
  BY <1>1, <1>2, <1>3, <1>4, <1>5, <1>6, <1>7, <1>8, <1>9 DEF Install!Next

LEMMA InstallSafe == Install!InstallInv => Install!InstallSound
BY DEF Install!InstallInv

(* However often the scripts are run and wherever they are stopped, the    *)
(* operator has the credentials the database asks for, no credentials are  *)
(* lost but those whose backup copy failed, ufw lets ssh in and a run that *)
(* says it is complete is (linux.sh, init.sh).                             *)
THEOREM InstallsAreSound ==
    ASSUME Install!InstallerConstants
    PROVE  Install!Spec => []Install!InstallSound
<1>1. Install!Init => Install!InstallInv
  BY NothingRun
<1>2. Install!InstallInv /\ [Install!Next]_Install!vars => Install!InstallInv'
  BY InstallStep
<1>3. Install!InstallInv => Install!InstallSound
  BY InstallSafe
<1> QED
  BY <1>1, <1>2, <1>3, PTL DEF Install!Spec
-----------------------------------------------------------------------------
(* BtcSidecar.  One request works on a seed file until its wallet loads;   *)
(* only a loaded wallet is synced, so the horizon judged stays the origin. *)
LEMMA NothingKept == Sidecar!SidecarConstants /\ Sidecar!Init => Sidecar!SidecarInv
<1> SUFFICES ASSUME Sidecar!SidecarConstants, Sidecar!Init
             PROVE  Sidecar!SidecarInv
  OBVIOUS
<1> USE DEF Sidecar!SidecarConstants, Sidecar!Init, Sidecar!NoSeed, Sidecar!NoDb, Sidecar!Idle,
            Sidecar!Fresh
<1>1. Sidecar!TypeOK
  BY DEF Sidecar!TypeOK, Sidecar!Words, Sidecar!Requests, Sidecar!Steps,
     Sidecar!Finished
<1>2. /\ Sidecar!SeedOwned /\ Sidecar!DownIsQuiet /\ Sidecar!WalletSyncs /\ Sidecar!SyncRecorded
         /\ Sidecar!SeedKnown
      /\ Sidecar!WordsKnown /\ Sidecar!UnloadedIsOwned /\ Sidecar!SeedBacksWallet
         /\ Sidecar!GuardJudgesOrigin
  BY DEF Sidecar!WordsKnown, Sidecar!SeedOwned, Sidecar!DownIsQuiet,
     Sidecar!WalletSyncs, Sidecar!SyncRecorded, Sidecar!SeedKnown,
     Sidecar!UnloadedIsOwned,
         Sidecar!SeedBacksWallet, Sidecar!GuardJudgesOrigin, Sidecar!Saved, Sidecar!SeedExists, Sidecar!Words, Sidecar!Requests
<1> QED
  BY <1>1, <1>2 DEF Sidecar!SidecarInv

Syncs == [at : {"idle", "start", "guard", "scan", "probe"}, horizon : Nat, checked : BOOLEAN]

LEMMA SpawnTyped == sync \in Syncs /\ Sidecar!SpawnSync => sync' \in Syncs
<1>1. Sidecar!Idle \in Syncs
  BY DEF Sidecar!Idle, Syncs
<1>2. [Sidecar!Idle EXCEPT !.at = "start"] \in Syncs
  BY <1>1 DEF Syncs
<1> QED
  BY <1>2 DEF Sidecar!SpawnSync

LEMMA SidecarType == Sidecar!TypeOK /\ [Sidecar!Next]_Sidecar!vars => Sidecar!TypeOK'
<1> SUFFICES ASSUME Sidecar!TypeOK, [Sidecar!Next]_Sidecar!vars
             PROVE  Sidecar!TypeOK'
  OBVIOUS
<1> USE DEF Sidecar!disk, Sidecar!syncing, Sidecar!world, Sidecar!observers
<1>1. ASSUME NEW r \in Sidecar!Requests, Sidecar!CreateStarts(r)
      PROVE  Sidecar!TypeOK'
  BY <1>1
  DEF Sidecar!TypeOK, Sidecar!CreateStarts, Sidecar!Step, Sidecar!Steps,
      Sidecar!Finished, Sidecar!Words, Sidecar!Requests
<1>2. ASSUME NEW r \in Sidecar!Requests, Sidecar!CreateChecksNode(r)
      PROVE  Sidecar!TypeOK'
  BY <1>2
  DEF Sidecar!TypeOK, Sidecar!CreateChecksNode, Sidecar!Step, Sidecar!Steps,
      Sidecar!Finished, Sidecar!Words, Sidecar!Requests
<1>3. ASSUME NEW r \in Sidecar!Requests, Sidecar!CreateSaves(r)
      PROVE  Sidecar!TypeOK'
  <2>1. (seed \in [words : Sidecar!Words \cup {None}, created : Nat, torn : BOOLEAN])'
    <3>1. Sidecar!WordsOf(r) \in Sidecar!Words /\ Sidecar!CreatedAt(r) \in Nat
      BY DEF Sidecar!TypeOK, Sidecar!WordsOf, Sidecar!CreatedAt, Sidecar!Words,
         Sidecar!Requests
    <3>2. CASE Sidecar!SeedExists
      BY <1>3, <3>2 DEF Sidecar!TypeOK, Sidecar!CreateSaves
    <3>3. CASE ~Sidecar!SeedExists
      <4>1. seed' = [words |-> Sidecar!WordsOf(r), created |-> Sidecar!CreatedAt(r), torn |-> FALSE]
        BY <1>3, <3>3 DEF Sidecar!CreateSaves
      <4> QED
        BY <3>1, <4>1
    <3> QED
      BY <3>2, <3>3
  <2>2. (request \in [Sidecar!Requests -> Sidecar!Steps \cup Sidecar!Finished])'
    BY <1>3
    DEF Sidecar!TypeOK, Sidecar!CreateSaves, Sidecar!Step, Sidecar!Steps,
        Sidecar!Finished
  <2> QED
    BY <1>3, <2>1, <2>2
    DEF Sidecar!TypeOK, Syncs, Sidecar!CreateSaves, Sidecar!Fault
<1>4. ASSUME NEW r \in Sidecar!Requests, Sidecar!SaveFails(r)
      PROVE  Sidecar!TypeOK'
  <2>1. (seed \in [words : Sidecar!Words \cup {None}, created : Nat, torn : BOOLEAN])'
    BY <1>4
    DEF Sidecar!TypeOK, Sidecar!SaveFails, Sidecar!NoSeed, Sidecar!WordsOf,
        Sidecar!CreatedAt, Sidecar!Words, Sidecar!Requests
  <2>2. (request \in [Sidecar!Requests -> Sidecar!Steps \cup Sidecar!Finished])'
    BY <1>4
    DEF Sidecar!TypeOK, Sidecar!SaveFails, Sidecar!Step, Sidecar!Steps,
        Sidecar!Finished
  <2> QED
    BY <1>4, <2>1, <2>2
    DEF Sidecar!TypeOK, Syncs, Sidecar!SaveFails, Sidecar!Fault
<1>5. ASSUME NEW r \in Sidecar!Requests, Sidecar!SaveCleans(r)
      PROVE  Sidecar!TypeOK'
  <2>1. (bereft \in BOOLEAN)'
    BY <1>5, Zenon DEF Sidecar!TypeOK, Sidecar!SaveCleans
  <2> QED
    BY <1>5, <2>1
    DEF Sidecar!TypeOK, Sidecar!SaveCleans, Sidecar!Step, Sidecar!Steps,
        Sidecar!Finished, Sidecar!NoSeed, Sidecar!Words, Sidecar!Requests
<1>31. ASSUME NEW r \in Sidecar!Requests, Sidecar!OpenFails(r)
       PROVE  Sidecar!TypeOK'
  <2>1. (request \in [Sidecar!Requests -> Sidecar!Steps \cup Sidecar!Finished])'
    BY <1>31
    DEF Sidecar!TypeOK, Sidecar!OpenFails, Sidecar!Step, Sidecar!Steps,
        Sidecar!Finished
  <2> QED
    BY <1>31, <2>1 DEF Sidecar!TypeOK, Syncs, Sidecar!OpenFails, Sidecar!Fault
<1>6. ASSUME NEW r \in Sidecar!Requests, Sidecar!CreateOpens(r)
      PROVE  Sidecar!TypeOK'
  <2>1. PICK created \in Sidecar!Horizons(r) : Sidecar!Opened(Sidecar!WordsOf(r), created)
    BY <1>6 DEF Sidecar!CreateOpens
  <2>2. created \in Nat /\ Sidecar!WordsOf(r) \in Sidecar!Words
    BY <2>1
    DEF Sidecar!TypeOK, Sidecar!Horizons, Sidecar!WordsOf, Sidecar!Words,
        Sidecar!Requests
  <2>3. (request \in [Sidecar!Requests -> Sidecar!Steps \cup Sidecar!Finished])'
    BY <1>6
    DEF Sidecar!TypeOK, Sidecar!CreateOpens, Sidecar!Step, Sidecar!Steps,
        Sidecar!Finished
  <2> QED
    BY <1>6, <2>1, <2>2, <2>3
    DEF Sidecar!TypeOK, Sidecar!CreateOpens, Sidecar!Opened
<1>7. ASSUME NEW r \in Sidecar!Requests, Sidecar!CreateOpenFails(r)
      PROVE  Sidecar!TypeOK'
  BY <1>7
  DEF Sidecar!TypeOK, Sidecar!CreateOpenFails, Sidecar!Step, Sidecar!Steps,
      Sidecar!Finished, Sidecar!NoSeed, Sidecar!Fault, Sidecar!Words,
      Sidecar!Requests
<1>8. ASSUME NEW r \in Sidecar!Requests, Sidecar!CreateRemovesDb(r)
      PROVE  Sidecar!TypeOK'
  BY <1>8
  DEF Sidecar!TypeOK, Sidecar!CreateRemovesDb, Sidecar!Step, Sidecar!Steps,
      Sidecar!Finished, Sidecar!NoDb, Sidecar!Words, Sidecar!Requests
<1>9. ASSUME NEW r \in Sidecar!Requests, Sidecar!CreateStores(r)
      PROVE  Sidecar!TypeOK'
  <2>1. (mem \in [wallet : Sidecar!Words \cup {None}, start : Nat, last : Nat, loadError : BOOLEAN,
                      synced : Nat, linked : BOOLEAN])'
    BY <1>9
    DEF Sidecar!TypeOK, Sidecar!CreateStores, Sidecar!Fresh, Sidecar!WordsOf,
        Sidecar!Words, Sidecar!Requests
  <2>2. (sync \in Syncs)'
    BY <1>9, SpawnTyped DEF Sidecar!TypeOK, Sidecar!CreateStores, Syncs
  <2>3. (request \in [Sidecar!Requests -> Sidecar!Steps \cup Sidecar!Finished])'
    BY <1>9
    DEF Sidecar!TypeOK, Sidecar!CreateStores, Sidecar!Step, Sidecar!Steps,
        Sidecar!Finished
  <2> QED
    BY <1>9, <2>1, <2>2, <2>3
    DEF Sidecar!TypeOK, Syncs, Sidecar!CreateStores, Sidecar!Fault,
        Sidecar!Words, Sidecar!Requests, Sidecar!WordsOf
<1>10. ASSUME NEW r \in Sidecar!Requests, Sidecar!ClientGivesUp(r)
       PROVE  Sidecar!TypeOK'
  BY <1>10
  DEF Sidecar!TypeOK, Sidecar!ClientGivesUp, Sidecar!Step, Sidecar!Steps,
      Sidecar!Finished, Sidecar!Fault, Sidecar!Words, Sidecar!Requests
<1>11. ASSUME NEW r \in Sidecar!Requests, Sidecar!OrphanBuilds(r)
       PROVE  Sidecar!TypeOK'
  BY <1>11
  DEF Sidecar!TypeOK, Sidecar!OrphanBuilds, Sidecar!Step, Sidecar!Steps,
      Sidecar!Finished, Sidecar!NoDb, Sidecar!WordsOf, Sidecar!Words,
      Sidecar!Requests
<1>12. ASSUME Sidecar!PostSync PROVE Sidecar!TypeOK'
  <2>1. (sync \in Syncs)'
    BY <1>12, SpawnTyped DEF Sidecar!TypeOK, Sidecar!PostSync, Syncs
  <2> QED
    BY <1>12, <2>1 DEF Sidecar!TypeOK, Syncs, Sidecar!PostSync, Sidecar!Fault
<1>13. ASSUME Sidecar!SyncStarts PROVE Sidecar!TypeOK'
  <2>1. (sync \in [at : {"idle", "start", "guard", "scan", "probe"}, horizon : Nat, checked : BOOLEAN])'
    BY <1>13 DEF Sidecar!TypeOK, Sidecar!SyncStarts, Sidecar!Horizon
  <2> QED
    BY <1>13, <2>1 DEF Sidecar!TypeOK, Syncs, Sidecar!SyncStarts, Sidecar!Fault
<1>14. ASSUME Sidecar!GuardUnanswered PROVE Sidecar!TypeOK'
  BY <1>14
  DEF Sidecar!TypeOK, Sidecar!GuardUnanswered, Sidecar!Words, Sidecar!Requests
<1>15. ASSUME Sidecar!GuardPasses PROVE Sidecar!TypeOK'
  <2>1. sync' = [sync EXCEPT !.at = "scan", !.checked = TRUE]
        /\ UNCHANGED <<Sidecar!disk, mem, timers, Sidecar!world, request, Sidecar!observers>>
    BY <1>15 DEF Sidecar!GuardPasses
  <2> QED
    BY <2>1 DEF Sidecar!TypeOK
<1>16. ASSUME Sidecar!GuardRefuses PROVE Sidecar!TypeOK'
  BY <1>16
  DEF Sidecar!TypeOK, Sidecar!GuardRefuses, Sidecar!Idle, Sidecar!Words,
      Sidecar!Requests
<1>17. ASSUME Sidecar!ScanEnds PROVE Sidecar!TypeOK'
  BY <1>17
  DEF Sidecar!TypeOK, Sidecar!ScanEnds, Sidecar!Idle, Sidecar!Words,
      Sidecar!Requests
<1>18. ASSUME Sidecar!ScanFails PROVE Sidecar!TypeOK'
  BY <1>18
  DEF Sidecar!TypeOK, Sidecar!ScanFails, Sidecar!Words, Sidecar!Requests
<1>19. ASSUME Sidecar!Probe PROVE Sidecar!TypeOK'
  BY <1>19
  DEF Sidecar!TypeOK, Sidecar!Probe, Sidecar!Idle, Sidecar!Words,
      Sidecar!Requests
<1>20. ASSUME Sidecar!RetryFires PROVE Sidecar!TypeOK'
  <2>1. (sync \in Syncs)'
    BY <1>20, SpawnTyped DEF Sidecar!TypeOK, Sidecar!RetryFires, Syncs
  <2> QED
    BY <1>20, <2>1 DEF Sidecar!TypeOK, Syncs, Sidecar!RetryFires, Sidecar!Fault
<1>21. ASSUME Sidecar!Stop PROVE Sidecar!TypeOK'
  <2>1. (mem \in [wallet : Sidecar!Words \cup {None}, start : Nat, last : Nat, loadError : BOOLEAN,
                  synced : Nat, linked : BOOLEAN])'
    BY <1>21 DEF Sidecar!TypeOK, Sidecar!Stop, Sidecar!Fresh
  <2>2. (sync \in Syncs)'
    BY <1>21 DEF Sidecar!Stop, Sidecar!Idle, Syncs
  <2>3. (request \in [Sidecar!Requests -> Sidecar!Steps \cup Sidecar!Finished])'
          /\ (deserted \subseteq Sidecar!Requests)'
    BY <1>21 DEF Sidecar!TypeOK, Sidecar!Stop, Sidecar!Steps, Sidecar!Finished
  <2>4. seed' = seed /\ db' = db /\ node' = node /\ now' = now /\ seen' = seen
        /\ bereft' = bereft
    BY <1>21 DEF Sidecar!Stop
  <2>5. timers' = 0 /\ faults' = faults + 1
    BY <1>21 DEF Sidecar!Stop, Sidecar!Fault
  <2>6. up' \in BOOLEAN
    BY <1>21, Zenon DEF Sidecar!Stop
  <2> QED
    BY <2>1, <2>2, <2>3, <2>4, <2>5, <2>6 DEF Sidecar!TypeOK, Syncs
<1>22. ASSUME Sidecar!BootEmpty PROVE Sidecar!TypeOK'
  BY <1>22
  DEF Sidecar!TypeOK, Sidecar!BootEmpty, Sidecar!Words, Sidecar!Requests
<1>23. ASSUME Sidecar!BootLoads PROVE Sidecar!TypeOK'
  <2>1. (mem \in [wallet : Sidecar!Words \cup {None}, start : Nat, last : Nat, loadError : BOOLEAN,
                      synced : Nat, linked : BOOLEAN])'
    BY <1>23
    DEF Sidecar!TypeOK, Sidecar!BootLoads, Sidecar!Fresh, Sidecar!WordsOf,
        Sidecar!Words, Sidecar!Requests
  <2>2. (sync \in Syncs)'
    BY <1>23, SpawnTyped DEF Sidecar!TypeOK, Sidecar!BootLoads, Syncs
  <2>3. (db \in [words : Sidecar!Words \cup {None}, synced : Nat])'
    BY <1>23 DEF Sidecar!TypeOK, Sidecar!BootLoads
  <2> QED
    BY <1>23, <2>1, <2>2, <2>3
    DEF Sidecar!TypeOK, Syncs, Sidecar!BootLoads, Sidecar!Fault
<1>24. ASSUME Sidecar!BootFails PROVE Sidecar!TypeOK'
  BY <1>24
  DEF Sidecar!TypeOK, Sidecar!BootFails, Sidecar!Words, Sidecar!Requests
<1>25. ASSUME Sidecar!Wipe PROVE Sidecar!TypeOK'
  BY <1>25
  DEF Sidecar!TypeOK, Sidecar!Wipe, Sidecar!NoSeed, Sidecar!NoDb, Sidecar!Words,
      Sidecar!Requests
<1>26. ASSUME Sidecar!NodeGoes PROVE Sidecar!TypeOK'
  <2>1. (node \in [up : BOOLEAN, pruned : BOOLEAN, scanning : BOOLEAN, imported : BOOLEAN])'
    BY <1>26 DEF Sidecar!TypeOK, Sidecar!NodeGoes, Sidecar!Fault
  <2> QED
    BY <1>26, <2>1 DEF Sidecar!TypeOK, Syncs, Sidecar!NodeGoes, Sidecar!Fault
<1>27. ASSUME Sidecar!NodeComes PROVE Sidecar!TypeOK'
  <2>1. (node \in [up : BOOLEAN, pruned : BOOLEAN, scanning : BOOLEAN, imported : BOOLEAN])'
    BY <1>27 DEF Sidecar!TypeOK, Sidecar!NodeComes, Sidecar!Fault
  <2> QED
    BY <1>27, <2>1 DEF Sidecar!TypeOK, Syncs, Sidecar!NodeComes, Sidecar!Fault
<1>28. ASSUME Sidecar!RescanEnds PROVE Sidecar!TypeOK'
  <2>1. (node \in [up : BOOLEAN, pruned : BOOLEAN, scanning : BOOLEAN, imported : BOOLEAN])'
    BY <1>28 DEF Sidecar!TypeOK, Sidecar!RescanEnds, Sidecar!Fault
  <2> QED
    BY <1>28, <2>1 DEF Sidecar!TypeOK, Syncs, Sidecar!RescanEnds, Sidecar!Fault
<1>29. ASSUME Sidecar!Tick PROVE Sidecar!TypeOK'
  BY <1>29 DEF Sidecar!TypeOK, Sidecar!Tick, Sidecar!Words, Sidecar!Requests
<1>30. ASSUME UNCHANGED Sidecar!vars PROVE Sidecar!TypeOK'
  BY <1>30 DEF Sidecar!TypeOK, Sidecar!vars
<1> QED
  BY <1>1, <1>2, <1>3, <1>4, <1>5, <1>6, <1>7, <1>8, <1>9, <1>10, <1>11, <1>12,
     <1>13, <1>14, <1>15, <1>16, <1>17, <1>18, <1>19, <1>20, <1>21, <1>22, <1>23,
     <1>24, <1>25, <1>26, <1>27, <1>28, <1>29, <1>30, <1>31
  DEF Sidecar!Next, Sidecar!Create, Sidecar!SyncTask

SeedPart ==
    Sidecar!SeedOwned /\ Sidecar!DownIsQuiet /\ Sidecar!SeedKnown /\ Sidecar!WordsKnown
        /\ Sidecar!UnloadedIsOwned /\ Sidecar!SeedBacksWallet

SyncPart == Sidecar!WalletSyncs /\ Sidecar!SyncRecorded /\ Sidecar!GuardJudgesOrigin

(* Only the request that saved the seed file takes it away, and nobody     *)
(* saves one while it is there.                                            *)
LEMMA SeedPartStep == Sidecar!SidecarConstants /\ Sidecar!SidecarInv
    /\ [Sidecar!Next]_Sidecar!vars => SeedPart'
<1> SUFFICES ASSUME Sidecar!SidecarConstants, Sidecar!SidecarInv, [Sidecar!Next]_Sidecar!vars
             PROVE  SeedPart'
  OBVIOUS
<1> USE DEF Sidecar!disk, Sidecar!syncing, Sidecar!world, Sidecar!observers, Sidecar!SidecarInv,
            SeedPart, Sidecar!SeedOwned, Sidecar!DownIsQuiet, Sidecar!SeedKnown,
            Sidecar!UnloadedIsOwned,
           Sidecar!SeedBacksWallet, Sidecar!WordsKnown, Sidecar!Saved, Sidecar!SeedExists, Sidecar!Finished, Sidecar!Steps
<1>1. ASSUME NEW r \in Sidecar!Requests, Sidecar!CreateStarts(r) PROVE SeedPart'
  BY <1>1
  DEF Sidecar!CreateStarts, Sidecar!Step, Sidecar!TypeOK, Sidecar!Requests
<1>2. ASSUME NEW r \in Sidecar!Requests, Sidecar!CreateChecksNode(r)
      PROVE  SeedPart'
  BY <1>2
  DEF Sidecar!CreateChecksNode, Sidecar!Step, Sidecar!TypeOK, Sidecar!Requests
<1>3. ASSUME NEW r \in Sidecar!Requests, Sidecar!CreateSaves(r) PROVE SeedPart'
  BY <1>3
  DEF Sidecar!CreateSaves, Sidecar!Step, Sidecar!WordsOf, Sidecar!TypeOK,
      Sidecar!Requests, Sidecar!Words, Sidecar!SidecarConstants
<1>4. ASSUME NEW r \in Sidecar!Requests, Sidecar!SaveFails(r) PROVE SeedPart'
  BY <1>4
  DEF Sidecar!SaveFails, Sidecar!Step, Sidecar!NoSeed, Sidecar!TypeOK,
      Sidecar!Requests, Sidecar!WordsOf, Sidecar!Words, Sidecar!SidecarConstants
<1>31. ASSUME NEW r \in Sidecar!Requests, Sidecar!OpenFails(r) PROVE SeedPart'
  BY <1>31 DEF Sidecar!OpenFails, Sidecar!Step, Sidecar!TypeOK, Sidecar!Requests
<1>5. ASSUME NEW r \in Sidecar!Requests, Sidecar!SaveCleans(r) PROVE SeedPart'
  BY <1>5
  DEF Sidecar!SaveCleans, Sidecar!Step, Sidecar!NoSeed, Sidecar!TypeOK,
      Sidecar!Requests, Sidecar!Words, Sidecar!SidecarConstants
<1>6. ASSUME NEW r \in Sidecar!Requests, Sidecar!CreateOpens(r) PROVE SeedPart'
  BY <1>6
  DEF Sidecar!CreateOpens, Sidecar!Step, Sidecar!Opened, Sidecar!WordsOf,
      Sidecar!TypeOK, Sidecar!Requests, Sidecar!Words, Sidecar!SidecarConstants
<1>7. ASSUME NEW r \in Sidecar!Requests, Sidecar!CreateOpenFails(r)
      PROVE  SeedPart'
  BY <1>7
  DEF Sidecar!CreateOpenFails, Sidecar!Step, Sidecar!NoSeed, Sidecar!WordsOf,
      Sidecar!TypeOK, Sidecar!Requests, Sidecar!Words, Sidecar!SidecarConstants
<1>8. ASSUME NEW r \in Sidecar!Requests, Sidecar!CreateRemovesDb(r)
      PROVE  SeedPart'
  BY <1>8
  DEF Sidecar!CreateRemovesDb, Sidecar!Step, Sidecar!NoDb, Sidecar!TypeOK,
      Sidecar!Requests
<1>9. ASSUME NEW r \in Sidecar!Requests, Sidecar!CreateStores(r) PROVE SeedPart'
  BY <1>9
  DEF Sidecar!CreateStores, Sidecar!Step, Sidecar!WordsOf, Sidecar!TypeOK,
      Sidecar!Requests, Sidecar!Words, Sidecar!SidecarConstants
<1>10. ASSUME NEW r \in Sidecar!Requests, Sidecar!ClientGivesUp(r)
       PROVE  SeedPart'
  BY <1>10
  DEF Sidecar!ClientGivesUp, Sidecar!Step, Sidecar!TypeOK, Sidecar!Requests
<1>11. ASSUME NEW r \in Sidecar!Requests, Sidecar!OrphanBuilds(r)
       PROVE  SeedPart'
  BY <1>11
  DEF Sidecar!OrphanBuilds, Sidecar!Step, Sidecar!NoDb, Sidecar!WordsOf,
      Sidecar!TypeOK, Sidecar!Requests, Sidecar!Words, Sidecar!SidecarConstants
<1>12. ASSUME Sidecar!PostSync PROVE SeedPart'
  BY <1>12 DEF Sidecar!PostSync, Sidecar!TypeOK
<1>13. ASSUME Sidecar!SyncStarts PROVE SeedPart'
  BY <1>13 DEF Sidecar!SyncStarts, Sidecar!TypeOK
<1>14. ASSUME Sidecar!GuardUnanswered PROVE SeedPart'
  BY <1>14 DEF Sidecar!GuardUnanswered, Sidecar!TypeOK
<1>15. ASSUME Sidecar!GuardPasses PROVE SeedPart'
  BY <1>15 DEF Sidecar!GuardPasses, Sidecar!TypeOK
<1>16. ASSUME Sidecar!GuardRefuses PROVE SeedPart'
  BY <1>16 DEF Sidecar!GuardRefuses, Sidecar!TypeOK
<1>17. ASSUME Sidecar!ScanEnds PROVE SeedPart'
  BY <1>17 DEF Sidecar!ScanEnds, Sidecar!TypeOK
<1>18. ASSUME Sidecar!ScanFails PROVE SeedPart'
  BY <1>18 DEF Sidecar!ScanFails, Sidecar!TypeOK
<1>19. ASSUME Sidecar!Probe PROVE SeedPart'
  BY <1>19 DEF Sidecar!Probe, Sidecar!TypeOK
<1>20. ASSUME Sidecar!RetryFires PROVE SeedPart'
  BY <1>20 DEF Sidecar!RetryFires, Sidecar!TypeOK
<1>21. ASSUME Sidecar!Stop PROVE SeedPart'
  <2>1. /\ up' = FALSE /\ mem'.wallet = None
        /\ UNCHANGED <<seed, seen, bereft>>
        /\ \A r \in Sidecar!Requests : request'[r]
           \in {"new", "created", "exists", "failed", "gone"}
    BY <1>21 DEF Sidecar!Stop, Sidecar!Fresh
  <2>2. \A r \in Sidecar!Requests : request[r] \in {"open", "store"} => r \in deserted'
    BY <1>21 DEF Sidecar!Stop
  <2>3. deserted \subseteq deserted'
    BY <1>21 DEF Sidecar!Stop
  <2>4. Sidecar!SeedOwned' /\ Sidecar!DownIsQuiet' /\ Sidecar!UnloadedIsOwned'
          /\ Sidecar!SeedBacksWallet'
    BY <2>1
  <2>5. Sidecar!SeedKnown'
    BY <2>1, <2>2, <2>3 DEF Sidecar!TypeOK, Sidecar!Requests
  <2>6. Sidecar!WordsKnown'
    BY <2>1 DEF Sidecar!SidecarConstants, Sidecar!Words, Sidecar!Requests
  <2> QED
    BY <2>4, <2>5, <2>6
<1>22. ASSUME Sidecar!BootEmpty PROVE SeedPart'
  BY <1>22 DEF Sidecar!BootEmpty, Sidecar!TypeOK
<1>23. ASSUME Sidecar!BootLoads PROVE SeedPart'
  BY <1>23
  DEF Sidecar!BootLoads, Sidecar!TypeOK, Sidecar!Requests, Sidecar!Words,
      Sidecar!SidecarConstants
<1>24. ASSUME Sidecar!BootFails PROVE SeedPart'
  BY <1>24 DEF Sidecar!BootFails, Sidecar!TypeOK
<1>25. ASSUME Sidecar!Wipe PROVE SeedPart'
  BY <1>25
  DEF Sidecar!Wipe, Sidecar!NoSeed, Sidecar!NoDb, Sidecar!TypeOK,
      Sidecar!Requests, Sidecar!Words, Sidecar!SidecarConstants
<1>26. ASSUME Sidecar!NodeGoes PROVE SeedPart'
  BY <1>26 DEF Sidecar!NodeGoes, Sidecar!TypeOK
<1>27. ASSUME Sidecar!NodeComes PROVE SeedPart'
  BY <1>27 DEF Sidecar!NodeComes, Sidecar!TypeOK
<1>28. ASSUME Sidecar!RescanEnds PROVE SeedPart'
  BY <1>28 DEF Sidecar!RescanEnds, Sidecar!TypeOK
<1>29. ASSUME Sidecar!Tick PROVE SeedPart'
  BY <1>29 DEF Sidecar!Tick, Sidecar!TypeOK
<1>30. ASSUME UNCHANGED Sidecar!vars PROVE SeedPart'
  BY <1>30 DEF Sidecar!vars
<1> QED
  BY <1>1, <1>2, <1>3, <1>4, <1>5, <1>6, <1>7, <1>8, <1>9, <1>10, <1>11, <1>12,
     <1>13, <1>14, <1>15, <1>16, <1>17, <1>18, <1>19, <1>20, <1>21, <1>22, <1>23,
     <1>24, <1>25, <1>26, <1>27, <1>28, <1>29, <1>30, <1>31
  DEF Sidecar!Next, Sidecar!Create, Sidecar!SyncTask

(* No wallet is opened under a sync, so the horizon that the guard judges  *)
(* stays the origin of the scan.                                           *)
LEMMA SyncPartStep == Sidecar!SidecarConstants /\ Sidecar!SidecarInv
    /\ [Sidecar!Next]_Sidecar!vars => SyncPart'
<1> SUFFICES ASSUME Sidecar!SidecarConstants, Sidecar!SidecarInv, [Sidecar!Next]_Sidecar!vars
             PROVE  SyncPart'
  OBVIOUS
<1> USE DEF Sidecar!disk, Sidecar!syncing, Sidecar!world, Sidecar!observers, Sidecar!SidecarInv,
            SyncPart, Sidecar!WalletSyncs, Sidecar!SyncRecorded, Sidecar!GuardJudgesOrigin,
            Sidecar!Origin
<1>1. ASSUME NEW r \in Sidecar!Requests, Sidecar!CreateStarts(r) PROVE SyncPart'
  BY <1>1 DEF Sidecar!CreateStarts, Sidecar!TypeOK
<1>2. ASSUME NEW r \in Sidecar!Requests, Sidecar!CreateChecksNode(r)
      PROVE  SyncPart'
  BY <1>2 DEF Sidecar!CreateChecksNode, Sidecar!TypeOK
<1>3. ASSUME NEW r \in Sidecar!Requests, Sidecar!CreateSaves(r) PROVE SyncPart'
  BY <1>3 DEF Sidecar!CreateSaves, Sidecar!TypeOK
<1>4. ASSUME NEW r \in Sidecar!Requests, Sidecar!SaveFails(r) PROVE SyncPart'
  BY <1>4 DEF Sidecar!SaveFails, Sidecar!TypeOK
<1>31. ASSUME NEW r \in Sidecar!Requests, Sidecar!OpenFails(r) PROVE SyncPart'
  BY <1>31 DEF Sidecar!OpenFails, Sidecar!TypeOK
<1>5. ASSUME NEW r \in Sidecar!Requests, Sidecar!SaveCleans(r) PROVE SyncPart'
  BY <1>5 DEF Sidecar!SaveCleans, Sidecar!TypeOK
<1>6. ASSUME NEW r \in Sidecar!Requests, Sidecar!CreateOpens(r) PROVE SyncPart'
  BY <1>6
  DEF Sidecar!CreateOpens, Sidecar!Opened, Sidecar!SeedOwned, Sidecar!Saved,
      Sidecar!SidecarConstants, Sidecar!WordsOf, Sidecar!Words, Sidecar!Requests,
      Sidecar!TypeOK
<1>7. ASSUME NEW r \in Sidecar!Requests, Sidecar!CreateOpenFails(r)
      PROVE  SyncPart'
  BY <1>7 DEF Sidecar!CreateOpenFails, Sidecar!TypeOK
<1>8. ASSUME NEW r \in Sidecar!Requests, Sidecar!CreateRemovesDb(r)
      PROVE  SyncPart'
  BY <1>8 DEF Sidecar!CreateRemovesDb, Sidecar!TypeOK
<1>9. ASSUME NEW r \in Sidecar!Requests, Sidecar!CreateStores(r) PROVE SyncPart'
  BY <1>9
  DEF Sidecar!CreateStores, Sidecar!SpawnSync, Sidecar!Idle, Sidecar!SeedOwned,
      Sidecar!Saved, Sidecar!SidecarConstants, Sidecar!WordsOf, Sidecar!Words,
      Sidecar!Requests, Sidecar!TypeOK
<1>10. ASSUME NEW r \in Sidecar!Requests, Sidecar!ClientGivesUp(r)
       PROVE  SyncPart'
  BY <1>10 DEF Sidecar!ClientGivesUp, Sidecar!TypeOK
<1>11. ASSUME NEW r \in Sidecar!Requests, Sidecar!OrphanBuilds(r)
       PROVE  SyncPart'
  BY <1>11 DEF Sidecar!OrphanBuilds, Sidecar!TypeOK
<1>12. ASSUME Sidecar!PostSync PROVE SyncPart'
  BY <1>12 DEF Sidecar!PostSync, Sidecar!SpawnSync, Sidecar!Idle, Sidecar!TypeOK
<1>13. ASSUME Sidecar!SyncStarts PROVE SyncPart'
  BY <1>13 DEF Sidecar!SyncStarts, Sidecar!Horizon, Sidecar!TypeOK
<1>14. ASSUME Sidecar!GuardUnanswered PROVE SyncPart'
  BY <1>14 DEF Sidecar!GuardUnanswered, Sidecar!TypeOK
<1>15. ASSUME Sidecar!GuardPasses PROVE SyncPart'
  BY <1>15 DEF Sidecar!GuardPasses, Sidecar!TypeOK
<1>16. ASSUME Sidecar!GuardRefuses PROVE SyncPart'
  BY <1>16 DEF Sidecar!GuardRefuses, Sidecar!Idle, Sidecar!TypeOK
<1>17. ASSUME Sidecar!ScanEnds PROVE SyncPart'
  BY <1>17 DEF Sidecar!ScanEnds, Sidecar!Idle, Sidecar!TypeOK
<1>18. ASSUME Sidecar!ScanFails PROVE SyncPart'
  BY <1>18 DEF Sidecar!ScanFails, Sidecar!TypeOK
<1>19. ASSUME Sidecar!Probe PROVE SyncPart'
  BY <1>19 DEF Sidecar!Probe, Sidecar!Idle, Sidecar!TypeOK
<1>20. ASSUME Sidecar!RetryFires PROVE SyncPart'
  BY <1>20
  DEF Sidecar!RetryFires, Sidecar!SpawnSync, Sidecar!Idle, Sidecar!TypeOK
<1>21. ASSUME Sidecar!Stop PROVE SyncPart'
  BY <1>21 DEF Sidecar!Stop, Sidecar!Idle, Sidecar!Fresh, Sidecar!TypeOK
<1>22. ASSUME Sidecar!BootEmpty PROVE SyncPart'
  BY <1>22 DEF Sidecar!BootEmpty, Sidecar!TypeOK
<1>23. ASSUME Sidecar!BootLoads PROVE SyncPart'
  BY <1>23
  DEF Sidecar!BootLoads, Sidecar!SpawnSync, Sidecar!Idle, Sidecar!DownIsQuiet,
      Sidecar!TypeOK
<1>24. ASSUME Sidecar!BootFails PROVE SyncPart'
  BY <1>24 DEF Sidecar!BootFails, Sidecar!TypeOK
<1>25. ASSUME Sidecar!Wipe PROVE SyncPart'
  BY <1>25 DEF Sidecar!Wipe, Sidecar!TypeOK
<1>26. ASSUME Sidecar!NodeGoes PROVE SyncPart'
  BY <1>26 DEF Sidecar!NodeGoes, Sidecar!TypeOK
<1>27. ASSUME Sidecar!NodeComes PROVE SyncPart'
  BY <1>27 DEF Sidecar!NodeComes, Sidecar!TypeOK
<1>28. ASSUME Sidecar!RescanEnds PROVE SyncPart'
  BY <1>28 DEF Sidecar!RescanEnds, Sidecar!TypeOK
<1>29. ASSUME Sidecar!Tick PROVE SyncPart'
  BY <1>29 DEF Sidecar!Tick, Sidecar!TypeOK
<1>30. ASSUME UNCHANGED Sidecar!vars PROVE SyncPart'
  BY <1>30 DEF Sidecar!vars
<1> QED
  BY <1>1, <1>2, <1>3, <1>4, <1>5, <1>6, <1>7, <1>8, <1>9, <1>10, <1>11, <1>12,
     <1>13, <1>14, <1>15, <1>16, <1>17, <1>18, <1>19, <1>20, <1>21, <1>22, <1>23,
     <1>24, <1>25, <1>26, <1>27, <1>28, <1>29, <1>30, <1>31
  DEF Sidecar!Next, Sidecar!Create, Sidecar!SyncTask

LEMMA SidecarStep == Sidecar!SidecarConstants
    => (Sidecar!SidecarInv /\ [Sidecar!Next]_Sidecar!vars => Sidecar!SidecarInv')
BY SidecarType, SeedPartStep, SyncPartStep
DEF Sidecar!SidecarInv, SeedPart, SyncPart

(* A wallet in use is that of the seed file, whose request has answered or *)
(* was cut off.                                                            *)
LEMMA SidecarSafe ==
    Sidecar!SidecarConstants /\ Sidecar!SidecarInv =>
        /\ Sidecar!TypeOK /\ Sidecar!SeedBacksWallet /\ Sidecar!GuardJudgesOrigin
        /\ Sidecar!WordsKnown /\ Sidecar!UnloadedIsExplained
<1> SUFFICES ASSUME Sidecar!SidecarConstants, Sidecar!SidecarInv
             PROVE  /\ Sidecar!TypeOK /\ Sidecar!SeedBacksWallet /\ Sidecar!GuardJudgesOrigin
                    /\ Sidecar!WordsKnown /\ Sidecar!UnloadedIsExplained
  OBVIOUS
<1>1. Sidecar!WordsKnown
  BY DEF Sidecar!SidecarInv
<1>2. Sidecar!UnloadedIsExplained
  BY DEF Sidecar!UnloadedIsExplained, Sidecar!SidecarInv,
     Sidecar!UnloadedIsOwned, Sidecar!Saved, Sidecar!Finished
<1> QED
  BY <1>1, <1>2 DEF Sidecar!SidecarInv

(* Whatever creates and restores overlap, lose their client, fail to open  *)
(* or to write the file, or die, the wallet in use is that of the seed     *)
(* file and the prune guard judges the origin of its scan, until a create  *)
(* that could not open the file removes one that another had made;         *)
(* somebody has its words, and one that does not load says why (bdk-       *)
(* wallet/src/main.rs:617).                                                *)
THEOREM WalletIsSound ==
    ASSUME Sidecar!SidecarConstants
    PROVE  Sidecar!Spec => [](Sidecar!TypeOK /\ Sidecar!SeedBacksWallet
        /\ Sidecar!GuardJudgesOrigin /\ Sidecar!WordsKnown /\ Sidecar!UnloadedIsExplained)
<1>1. Sidecar!Init => Sidecar!SidecarInv
  BY NothingKept
<1>2. Sidecar!SidecarInv /\ [Sidecar!Next]_Sidecar!vars => Sidecar!SidecarInv'
  BY SidecarStep
<1>3. Sidecar!SidecarInv => (Sidecar!TypeOK /\ Sidecar!SeedBacksWallet
        /\ Sidecar!GuardJudgesOrigin /\ Sidecar!WordsKnown /\ Sidecar!UnloadedIsExplained)
  BY SidecarSafe
<1> QED
  BY <1>1, <1>2, <1>3, PTL DEF Sidecar!Spec
-----------------------------------------------------------------------------
(* TelegramBot.  An effect of an update, and each of its handlers, is paid *)
(* for by a restart, by its code being burnt, or by the one burn of it     *)
(* that ended too soon.                                                    *)
LEMMA NothingWritten == Bot!BotConstants /\ Bot!Init => Bot!BotInv
<1> SUFFICES ASSUME Bot!BotConstants, Bot!Init PROVE Bot!BotInv
  OBVIOUS
<1>1. Bot!TypeOK /\ Bot!EarlyBurnt /\ Bot!RunningOnce
  BY DEF Bot!Init, Bot!Settled, Bot!TypeOK, Bot!BotConstants, Bot!EarlyBurnt,
     Bot!RunningOnce
<1>2. Bot!Paid
  BY DEF Bot!Init, Bot!Paid, Bot!One, Bot!Burnt, Bot!Late, Bot!Runs
<1> QED
  BY <1>1, <1>2 DEF Bot!BotInv

(* The updates of an answer are of the queue, and have a last one.         *)
LEMMA BatchType ==
    ASSUME Bot!BotConstants, Bot!TypeOK, loop.at = "poll"
    PROVE  /\ loop.bot \in Bots
           /\ \A i \in Bot!Batch : i \in Nat \ {0} /\ i <= Len(sent[loop.bot])
           /\ Bot!Batch # {} => (CHOOSE i \in Bot!Batch : \A j \in Bot!Batch : j <= i) \in Nat
<1>1. loop.bot \in Bots /\ Len(sent[loop.bot]) \in Nat /\ dropped[loop.bot] \in Nat
  BY DEF Bot!TypeOK
<1>2. \A i \in Bot!Batch : i \in Nat \ {0} /\ i <= Len(sent[loop.bot])
  BY <1>1 DEF Bot!Batch
<1>3. ASSUME Bot!Batch # {}
      PROVE  \E i \in Bot!Batch : \A j \in Bot!Batch : j <= i
  <2> DEFINE Left == {Len(sent[loop.bot]) - i : i \in Bot!Batch}
  <2>1. Left \subseteq Nat /\ Left # {}
    BY <1>1, <1>2, <1>3
  <2>2. PICK n \in Left : \A k \in Left : n <= k
    <3> HIDE DEF Left
    <3> QED
      BY <2>1, LeastNumber
  <2>3. PICK i \in Bot!Batch : n = Len(sent[loop.bot]) - i
    BY <2>2
  <2>4. ASSUME NEW j \in Bot!Batch PROVE j <= i
    <3>1. Len(sent[loop.bot]) - j \in Left
      BY <2>4
    <3> HIDE DEF Left
    <3>2. n <= Len(sent[loop.bot]) - j /\ i \in Nat /\ j \in Nat
      BY <1>2, <2>2, <3>1
    <3> QED
      BY <1>1, <2>3, <3>2
  <2> QED
    BY <2>4
<1> QED
  BY <1>1, <1>2, <1>3

LEMMA OneMore ==
    ASSUME NEW N, NEW g \in [1..N -> Nat], NEW i
    PROVE  /\ [g EXCEPT ![i] = @ + 1] \in [1..N -> Nat]
           /\ \A j \in 1..N : [g EXCEPT ![i] = @ + 1][j] = IF j = i THEN g[j] + 1 ELSE g[j]
<1>1. CASE i \in 1..N
  <2>1. g[i] + 1 \in Nat
    BY <1>1
  <2> QED
    BY <2>1
<1>2. CASE i \notin 1..N
  BY <1>2
<1> QED
  BY <1>1, <1>2

LEMMA RanCounts ==
    ASSUME Bot!TypeOK, NEW b \in Bots
    PROVE  DOMAIN ran[b] = 1..MaxUpdates /\ ran[b] \in [1..MaxUpdates -> Nat]
BY DEF Bot!TypeOK

LEMMA EffectBounded == Bot!BotInv => Bot!EffectOnce
<1> SUFFICES ASSUME Bot!BotInv, NEW b \in Bots, NEW i \in DOMAIN ran[b]
             PROVE  ran[b][i] <= 1 + restarts + Bot!One(Bot!Late(b, i))
  BY DEF Bot!EffectOnce
<1>1. Bot!TypeOK /\ i \in 1..MaxUpdates
  BY RanCounts DEF Bot!BotInv
<1>2. /\ ran[b][i] + Bot!One(Bot!Runs(b, i, 1)) + Bot!One(Bot!Runs(b, i, 2))
            <= restarts + Bot!One(Bot!Late(b, i)) + Bot!One(Bot!Burnt(b, i))
      /\ ran[b][i] \in Nat /\ restarts \in Nat
  BY <1>1, RanCounts DEF Bot!BotInv, Bot!Paid, Bot!TypeOK
<1> QED
  BY <1>2 DEF Bot!One

(* An update whose account is as it was, or better, stays paid for.        *)
LEMMA StillPaid ==
    ASSUME Bot!Paid, Bot!TypeOK, NEW b \in Bots, NEW i \in 1..MaxUpdates,
           ran' = ran, restarts' = restarts,
           Bot!Runs(b, i, 1)' => Bot!Runs(b, i, 1), Bot!Runs(b, i, 2)' => Bot!Runs(b, i, 2),
           Bot!Late(b, i) => Bot!Late(b, i)', Bot!Burnt(b, i) => Bot!Burnt(b, i)'
    PROVE  ran'[b][i] + Bot!One(Bot!Runs(b, i, 1)') + Bot!One(Bot!Runs(b, i, 2)')
              <= restarts' + Bot!One(Bot!Late(b, i)') + Bot!One(Bot!Burnt(b, i)')
<1>1. /\ ran[b][i] + Bot!One(Bot!Runs(b, i, 1)) + Bot!One(Bot!Runs(b, i, 2))
            <= restarts + Bot!One(Bot!Late(b, i)) + Bot!One(Bot!Burnt(b, i))
      /\ ran[b][i] \in Nat /\ restarts \in Nat
  BY RanCounts DEF Bot!Paid, Bot!TypeOK
<1> QED
  BY <1>1 DEF Bot!One

LEMMA SameCodes ==
    ASSUME sent' = sent, burned' = burned, late' = late, NEW b, NEW i
    PROVE  Bot!Burnt(b, i)' = Bot!Burnt(b, i) /\ Bot!Late(b, i)' = Bot!Late(b, i)
BY DEF Bot!Burnt, Bot!Late

(* A step that touches neither messages, codes, handlers nor effects.      *)
LEMMA BotIdle ==
    ASSUME Bot!BotInv, Bot!TypeOK',
           UNCHANGED <<sent, running, burned, early, late, ran, restarts>>
    PROVE  Bot!BotInv'
<1>1. Bot!EarlyBurnt' /\ Bot!RunningOnce'
  BY SameCodes DEF Bot!BotInv, Bot!EarlyBurnt, Bot!RunningOnce
<1>2. Bot!Paid'
  <2> SUFFICES ASSUME NEW b \in Bots, NEW i \in 1..MaxUpdates
               PROVE  ran'[b][i] + Bot!One(Bot!Runs(b, i, 1)') + Bot!One(Bot!Runs(b, i, 2)')
                         <= restarts' + Bot!One(Bot!Late(b, i)') + Bot!One(Bot!Burnt(b, i)')
    BY DEF Bot!Paid
  <2>1. /\ Bot!Runs(b, i, 1)' = Bot!Runs(b, i, 1) /\ Bot!Runs(b, i, 2)' = Bot!Runs(b, i, 2)
        /\ Bot!Burnt(b, i)' = Bot!Burnt(b, i) /\ Bot!Late(b, i)' = Bot!Late(b, i)
    BY SameCodes DEF Bot!Runs
  <2> QED
    BY <2>1, StillPaid DEF Bot!BotInv
<1> QED
  BY <1>1, <1>2 DEF Bot!BotInv

LEMMA WriteKeeps ==
    ASSUME Bot!BotConstants, Bot!BotInv, NEW b \in Bots, NEW m \in Messages,
           Bot!WriteMessage(b, m)
    PROVE  Bot!BotInv'
<1>1. /\ sent' = [sent EXCEPT ![b] = Append(@, m)]
      /\ UNCHANGED <<config, dropped, loop, running, burned, early, late, ran, restarts>>
      /\ Bot!TypeOK
  BY DEF Bot!WriteMessage, Bot!codes, Bot!bounds, Bot!BotInv
<1>2. Bot!TypeOK'
  BY <1>1 DEF Bot!TypeOK
<1>3. \A a \in Bots : \A i \in 1..Len(sent[a]) : i \in 1..Len(sent[a])'
        /\ sent'[a][i] = sent[a][i]
  BY <1>1 DEF Bot!TypeOK
<1>4. \A a \in Bots : \A i : (Bot!Burnt(a, i) => Bot!Burnt(a, i)')
        /\ (Bot!Late(a, i) => Bot!Late(a, i)')
  BY <1>1, <1>3 DEF Bot!Burnt, Bot!Late
<1>5. Bot!EarlyBurnt' /\ Bot!RunningOnce'
  BY <1>1, <1>4 DEF Bot!BotInv, Bot!EarlyBurnt, Bot!RunningOnce, Bot!TypeOK
<1>6. Bot!Paid'
  <2> SUFFICES ASSUME NEW a \in Bots, NEW i \in 1..MaxUpdates
               PROVE  ran'[a][i] + Bot!One(Bot!Runs(a, i, 1)') + Bot!One(Bot!Runs(a, i, 2)')
                         <= restarts' + Bot!One(Bot!Late(a, i)') + Bot!One(Bot!Burnt(a, i)')
    BY DEF Bot!Paid
  <2>1. Bot!Runs(a, i, 1)' = Bot!Runs(a, i, 1) /\ Bot!Runs(a, i, 2)' = Bot!Runs(a, i, 2)
    BY <1>1 DEF Bot!Runs
  <2> QED
    BY <1>1, <1>4, <2>1, StillPaid DEF Bot!BotInv
<1> QED
  BY <1>2, <1>5, <1>6 DEF Bot!BotInv

(* What an answer of Telegram starts.                                      *)
LEMMA AnswerKeeps ==
    ASSUME Bot!BotConstants, Bot!BotInv, Bot!Answered
    PROVE  Bot!BotInv'
<1>a. Bot!TypeOK /\ Bot!EarlyBurnt /\ Bot!RunningOnce /\ Bot!Paid
  BY DEF Bot!BotInv
<1>1. loop.at = "poll" /\ Bot!Batch # {}
  BY DEF Bot!Answered
<1>2. PICK b \in Bots : b = loop.bot
  BY <1>1, <1>a, BatchType
<1>3. /\ \A i \in Bot!Batch : i \in Nat \ {0} /\ i <= Len(sent[b]) /\ i \in 1..Len(sent[b])
      /\ (CHOOSE i \in Bot!Batch : \A j \in Bot!Batch : j <= i) \in Nat
  <2>1. Len(sent[b]) \in Nat
    BY <1>a, <1>2 DEF Bot!TypeOK
  <2> QED
    BY <1>1, <1>2, <1>a, <2>1, BatchType
<1> DEFINE New == {[at |-> "delete", bot |-> loop.bot, id |-> i, cmd |-> Bot!Message(i).cmd,
                    turn |-> Bot!Turn(i)] : i \in Bot!Taken}
<1>4. /\ running' = running \cup New
      /\ burned' = burned \cup {Bot!Message(i).code : i \in Bot!Taken}
      /\ UNCHANGED <<config, controls, sent, dropped, late, staking, ran, restarts>>
  BY DEF Bot!Answered, Bot!bounds
<1>5. early' \subseteq burned' \ late'
  <2>1. PICK E \in SUBSET ({Bot!Message(i).code : i \in Bot!Taken} \ late) : early'
          = early \cup E
    BY DEF Bot!Answered
  <2> QED
    BY <1>4, <1>a, <2>1 DEF Bot!EarlyBurnt
<1>6. \A i \in Bot!Taken : /\ i \in Bot!Batch /\ Bot!Message(i).code \notin burned
                           /\ Bot!Message(i) = sent[b][i]
                              /\ Bot!Message(i).cmd \in {"on", "off"}
  BY <1>2 DEF Bot!Taken, Bot!Accepted, Bot!Message
<1>7. \A i \in Bot!Taken : /\ ~Bot!Burnt(b, i) /\ Bot!Burnt(b, i)'
                           /\ Bot!Turn(i) = IF Bot!Late(b, i) THEN 2 ELSE 1
  <2>1. \A i \in Bot!Taken : i \in 1..Len(sent[b]) /\ Bot!Message(i).code \in burned'
          /\ sent' = sent
    BY <1>3, <1>4, <1>6
  <2> QED
    BY <1>6, <2>1 DEF Bot!Burnt, Bot!Late, Bot!Turn
<1>8. \A h \in New : /\ h.at = "delete" /\ h.bot = b /\ h.id \in Bot!Taken
                        /\ h.cmd \in {"on", "off"}
                     /\ h.turn = Bot!Turn(h.id)
                     /\ h = [at |-> "delete", bot |-> loop.bot, id |-> h.id,
                             cmd |-> Bot!Message(h.id).cmd, turn |-> Bot!Turn(h.id)]
  BY <1>2, <1>6
<1>9. Bot!TypeOK'
  <2>1. loop' \in [at : {"read", "poll"}, bot : Bots \cup {None}, chat : Chats \cup {None},
                   offset : Nat] /\ loop'.at = "read"
    <3> DEFINE n == (CHOOSE i \in Bot!Batch : \A j \in Bot!Batch : j <= i) + 1
    <3>1. n \in Nat /\ loop' = [loop EXCEPT !.at = "read", !.offset = n]
      BY <1>3 DEF Bot!Answered
    <3> HIDE DEF n
    <3> QED
      BY <1>a, <3>1 DEF Bot!TypeOK
  <2>2. New \subseteq [at : {"delete", "rpc"}, bot : Bots, id : Nat \ {0},
                       cmd : {"on", "off"}, turn : {1, 2}]
    <3>1. \A i \in Bot!Taken : i \in Nat \ {0} /\ Bot!Turn(i) \in {1, 2}
      BY <1>3, <1>6, <1>7
    <3> QED
      BY <1>2, <1>6, <3>1
  <2> HIDE DEF New
  <2> QED
    BY <1>a, <1>4, <2>1, <2>2 DEF Bot!TypeOK
<1> HIDE DEF New
<1>10. \A a, i : (Bot!Burnt(a, i) => Bot!Burnt(a, i)') /\ Bot!Late(a, i)' = Bot!Late(a, i)
  BY <1>4 DEF Bot!Burnt, Bot!Late
<1>11. \A h \in running, k \in New : ~(h.bot = k.bot /\ h.id = k.id /\ h.turn = k.turn)
  <2> SUFFICES ASSUME NEW h \in running, NEW k \in New,
                      h.bot = k.bot, h.id = k.id, h.turn = k.turn
               PROVE  FALSE
    OBVIOUS
  <2>1. k.bot = b /\ k.id \in Bot!Taken /\ k.turn = IF Bot!Late(b, k.id) THEN 2 ELSE 1
    BY <1>7, <1>8
  <2>2. ~Bot!Burnt(b, k.id)
    BY <1>7, <2>1
  <2> QED
    BY <1>a, <2>1, <2>2 DEF Bot!RunningOnce
<1>12. Bot!RunningOnce'
  <2>1. \A h, k \in New : h.id = k.id => h = k
    BY <1>8
  <2>2. \A h \in New : Bot!Burnt(h.bot, h.id)' /\ (h.turn = 2 => Bot!Late(h.bot, h.id)')
    <3> TAKE h \in New
    <3>1. h.bot = b /\ h.id \in Bot!Taken /\ h.turn = IF Bot!Late(b, h.id) THEN 2 ELSE 1
      BY <1>7, <1>8
    <3> QED
      BY <1>7, <1>10, <3>1
  <2>3. \A h, k \in running' : h.bot = k.bot /\ h.id = k.id /\ h.turn = k.turn => h = k
    BY <1>a, <1>4, <1>11, <2>1 DEF Bot!RunningOnce
  <2>4. \A h \in running' : /\ Bot!Burnt(h.bot, h.id)' \/ Bot!Late(h.bot, h.id)'
                            /\ h.turn = 2 => Bot!Burnt(h.bot, h.id)' /\ Bot!Late(h.bot, h.id)'
    BY <1>a, <1>4, <1>10, <2>2 DEF Bot!RunningOnce
  <2> QED
    BY <2>3, <2>4 DEF Bot!RunningOnce
<1>13. Bot!Paid'
  <2> SUFFICES ASSUME NEW a \in Bots, NEW i \in 1..MaxUpdates
               PROVE  ran'[a][i] + Bot!One(Bot!Runs(a, i, 1)') + Bot!One(Bot!Runs(a, i, 2)')
                         <= restarts' + Bot!One(Bot!Late(a, i)') + Bot!One(Bot!Burnt(a, i)')
    BY DEF Bot!Paid
  <2>1. CASE a = b /\ i \in Bot!Taken
    <3>1. ~Bot!Burnt(a, i) /\ Bot!Burnt(a, i)' /\ Bot!Late(a, i)' = Bot!Late(a, i)
      BY <1>7, <1>10, <2>1
    <3>2. Bot!Runs(a, i, 2)' => Bot!Late(a, i)
      BY <1>10, <1>12 DEF Bot!RunningOnce, Bot!Runs
    <3>3. ~Bot!Runs(a, i, 2)
      BY <1>a, <3>1 DEF Bot!RunningOnce, Bot!Runs
    <3>4. Bot!Runs(a, i, 1) => Bot!Late(a, i)
      BY <1>a, <3>1 DEF Bot!RunningOnce, Bot!Runs
    <3>5. Bot!Late(a, i) => (Bot!Runs(a, i, 1)' => Bot!Runs(a, i, 1))
      <4> SUFFICES ASSUME Bot!Late(a, i), NEW h \in running', h.bot = a, h.id = i, h.turn = 1
                   PROVE  Bot!Runs(a, i, 1)
        BY DEF Bot!Runs
      <4>1. h \notin New
        BY <1>7, <1>8, <2>1
      <4> QED
        BY <1>4, <4>1 DEF Bot!Runs
    <3>6. /\ ran[a][i] + Bot!One(Bot!Runs(a, i, 1)) + Bot!One(Bot!Runs(a, i, 2))
                <= restarts + Bot!One(Bot!Late(a, i)) + Bot!One(Bot!Burnt(a, i))
          /\ ran[a][i] \in Nat /\ restarts \in Nat
          /\ ran' = ran /\ restarts' = restarts
      BY <1>a, <1>4, RanCounts DEF Bot!Paid, Bot!TypeOK
    <3> QED
      BY <3>1, <3>2, <3>3, <3>4, <3>5, <3>6 DEF Bot!One
  <2>2. CASE ~(a = b /\ i \in Bot!Taken)
    <3>1. \A n : Bot!Runs(a, i, n)' => Bot!Runs(a, i, n)
      BY <1>4, <1>8, <2>2 DEF Bot!Runs
    <3> QED
      BY <1>a, <1>4, <1>10, <3>1, StillPaid
  <2> QED
    BY <2>1, <2>2
<1>14. Bot!EarlyBurnt'
  BY <1>5 DEF Bot!EarlyBurnt
<1> QED
  BY <1>9, <1>12, <1>13, <1>14 DEF Bot!BotInv

LEMMA ExpiryKeeps ==
    ASSUME Bot!BotConstants, Bot!BotInv, NEW c \in early, Bot!BurnExpires(c)
    PROVE  Bot!BotInv'
<1>a. Bot!TypeOK /\ Bot!EarlyBurnt /\ Bot!RunningOnce /\ Bot!Paid
  BY DEF Bot!BotInv
<1>1. /\ burned' = burned \ {c} /\ early' = early \ {c} /\ late' = late \cup {c}
      /\ UNCHANGED <<config, sent, dropped, loop, running, ran, restarts>>
      /\ c \in burned /\ c \notin late
  BY <1>a DEF Bot!BurnExpires, Bot!bounds, Bot!EarlyBurnt
<1>2. Bot!TypeOK' /\ Bot!EarlyBurnt'
  BY <1>1, <1>a DEF Bot!TypeOK, Bot!EarlyBurnt
<1>3. ASSUME NEW a, NEW i
      PROVE  \/ /\ Bot!Burnt(a, i) /\ ~Bot!Late(a, i)
                /\ ~Bot!Burnt(a, i)' /\ Bot!Late(a, i)'
             \/ Bot!Burnt(a, i)' = Bot!Burnt(a, i) /\ Bot!Late(a, i)' = Bot!Late(a, i)
  BY <1>1 DEF Bot!Burnt, Bot!Late
<1>4. Bot!RunningOnce'
  BY <1>1, <1>3, <1>a DEF Bot!RunningOnce
<1>5. Bot!Paid'
  <2> SUFFICES ASSUME NEW a \in Bots, NEW i \in 1..MaxUpdates
               PROVE  ran'[a][i] + Bot!One(Bot!Runs(a, i, 1)') + Bot!One(Bot!Runs(a, i, 2)')
                         <= restarts' + Bot!One(Bot!Late(a, i)') + Bot!One(Bot!Burnt(a, i)')
    BY DEF Bot!Paid
  <2>1. /\ ran[a][i] + Bot!One(Bot!Runs(a, i, 1)) + Bot!One(Bot!Runs(a, i, 2))
              <= restarts + Bot!One(Bot!Late(a, i)) + Bot!One(Bot!Burnt(a, i))
        /\ ran[a][i] \in Nat /\ restarts \in Nat
        /\ ran' = ran /\ restarts' = restarts
    BY <1>a, <1>1, RanCounts DEF Bot!Paid, Bot!TypeOK
  <2>2. Bot!Runs(a, i, 1)' = Bot!Runs(a, i, 1) /\ Bot!Runs(a, i, 2)' = Bot!Runs(a, i, 2)
    BY <1>1 DEF Bot!Runs
  <2> QED
    BY <1>3, <2>1, <2>2 DEF Bot!One
<1> QED
  BY <1>2, <1>4, <1>5 DEF Bot!BotInv

LEMMA DeletedKeeps ==
    ASSUME Bot!BotConstants, Bot!BotInv, NEW h \in running, Bot!Deleted(h)
    PROVE  Bot!BotInv'
<1>a. Bot!TypeOK /\ Bot!EarlyBurnt /\ Bot!RunningOnce /\ Bot!Paid
  BY DEF Bot!BotInv
<1> DEFINE k == [h EXCEPT !.at = "rpc"]
<1>1. /\ k \in [at : {"delete", "rpc"}, bot : Bots, id : Nat \ {0},
                cmd : {"on", "off"}, turn : {1, 2}]
      /\ k.bot = h.bot /\ k.id = h.id /\ k.turn = h.turn
      /\ running' = (running \ {h}) \cup {k}
      /\ UNCHANGED <<config, sent, dropped, loop, burned, early, late, ran, restarts>>
  BY <1>a DEF Bot!Deleted, Bot!TypeOK, Bot!codes, Bot!bounds
<1> HIDE DEF k
<1>2. Bot!TypeOK' /\ Bot!EarlyBurnt'
  BY <1>1, <1>a DEF Bot!TypeOK, Bot!EarlyBurnt
<1>3. \A a, i : Bot!Burnt(a, i)' = Bot!Burnt(a, i) /\ Bot!Late(a, i)' = Bot!Late(a, i)
  BY <1>1, SameCodes
<1>4. Bot!RunningOnce'
  BY <1>1, <1>3, <1>a DEF Bot!RunningOnce
<1>5. Bot!Paid'
  <2> SUFFICES ASSUME NEW a \in Bots, NEW i \in 1..MaxUpdates
               PROVE  ran'[a][i] + Bot!One(Bot!Runs(a, i, 1)') + Bot!One(Bot!Runs(a, i, 2)')
                         <= restarts' + Bot!One(Bot!Late(a, i)') + Bot!One(Bot!Burnt(a, i)')
    BY DEF Bot!Paid
  <2>1. \A n : Bot!Runs(a, i, n)' => Bot!Runs(a, i, n)
    BY <1>1 DEF Bot!Runs
  <2> QED
    BY <1>1, <1>3, <1>a, <2>1, StillPaid
<1> QED
  BY <1>2, <1>4, <1>5 DEF Bot!BotInv

(* A handler that ends leaves no other of its update and turn.             *)
LEMMA HandlerEnds ==
    ASSUME Bot!BotInv, NEW h \in running, running' = running \ {h}, NEW a, NEW i
    PROVE  /\ \A n : Bot!Runs(a, i, n)' => Bot!Runs(a, i, n)
           /\ a = h.bot /\ i = h.id => ~Bot!Runs(a, i, h.turn)' /\ Bot!Runs(a, i, h.turn)
           /\ h.turn \in {1, 2} /\ h.bot \in Bots
BY DEF Bot!BotInv, Bot!RunningOnce, Bot!Runs, Bot!TypeOK

LEMMA PerformedKeeps ==
    ASSUME Bot!BotConstants, Bot!BotInv, NEW h \in running, Bot!Performed(h)
    PROVE  Bot!BotInv'
<1>a. Bot!TypeOK /\ Bot!EarlyBurnt /\ Bot!RunningOnce /\ Bot!Paid
  BY DEF Bot!BotInv
<1>1. /\ running' = running \ {h}
      /\ ran' = [ran EXCEPT ![h.bot][h.id] = @ + 1]
      /\ UNCHANGED <<config, sent, dropped, loop, burned, early, late, restarts>>
      /\ h.bot \in Bots
  BY <1>a DEF Bot!Performed, Bot!codes, Bot!bounds, Bot!TypeOK
<1>2. /\ ran' \in [Bots -> [1..MaxUpdates -> Nat]]
      /\ \A b \in Bots : \A i \in 1..MaxUpdates :
            ran'[b][i] = IF b = h.bot /\ i = h.id THEN ran[b][i] + 1 ELSE ran[b][i]
  <2> DEFINE f == [ran[h.bot] EXCEPT ![h.id] = @ + 1]
  <2>1. /\ f \in [1..MaxUpdates -> Nat]
        /\ \A i \in 1..MaxUpdates :
              f[i] = IF i = h.id THEN ran[h.bot][i] + 1 ELSE ran[h.bot][i]
    <3>1. ran[h.bot] \in [1..MaxUpdates -> Nat]
      BY <1>1, <1>a, RanCounts
    <3> QED
      BY <3>1, OneMore
  <2>2. ran' = [ran EXCEPT ![h.bot] = f]
    BY <1>1
  <2> HIDE DEF f
  <2> QED
    BY <1>1, <1>a, <2>1, <2>2 DEF Bot!TypeOK
<1>3. Bot!TypeOK' /\ Bot!EarlyBurnt'
  BY <1>1, <1>2, <1>a DEF Bot!TypeOK, Bot!EarlyBurnt
<1>4. \A a, i : Bot!Burnt(a, i)' = Bot!Burnt(a, i) /\ Bot!Late(a, i)' = Bot!Late(a, i)
  BY <1>1, SameCodes
<1>5. Bot!RunningOnce'
  BY <1>1, <1>4, <1>a DEF Bot!RunningOnce
<1>6. Bot!Paid'
  <2> SUFFICES ASSUME NEW a \in Bots, NEW i \in 1..MaxUpdates
               PROVE  ran'[a][i] + Bot!One(Bot!Runs(a, i, 1)') + Bot!One(Bot!Runs(a, i, 2)')
                         <= restarts' + Bot!One(Bot!Late(a, i)') + Bot!One(Bot!Burnt(a, i)')
    BY DEF Bot!Paid
  <2>1. /\ ran[a][i] + Bot!One(Bot!Runs(a, i, 1)) + Bot!One(Bot!Runs(a, i, 2))
              <= restarts + Bot!One(Bot!Late(a, i)) + Bot!One(Bot!Burnt(a, i))
        /\ ran[a][i] \in Nat /\ restarts \in Nat /\ restarts' = restarts
    BY <1>a, <1>1, RanCounts DEF Bot!Paid, Bot!TypeOK
  <2>2. /\ Bot!Runs(a, i, 1)' => Bot!Runs(a, i, 1)
        /\ Bot!Runs(a, i, 2)' => Bot!Runs(a, i, 2)
        /\ a = h.bot /\ i = h.id => \/ Bot!Runs(a, i, 1) /\ ~Bot!Runs(a, i, 1)'
                                    \/ Bot!Runs(a, i, 2) /\ ~Bot!Runs(a, i, 2)'
    BY <1>1, HandlerEnds
  <2>3. ran'[a][i] = IF a = h.bot /\ i = h.id THEN ran[a][i] + 1 ELSE ran[a][i]
    BY <1>2
  <2> QED
    BY <1>4, <2>1, <2>2, <2>3 DEF Bot!One
<1> QED
  BY <1>3, <1>5, <1>6 DEF Bot!BotInv

LEMMA RefusedKeeps ==
    ASSUME Bot!BotConstants, Bot!BotInv, NEW h \in running, Bot!Refused(h)
    PROVE  Bot!BotInv'
<1>a. Bot!TypeOK /\ Bot!EarlyBurnt /\ Bot!RunningOnce /\ Bot!Paid
  BY DEF Bot!BotInv
<1>1. /\ running' = running \ {h}
      /\ UNCHANGED <<config, sent, dropped, loop, burned, early, late, ran, restarts>>
  BY DEF Bot!Refused, Bot!codes, Bot!bounds
<1>2. Bot!TypeOK' /\ Bot!EarlyBurnt'
  BY <1>1, <1>a DEF Bot!TypeOK, Bot!EarlyBurnt
<1>3. \A a, i : Bot!Burnt(a, i)' = Bot!Burnt(a, i) /\ Bot!Late(a, i)' = Bot!Late(a, i)
  BY <1>1, SameCodes
<1>4. Bot!RunningOnce'
  BY <1>1, <1>3, <1>a DEF Bot!RunningOnce
<1>5. Bot!Paid'
  <2> SUFFICES ASSUME NEW a \in Bots, NEW i \in 1..MaxUpdates
               PROVE  ran'[a][i] + Bot!One(Bot!Runs(a, i, 1)') + Bot!One(Bot!Runs(a, i, 2)')
                         <= restarts' + Bot!One(Bot!Late(a, i)') + Bot!One(Bot!Burnt(a, i)')
    BY DEF Bot!Paid
  <2>1. \A n : Bot!Runs(a, i, n)' => Bot!Runs(a, i, n)
    BY <1>1 DEF Bot!Runs
  <2> QED
    BY <1>1, <1>3, <1>a, <2>1, StillPaid
<1> QED
  BY <1>2, <1>4, <1>5 DEF Bot!BotInv

(* A restart pays for what was burnt.                                      *)
LEMMA RestartKeeps ==
    ASSUME Bot!BotConstants, Bot!BotInv, Bot!Restart
    PROVE  Bot!BotInv'
<1>a. Bot!TypeOK /\ Bot!EarlyBurnt /\ Bot!RunningOnce /\ Bot!Paid
  BY DEF Bot!BotInv
<1>1. /\ loop' = Bot!Settled /\ running' = {} /\ burned' = {} /\ early' = {}
      /\ restarts' = restarts + 1
      /\ UNCHANGED <<config, sent, dropped, late, ran>>
  BY DEF Bot!Restart
<1>2. Bot!TypeOK' /\ Bot!EarlyBurnt' /\ Bot!RunningOnce'
  BY <1>1, <1>a DEF Bot!TypeOK, Bot!EarlyBurnt, Bot!RunningOnce, Bot!Settled
<1>3. Bot!Paid'
  <2> SUFFICES ASSUME NEW a \in Bots, NEW i \in 1..MaxUpdates
               PROVE  ran'[a][i] + Bot!One(Bot!Runs(a, i, 1)') + Bot!One(Bot!Runs(a, i, 2)')
                         <= restarts' + Bot!One(Bot!Late(a, i)') + Bot!One(Bot!Burnt(a, i)')
    BY DEF Bot!Paid
  <2>1. /\ ran[a][i] + Bot!One(Bot!Runs(a, i, 1)) + Bot!One(Bot!Runs(a, i, 2))
              <= restarts + Bot!One(Bot!Late(a, i)) + Bot!One(Bot!Burnt(a, i))
        /\ ran[a][i] \in Nat /\ restarts \in Nat
        /\ ran' = ran /\ restarts' = restarts + 1
    BY <1>a, <1>1, RanCounts DEF Bot!Paid, Bot!TypeOK
  <2>2. /\ ~Bot!Runs(a, i, 1)' /\ ~Bot!Runs(a, i, 2)'
        /\ Bot!Late(a, i)' = Bot!Late(a, i)
    BY <1>1 DEF Bot!Runs, Bot!Late
  <2> QED
    BY <2>1, <2>2 DEF Bot!One
<1> QED
  BY <1>2, <1>3 DEF Bot!BotInv

LEMMA BotStep == Bot!BotConstants => (Bot!BotInv /\ [Bot!Next]_Bot!vars => Bot!BotInv')
<1> SUFFICES ASSUME Bot!BotConstants, Bot!BotInv, [Bot!Next]_Bot!vars
             PROVE  Bot!BotInv'
  OBVIOUS
<1> USE DEF Bot!codes, Bot!bounds
<1>1. ASSUME NEW b \in Bots, NEW c \in Chats, Bot!Configure(b, c)
      PROVE  Bot!BotInv'
  <2>1. UNCHANGED <<sent, running, burned, early, late, ran, restarts>> /\ Bot!TypeOK'
    BY <1>1 DEF Bot!Configure, Bot!BotInv, Bot!TypeOK
  <2> QED
    BY <2>1, BotIdle
<1>2. ASSUME Bot!Ask PROVE Bot!BotInv'
  <2>1. UNCHANGED <<sent, running, burned, early, late, ran, restarts>> /\ Bot!TypeOK'
    BY <1>2 DEF Bot!Ask, Bot!Offset, Bot!BotInv, Bot!TypeOK, Bot!BotConstants
  <2> QED
    BY <2>1, BotIdle
<1>3. ASSUME Bot!NothingNew \/ Bot!PollFails \/ UNCHANGED Bot!vars
      PROVE  Bot!BotInv'
  <2>1. UNCHANGED <<sent, running, burned, early, late, ran, restarts>> /\ Bot!TypeOK'
    BY <1>3 DEF Bot!NothingNew, Bot!PollFails, Bot!vars, Bot!BotInv, Bot!TypeOK
  <2> QED
    BY <2>1, BotIdle
<1> QED
  BY <1>1, <1>2, <1>3, WriteKeeps, AnswerKeeps, ExpiryKeeps, DeletedKeeps,
     PerformedKeeps,
     RefusedKeeps, RestartKeeps DEF Bot!Next, Bot!Loop

(* For any bots, chats and messages, however often an update is delivered, *)
(* whatever bot the settings name meanwhile and whatever polls are lost,   *)
(* it changes staking at most once in the life of a process, and once more *)
(* if its code was brought before its period (lib/telegram-                *)
(* commands.ts:239, lib/step-up.ts:106).                                   *)
THEOREM CommandsRunOnce ==
    ASSUME Bot!BotConstants
    PROVE  Bot!Spec => []Bot!EffectOnce
<1>1. Bot!Init => Bot!BotInv
  BY NothingWritten
<1>2. Bot!BotInv /\ [Bot!Next]_Bot!vars => Bot!BotInv'
  BY BotStep
<1>3. Bot!BotInv => Bot!EffectOnce
  BY EffectBounded
<1> QED
  BY <1>1, <1>2, <1>3, PTL DEF Bot!Spec
=============================================================================
