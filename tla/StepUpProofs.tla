----------------------------- MODULE StepUpProofs -----------------------------
(***************************************************************************)
(* What step-up.ts guarantees for every number of keys, codes, periods and *)
(* failures: the type invariant, the cap on counted failures, who is locked *)
(* out and after how many guesses, and how far a code is single use.        *)
(***************************************************************************)
EXTENDS StepUp, FiniteSetTheorems, TLAPS

-----------------------------------------------------------------------------
(* Clock arithmetic: Math.floor(now / 1000 / 30), and the expiry of a burnt *)
(* code, which is stored in milliseconds and read as a period.              *)

LEMMA PeriodDivision ==
    ASSUME NEW t \in Nat
    PROVE  /\ Period(t) \in Nat
           /\ t = PeriodTicks * Period(t) + (t % PeriodTicks)
           /\ t % PeriodTicks \in 0..(PeriodTicks - 1)
  BY PeriodAssumption DEF Period

(* now >= n * PeriodTicks exactly when the n-th period has begun.           *)
LEMMA PeriodReached ==
    ASSUME NEW t \in Nat, NEW n \in Nat
    PROVE  (t >= n * PeriodTicks) <=> (Period(t) >= n)
<1> DEFINE q == Period(t)
           r == t % PeriodTicks
<1>1. q \in Nat /\ t = PeriodTicks * q + r /\ r \in 0..(PeriodTicks - 1)
  BY PeriodDivision
<1> HIDE DEF q, r
<1>2. PeriodTicks \in Nat \ {0}
  BY PeriodAssumption
<1>3. ASSUME q >= n PROVE t >= n * PeriodTicks
  <2>1. PICK d \in Nat : q = n + d
    BY <1>1, <1>3
  <2>2. PeriodTicks * q = n * PeriodTicks + PeriodTicks * d
    BY <2>1, <1>2
  <2>3. n * PeriodTicks \in Nat /\ PeriodTicks * d \in Nat
    BY <1>2
  <2> QED
    BY <1>1, <2>2, <2>3
<1>4. ASSUME q < n PROVE ~(t >= n * PeriodTicks)
  <2>1. PICK d \in Nat : n = q + 1 + d
    BY <1>1, <1>4
  <2>2. n * PeriodTicks = PeriodTicks * q + PeriodTicks + PeriodTicks * d
    BY <2>1, <1>1, <1>2
  <2>3. PeriodTicks * d \in Nat /\ PeriodTicks * q \in Nat
    BY <1>1, <1>2
  <2> QED
    BY <1>1, <1>2, <2>2, <2>3
<1>5. (t >= n * PeriodTicks) <=> (q >= n)
  BY <1>1, <1>3, <1>4
<1> QED
  BY <1>5 DEF q

LEMMA PeriodMonotone ==
    ASSUME NEW t \in Nat
    PROVE  Period(t + 1) \in Nat /\ Period(t + 1) >= Period(t)
<1>1. Period(t) \in Nat /\ Period(t + 1) \in Nat
  BY PeriodDivision
<1>2. t >= Period(t) * PeriodTicks
  BY <1>1, PeriodReached
<1>3. Period(t) * PeriodTicks \in Nat
  BY <1>1, PeriodAssumption
<1>4. t + 1 >= Period(t) * PeriodTicks
  BY <1>2, <1>3
<1> QED
  BY <1>1, <1>4, PeriodReached

-----------------------------------------------------------------------------
(* The two maps keep their shapes.                                          *)
LEMMA InitType == Init => TypeOK
  BY DEF Init, TypeOK, UsedKey

LEMMA PruneType ==
    ASSUME TypeOK
    PROVE  /\ DOMAIN PrunedCodes \subseteq UsedKey
           /\ PrunedCodes \in [DOMAIN PrunedCodes -> Nat]
           /\ DOMAIN PrunedFailures \subseteq Keys
           /\ PrunedFailures \in [DOMAIN PrunedFailures -> [count : Nat \ {0}, firstAt : Nat]]
  BY DEF TypeOK, PrunedCodes, PrunedFailures

LEMMA BurnType ==
    ASSUME TypeOK, NEW k \in Keys, NEW c \in Codes, NEW s \in Nat, Burn(k, c, s)
    PROVE  /\ DOMAIN usedCodes' \subseteq UsedKey
           /\ usedCodes' \in [DOMAIN usedCodes' -> Nat]
           /\ DOMAIN totpFailures' \subseteq Keys
           /\ totpFailures' \in [DOMAIN totpFailures' -> [count : Nat \ {0}, firstAt : Nat]]
           /\ acceptCount' \in Nat
           /\ accepted' \subseteq [n : Nat, code : Codes, secret : Nat, period : Nat]
<1>1. now \in Nat /\ Period(now) \in Nat
  BY PeriodDivision DEF TypeOK
<1>2. BurnExpiry \in Nat
  BY <1>1, PeriodAssumption DEF BurnExpiry
<1>3. CandidateKeys(c) \subseteq UsedKey
  BY <1>1 DEF CandidateKeys, UsedKey
<1>4. DOMAIN usedCodes' \subseteq UsedKey /\ usedCodes' \in [DOMAIN usedCodes' -> Nat]
  BY <1>2, <1>3, PruneType DEF Burn
<1>5. /\ DOMAIN totpFailures' \subseteq Keys
      /\ totpFailures' \in [DOMAIN totpFailures' -> [count : Nat \ {0}, firstAt : Nat]]
  BY PruneType DEF Burn
<1>6. acceptCount' \in Nat
  BY DEF Burn, TypeOK
<1>7. accepted' \subseteq [n : Nat, code : Codes, secret : Nat, period : Nat]
  BY <1>1 DEF Burn, TypeOK
<1> QED
  BY <1>4, <1>5, <1>6, <1>7

LEMMA WithFailureType ==
    ASSUME TypeOK, NEW k \in Keys
    PROVE  /\ DOMAIN WithFailure(PrunedFailures, k) \subseteq Keys
           /\ WithFailure(PrunedFailures, k) \in
                [DOMAIN WithFailure(PrunedFailures, k) -> [count : Nat \ {0}, firstAt : Nat]]
<1> DEFINE F == PrunedFailures
<1>1. /\ DOMAIN F \subseteq Keys
      /\ F \in [DOMAIN F -> [count : Nat \ {0}, firstAt : Nat]]
  BY PruneType
<1>2. now \in Nat
  BY DEF TypeOK
<1> HIDE DEF F
<1>3. /\ DOMAIN WithFailure(F, k) \subseteq Keys
      /\ WithFailure(F, k) \in
           [DOMAIN WithFailure(F, k) -> [count : Nat \ {0}, firstAt : Nat]]
  <2>1. CASE k \in DOMAIN F /\ now < F[k].firstAt + FailureWindow
    <3>1. WithFailure(F, k) = [F EXCEPT ![k].count = @ + 1]
      BY <2>1 DEF WithFailure
    <3> QED
      BY <1>1, <2>1, <3>1
  <2>2. CASE ~(k \in DOMAIN F /\ now < F[k].firstAt + FailureWindow)
    BY <1>1, <1>2, <2>2 DEF WithFailure
  <2> QED
    BY <2>1, <2>2
<1> QED
  BY <1>3 DEF F

LEMMA NextType == TypeOK /\ [Next]_vars => TypeOK'
<1> SUFFICES ASSUME TypeOK, [Next]_vars PROVE TypeOK'
  OBVIOUS
<1>1. ASSUME NEW k \in Keys, NEW c \in Codes, AnswerLocked(k, c) PROVE TypeOK'
  BY <1>1, PruneType DEF AnswerLocked, TypeOK
<1>2. ASSUME NEW k \in Keys, NEW c \in Codes, AnswerUsed(k, c) PROVE TypeOK'
  BY <1>2, PruneType DEF AnswerUsed, TypeOK
<1>3. ASSUME NEW k \in Keys, NEW c \in Codes, NEW s \in Held,
             AnswerInvalid(k, c, s) PROVE TypeOK'
  BY <1>3, PruneType, WithFailureType DEF AnswerInvalid, TypeOK
<1>4. ASSUME NEW k \in Keys, NEW c \in Codes, NEW s \in Held,
             AnswerOk(k, c, s) PROVE TypeOK'
  BY <1>4, BurnType DEF AnswerOk, TypeOK, Held
<1>5. ASSUME NEW k \in Keys, NEW c \in Codes, Reset2fa(k, c) PROVE TypeOK'
  BY <1>5, BurnType DEF Reset2fa, TypeOK
<1>6. CASE Restart
  BY <1>6 DEF Restart, TypeOK, UsedKey
<1>7. CASE Tick
  BY <1>7 DEF Tick, TypeOK
<1>8. CASE UNCHANGED vars
  BY <1>8 DEF vars, TypeOK, UsedKey
<1> QED
  BY <1>1, <1>2, <1>3, <1>4, <1>5, <1>6, <1>7, <1>8 DEF Next

(* Type correctness of the model of step-up.ts.                             *)
THEOREM TypeCorrect == Spec => []TypeOK
  BY InitType, NextType, PTL DEF Spec

-----------------------------------------------------------------------------
(* The cap on counted failures.  The prune and the two updates can only     *)
(* lower a count, except AnswerInvalid, which runs below the limit.         *)

LEMMA PruneCap ==
    ASSUME FailureCap
    PROVE  \A k \in DOMAIN PrunedFailures : PrunedFailures[k].count <= MaxFailures
  BY DEF FailureCap, PrunedFailures

LEMMA CountCap ==
    ASSUME TypeOK, FailureCap, NEW k \in Keys, NEW c \in Codes, NEW s \in Held,
             AnswerInvalid(k, c, s)
    PROVE  FailureCap'
<1> DEFINE F == PrunedFailures
<1>1. /\ DOMAIN F \subseteq Keys
      /\ F \in [DOMAIN F -> [count : Nat \ {0}, firstAt : Nat]]
  BY PruneType
<1>2. \A l \in DOMAIN F : F[l].count <= MaxFailures
  BY PruneCap
<1>3. totpFailures' = WithFailure(F, k) /\ ~IsTotpThrottled(F, k)
  BY DEF AnswerInvalid
<1>4. now \in Nat /\ FailureWindow \in Nat /\ MaxFailures \in Nat \ {0}
  BY ThrottleAssumption DEF TypeOK
<1> HIDE DEF F
<1>5. CASE k \in DOMAIN F /\ now < F[k].firstAt + FailureWindow
  <2>1. F[k].count < MaxFailures
    BY <1>1, <1>2, <1>3, <1>4, <1>5 DEF IsTotpThrottled
  <2>2. totpFailures' = [F EXCEPT ![k].count = @ + 1]
    BY <1>3, <1>5 DEF WithFailure
  <2> QED
    BY <1>1, <1>2, <1>4, <1>5, <2>1, <2>2 DEF FailureCap
<1>6. CASE ~(k \in DOMAIN F /\ now < F[k].firstAt + FailureWindow)
  BY <1>1, <1>2, <1>3, <1>4, <1>6 DEF WithFailure, FailureCap
<1> QED
  BY <1>5, <1>6

LEMMA NextCap == TypeOK /\ FailureCap /\ [Next]_vars => FailureCap'
<1> SUFFICES ASSUME TypeOK, FailureCap, [Next]_vars PROVE FailureCap'
  OBVIOUS
<1>1. ASSUME NEW k \in Keys, NEW c \in Codes, AnswerLocked(k, c) PROVE FailureCap'
  BY <1>1, PruneCap DEF AnswerLocked, FailureCap
<1>2. ASSUME NEW k \in Keys, NEW c \in Codes, AnswerUsed(k, c) PROVE FailureCap'
  BY <1>2, PruneCap DEF AnswerUsed, FailureCap
<1>3. ASSUME NEW k \in Keys, NEW c \in Codes, NEW s \in Held,
             AnswerInvalid(k, c, s) PROVE FailureCap'
  BY <1>3, CountCap
<1>4. ASSUME NEW k \in Keys, NEW c \in Codes, NEW s, Burn(k, c, s) PROVE FailureCap'
  BY <1>4, PruneCap DEF Burn, FailureCap
<1>5. CASE Restart
  BY <1>5 DEF Restart, FailureCap
<1>6. CASE Tick
  BY <1>6 DEF Tick, FailureCap
<1>7. CASE UNCHANGED vars
  BY <1>7 DEF vars, FailureCap
<1> QED
  BY <1>1, <1>2, <1>3, <1>4, <1>5, <1>6, <1>7 DEF Next, AnswerOk, Reset2fa

(* step-up.ts "5 failures per key per 15 minutes": no interleaving of calls *)
(* lets a failure entry pass the limit.                                     *)
THEOREM FailuresCapped == Spec => []FailureCap
<1>1. Init => FailureCap
  BY DEF Init, FailureCap
<1> QED
  BY <1>1, NextCap, TypeCorrect, PTL DEF Spec

-----------------------------------------------------------------------------
(* Who is locked out, and how many guesses a key gets.  Both properties    *)
(* compare an entry of the map with the history of guesses; GuessInv says  *)
(* how the entry counts it: a part from before the entry was made, which a *)
(* window can still reach, and the part the entry has counted.             *)

Before(G, t) == {g \in G : g.at < t}

Since(G, t) == {g \in G : g.at >= t}

After(G, t) == {g \in G : g.at > t}

(* The guesses G of a key whose entry is e, live or not yet pruned.        *)
Counted(G, e) ==
    /\ e.firstAt <= now
    /\ Cardinality(Before(G, e.firstAt)) <= MaxFailures - 1
    /\ Cardinality(Since(G, e.firstAt)) <= e.count
    /\ Cardinality(After(G, e.firstAt)) <= e.count - 1
    /\ \A g \in G : g.at < e.firstAt + FailureWindow
    /\ now < e.firstAt + FailureWindow => e.count <= Cardinality(Since(G, e.firstAt))

(* The guesses of a key without an entry: what an expired one has left.    *)
Spent(G) ==
    /\ Cardinality(G) <= MaxFailures - 1
    /\ \A g \in G : g.at < now

(* A window holds finitely many guesses, each numbered once.               *)
Recorded(G) ==
    /\ IsFiniteSet(G)
    /\ \A g \in G : /\ g.n \in Nat /\ g.n < attempts
                    /\ g.at \in Nat /\ g.at <= now
                    /\ now - g.at < FailureWindow

Accounted(fails, k, G) ==
    IF k \in DOMAIN fails THEN Counted(G, fails[k]) ELSE Spent(G)

GuessInv ==
    /\ failures = [k \in Keys |-> failures[k]]
    /\ \A k \in Keys :
          Recorded(failures[k]) /\ Accounted(totpFailures, k, failures[k])

LEMMA PartsFinite ==
    ASSUME NEW G, IsFiniteSet(G), NEW t
    PROVE  /\ IsFiniteSet(Before(G, t)) /\ Cardinality(Before(G, t)) \in Nat
           /\ IsFiniteSet(Since(G, t)) /\ Cardinality(Since(G, t)) \in Nat
           /\ IsFiniteSet(After(G, t)) /\ Cardinality(After(G, t)) \in Nat
           /\ Cardinality(G) \in Nat
<1>1. Before(G, t) \in SUBSET G /\ Since(G, t) \in SUBSET G /\ After(G, t) \in SUBSET G
  BY DEF Before, Since, After
<1> QED
  BY <1>1, FS_Subset, FS_CardinalityType

(* The two parts of a history make up the whole.                           *)
LEMMA PartsAdd ==
    ASSUME NEW G, IsFiniteSet(G), \A g \in G : g.at \in Nat, NEW t \in Nat
    PROVE  Cardinality(G) = Cardinality(Before(G, t)) + Cardinality(Since(G, t))
<1>1. G = Before(G, t) \cup Since(G, t) /\ Before(G, t) \cap Since(G, t) = {}
  BY DEF Before, Since
<1>2. Cardinality(Before(G, t) \cap Since(G, t)) = 0
  BY <1>1, FS_EmptySet
<1>3. Cardinality(Before(G, t) \cup Since(G, t)) =
        Cardinality(Before(G, t)) + Cardinality(Since(G, t))
          - Cardinality(Before(G, t) \cap Since(G, t))
  BY PartsFinite, FS_Union
<1>4. Cardinality(Before(G, t)) \in Nat /\ Cardinality(Since(G, t)) \in Nat
  BY PartsFinite
<1>5. Cardinality(G) = Cardinality(Before(G, t) \cup Since(G, t))
  BY <1>1, Zenon
<1> QED
  BY <1>2, <1>3, <1>4, <1>5

(* What a prune leaves is accounted for as well: an entry that goes has    *)
(* expired, and the guess it began with is out of the window by then.      *)
LEMMA PruneAccounts ==
    ASSUME TypeOK, FailureCap, GuessInv, NEW k \in Keys
    PROVE  /\ Accounted(PrunedFailures, k, failures[k])
           /\ k \in DOMAIN PrunedFailures =>
                 now < PrunedFailures[k].firstAt + FailureWindow
<1> DEFINE G == failures[k]
           e == totpFailures[k]
<1>1. Recorded(G) /\ Accounted(totpFailures, k, G)
  BY DEF GuessInv
<1>2. now \in Nat /\ FailureWindow \in Nat \ {0} /\ MaxFailures \in Nat \ {0}
  BY ThrottleAssumption DEF TypeOK
<1>3. CASE k \notin DOMAIN totpFailures
  <2>1. k \notin DOMAIN PrunedFailures
    BY <1>3 DEF PrunedFailures
  <2> QED
    BY <1>1, <1>3, <2>1 DEF Accounted
<1>4. CASE k \in DOMAIN totpFailures /\ ~(now >= e.firstAt + FailureWindow)
  <2>1. k \in DOMAIN PrunedFailures /\ PrunedFailures[k] = e
    BY <1>4 DEF PrunedFailures
  <2>2. e.firstAt \in Nat
    BY <1>4 DEF TypeOK
  <2> QED
    BY <1>1, <1>2, <1>4, <2>1, <2>2 DEF Accounted
<1>5. CASE k \in DOMAIN totpFailures /\ now >= e.firstAt + FailureWindow
  <2>1. k \notin DOMAIN PrunedFailures
    BY <1>5 DEF PrunedFailures
  <2>2. e.firstAt \in Nat /\ e.count \in Nat /\ e.count <= MaxFailures
    BY <1>5 DEF TypeOK, FailureCap
  <2>3. Counted(G, e)
    BY <1>1, <1>5 DEF Accounted
  <2> HIDE DEF G, e
  <2>4. G = After(G, e.firstAt)
    BY <1>1, <1>2, <1>5, <2>2 DEF After, Recorded
  <2>5. Cardinality(G) <= e.count - 1
    BY <2>3, <2>4 DEF Counted
  <2>6. Cardinality(G) \in Nat
    BY <1>1, PartsFinite DEF Recorded
  <2>7. \A g \in G : g.at < now
    BY <1>1, <1>2, <1>5, <2>2, <2>3 DEF Counted, Recorded
  <2>8. Spent(G)
    BY <1>2, <2>2, <2>5, <2>6, <2>7 DEF Spent
  <2> QED
    BY <2>1, <2>8 DEF Accounted, G
<1> QED
  BY <1>3, <1>4, <1>5

(* A wrong guess is counted in the live entry, or begins one.              *)
LEMMA GuessCounts ==
    ASSUME NEW G, Recorded(G), NEW e \in [count : Nat \ {0}, firstAt : Nat],
           Counted(G, e), now \in Nat, attempts \in Nat,
           e.firstAt <= now, now < e.firstAt + FailureWindow
    PROVE  LET g == [n |-> attempts, at |-> now]
           IN  Counted(G \cup {g}, [e EXCEPT !.count = @ + 1])
<1> DEFINE g == [n |-> attempts, at |-> now]
           H == G \cup {g}
           d == [e EXCEPT !.count = @ + 1]
           t == e.firstAt
<1>1. e.count \in Nat /\ t \in Nat /\ d.count = e.count + 1 /\ d.firstAt = t
  OBVIOUS
<1>2. FailureWindow \in Nat \ {0} /\ MaxFailures \in Nat \ {0}
  BY ThrottleAssumption
<1>3. g \notin G /\ g.at = now
  BY DEF Recorded
<1>4. Before(H, t) = Before(G, t)
  BY <1>1, <1>3 DEF Before
<1>5. Since(H, t) = Since(G, t) \cup {g} /\ g \notin Since(G, t)
  BY <1>1, <1>3 DEF Since
<1>6. Cardinality(Since(H, t)) = Cardinality(Since(G, t)) + 1
  BY <1>5, PartsFinite, FS_AddElement DEF Recorded
<1>7. /\ Cardinality(After(H, t)) <= Cardinality(After(G, t)) + 1
      /\ Cardinality(After(H, t)) \in Nat
  <2>1. IsFiniteSet(After(G, t))
    BY PartsFinite DEF Recorded
  <2>2. CASE now > t
    <3>1. After(H, t) = After(G, t) \cup {g} /\ g \notin After(G, t)
      BY <1>1, <1>3, <2>2 DEF After
    <3>2. Cardinality(After(H, t)) = Cardinality(After(G, t)) + 1
      BY <2>1, <3>1, FS_AddElement
    <3>3. Cardinality(After(G, t)) \in Nat
      BY <2>1, FS_CardinalityType
    <3> QED
      BY <3>2, <3>3
  <2>3. CASE ~(now > t)
    <3>1. After(H, t) = After(G, t)
      BY <1>1, <1>3, <2>3 DEF After
    <3>2. Cardinality(After(G, t)) \in Nat
      BY <2>1, FS_CardinalityType
    <3> QED
      BY <3>1, <3>2
  <2> QED
    BY <2>2, <2>3
<1>8. /\ Cardinality(Since(G, t)) \in Nat /\ Cardinality(After(G, t)) \in Nat
      /\ Cardinality(Before(G, t)) \in Nat
  BY PartsFinite DEF Recorded
<1>9. \A h \in H : h.at < t + FailureWindow
  BY <1>1, <1>3 DEF Counted
<1> HIDE DEF g, H, d
<1>10. Counted(H, d)
  BY <1>1, <1>2, <1>4, <1>6, <1>7, <1>8, <1>9 DEF Counted
<1> QED
  BY <1>10 DEF H, d, g

LEMMA GuessBegins ==
    ASSUME NEW G, Recorded(G), Spent(G), now \in Nat, attempts \in Nat
    PROVE  LET g == [n |-> attempts, at |-> now]
           IN  Counted(G \cup {g}, [count |-> 1, firstAt |-> now])
<1> DEFINE g == [n |-> attempts, at |-> now]
           H == G \cup {g}
           d == [count |-> 1, firstAt |-> now]
<1>1. FailureWindow \in Nat \ {0} /\ MaxFailures \in Nat \ {0}
  BY ThrottleAssumption
<1>2. Before(H, now) = G /\ Since(H, now) = {g} /\ After(H, now) = {}
  BY DEF Before, Since, After, Spent, Recorded
<1>3. Cardinality({g}) = 1
  BY FS_Singleton
<1>4. Cardinality({}) = 0
  BY FS_EmptySet
<1>5. \A h \in H : h.at < now + FailureWindow
  BY <1>1 DEF Spent, Recorded
<1>6. d.count = 1 /\ d.firstAt = now
  OBVIOUS
<1> HIDE DEF g, H, d
<1>7. Counted(H, d)
  <2>1. /\ Cardinality(Before(H, d.firstAt)) <= MaxFailures - 1
        /\ Cardinality(Since(H, d.firstAt)) = 1
        /\ Cardinality(After(H, d.firstAt)) = 0
    BY <1>2, <1>3, <1>4, <1>6 DEF Spent
  <2> QED
    BY <1>1, <1>5, <1>6, <2>1 DEF Counted
<1> QED
  BY <1>7 DEF g, H, d

(* A step of the clock: guesses leave the window, the entry stays.         *)
LEMMA TickAccounts ==
    ASSUME TypeOK, NEW k \in Keys, Tick, FailureCap, GuessInv
    PROVE  Recorded(failures[k])' /\ Accounted(totpFailures, k, failures[k])'
<1> DEFINE G == failures[k]
           H == Recent(G, now + 1)
           e == totpFailures[k]
<1>1. Recorded(G) /\ Accounted(totpFailures, k, G)
  BY DEF GuessInv
<1>2. now \in Nat /\ FailureWindow \in Nat \ {0} /\ MaxFailures \in Nat \ {0} /\ attempts \in Nat
  BY ThrottleAssumption DEF TypeOK
<1>3. /\ failures'[k] = H /\ now' = now + 1 /\ attempts' = attempts
      /\ totpFailures' = totpFailures
  BY DEF Tick
<1>4. H \subseteq G
  BY DEF Recent
<1>5. IsFiniteSet(H) /\ IsFiniteSet(G)
  BY <1>1, <1>4, FS_Subset DEF Recorded
<1>6. Recorded(failures[k])'
  BY <1>1, <1>2, <1>3, <1>5 DEF Recorded, Recent
<1>7. CASE k \notin DOMAIN totpFailures
  <2>1. Spent(G)
    BY <1>1, <1>7 DEF Accounted
  <2>2. Cardinality(H) <= Cardinality(G) /\ Cardinality(H) \in Nat /\ Cardinality(G) \in Nat
    BY <1>4, <1>5, FS_Subset, FS_CardinalityType
  <2>3. Spent(failures[k])'
    BY <1>1, <1>2, <1>3, <2>1, <2>2 DEF Spent, Recorded, Recent
  <2> QED
    BY <1>3, <1>6, <1>7, <2>3 DEF Accounted
<1>8. CASE k \in DOMAIN totpFailures
  <2> DEFINE t == e.firstAt
  <2>1. e.count \in Nat /\ t \in Nat
    BY <1>8 DEF TypeOK
  <2>2. Counted(G, e)
    BY <1>1, <1>8 DEF Accounted
  <2>3. /\ Before(H, t) \in SUBSET Before(G, t)
        /\ Since(H, t) \in SUBSET Since(G, t)
        /\ After(H, t) \in SUBSET After(G, t)
    BY <1>4 DEF Before, Since, After
  <2>4. /\ Cardinality(Before(H, t)) <= Cardinality(Before(G, t))
        /\ Cardinality(Since(H, t)) <= Cardinality(Since(G, t))
        /\ Cardinality(After(H, t)) <= Cardinality(After(G, t))
    BY <1>5, <2>3, PartsFinite, FS_Subset
  <2>5. /\ Cardinality(Before(H, t)) \in Nat /\ Cardinality(Before(G, t)) \in Nat
        /\ Cardinality(Since(H, t)) \in Nat /\ Cardinality(Since(G, t)) \in Nat
        /\ Cardinality(After(H, t)) \in Nat /\ Cardinality(After(G, t)) \in Nat
    BY <1>5, PartsFinite
  <2>6. ASSUME now + 1 < t + FailureWindow PROVE Since(H, t) = Since(G, t)
    BY <1>1, <1>2, <2>1, <2>6 DEF Since, Recorded, Recent
  <2>7. /\ now < t + FailureWindow \/ ~(now + 1 < t + FailureWindow)
        /\ \A g \in H : g.at < t + FailureWindow
    BY <1>2, <1>4, <2>1, <2>2 DEF Counted
  <2>8. totpFailures'[k] = e
    BY <1>3
  <2> HIDE DEF H, G, e
  <2>9. Counted(failures[k], totpFailures[k])'
    BY <1>2, <1>3, <2>1, <2>2, <2>4, <2>5, <2>6, <2>7, <2>8 DEF Counted
  <2> QED
    BY <1>3, <1>6, <1>8, <2>9 DEF Accounted
<1> QED
  BY <1>7, <1>8

(* A step in which the guesses of a key stay, and its entry only by a prune. *)
LEMMA OthersAccounted ==
    ASSUME TypeOK, FailureCap, GuessInv, NEW k \in Keys,
           now' = now, attempts' = attempts \/ attempts' = attempts + 1,
           failures'[k] = failures[k],
           k \in DOMAIN totpFailures' <=> k \in DOMAIN PrunedFailures,
           k \in DOMAIN PrunedFailures => totpFailures'[k] = PrunedFailures[k]
    PROVE  Recorded(failures[k])' /\ Accounted(totpFailures, k, failures[k])'
<1>1. Recorded(failures[k]) /\ Accounted(PrunedFailures, k, failures[k])
  BY PruneAccounts DEF GuessInv
<1>2. now \in Nat /\ attempts \in Nat
  BY DEF TypeOK
<1>3. Recorded(failures[k])'
  BY <1>1, <1>2 DEF Recorded
<1>4. Accounted(totpFailures, k, failures[k])'
  BY <1>1 DEF Accounted, Counted, Spent
<1> QED
  BY <1>3, <1>4

LEMMA InvalidAccounts ==
    ASSUME TypeOK, FailureCap, GuessInv, NEW k \in Keys, NEW c \in Codes, NEW s \in Held,
           AnswerInvalid(k, c, s)
    PROVE  GuessInv'
<1> DEFINE F == PrunedFailures
           G == failures[k]
           g == [n |-> attempts, at |-> now]
<1>1. now \in Nat /\ attempts \in Nat /\ FailureWindow \in Nat \ {0}
  BY ThrottleAssumption DEF TypeOK
<1>2. /\ failures = [l \in Keys |-> failures[l]]
      /\ Recorded(G) /\ Accounted(F, k, G)
      /\ k \in DOMAIN F => now < F[k].firstAt + FailureWindow
  BY PruneAccounts DEF GuessInv
<1>3. /\ failures' = [failures EXCEPT ![k] = @ \cup {g}]
      /\ totpFailures' = WithFailure(F, k)
      /\ attempts' = attempts + 1 /\ now' = now
  BY DEF AnswerInvalid
<1>4. failures' = [l \in Keys |-> failures'[l]] /\ failures'[k] = G \cup {g}
  BY <1>2, <1>3
<1>5. F \in [DOMAIN F -> [count : Nat \ {0}, firstAt : Nat]]
  BY PruneType
<1>6. Recorded(failures[k])' /\ Accounted(totpFailures, k, failures[k])'
  <2>1. IsFiniteSet(G \cup {g})
    BY <1>2, FS_AddElement DEF Recorded
  <2>2. Recorded(failures[k])'
    BY <1>1, <1>2, <1>3, <1>4, <2>1 DEF Recorded
  <2>3. CASE k \in DOMAIN F
    <3>1. F[k] \in [count : Nat \ {0}, firstAt : Nat] /\ Counted(G, F[k])
      BY <1>2, <1>5, <2>3 DEF Accounted
    <3>2. F[k].firstAt <= now
      BY <3>1 DEF Counted
    <3>3. Counted(G \cup {g}, [F[k] EXCEPT !.count = @ + 1])
      BY <1>1, <1>2, <2>3, <3>1, <3>2, GuessCounts
    <3>4. k \in DOMAIN totpFailures' /\ totpFailures'[k] = [F[k] EXCEPT !.count = @ + 1]
      BY <1>2, <1>3, <1>5, <2>3 DEF WithFailure
    <3>5. Counted(failures[k], totpFailures[k])'
      BY <1>3, <1>4, <3>3, <3>4 DEF Counted
    <3> QED
      BY <2>2, <3>4, <3>5 DEF Accounted
  <2>4. CASE k \notin DOMAIN F
    <3>1. Counted(G \cup {g}, [count |-> 1, firstAt |-> now])
      BY <1>1, <1>2, <2>4, GuessBegins DEF Accounted
    <3>2. k \in DOMAIN totpFailures' /\ totpFailures'[k] = [count |-> 1, firstAt |-> now]
      BY <1>3, <2>4 DEF WithFailure
    <3>3. Counted(failures[k], totpFailures[k])'
      BY <1>3, <1>4, <3>1, <3>2 DEF Counted
    <3> QED
      BY <2>2, <3>2, <3>3 DEF Accounted
  <2> QED
    BY <2>3, <2>4
<1>7. ASSUME NEW l \in Keys, l # k
      PROVE  Recorded(failures[l])' /\ Accounted(totpFailures, l, failures[l])'
  <2>1. failures'[l] = failures[l]
    BY <1>2, <1>3, <1>7
  <2>2. l \in DOMAIN totpFailures' <=> l \in DOMAIN F
    BY <1>3, <1>5, <1>7 DEF WithFailure
  <2>3. l \in DOMAIN F => totpFailures'[l] = F[l]
    BY <1>3, <1>5, <1>7 DEF WithFailure
  <2> QED
    BY <1>3, <2>1, <2>2, <2>3, OthersAccounted
<1> QED
  BY <1>4, <1>6, <1>7 DEF GuessInv

LEMMA BurnAccounts ==
    ASSUME TypeOK, FailureCap, GuessInv, NEW k \in Keys, NEW c \in Codes, NEW s \in Nat,
           Burn(k, c, s), now' = now, attempts' = attempts
    PROVE  GuessInv'
<1> DEFINE F == PrunedFailures
<1>1. /\ failures = [l \in Keys |-> failures[l]]
      /\ failures' = [failures EXCEPT ![k] = {}]
      /\ totpFailures' = [l \in DOMAIN F \ {k} |-> F[l]]
  BY DEF GuessInv, Burn
<1>2. failures' = [l \in Keys |-> failures'[l]] /\ failures'[k] = {}
  BY <1>1
<1>3. Recorded(failures[k])' /\ Accounted(totpFailures, k, failures[k])'
  <2>1. IsFiniteSet({}) /\ Cardinality({}) = 0
    BY FS_EmptySet
  <2>2. k \notin DOMAIN totpFailures'
    BY <1>1
  <2> QED
    BY <1>2, <2>1, <2>2, ThrottleAssumption DEF Recorded, Accounted, Spent
<1>4. ASSUME NEW l \in Keys, l # k
      PROVE  Recorded(failures[l])' /\ Accounted(totpFailures, l, failures[l])'
  <2>1. failures'[l] = failures[l]
    BY <1>1, <1>4
  <2>2. l \in DOMAIN totpFailures' <=> l \in DOMAIN F
    BY <1>1, <1>4
  <2>3. l \in DOMAIN F => totpFailures'[l] = F[l]
    BY <1>1, <1>4
  <2> QED
    BY <2>1, <2>2, <2>3, OthersAccounted
<1> QED
  BY <1>2, <1>3, <1>4 DEF GuessInv

(* Before any guess, and after a restart, there is nothing to account for. *)
LEMMA NothingAccounts ==
    ASSUME failures = [k \in Keys |-> {}], DOMAIN totpFailures = {}
    PROVE  GuessInv
<1>1. IsFiniteSet({}) /\ Cardinality({}) = 0
  BY FS_EmptySet
<1> QED
  BY <1>1, ThrottleAssumption DEF GuessInv, Recorded, Accounted, Spent

LEMMA NextGuesses == TypeOK /\ FailureCap /\ GuessInv /\ [Next]_vars => GuessInv'
<1> SUFFICES ASSUME TypeOK, FailureCap, GuessInv, [Next]_vars PROVE GuessInv'
  OBVIOUS
<1>1. ASSUME totpFailures' = PrunedFailures, now' = now, attempts' = attempts,
             failures' = failures
      PROVE  GuessInv'
  <2>1. \A k \in Keys : Recorded(failures[k])' /\ Accounted(totpFailures, k, failures[k])'
    BY <1>1, OthersAccounted
  <2> QED
    BY <1>1, <2>1 DEF GuessInv
<1>2. ASSUME NEW k \in Keys, NEW c \in Codes, AnswerLocked(k, c) \/ AnswerUsed(k, c)
      PROVE  GuessInv'
  BY <1>1, <1>2 DEF AnswerLocked, AnswerUsed
<1>3. ASSUME NEW k \in Keys, NEW c \in Codes, NEW s \in Held,
             AnswerInvalid(k, c, s) PROVE GuessInv'
  BY <1>3, InvalidAccounts
<1>4. ASSUME NEW k \in Keys, NEW c \in Codes, NEW s \in Held,
             AnswerOk(k, c, s) PROVE GuessInv'
  <2>1. s \in Nat
    BY DEF Held, TypeOK
  <2> QED
    BY <1>4, <2>1, BurnAccounts DEF AnswerOk
<1>5. ASSUME NEW k \in Keys, NEW c \in Codes, Reset2fa(k, c) PROVE GuessInv'
  <2>1. secret \in Nat
    BY DEF TypeOK
  <2> QED
    BY <1>5, <2>1, BurnAccounts DEF Reset2fa
<1>6. CASE Restart
  <2>1. (failures = [k \in Keys |-> {}] /\ DOMAIN totpFailures = {})'
    BY <1>6 DEF Restart
  <2>2. IsFiniteSet({}) /\ Cardinality({}) = 0
    BY FS_EmptySet
  <2> QED
    BY <2>1, <2>2, ThrottleAssumption DEF GuessInv, Recorded, Accounted, Spent
<1>7. CASE Tick
  <2>1. \A k \in Keys : Recorded(failures[k])' /\ Accounted(totpFailures, k, failures[k])'
    BY <1>7, TickAccounts
  <2>2. (failures = [k \in Keys |-> failures[k]])'
    BY <1>7 DEF Tick
  <2> QED
    BY <2>1, <2>2 DEF GuessInv
<1>8. CASE UNCHANGED vars
  BY <1>8 DEF vars, GuessInv, Recorded, Accounted, Counted, Spent
<1> QED
  BY <1>2, <1>3, <1>4, <1>5, <1>6, <1>7, <1>8 DEF Next

LEMMA GuessesAccounted == Spec => []GuessInv
<1>1. Init => GuessInv
  BY NothingAccounts DEF Init
<1> QED
  BY <1>1, NextGuesses, TypeCorrect, FailuresCapped, PTL DEF Spec

(* A lockout is paid for by the key's own guesses, all within one window:  *)
(* neither other keys nor refused calls nor burnt codes lengthen it.       *)
THEOREM LockoutsEarned == Spec => []LockoutEarned
<1>1. TypeOK /\ GuessInv => LockoutEarned
  <2> SUFFICES ASSUME TypeOK, GuessInv, NEW k \in Keys, IsTotpThrottled(totpFailures, k)
               PROVE  Cardinality(failures[k]) >= MaxFailures
    BY DEF LockoutEarned
  <2> DEFINE G == failures[k]
             e == totpFailures[k]
  <2>1. e.firstAt \in Nat /\ e.count \in Nat
    BY DEF IsTotpThrottled, TypeOK
  <2>2. Recorded(G) /\ Counted(G, e)
    BY DEF GuessInv, Accounted, IsTotpThrottled
  <2>3. e.count >= MaxFailures /\ now < e.firstAt + FailureWindow
    BY DEF IsTotpThrottled
  <2> HIDE DEF G, e
  <2>4. Cardinality(G) = Cardinality(Before(G, e.firstAt)) + Cardinality(Since(G, e.firstAt))
    BY <2>1, <2>2, PartsAdd DEF Recorded
  <2>5. Cardinality(Before(G, e.firstAt)) \in Nat /\ Cardinality(Since(G, e.firstAt)) \in Nat
    BY <2>2, PartsFinite DEF Recorded
  <2>6. Cardinality(G) >= MaxFailures
    BY <2>1, <2>2, <2>3, <2>4, <2>5, ThrottleAssumption DEF Counted
  <2> QED
    BY <2>6 DEF G
<1> QED
  BY <1>1, GuessesAccounted, TypeCorrect, PTL

-----------------------------------------------------------------------------
(* How many guesses a key gets.  BudgetInv bounds what a history holds     *)
(* after every moment t of the window at once: a success clears the entry  *)
(* but not the history, so the bound grows with the successes after t.     *)

(* The guesses that n entries which never reached the limit have counted.  *)
Short(n) == n * (MaxFailures - 1)

(* A history of one window, each member numbered once below bound.         *)
Numbered(H, bound) ==
    /\ IsFiniteSet(H)
    /\ \A h \in H : /\ h.n \in Nat /\ h.n < bound
                    /\ h.at \in Nat /\ h.at <= now
                    /\ now - h.at < FailureWindow

(* Without an entry every guess after t was counted by an entry that a     *)
(* success cleared or that had begun before t and expired.                 *)
Cleared(G, S, t) ==
    Cardinality(After(G, t)) <= Short(Cardinality(After(S, t)) + 1)

(* With an entry that had begun by t nothing was cleared since, and the    *)
(* first guess it counts is outside; with a younger one its count is on    *)
(* top.                                                                    *)
Running(G, S, t, e) ==
    /\ t >= e.firstAt => /\ Cardinality(After(S, t)) = 0
                         /\ Cardinality(After(G, t)) <= e.count - 1
    /\ t < e.firstAt => Cardinality(After(G, t)) <=
                            Short(Cardinality(After(S, t)) + 1) + e.count

Budgeted(fails, k, G, S) ==
    \A t \in Int :
        t >= now - FailureWindow =>
            IF k \in DOMAIN fails THEN Running(G, S, t, fails[k]) ELSE Cleared(G, S, t)

BudgetInv ==
    /\ guesses = [k \in Keys |-> guesses[k]]
    /\ passes = [k \in Keys |-> passes[k]]
    /\ \A k \in Keys :
          /\ Numbered(guesses[k], attempts)
          /\ Numbered(passes[k], acceptCount)
          /\ Budgeted(totpFailures, k, guesses[k], passes[k])
          /\ k \in DOMAIN totpFailures => totpFailures[k].firstAt <= now

LEMMA ShortGrows ==
    ASSUME NEW n \in Nat
    PROVE  /\ Short(n) \in Nat
           /\ Short(n + 1) = Short(n) + (MaxFailures - 1)
           /\ Short(1) = MaxFailures - 1
<1>1. MaxFailures - 1 \in Nat
  BY ThrottleAssumption
<1> DEFINE M == MaxFailures - 1
<1> HIDE DEF M
<1>2. ASSUME M \in Nat PROVE n * M \in Nat /\ (n + 1) * M = n * M + M /\ 1 * M = M
  BY <1>2
<1> QED
  BY <1>1, <1>2 DEF Short, M

LEMMA AfterFinite ==
    ASSUME NEW H, IsFiniteSet(H), NEW t
    PROVE  IsFiniteSet(After(H, t)) /\ Cardinality(After(H, t)) \in Nat
  BY PartsFinite

(* A new member is after t exactly when t is past.                         *)
LEMMA AfterAdd ==
    ASSUME NEW H, NEW b \in Nat, Numbered(H, b), now \in Nat, NEW t \in Int
    PROVE  LET h == [n |-> b, at |-> now]
           IN  Cardinality(After(H \cup {h}, t)) =
                  IF t < now THEN Cardinality(After(H, t)) + 1 ELSE 0
<1> DEFINE h == [n |-> b, at |-> now]
<1>1. h \notin H /\ h.at = now /\ IsFiniteSet(After(H, t))
  BY PartsFinite DEF Numbered
<1>2. CASE t < now
  <2>1. After(H \cup {h}, t) = After(H, t) \cup {h} /\ h \notin After(H, t)
    BY <1>1, <1>2 DEF After
  <2>2. Cardinality(After(H, t) \cup {h}) = Cardinality(After(H, t)) + 1
    BY <1>1, <2>1, FS_AddElement
  <2> QED
    BY <1>2, <2>1, <2>2
<1>3. CASE ~(t < now)
  <2>1. After(H \cup {h}, t) = {}
    BY <1>1, <1>3 DEF After, Numbered
  <2> QED
    BY <1>3, <2>1, FS_EmptySet
<1> QED
  BY <1>2, <1>3

LEMMA AfterNow ==
    ASSUME NEW H, NEW b, Numbered(H, b), now \in Nat, NEW t \in Int, t >= now
    PROVE  Cardinality(After(H, t)) = 0
<1>1. After(H, t) = {}
  BY DEF After, Numbered
<1> QED
  BY <1>1, FS_EmptySet

LEMMA NumberedAdd ==
    ASSUME NEW H, NEW b \in Nat, Numbered(H, b), now \in Nat
    PROVE  Numbered(H \cup {[n |-> b, at |-> now]}, b + 1)
<1>1. IsFiniteSet(H \cup {[n |-> b, at |-> now]})
  BY FS_AddElement DEF Numbered
<1> QED
  BY <1>1, ThrottleAssumption DEF Numbered

(* An entry that a prune drops had begun before the window.                *)
LEMMA PruneBudgets ==
    ASSUME TypeOK, FailureCap, BudgetInv, NEW k \in Keys
    PROVE  /\ Budgeted(PrunedFailures, k, guesses[k], passes[k])
           /\ k \in DOMAIN PrunedFailures =>
                 /\ k \in DOMAIN totpFailures
                 /\ PrunedFailures[k] = totpFailures[k]
                 /\ now < PrunedFailures[k].firstAt + FailureWindow
<1> DEFINE G == guesses[k]
           S == passes[k]
           e == totpFailures[k]
<1>1. now \in Nat /\ FailureWindow \in Nat \ {0} /\ MaxFailures \in Nat \ {0}
  BY ThrottleAssumption DEF TypeOK
<1>2. IsFiniteSet(G) /\ IsFiniteSet(S) /\ Budgeted(totpFailures, k, G, S)
  BY DEF BudgetInv, Numbered
<1>3. CASE k \notin DOMAIN totpFailures
  <2>1. k \notin DOMAIN PrunedFailures
    BY <1>3 DEF PrunedFailures
  <2> QED
    BY <1>2, <1>3, <2>1 DEF Budgeted
<1>4. CASE k \in DOMAIN totpFailures /\ ~(now >= e.firstAt + FailureWindow)
  <2>1. k \in DOMAIN PrunedFailures /\ PrunedFailures[k] = e
    BY <1>4 DEF PrunedFailures
  <2>2. e.firstAt \in Nat
    BY <1>4 DEF TypeOK
  <2> QED
    BY <1>1, <1>2, <1>4, <2>1, <2>2 DEF Budgeted
<1>5. CASE k \in DOMAIN totpFailures /\ now >= e.firstAt + FailureWindow
  <2>1. k \notin DOMAIN PrunedFailures
    BY <1>5 DEF PrunedFailures
  <2>2. e.firstAt \in Nat /\ e.count \in Nat /\ e.count <= MaxFailures
    BY <1>5 DEF TypeOK, FailureCap
  <2> HIDE DEF G, S, e
  <2>3. ASSUME NEW t \in Int, t >= now - FailureWindow PROVE Cleared(G, S, t)
    <3>1. t >= e.firstAt
      BY <1>1, <1>5, <2>2, <2>3
    <3>2. Running(G, S, t, e)
      BY <1>2, <1>5, <2>3 DEF Budgeted, e
    <3>3. Cardinality(After(S, t)) = 0 /\ Cardinality(After(G, t)) <= e.count - 1
      BY <3>1, <3>2 DEF Running
    <3>4. Cardinality(After(G, t)) \in Nat
      BY <1>2, AfterFinite
    <3>5. Short(Cardinality(After(S, t)) + 1) = MaxFailures - 1
      BY <3>3, ShortGrows
    <3> QED
      BY <1>1, <2>2, <3>3, <3>4, <3>5 DEF Cleared
  <2> QED
    BY <2>1, <2>3 DEF Budgeted, G, S
<1> QED
  BY <1>3, <1>4, <1>5

(* A wrong guess is counted in the live entry, or begins one.              *)
LEMMA InvalidBudgets ==
    ASSUME TypeOK, FailureCap, BudgetInv, NEW k \in Keys, NEW c \in Codes, NEW s \in Held,
           AnswerInvalid(k, c, s)
    PROVE  BudgetInv'
<1> DEFINE F == PrunedFailures
           G == guesses[k]
           S == passes[k]
           H == G \cup {[n |-> attempts, at |-> now]}
           d == totpFailures'[k]
<1>1. /\ now \in Nat /\ attempts \in Nat /\ acceptCount \in Nat
      /\ FailureWindow \in Nat \ {0} /\ MaxFailures \in Nat \ {0}
  BY ThrottleAssumption DEF TypeOK
<1>2. /\ guesses = [l \in Keys |-> guesses[l]]
      /\ passes = [l \in Keys |-> passes[l]]
      /\ Numbered(G, attempts) /\ Numbered(S, acceptCount)
      /\ Budgeted(F, k, G, S)
      /\ k \in DOMAIN F => F[k].firstAt <= now /\ now < F[k].firstAt + FailureWindow
  BY PruneBudgets DEF BudgetInv
<1>3. /\ guesses' = [guesses EXCEPT ![k] = H]
      /\ passes' = passes /\ acceptCount' = acceptCount
      /\ totpFailures' = WithFailure(F, k)
      /\ attempts' = attempts + 1 /\ now' = now
  BY DEF AnswerInvalid
<1>4. guesses' = [l \in Keys |-> guesses'[l]] /\ guesses'[k] = H
  BY <1>2, <1>3
<1>5. F \in [DOMAIN F -> [count : Nat \ {0}, firstAt : Nat]]
  BY PruneType
<1>6. /\ Numbered(guesses[k], attempts)' /\ Numbered(passes[k], acceptCount)'
  <2>1. Numbered(H, attempts + 1)
    BY <1>1, <1>2, NumberedAdd
  <2> QED
    BY <1>2, <1>3, <1>4, <2>1 DEF Numbered
<1>7. k \in DOMAIN totpFailures'
  BY <1>3, <1>5 DEF WithFailure
<1>8. ASSUME NEW t \in Int, t >= now - FailureWindow PROVE Running(H, S, t, d)
  <2>1. /\ Cardinality(After(H, t)) =
              (IF t < now THEN Cardinality(After(G, t)) + 1 ELSE 0)
        /\ Cardinality(After(G, t)) \in Nat /\ Cardinality(After(S, t)) \in Nat
    BY <1>1, <1>2, AfterAdd, AfterFinite DEF Numbered
  <2>2. Short(Cardinality(After(S, t)) + 1) \in Nat
    BY <2>1, ShortGrows
  <2>3. CASE k \in DOMAIN F
    <3>1. F[k].count \in Nat \ {0} /\ F[k].firstAt \in Nat
      BY <1>5, <2>3
    <3>2. d.count = F[k].count + 1 /\ d.firstAt = F[k].firstAt
      BY <1>2, <1>3, <1>5, <2>3 DEF WithFailure
    <3>3. Running(G, S, t, F[k])
      BY <1>2, <1>8, <2>3 DEF Budgeted
    <3> HIDE DEF d, G, H, S
    <3> QED
      BY <1>1, <2>1, <2>2, <3>1, <3>2, <3>3 DEF Running
  <2>4. CASE k \notin DOMAIN F
    <3>1. d.count = 1 /\ d.firstAt = now
      BY <1>3, <2>4 DEF WithFailure
    <3>2. Cleared(G, S, t)
      BY <1>2, <1>8, <2>4 DEF Budgeted
    <3>3. t >= now => Cardinality(After(S, t)) = 0
      BY <1>1, <1>2, AfterNow
    <3> HIDE DEF d, G, H, S
    <3> QED
      BY <1>1, <2>1, <2>2, <3>1, <3>2, <3>3 DEF Running, Cleared
  <2> QED
    BY <2>3, <2>4
<1>9. Budgeted(totpFailures, k, guesses[k], passes[k])'
  <2>1. passes'[k] = S /\ now' = now /\ guesses'[k] = H
    BY <1>3, <1>4
  <2> HIDE DEF H, S
  <2> QED
    BY <1>7, <1>8, <2>1 DEF Budgeted, Running, After
<1>10. totpFailures'[k].firstAt <= now'
  BY <1>1, <1>2, <1>3, <1>5 DEF WithFailure
<1>11. ASSUME NEW l \in Keys, l # k
       PROVE  /\ Numbered(guesses[l], attempts)' /\ Numbered(passes[l], acceptCount)'
              /\ Budgeted(totpFailures, l, guesses[l], passes[l])'
              /\ l \in DOMAIN totpFailures' => totpFailures'[l].firstAt <= now'
  <2>1. guesses'[l] = guesses[l] /\ passes'[l] = passes[l]
    BY <1>2, <1>3, <1>11
  <2>2. /\ l \in DOMAIN totpFailures' <=> l \in DOMAIN F
        /\ l \in DOMAIN F => totpFailures'[l] = F[l]
    BY <1>3, <1>5, <1>11 DEF WithFailure
  <2>3. /\ Budgeted(F, l, guesses[l], passes[l])
        /\ l \in DOMAIN F => F[l] = totpFailures[l] /\ l \in DOMAIN totpFailures
    BY PruneBudgets
  <2>4. /\ Numbered(guesses[l], attempts) /\ Numbered(passes[l], acceptCount)
        /\ l \in DOMAIN totpFailures => totpFailures[l].firstAt <= now
    BY DEF BudgetInv
  <2>5. Numbered(guesses[l], attempts)' /\ Numbered(passes[l], acceptCount)'
    BY <1>1, <1>3, <2>1, <2>4 DEF Numbered
  <2>6. Budgeted(totpFailures, l, guesses[l], passes[l])'
    BY <1>3, <2>1, <2>2, <2>3 DEF Budgeted, Running, Cleared, After
  <2> QED
    BY <1>3, <2>2, <2>3, <2>4, <2>5, <2>6
<1>12. passes' = [l \in Keys |-> passes'[l]]
  BY <1>2, <1>3
<1> HIDE DEF F, G, S, H, d
<1> QED
  BY <1>4, <1>6, <1>7, <1>9, <1>10, <1>11, <1>12 DEF BudgetInv

(* A success clears the entry: what the entry had counted is one entry that *)
(* never reached the limit more.                                           *)
LEMMA BurnBudgets ==
    ASSUME TypeOK, FailureCap, BudgetInv, NEW k \in Keys, NEW c \in Codes, NEW s \in Nat,
           Burn(k, c, s), now' = now, attempts' = attempts
    PROVE  BudgetInv'
<1> DEFINE F == PrunedFailures
           G == guesses[k]
           S == passes[k]
           R == S \cup {[n |-> acceptCount, at |-> now]}
<1>1. /\ now \in Nat /\ attempts \in Nat /\ acceptCount \in Nat
      /\ FailureWindow \in Nat \ {0} /\ MaxFailures \in Nat \ {0}
  BY ThrottleAssumption DEF TypeOK
<1>2. /\ guesses = [l \in Keys |-> guesses[l]]
      /\ passes = [l \in Keys |-> passes[l]]
      /\ Numbered(G, attempts) /\ Numbered(S, acceptCount)
      /\ Budgeted(F, k, G, S)
      /\ k \in DOMAIN F => F[k].firstAt <= now /\ now < F[k].firstAt + FailureWindow
  BY PruneBudgets DEF BudgetInv
<1>3. /\ passes' = [passes EXCEPT ![k] = R]
      /\ guesses' = guesses
      /\ totpFailures' = [l \in DOMAIN F \ {k} |-> F[l]]
      /\ acceptCount' = acceptCount + 1
  BY DEF Burn
<1>4. passes' = [l \in Keys |-> passes'[l]] /\ passes'[k] = R /\ guesses'[k] = G
  BY <1>2, <1>3
<1>5. Numbered(guesses[k], attempts)' /\ Numbered(passes[k], acceptCount)'
  <2>1. Numbered(R, acceptCount + 1)
    BY <1>1, <1>2, NumberedAdd
  <2> QED
    BY <1>2, <1>3, <1>4, <2>1 DEF Numbered
<1>6. ASSUME NEW t \in Int, t >= now - FailureWindow PROVE Cleared(G, R, t)
  <2>1. /\ Cardinality(After(R, t)) =
              (IF t < now THEN Cardinality(After(S, t)) + 1 ELSE 0)
        /\ Cardinality(After(G, t)) \in Nat /\ Cardinality(After(S, t)) \in Nat
        /\ t >= now => Cardinality(After(G, t)) = 0
    BY <1>1, <1>2, AfterAdd, AfterFinite, AfterNow DEF Numbered
  <2>2. /\ Short(Cardinality(After(S, t)) + 1) \in Nat
        /\ Short(Cardinality(After(S, t)) + 1 + 1) =
              Short(Cardinality(After(S, t)) + 1) + (MaxFailures - 1)
        /\ Short(Cardinality(After(R, t)) + 1) \in Nat
    <3>1. /\ Cardinality(After(R, t)) \in Nat /\ Cardinality(After(R, t)) + 1 \in Nat
          /\ Cardinality(After(S, t)) + 1 \in Nat
      BY <2>1
    <3>2. \A n \in Nat :
              Short(n) \in Nat /\ Short(n + 1) = Short(n) + (MaxFailures - 1)
      BY ShortGrows
    <3> HIDE DEF R, S
    <3> QED
      BY <3>1, <3>2
  <2>3. CASE ~(t < now)
    BY <1>1, <2>1, <2>2, <2>3 DEF Cleared
  <2>4. CASE t < now /\ k \notin DOMAIN F
    <3>1. Cleared(G, S, t)
      BY <1>2, <1>6, <2>4 DEF Budgeted
    <3>2. Cardinality(After(R, t)) + 1 = Cardinality(After(S, t)) + 1 + 1
      BY <2>1, <2>4
    <3> HIDE DEF G, S, R
    <3> QED
      BY <1>1, <2>1, <2>2, <3>1, <3>2 DEF Cleared
  <2>5. CASE t < now /\ k \in DOMAIN F
    <3>1. Running(G, S, t, F[k]) /\ F[k].count \in Nat /\ F[k].firstAt \in Nat
      BY <1>2, <1>6, <2>5, PruneType DEF Budgeted
    <3>2. F[k].count <= MaxFailures - 1
      <4>1. ~IsTotpThrottled(F, k)
        BY DEF Burn
      <4> QED
        BY <1>1, <1>2, <2>5, <3>1, <4>1 DEF IsTotpThrottled
    <3>3. Cardinality(After(R, t)) + 1 = Cardinality(After(S, t)) + 1 + 1
      BY <2>1, <2>5
    <3> HIDE DEF G, S, R, F
    <3> QED
      BY <1>1, <2>1, <2>2, <3>1, <3>2, <3>3 DEF Cleared, Running
  <2> QED
    BY <2>3, <2>4, <2>5
<1>7. k \notin DOMAIN totpFailures'
  BY <1>3
<1>8. Budgeted(totpFailures, k, guesses[k], passes[k])'
  <2> HIDE DEF G, R
  <2> QED
    BY <1>4, <1>6, <1>7 DEF Budgeted, Cleared, After
<1>9. ASSUME NEW l \in Keys, l # k
      PROVE  /\ Numbered(guesses[l], attempts)' /\ Numbered(passes[l], acceptCount)'
             /\ Budgeted(totpFailures, l, guesses[l], passes[l])'
             /\ l \in DOMAIN totpFailures' => totpFailures'[l].firstAt <= now'
  <2>1. guesses'[l] = guesses[l] /\ passes'[l] = passes[l]
    BY <1>2, <1>3, <1>9
  <2>2. /\ l \in DOMAIN totpFailures' <=> l \in DOMAIN F
        /\ l \in DOMAIN F => totpFailures'[l] = F[l]
    BY <1>3, <1>9
  <2>3. /\ Budgeted(F, l, guesses[l], passes[l])
        /\ l \in DOMAIN F => F[l] = totpFailures[l] /\ l \in DOMAIN totpFailures
    BY PruneBudgets
  <2>4. /\ Numbered(guesses[l], attempts) /\ Numbered(passes[l], acceptCount)
        /\ l \in DOMAIN totpFailures => totpFailures[l].firstAt <= now
    BY DEF BudgetInv
  <2>5. Numbered(guesses[l], attempts)' /\ Numbered(passes[l], acceptCount)'
    BY <1>1, <1>3, <2>1, <2>4 DEF Numbered
  <2>6. Budgeted(totpFailures, l, guesses[l], passes[l])'
    BY <2>1, <2>2, <2>3 DEF Budgeted, Running, Cleared, After
  <2> QED
    BY <2>2, <2>3, <2>4, <2>5, <2>6
<1>10. guesses' = [l \in Keys |-> guesses'[l]]
  BY <1>2, <1>3
<1> HIDE DEF F, G, S, R
<1> QED
  BY <1>4, <1>5, <1>7, <1>8, <1>9, <1>10 DEF BudgetInv

(* A step of the clock: what leaves the window is after no moment of it.   *)
LEMMA TickBudgets ==
    ASSUME TypeOK, BudgetInv, Tick, NEW k \in Keys
    PROVE  /\ Numbered(guesses[k], attempts)' /\ Numbered(passes[k], acceptCount)'
           /\ Budgeted(totpFailures, k, guesses[k], passes[k])'
<1> DEFINE G == guesses[k]
           S == passes[k]
<1>1. now \in Nat /\ FailureWindow \in Nat \ {0}
  BY ThrottleAssumption DEF TypeOK
<1>2. /\ guesses'[k] = Recent(G, now + 1) /\ passes'[k] = Recent(S, now + 1)
      /\ now' = now + 1 /\ attempts' = attempts /\ acceptCount' = acceptCount
      /\ totpFailures' = totpFailures
  BY DEF Tick
<1>3. Numbered(G, attempts) /\ Numbered(S, acceptCount) /\ Budgeted(totpFailures, k, G, S)
  BY DEF BudgetInv
<1> HIDE DEF G, S
<1>4. ASSUME NEW H, NEW b, Numbered(H, b)
      PROVE  /\ IsFiniteSet(Recent(H, now + 1))
             /\ \A t \in Int :
                   t >= now + 1 - FailureWindow =>
                      After(Recent(H, now + 1), t) = After(H, t)
  <2>1. Recent(H, now + 1) \subseteq H /\ IsFiniteSet(H)
    BY <1>4 DEF Recent, Numbered
  <2>2. IsFiniteSet(Recent(H, now + 1))
    BY <2>1, FS_Subset
  <2>3. \A h \in H : h.at \in Nat
    BY <1>4 DEF Numbered
  <2>4. \A t \in Int :
            t >= now + 1 - FailureWindow =>
                After(Recent(H, now + 1), t) = After(H, t)
    BY <1>1, <2>3 DEF After, Recent
  <2> QED
    BY <2>2, <2>4
<1>5. Numbered(guesses[k], attempts)' /\ Numbered(passes[k], acceptCount)'
  <2>1. IsFiniteSet(Recent(G, now + 1)) /\ IsFiniteSet(Recent(S, now + 1))
    BY <1>3, <1>4
  <2> QED
    BY <1>1, <1>2, <1>3, <2>1 DEF Numbered, Recent
<1>6. Budgeted(totpFailures, k, guesses[k], passes[k])'
  <2>1. ASSUME NEW t \in Int, t >= now' - FailureWindow
        PROVE  /\ After(guesses'[k], t) = After(G, t) /\ After(passes'[k], t) = After(S, t)
               /\ t >= now - FailureWindow
    BY <1>1, <1>2, <1>3, <1>4, <2>1
  <2> QED
    BY <1>2, <1>3, <2>1 DEF Budgeted, Running, Cleared, After
<1> QED
  BY <1>5, <1>6

LEMMA NothingCleared ==
    ASSUME NEW t \in Int
    PROVE  After({}, t) = {} /\ Cleared({}, {}, t)
<1>1. After({}, t) = {} /\ Cardinality({}) = 0
  BY FS_EmptySet DEF After
<1>2. Short(1) \in Nat
  BY ShortGrows
<1>3. Cardinality(After({}, t)) = 0
  BY <1>1
<1>4. Cleared({}, {}, t)
  BY <1>2, <1>3 DEF Cleared
<1> QED
  BY <1>1, <1>4

LEMMA NothingBudgets ==
    ASSUME guesses = [k \in Keys |-> {}], passes = [k \in Keys |-> {}],
           DOMAIN totpFailures = {}
    PROVE  BudgetInv
<1>1. IsFiniteSet({})
  BY FS_EmptySet
<1>2. \A k \in Keys : Budgeted(totpFailures, k, guesses[k], passes[k])
  BY NothingCleared DEF Budgeted
<1> QED
  BY <1>1, <1>2 DEF BudgetInv, Numbered

LEMMA NextBudgets == TypeOK /\ FailureCap /\ BudgetInv /\ [Next]_vars => BudgetInv'
<1> SUFFICES ASSUME TypeOK, FailureCap, BudgetInv, [Next]_vars PROVE BudgetInv'
  OBVIOUS
<1>1. ASSUME totpFailures' = PrunedFailures, UNCHANGED <<now, guesses, passes, attempts, acceptCount>>
      PROVE  BudgetInv'
  <2>1. \A k \in Keys :
            /\ Budgeted(PrunedFailures, k, guesses[k], passes[k])
            /\ k \in DOMAIN PrunedFailures =>
                  k \in DOMAIN totpFailures /\ PrunedFailures[k] = totpFailures[k]
    BY PruneBudgets
  <2>2. \A k \in Keys : Budgeted(totpFailures, k, guesses[k], passes[k])'
    BY <1>1, <2>1 DEF Budgeted, Running, Cleared, After
  <2> QED
    BY <1>1, <2>1, <2>2 DEF BudgetInv, Numbered
<1>2. ASSUME NEW k \in Keys, NEW c \in Codes, AnswerLocked(k, c) \/ AnswerUsed(k, c)
      PROVE  BudgetInv'
  BY <1>1, <1>2 DEF AnswerLocked, AnswerUsed
<1>3. ASSUME NEW k \in Keys, NEW c \in Codes, NEW s \in Held,
             AnswerInvalid(k, c, s) PROVE BudgetInv'
  BY <1>3, InvalidBudgets
<1>4. ASSUME NEW k \in Keys, NEW c \in Codes, NEW s \in Held,
             AnswerOk(k, c, s) PROVE BudgetInv'
  <2>1. s \in Nat
    BY DEF Held, TypeOK
  <2> QED
    BY <1>4, <2>1, BurnBudgets DEF AnswerOk
<1>5. ASSUME NEW k \in Keys, NEW c \in Codes, Reset2fa(k, c) PROVE BudgetInv'
  <2>1. secret \in Nat
    BY DEF TypeOK
  <2> QED
    BY <1>5, <2>1, BurnBudgets DEF Reset2fa
<1>6. CASE Restart
  <2>1. /\ guesses' = [k \in Keys |-> {}] /\ passes' = [k \in Keys |-> {}]
        /\ DOMAIN totpFailures' = {}
    BY <1>6 DEF Restart
  <2>2. IsFiniteSet({})
    BY FS_EmptySet
  <2>3. \A k \in Keys : Budgeted(totpFailures, k, guesses[k], passes[k])'
    BY <2>1, NothingCleared DEF Budgeted, Cleared, After
  <2> QED
    BY <2>1, <2>2, <2>3 DEF BudgetInv, Numbered
<1>7. CASE Tick
  <2>1. \A k \in Keys :
            /\ Numbered(guesses[k], attempts)' /\ Numbered(passes[k], acceptCount)'
            /\ Budgeted(totpFailures, k, guesses[k], passes[k])'
    BY <1>7, TickBudgets
  <2>2. /\ (guesses = [k \in Keys |-> guesses[k]])'
        /\ (passes = [k \in Keys |-> passes[k]])'
        /\ now' = now + 1 /\ now \in Nat /\ totpFailures' = totpFailures
    BY <1>7 DEF Tick, TypeOK
  <2>3. \A k \in Keys :
            k \in DOMAIN totpFailures' => totpFailures'[k].firstAt <= now'
    BY <2>2 DEF BudgetInv, TypeOK
  <2> QED
    BY <2>1, <2>2, <2>3 DEF BudgetInv
<1>8. CASE UNCHANGED vars
  BY <1>8 DEF vars, BudgetInv, Numbered, Budgeted, Running, Cleared, After
<1> QED
  BY <1>2, <1>3, <1>4, <1>5, <1>6, <1>7, <1>8 DEF Next

(* The wrong guesses one key gets out of any span as long as the window:   *)
(* the tail of one fixed window, the whole of the next, and what every     *)
(* success in between cleared.                                             *)
THEOREM GuessesBudgeted == Spec => []GuessBudget
<1>1. TypeOK /\ FailureCap /\ BudgetInv => GuessBudget
  <2> SUFFICES ASSUME TypeOK, FailureCap, BudgetInv, NEW k \in Keys
               PROVE  Cardinality(guesses[k]) <= Short(Cardinality(passes[k]) + 2) + 1
    BY DEF GuessBudget, Short
  <2> DEFINE G == guesses[k]
             S == passes[k]
             e == totpFailures[k]
             t == now - FailureWindow
  <2>1. /\ now \in Nat /\ FailureWindow \in Nat \ {0} /\ MaxFailures \in Nat \ {0}
        /\ t \in Int /\ t >= now - FailureWindow
    BY ThrottleAssumption DEF TypeOK
  <2>2. /\ Numbered(G, attempts) /\ Numbered(S, acceptCount)
        /\ IF k \in DOMAIN totpFailures THEN Running(G, S, t, e) ELSE Cleared(G, S, t)
    BY <2>1 DEF BudgetInv, Budgeted
  <2>3. After(G, t) = G /\ After(S, t) = S
    BY <2>1, <2>2 DEF Numbered, After
  <2>4. Cardinality(G) \in Nat /\ Cardinality(S) \in Nat
    BY <2>2, FS_CardinalityType DEF Numbered
  <2>5. /\ Short(Cardinality(S) + 1) \in Nat
        /\ Short(Cardinality(S) + 1) = Short(Cardinality(S)) + (MaxFailures - 1)
        /\ Short(Cardinality(S) + 1 + 1) = Short(Cardinality(S) + 1) + (MaxFailures - 1)
        /\ Short(Cardinality(S)) \in Nat
    BY <2>4, ShortGrows
  <2>6. Cardinality(S) + 1 + 1 = Cardinality(S) + 2
    BY <2>4
  <2>7. k \in DOMAIN totpFailures =>
            e.count \in Nat /\ e.count <= MaxFailures /\ e.firstAt \in Int
    BY DEF TypeOK, FailureCap
  <2> HIDE DEF G, S, e, t
  <2>8. Cardinality(G) <= Short(Cardinality(S) + 2) + 1
    <3>1. CASE k \notin DOMAIN totpFailures
      BY <2>1, <2>2, <2>3, <2>4, <2>5, <2>6, <3>1 DEF Cleared
    <3>2. CASE k \in DOMAIN totpFailures /\ t >= e.firstAt
      BY <2>1, <2>2, <2>3, <2>4, <2>5, <2>6, <2>7, <3>2 DEF Running
    <3>3. CASE k \in DOMAIN totpFailures /\ t < e.firstAt
      BY <2>1, <2>2, <2>3, <2>4, <2>5, <2>6, <2>7, <3>3 DEF Running
    <3> QED
      BY <2>1, <2>7, <3>1, <3>2, <3>3
  <2> QED
    BY <2>8 DEF G, S
<1>2. Init => BudgetInv
  BY NothingBudgets DEF Init
<1>3. Spec => []BudgetInv
  BY <1>2, NextBudgets, TypeCorrect, FailuresCapped, PTL DEF Spec
<1> QED
  BY <1>1, <1>3, TypeCorrect, FailuresCapped, PTL

-----------------------------------------------------------------------------
(* How far a code is single use.  BurnGap is not inductive: the            *)
(* strengthening ties the history of accepted codes to the burn map.       *)

(* Acceptances are numbered in order, and none lies in the future.          *)
HistoryInv ==
    \A a \in accepted : a.n < acceptCount /\ a.period <= Period(now)

(* The number identifies the acceptance.                                    *)
DistinctInv == \A a, b \in accepted : a.n = b.n => a = b

(* An accepted code was the code of a period at most one away.              *)
ValidInv ==
    \A a \in accepted : \E d \in {-1, 0, 1} : a.code = CodeOf(a.secret, a.period + d)

(* Until two periods after an acceptance its three keys stay burnt.         *)
BurntInv ==
    \A a \in accepted :
        Period(now) < a.period + 2 =>
            \A d \in {-1, 0, 1} :
                /\ <<a.code, a.period + d>> \in DOMAIN usedCodes
                /\ usedCodes[<<a.code, a.period + d>>] = (a.period + 2) * PeriodTicks

SingleUseInv == HistoryInv /\ DistinctInv /\ ValidInv /\ BurntInv /\ BurnGap

(* While a code is burnt its three keys survive the prune.                  *)
LEMMA BurntSurvivesPrune ==
    ASSUME TypeOK, BurntInv, NEW a \in accepted, Period(now) < a.period + 2,
           NEW d \in {-1, 0, 1}
    PROVE  /\ <<a.code, a.period + d>> \in DOMAIN PrunedCodes
           /\ PrunedCodes[<<a.code, a.period + d>>] = (a.period + 2) * PeriodTicks
<1>1. a.period \in Nat /\ a.period + 2 \in Nat /\ now \in Nat
  BY DEF TypeOK
<1>2. ~(now >= (a.period + 2) * PeriodTicks)
  <2>1. Period(now) \in Nat
    BY <1>1, PeriodDivision
  <2> QED
    BY <1>1, <2>1, PeriodReached
<1>3. /\ <<a.code, a.period + d>> \in DOMAIN usedCodes
      /\ usedCodes[<<a.code, a.period + d>>] = (a.period + 2) * PeriodTicks
  BY DEF BurntInv
<1> QED
  BY <1>2, <1>3 DEF PrunedCodes

LEMMA PruneKeepsBurnt ==
    ASSUME TypeOK, BurntInv, usedCodes' = PrunedCodes,
           UNCHANGED <<now, accepted>>
    PROVE  BurntInv'
<1> SUFFICES ASSUME NEW a \in accepted, Period(now) < a.period + 2, NEW d \in {-1, 0, 1}
             PROVE  /\ <<a.code, a.period + d>> \in DOMAIN PrunedCodes
                    /\ PrunedCodes[<<a.code, a.period + d>>] = (a.period + 2) * PeriodTicks
  BY DEF BurntInv, Period
<1> QED
  BY BurntSurvivesPrune

(* A code accepted less than two periods ago cannot be accepted.            *)
LEMMA RecentCodeRefused ==
    ASSUME TypeOK, HistoryInv, BurntInv, NEW k \in Keys, NEW c \in Codes, NEW s \in Nat, Burn(k, c, s),
           NEW a \in accepted, a.code = c
    PROVE  Period(now) >= a.period + 2
<1>1. a.period \in Nat /\ Period(now) \in Nat
  BY PeriodDivision DEF TypeOK
<1> SUFFICES ASSUME Period(now) < a.period + 2 PROVE FALSE
  BY <1>1
<1>2. Period(now) = a.period \/ Period(now) = a.period + 1
  BY <1>1 DEF HistoryInv
<1>3. <<c, Period(now)>> \in DOMAIN PrunedCodes
  <2>1. \A d \in {-1, 0, 1} : <<a.code, a.period + d>> \in DOMAIN PrunedCodes
    BY BurntSurvivesPrune
  <2>2. <<a.code, a.period + 0>> \in DOMAIN PrunedCodes
    BY <2>1
  <2>3. <<a.code, a.period + 1>> \in DOMAIN PrunedCodes
    BY <2>1
  <2> QED
    BY <1>1, <1>2, <2>2, <2>3
<1>4. <<c, Period(now)>> \in CandidateKeys(c)
  BY <1>1 DEF CandidateKeys
<1> QED
  BY <1>3, <1>4 DEF Burn

LEMMA BurnKeepsSingleUse ==
    ASSUME TypeOK, SingleUseInv, NEW k \in Keys, NEW c \in Codes, NEW s \in Nat, Burn(k, c, s), now' = now
    PROVE  SingleUseInv'
<1> DEFINE new == [n |-> acceptCount, code |-> c, secret |-> s, period |-> Period(now)]
<1>1. /\ Period(now) \in Nat
      /\ accepted \subseteq [n : Nat, code : Codes, secret : Nat, period : Nat]
      /\ acceptCount \in Nat
  BY PeriodDivision DEF TypeOK
<1>2. accepted' = accepted \cup {new} /\ acceptCount' = acceptCount + 1
  BY DEF Burn
<1>3. Period(now') = Period(now)
  BY DEF Period
<1>4. /\ new.n = acceptCount /\ new.code = c
      /\ new.secret = s /\ new.period = Period(now)
  OBVIOUS
<1>5. \E d \in {-1, 0, 1} : new.code = CodeOf(new.secret, new.period + d)
  BY <1>4 DEF Burn, VerifyTOTP
<1> HIDE DEF new
<1>6. HistoryInv'
  BY <1>1, <1>2, <1>3, <1>4 DEF SingleUseInv, HistoryInv
<1>7. DistinctInv'
  BY <1>1, <1>2, <1>4 DEF SingleUseInv, HistoryInv, DistinctInv
<1>8. ValidInv'
  BY <1>2, <1>5 DEF SingleUseInv, ValidInv
<1>9. BurntInv'
  <2> SUFFICES ASSUME NEW a \in accepted', Period(now) < a.period + 2, NEW d \in {-1, 0, 1}
               PROVE  /\ <<a.code, a.period + d>> \in DOMAIN usedCodes'
                      /\ usedCodes'[<<a.code, a.period + d>>] = (a.period + 2) * PeriodTicks
    BY <1>3 DEF BurntInv
  <2>1. CASE a = new
    <3>1. <<a.code, a.period + d>> \in CandidateKeys(c)
      BY <2>1, <1>4 DEF CandidateKeys
    <3> QED
      BY <2>1, <3>1, <1>4 DEF Burn, BurnExpiry
  <2>2. CASE a \in accepted /\ a # new
    <3>1. /\ <<a.code, a.period + d>> \in DOMAIN PrunedCodes
          /\ PrunedCodes[<<a.code, a.period + d>>] = (a.period + 2) * PeriodTicks
      BY <2>2, BurntSurvivesPrune DEF SingleUseInv
    <3>2. <<a.code, a.period + d>> \notin CandidateKeys(c)
      BY <3>1 DEF Burn
    <3> QED
      BY <3>1, <3>2 DEF Burn
  <2> QED
    BY <2>1, <2>2, <1>2
<1>10. BurnGap'
  <2> SUFFICES ASSUME NEW a \in accepted', NEW b \in accepted', a.code = b.code, a.n < b.n
               PROVE  b.period >= a.period + 2
    BY DEF BurnGap
  <2>1. CASE a \in accepted /\ b \in accepted
    BY <2>1 DEF SingleUseInv, BurnGap
  <2>2. CASE a \in accepted /\ b = new
    <3>1. Period(now) >= a.period + 2
      BY <2>2, <1>4, RecentCodeRefused DEF SingleUseInv
    <3> QED
      BY <3>1, <2>2, <1>4
  <2>3. CASE a = new
    BY <2>3, <1>1, <1>2, <1>4 DEF SingleUseInv, HistoryInv
  <2> QED
    BY <2>1, <2>2, <2>3, <1>2
<1> QED
  BY <1>6, <1>7, <1>8, <1>9, <1>10 DEF SingleUseInv

LEMMA PruneKeepsSingleUse ==
    ASSUME TypeOK, SingleUseInv, usedCodes' = PrunedCodes,
           UNCHANGED <<now, accepted, acceptCount>>
    PROVE  SingleUseInv'
<1>1. BurntInv'
  BY PruneKeepsBurnt DEF SingleUseInv
<1> QED
  BY <1>1 DEF SingleUseInv, HistoryInv, DistinctInv, ValidInv, BurnGap, Period

LEMMA TickKeepsSingleUse == TypeOK /\ SingleUseInv /\ Tick => SingleUseInv'
<1> SUFFICES ASSUME TypeOK, SingleUseInv, Tick PROVE SingleUseInv'
  OBVIOUS
<1>1. /\ now' = now + 1
      /\ UNCHANGED <<accepted, acceptCount, usedCodes>>
  BY DEF Tick
<1>2. Period(now) \in Nat /\ Period(now') \in Nat /\ Period(now') >= Period(now)
  BY <1>1, PeriodDivision, PeriodMonotone DEF TypeOK
<1>3. \A a \in accepted : a.period \in Nat
  BY DEF TypeOK
<1>4. HistoryInv'
  BY <1>1, <1>2, <1>3 DEF SingleUseInv, HistoryInv
<1>5. BurntInv'
  <2> SUFFICES ASSUME NEW a \in accepted, Period(now') < a.period + 2, NEW d \in {-1, 0, 1}
               PROVE  /\ <<a.code, a.period + d>> \in DOMAIN usedCodes
                      /\ usedCodes[<<a.code, a.period + d>>] = (a.period + 2) * PeriodTicks
    BY <1>1 DEF BurntInv
  <2>1. Period(now) < a.period + 2
    BY <1>2, <1>3
  <2> QED
    BY <2>1 DEF SingleUseInv, BurntInv
<1>6. DistinctInv' /\ BurnGap'
  BY <1>1 DEF SingleUseInv, DistinctInv, BurnGap
<1>7. ValidInv'
  BY <1>1 DEF SingleUseInv, ValidInv
<1> QED
  BY <1>4, <1>5, <1>6, <1>7 DEF SingleUseInv

LEMMA NextSingleUse == TypeOK /\ SingleUseInv /\ [Next]_vars => SingleUseInv'
<1> SUFFICES ASSUME TypeOK, SingleUseInv, [Next]_vars PROVE SingleUseInv'
  OBVIOUS
<1>1. ASSUME NEW k \in Keys, NEW c \in Codes, AnswerLocked(k, c) PROVE SingleUseInv'
  BY <1>1, PruneKeepsSingleUse DEF AnswerLocked
<1>2. ASSUME NEW k \in Keys, NEW c \in Codes, AnswerUsed(k, c) PROVE SingleUseInv'
  BY <1>2, PruneKeepsSingleUse DEF AnswerUsed
<1>3. ASSUME NEW k \in Keys, NEW c \in Codes, NEW s \in Held,
             AnswerInvalid(k, c, s) PROVE SingleUseInv'
  BY <1>3, PruneKeepsSingleUse DEF AnswerInvalid
<1>4. ASSUME NEW k \in Keys, NEW c \in Codes, NEW s \in Held,
             AnswerOk(k, c, s) PROVE SingleUseInv'
  BY <1>4, BurnKeepsSingleUse DEF AnswerOk, TypeOK, Held
<1>5. ASSUME NEW k \in Keys, NEW c \in Codes, Reset2fa(k, c) PROVE SingleUseInv'
  BY <1>5, BurnKeepsSingleUse DEF Reset2fa, TypeOK
<1>6. CASE Restart
  BY <1>6 DEF Restart, SingleUseInv, HistoryInv, DistinctInv, ValidInv, BurntInv, BurnGap
<1>7. CASE Tick
  BY <1>7, TickKeepsSingleUse
<1>8. CASE UNCHANGED vars
  BY <1>8 DEF vars, SingleUseInv, HistoryInv, DistinctInv, ValidInv, BurntInv, BurnGap, Period
<1> QED
  BY <1>1, <1>2, <1>3, <1>4, <1>5, <1>6, <1>7, <1>8 DEF Next

LEMMA InitSingleUse == Init => SingleUseInv
  BY DEF Init, SingleUseInv, HistoryInv, DistinctInv, ValidInv, BurntInv, BurnGap

LEMMA SingleUseInvariant == Spec => []SingleUseInv
  BY InitSingleUse, NextSingleUse, TypeCorrect, PTL DEF Spec

(* The burn of verifyAndBurnTotpCode keeps two acceptances of one code two  *)
(* periods apart, for any HOTP, collisions of codes included.               *)
THEOREM AcceptancesApart == Spec => []BurnGap
<1>1. SingleUseInv => BurnGap
  BY DEF SingleUseInv
<1> QED
  BY <1>1, SingleUseInvariant, PTL

(* HOTP codes that never collide.  Six digits do, once in a million.        *)
CodesDistinct ==
    \A s, t \in Nat : \A p, q \in Int : CodeOf(s, p) = CodeOf(t, q) => s = t /\ p = q

(* With distinct codes, only a code presented in the period before its own  *)
(* can be accepted a second time by one process.                            *)
THEOREM SingleUseOfCodes ==
    ASSUME CodesDistinct
    PROVE  Spec => []SingleUseUnlessEarly
<1>1. TypeOK /\ SingleUseInv => SingleUseUnlessEarly
  <2> SUFFICES ASSUME TypeOK, SingleUseInv, NEW a \in accepted, NEW b \in accepted,
                      a.code = b.code, a.n < b.n
               PROVE  a.code = CodeOf(a.secret, a.period + 1)
    BY DEF SingleUseUnlessEarly, Early
  <2>1. /\ a.period \in Nat /\ b.period \in Nat
        /\ a.secret \in Nat /\ b.secret \in Nat
    BY DEF TypeOK
  <2>2. b.period >= a.period + 2
    BY DEF SingleUseInv, BurnGap
  <2>3. PICK d \in {-1, 0, 1} : a.code = CodeOf(a.secret, a.period + d)
    BY DEF SingleUseInv, ValidInv
  <2>4. PICK e \in {-1, 0, 1} : b.code = CodeOf(b.secret, b.period + e)
    BY DEF SingleUseInv, ValidInv
  <2>5. a.period + d = b.period + e
    <3>1. a.period + d \in Int /\ b.period + e \in Int
      BY <2>1
    <3>2. CodeOf(a.secret, a.period + d) = CodeOf(b.secret, b.period + e)
      BY <2>3, <2>4
    <3>3. \A s, t \in Nat : \A p, q \in Int : CodeOf(s, p) = CodeOf(t, q) => s = t /\ p = q
      BY DEF CodesDistinct
    <3> QED
      BY <2>1, <3>1, <3>2, <3>3
  <2>6. d = 1
    BY <2>1, <2>2, <2>5
  <2> QED
    BY <2>3, <2>6
<1> QED
  BY <1>1, SingleUseInvariant, TypeCorrect, PTL
=============================================================================
