----------------------------- MODULE PageProofs -----------------------------
(***************************************************************************)
(* What the pages and the routes behind them guarantee for any number of   *)
(* tabs, transactions, requests, imports and tokens, and any bounds.       *)
(*                                                                         *)
(* A part's variables go by their names in its module; parts that have a   *)
(* name in common share the variable, and every theorem is about one part. *)
(***************************************************************************)
EXTENDS Integers, FiniteSetTheorems, SequenceTheorems, TLAPS

CONSTANTS
    None,
    Tabs, Coins, MaxAttempts, SendFaults,                        \* BtcSend
    Txs, MempoolApi, MaxChecks, MaxBreaks,                       \* TxToast
    SubmitForms, Fields, FieldOf, Codes, MaxBatch, MaxRequests,
                                                            \* WalletSubmit
    Imports, FileCrashes,                                     \* WalletFile
    Digits, Scales, Decimals, Longest, Largest,                  \* OpForms
    BookTokens, MaxLoads,                                  \* OrderBookPage
    StarTokens, NFTs, StarCap, MaxWrites, MaxAstray,          \* Favourites
    OwnTokens, FetchSlots, IssuedFails, MaxClicks,          \* IssuedTokens
    FailureLimit, HistoryLimit, MaxPolls, CardAttempts, MaxReloads,
                                                                  \* Bridge
    Accounts, Assets, MlSide, EthSide, Cap, Fine, Alike, Balance, Fractions,
    Amounts, Receivers, SyncAnswers, MaxFetches,                       \* BridgeForm
    SetupTabs, OtherWallets, MaxTries, SetupFaults,             \* BtcSetup
    NftOrders, Own, MarketLoads, MaxTrades, MarketFails,       \* NftMarket
    Files, MaxPicks, MaxEdits, MaxSubmits,                    \* IssueForms
    WordPosts, WordAttempts, WordFaults                      \* WalletSetup

VARIABLES
    page, user, at, coin, told, deserted, known, scan, nodeUp, up, accepted,
    excused, fresh, faults,                                      \* BtcSend
    chain, answer, stream, events, breaks, watcher, toast, timer, asked,
                                                                 \* TxToast
    typed, waitsFor, reqs, burnt, early, late, calls,       \* WalletSubmit
    files, canon, temp, slot, scanning, pc, mine, said, crashes,
                                                              \* WalletFile
    req, phase,                                                  \* OpForms
    selected, manual, book, decimals, loadSeq, loads, order,
                                                           \* OrderBookPage
    store, ref, drawn, posts, import, trade, wanted, luck, acts,
                                                              \* Favourites
    tx, indexed, stored, live, failed, scanError, jobs, fails, clicks,
                                                            \* IssuedTokens
    subs, tracked, unsaved, progress, unavailable, failures, polls, history,
    posted, backend, moved, left, attempts, reloads,              \* Bridge
    config, restoring, account, connecting, balances, fetches, addressing,
    indexer, form, filled, flight, confirmed, sent,           \* BridgeForm
    wallet, locked, session, reads, tries, leftOpen, doubted,   \* BtcSetup
    status, unit, frozen, tab, lists, trades, modal, steady,   \* NftMarket
    kind, ipfs, mode, media, logo, meta, text, sub, issued, picks, submits,
                                                              \* IssueForms
    open, walletAt, uploadAt, btc, post, shown, lost         \* WalletSetup

Send == INSTANCE BtcSend WITH
    NoCoin <- None, Patient <- TRUE, MaxFaults <- SendFaults

Toast == INSTANCE TxToast

Submit == INSTANCE WalletSubmit WITH Forms <- SubmitForms

File == INSTANCE WalletFile WITH
    OneAtATime <- TRUE, MaxCrashes <- FileCrashes

Forms == INSTANCE OpForms

Book == INSTANCE OrderBookPage WITH Tokens <- BookTokens, Hasty <- FALSE

Stars == INSTANCE Favourites WITH Tokens <- StarTokens, Cap <- StarCap

Issued == INSTANCE IssuedTokens WITH
    Tokens <- OwnTokens, Slots <- FetchSlots, MaxFails <- IssuedFails

Card == INSTANCE Bridge WITH MaxAttempts <- CardAttempts

Deposit == INSTANCE BridgeForm WITH
    Typed <- Amounts, Answers <- SyncAnswers

Setup == INSTANCE BtcSetup WITH
    Tabs <- SetupTabs, Others <- OtherWallets, MaxFaults <- SetupFaults

Market == INSTANCE NftMarket WITH
    Orders <- NftOrders, MaxLoads <- MarketLoads, MaxFails <- MarketFails

Issue == INSTANCE IssueForms WITH Typed <- "typed"

Words == INSTANCE WalletSetup WITH
    Posts <- WordPosts, MaxAttempts <- WordAttempts, MaxFaults <- WordFaults

-----------------------------------------------------------------------------
(* Sequences that grow at their end and shrink at their front.             *)
LEMMA FirstOf ==
    ASSUME NEW S, NEW s \in Seq(S), s # <<>>
    PROVE  /\ Head(s) = s[1] /\ 1 \in 1..Len(s) /\ s[1] \in S
           /\ Tail(s) \in Seq(S)
           /\ \A n \in 1..Len(Tail(s)) : n + 1 \in 1..Len(s) /\ Tail(s)[n] = s[n + 1]
OBVIOUS

LEMMA LastOf ==
    ASSUME NEW S, NEW s \in Seq(S), NEW e \in S
    PROVE  /\ Append(s, e) \in Seq(S) /\ Len(Append(s, e)) = Len(s) + 1
           /\ \A n \in 1..Len(Append(s, e)) :
                 (n \in 1..Len(s) /\ Append(s, e)[n] = s[n]) \/ Append(s, e)[n] = e
OBVIOUS

LEMMA AppendedAt ==
    ASSUME NEW S, NEW s \in Seq(S), NEW e \in S
    PROVE  /\ Append(s, e)[Len(s) + 1] = e
           /\ \A n \in 1..Len(s) : Append(s, e)[n] = s[n]
           /\ 1..Len(Append(s, e)) = 1..Len(s) \cup {Len(s) + 1}
           /\ Len(s) + 1 \notin 1..Len(s)
OBVIOUS

LEMMA Queued ==
    ASSUME NEW S, NEW q \in Seq(S), NEW e \in S
    PROVE  /\ Append(q, e) \in Seq(S) /\ Append(q, e) # <<>>
           /\ Len(Append(q, e)) = Len(q) + 1
           /\ Append(q, e)[Len(q) + 1] = e
           /\ \A n \in 1..Len(q) : Append(q, e)[n] = q[n]
OBVIOUS

LEMMA Served ==
    ASSUME NEW S, NEW q \in Seq(S), q # <<>>
    PROVE  /\ Head(q) = q[1] /\ q[1] \in S /\ Len(q) \in Nat /\ Len(q) >= 1
           /\ Tail(q) \in Seq(S) /\ Len(Tail(q)) = Len(q) - 1
           /\ Tail(q) = <<>> <=> Len(q) = 1
           /\ \A n \in 1..Len(Tail(q)) : Tail(q)[n] = q[n + 1]
<1>1. Len(q) \in Nat /\ Len(q) >= 1
  BY EmptySeq
<1>2. Head(q) = q[1] /\ q[1] \in S /\ Tail(q) \in Seq(S) /\ Len(Tail(q)) = Len(q) - 1
  BY <1>1, HeadTailProperties
<1>3. Tail(q) = <<>> <=> Len(q) = 1
  BY <1>1, <1>2, EmptySeq
<1> QED
  BY <1>1, <1>2, <1>3, HeadTailProperties

-----------------------------------------------------------------------------
(* BtcSend. As long as no acknowledgement was destroyed, one attempt at    *)
(* most may still pay or has paid, and the user knows when none has.       *)
LEMMA SendCounts ==
    \A S : (Send!IsFiniteSet(S) <=> IsFiniteSet(S)) /\ Send!Cardinality(S) = Cardinality(S)
BY DEF Send!IsFiniteSet, IsFiniteSet, Send!Cardinality, Cardinality

LEMMA SendInit == Send!Init => Send!BtcSendInv
BY DEF Send!Init, Send!BtcSendInv, Send!TypeOK, Send!Answered, Send!ScanSees,
   Send!OneAtMost, Send!Live, Send!NoScan

(* What an answer does to the page's and the user's state.                 *)
LEMMA Told ==
    ASSUME Send!TypeOK, NEW a \in Send!Attempts, NEW reply \in {"sent", "refused", "unknown"},
           Send!Tell(a, reply)
    PROVE  /\ told' \in [Send!Attempts -> {"nothing", "sent", "refused", "unknown"}]
           /\ user' \in {"pay", "waiting", "unsure", "done"}
           /\ \A b \in Send!Attempts : b # a => told'[b] = told[b]
           /\ told'[a] # "nothing"
           /\ told'[a] = "refused" => told[a] = "refused" \/ reply = "refused"
           /\ \/ told[a] # "nothing" /\ UNCHANGED <<told, user, fresh>>
              \/ /\ told[a] = "nothing" /\ fresh' = FALSE
                 /\ reply = "sent" => user' = "done"
                 /\ reply = "refused" => user' = "pay"
                 /\ reply = "unknown" => user' = "unsure"
BY DEF Send!Tell, Send!TypeOK

(* An attempt that ends unpaid leaves none that may still pay.             *)
LEMMA FailsKeeps ==
    ASSUME Send!BtcSendInv, NEW a \in Send!Attempts, Send!Fails(a),
           at[a] \in {"route", "config", "broadcast"},
           UNCHANGED <<scan, known, accepted, excused>>
    PROVE  Send!BtcSendInv'
<1> USE DEF Send!BtcSendInv
<1>1. /\ at' \in [Send!Attempts -> {"new", "route", "config", "broadcast", "accepted", "done"}]
      /\ at'[a] = "done" /\ \A b \in Send!Attempts : b # a => at'[b] = at[b]
  BY DEF Send!Fails, Send!Move, Send!TypeOK
<1>2. /\ told' \in [Send!Attempts -> {"nothing", "sent", "refused", "unknown"}]
      /\ user' \in {"pay", "waiting", "unsure", "done"}
      /\ \A b \in Send!Attempts : b # a => told'[b] = told[b]
      /\ told'[a] # "nothing"
      /\ \/ told[a] # "nothing" /\ UNCHANGED <<told, user, fresh>>
         \/ told[a] = "nothing" /\ fresh' = FALSE /\ user' = "pay"
  BY Told DEF Send!Fails
<1>3. a \notin accepted /\ a \in Send!Live /\ Send!Live' = Send!Live \ {a}
  BY <1>1 DEF Send!Answered, Send!Live
<1>4. Send!TypeOK' /\ Send!ScanSees' /\ Send!Answered'
  BY <1>1, <1>2, <1>3 DEF Send!TypeOK, Send!ScanSees, Send!Answered
<1>5. excused = {} => Send!OneAtMost'
  BY <1>1, <1>2, <1>3 DEF Send!OneAtMost
<1> QED
  BY <1>4, <1>5

(* An attempt that moves on untold.                                        *)
LEMMA MovesKeeps ==
    ASSUME Send!BtcSendInv, NEW a \in Send!Attempts, NEW stage, Send!Move(a, stage),
           <<at[a], stage>> \in {<<"route", "config">>, <<"config", "broadcast">>},
           ~(stage = "broadcast" /\ scan.at = "scanning"),
           UNCHANGED <<user, told, fresh, scan, known, accepted, excused>>
    PROVE  Send!BtcSendInv'
<1> USE DEF Send!BtcSendInv
<1>1. /\ at' \in [Send!Attempts -> {"new", "route", "config", "broadcast", "accepted", "done"}]
      /\ at'[a] = stage /\ \A b \in Send!Attempts : b # a => at'[b] = at[b]
  BY DEF Send!Move, Send!TypeOK
<1>2. a \notin accepted /\ a \in Send!Live /\ Send!Live' = Send!Live
  BY <1>1 DEF Send!Answered, Send!Live
<1>3. Send!TypeOK' /\ Send!ScanSees' /\ Send!Answered'
  BY <1>1, <1>2 DEF Send!TypeOK, Send!ScanSees, Send!Answered
<1>4. excused = {} => Send!OneAtMost'
  BY <1>1, <1>2 DEF Send!OneAtMost
<1> QED
  BY <1>3, <1>4

LEMMA SendStep ==
    ASSUME Send!BtcSendConstants, Send!BtcSendInv, [Send!Next]_Send!vars
    PROVE  Send!BtcSendInv'
<1> USE DEF Send!BtcSendInv
<1>1. ASSUME NEW t \in Tabs, NEW a \in Send!Attempts, Send!Submit(t, a)
      PROVE  Send!BtcSendInv'
  <2>1. /\ at' \in [Send!Attempts -> {"new", "route", "config", "broadcast", "accepted", "done"}]
        /\ at'[a] = "route" /\ \A b \in Send!Attempts : b # a => at'[b] = at[b]
        /\ at[a] = "new" /\ user = "pay" /\ user' = "waiting"
        /\ UNCHANGED <<told, fresh, scan, known, accepted, excused>>
    BY <1>1 DEF Send!Submit, Send!Move, Send!TypeOK
  <2>2. a \notin accepted /\ told[a] = "nothing" /\ Send!Live' = Send!Live \cup {a}
    BY <2>1 DEF Send!Answered, Send!Live
  <2>3. Send!TypeOK' /\ Send!ScanSees' /\ Send!Answered'
    BY <2>1, <2>2 DEF Send!TypeOK, Send!ScanSees, Send!Answered
  <2>4. excused = {} => Send!OneAtMost'
    BY <2>1, <2>2 DEF Send!OneAtMost
  <2> QED
    BY <2>1, <2>3, <2>4
<1>2. ASSUME NEW t \in Tabs, Send!Refresh(t) PROVE Send!BtcSendInv'
  <2>1. /\ UNCHANGED <<at, told, fresh, scan, known, accepted, excused>>
        /\ \/ user' = user
           \/ /\ user = "unsure" /\ ~Send!Locked /\ fresh
              /\ user' = IF known # {} THEN "done" ELSE "pay"
    BY <1>2 DEF Send!Refresh, Send!BtcSendConstants
  <2>2. Send!Live' = Send!Live
    BY <2>1 DEF Send!Live
  <2>3. Send!TypeOK' /\ Send!ScanSees' /\ Send!Answered'
    BY <2>1 DEF Send!TypeOK, Send!ScanSees, Send!Answered
  <2>4. ASSUME excused = {} PROVE Send!OneAtMost'
    <3>1. Send!OneAtMost
      BY <2>4
    <3>2. CASE user' = user
      BY <2>1, <2>2, <3>1, <3>2 DEF Send!OneAtMost
    <3>3. CASE /\ user = "unsure" /\ ~Send!Locked /\ fresh
               /\ user' = IF known # {} THEN "done" ELSE "pay"
      <4>1. \A a \in Send!Live : at[a] = "accepted" /\ a \in accepted /\ told[a] # "nothing"
        BY <3>1, <3>3 DEF Send!OneAtMost, Send!Live, Send!Answered
      <4>2. known = {} => Send!Live = {} /\ accepted = {}
        BY <3>1, <3>3, <4>1 DEF Send!OneAtMost
      <4> QED
        BY <2>1, <2>2, <3>1, <3>3, <4>1, <4>2 DEF Send!OneAtMost
    <3> QED
      BY <2>1, <3>2, <3>3
  <2> QED
    BY <2>1, <2>3, <2>4
<1>3. ASSUME NEW a \in Send!Attempts, Send!RouteRefuses(a) \/ Send!Unreachable(a)
      PROVE  Send!BtcSendInv'
  BY <1>3, FailsKeeps DEF Send!RouteRefuses, Send!Unreachable
<1>4. ASSUME NEW a \in Send!Attempts, Send!RouteForwards(a)
      PROVE  Send!BtcSendInv'
  BY <1>4, MovesKeeps DEF Send!RouteForwards
<1>5. ASSUME NEW a \in Send!Attempts, Send!TimesOut(a) \/ Send!AnswerLost(a)
      PROVE  Send!BtcSendInv'
  <2>1. /\ Send!Tell(a, "unknown") /\ UNCHANGED <<at, known, scan, accepted>>
        /\ excused \subseteq excused'
        /\ excused' = {} => at[a] \in {"broadcast", "accepted"}
    BY <1>5 DEF Send!TimesOut, Send!AnswerLost, Send!InSidecar, Send!TypeOK
  <2>2. /\ told' \in [Send!Attempts -> {"nothing", "sent", "refused", "unknown"}]
        /\ user' \in {"pay", "waiting", "unsure", "done"}
        /\ \A b \in Send!Attempts : b # a => told'[b] = told[b]
        /\ told'[a] # "nothing"
        /\ told'[a] = "refused" => told[a] = "refused"
        /\ \/ told[a] # "nothing" /\ UNCHANGED <<told, user, fresh>>
           \/ told[a] = "nothing" /\ fresh' = FALSE /\ user' = "unsure"
    BY <2>1, Told
  <2>3. Send!Live' = Send!Live
    BY <2>1 DEF Send!Live
  <2>4. at[a] # "new"
    BY <1>5 DEF Send!TimesOut, Send!AnswerLost, Send!InSidecar
  <2>5. Send!TypeOK' /\ Send!ScanSees' /\ Send!Answered'
    BY <2>1, <2>2, <2>4 DEF Send!TypeOK, Send!ScanSees, Send!Answered
  <2>6. ASSUME excused' = {} PROVE Send!OneAtMost'
    <3>1. excused = {} /\ Send!OneAtMost /\ a \in Send!Live
            /\ at[a] \in {"broadcast", "accepted"}
      BY <2>1, <2>6 DEF Send!Live
    <3> QED
      BY <2>1, <2>2, <2>3, <3>1 DEF Send!OneAtMost
  <2> QED
    BY <2>5, <2>6
<1>6. ASSUME NEW a \in Send!Attempts, Send!Locks(a) PROVE Send!BtcSendInv'
  <2>1. CASE Send!Fails(a)
    BY <1>6, <2>1, FailsKeeps DEF Send!Locks
  <2>2. CASE ~Send!Locked /\ Send!Move(a, "broadcast") /\ UNCHANGED <<told, user, fresh>>
    BY <1>6, <2>2, MovesKeeps DEF Send!Locks, Send!Locked
  <2> QED
    BY <1>6, <2>1, <2>2 DEF Send!Locks, Send!Builds
<1>7. ASSUME NEW a \in Send!Attempts, Send!Broadcast(a) PROVE Send!BtcSendInv'
  <2>1. CASE Send!Spent(coin[a])
    BY <1>7, <2>1, FailsKeeps DEF Send!Broadcast
  <2>2. CASE ~Send!Spent(coin[a])
    <3>1. /\ at' \in [Send!Attempts -> {"new", "route", "config", "broadcast", "accepted", "done"}]
          /\ at'[a] = "accepted" /\ \A b \in Send!Attempts : b # a => at'[b] = at[b]
          /\ at[a] = "broadcast" /\ accepted' = accepted \cup {a}
          /\ UNCHANGED <<told, user, fresh, scan, known, excused>>
      BY <1>7, <2>2 DEF Send!Broadcast, Send!Move, Send!TypeOK
    <3>2. a \in Send!Live /\ Send!Live' = Send!Live /\ scan.at # "scanning"
      BY <3>1 DEF Send!Live, Send!ScanSees
    <3>3. Send!TypeOK' /\ Send!ScanSees' /\ Send!Answered'
      BY <3>1, <3>2 DEF Send!TypeOK, Send!ScanSees, Send!Answered
    <3>4. excused = {} => Send!OneAtMost'
      BY <3>1, <3>2 DEF Send!OneAtMost
    <3> QED
      BY <3>1, <3>3, <3>4
  <2> QED
    BY <2>1, <2>2
<1>8. ASSUME NEW a \in Send!Attempts, Send!BroadcastUnacknowledged(a)
      PROVE  Send!BtcSendInv'
  <2>1. /\ at' \in [Send!Attempts -> {"new", "route", "config", "broadcast", "accepted", "done"}]
        /\ at'[a] = "done" /\ \A b \in Send!Attempts : b # a => at'[b] = at[b]
        /\ at[a] = "broadcast" /\ accepted' = accepted \cup {a} /\ excused' = excused \cup {a}
        /\ UNCHANGED scan /\ Send!Tell(a, "refused")
    BY <1>8 DEF Send!BroadcastUnacknowledged, Send!Fails, Send!Move, Send!TypeOK
  <2>2. /\ told' \in [Send!Attempts -> {"nothing", "sent", "refused", "unknown"}]
        /\ user' \in {"pay", "waiting", "unsure", "done"}
        /\ \A b \in Send!Attempts : b # a => told'[b] = told[b]
    BY <2>1, Told
  <2>3. scan.at # "scanning"
    BY <2>1 DEF Send!ScanSees
  <2>4. Send!TypeOK' /\ Send!ScanSees' /\ Send!Answered'
    BY <2>1, <2>2, <2>3 DEF Send!TypeOK, Send!ScanSees, Send!Answered
  <2> QED
    BY <2>1, <2>4
<1>9. ASSUME NEW a \in Send!Attempts, Send!Answers(a) PROVE Send!BtcSendInv'
  <2>1. /\ at' \in [Send!Attempts -> {"new", "route", "config", "broadcast", "accepted", "done"}]
        /\ at'[a] = "done" /\ \A b \in Send!Attempts : b # a => at'[b] = at[b]
        /\ at[a] = "accepted" /\ a \in accepted /\ Send!Tell(a, "sent")
        /\ UNCHANGED <<known, accepted, excused>>
        /\ scan' = scan \/ (scan.at = "idle" /\ scan'.at = "spawned")
    BY <1>9
    DEF Send!Answers, Send!Move, Send!SpawnSync, Send!NoScan, Send!TypeOK,
        Send!Answered
  <2>2. /\ told' \in [Send!Attempts -> {"nothing", "sent", "refused", "unknown"}]
        /\ user' \in {"pay", "waiting", "unsure", "done"}
        /\ \A b \in Send!Attempts : b # a => told'[b] = told[b]
        /\ told'[a] # "nothing" /\ (told'[a] = "refused" => told[a] = "refused")
        /\ \/ told[a] # "nothing" /\ UNCHANGED <<told, user, fresh>>
           \/ told[a] = "nothing" /\ fresh' = FALSE /\ user' = "done"
    BY <2>1, Told
  <2>3. a \in Send!Live /\ Send!Live' = Send!Live \ {a}
    BY <2>1 DEF Send!Live
  <2>4. Send!TypeOK' /\ Send!ScanSees' /\ Send!Answered'
    BY <2>1, <2>2 DEF Send!TypeOK, Send!ScanSees, Send!Answered
  <2>5. excused = {} => Send!OneAtMost'
    BY <2>1, <2>2, <2>3 DEF Send!OneAtMost
  <2> QED
    BY <2>1, <2>4, <2>5
<1>10. CASE Send!PostSync \/ Send!Start \/ Send!NodeGoes \/ Send!NodeComes
              \/ UNCHANGED Send!vars
  <2>1. /\ UNCHANGED <<at, told, user, fresh, known, accepted, excused>>
        /\ scan' = scan \/ (scan.at = "idle" /\ scan'.at = "spawned")
    BY <1>10
    DEF Send!PostSync, Send!Start, Send!NodeGoes, Send!NodeComes, Send!vars,
        Send!SpawnSync, Send!NoScan
  <2>2. Send!Live' = Send!Live
    BY <2>1 DEF Send!Live
  <2>3. Send!TypeOK' /\ Send!ScanSees' /\ Send!Answered'
    BY <2>1 DEF Send!TypeOK, Send!ScanSees, Send!Answered
  <2>4. excused = {} => Send!OneAtMost'
    BY <2>1, <2>2 DEF Send!OneAtMost
  <2> QED
    BY <2>1, <2>3, <2>4
<1>11. CASE Send!ScanLocks
  <2>1. /\ UNCHANGED <<at, told, user, fresh, known, accepted, excused>>
        /\ scan'.at = "scanning" /\ scan'.sees = accepted
        /\ \A a \in Send!Attempts : at[a] # "broadcast"
    BY <1>11 DEF Send!ScanLocks, Send!Locked
  <2>2. Send!Live' = Send!Live
    BY <2>1 DEF Send!Live
  <2>3. Send!TypeOK' /\ Send!ScanSees' /\ Send!Answered'
    BY <2>1 DEF Send!TypeOK, Send!ScanSees, Send!Answered
  <2>4. excused = {} => Send!OneAtMost'
    BY <2>1, <2>2 DEF Send!OneAtMost
  <2> QED
    BY <2>1, <2>3, <2>4
<1>12. CASE Send!ScanEnds
  <2>1. /\ UNCHANGED <<at, told, user, accepted, excused>>
        /\ scan'.at = "idle"
        /\ \A a \in Send!Attempts : at[a] # "broadcast"
        /\ \/ UNCHANGED <<known, fresh>>
           \/ known' = known \cup accepted
    BY <1>12 DEF Send!ScanEnds, Send!ScanSees, Send!NoScan
  <2>2. Send!Live' = Send!Live
    BY <2>1 DEF Send!Live
  <2>3. Send!TypeOK' /\ Send!ScanSees' /\ Send!Answered'
    BY <2>1 DEF Send!TypeOK, Send!ScanSees, Send!Answered
  <2>4. excused = {} => Send!OneAtMost'
    BY <2>1, <2>2 DEF Send!OneAtMost
  <2> QED
    BY <2>1, <2>3, <2>4
<1>13. CASE Send!Stop
  <2> DEFINE gone == {a \in Send!Attempts : Send!InSidecar(a)}
  <2>1. /\ scan'.at = "idle" /\ UNCHANGED <<known, accepted>>
        /\ at' = [a \in Send!Attempts |-> IF a \in gone THEN "done" ELSE at[a]]
        /\ excused' = excused \cup (gone \cap accepted)
    BY <1>13 DEF Send!Stop, Send!NoScan
  <2>2. PICK a \in Send!Attempts :
           /\ gone = {} \/ a \in gone
           /\ IF gone = {} THEN UNCHANGED <<page, told, user, fresh>> ELSE Send!Tell(a, "refused")
    BY <1>13 DEF Send!Stop
  <2>3. CASE gone = {}
    <3>1. at' = at /\ excused' = excused /\ UNCHANGED <<told, user, fresh>>
      BY <2>1, <2>2, <2>3 DEF Send!TypeOK
    <3>2. Send!Live' = Send!Live
      BY <3>1 DEF Send!Live
    <3>3. Send!TypeOK' /\ Send!ScanSees' /\ Send!Answered'
      BY <2>1, <3>1 DEF Send!TypeOK, Send!ScanSees, Send!Answered
    <3>4. excused = {} => Send!OneAtMost'
      BY <2>1, <3>1, <3>2 DEF Send!OneAtMost
    <3> QED
      BY <3>1, <3>3, <3>4
  <2>4. CASE a \in gone
    <3>1. /\ told' \in [Send!Attempts -> {"nothing", "sent", "refused", "unknown"}]
          /\ user' \in {"pay", "waiting", "unsure", "done"}
          /\ \A b \in Send!Attempts : b # a => told'[b] = told[b]
          /\ told'[a] # "nothing"
          /\ \/ told[a] # "nothing" /\ UNCHANGED <<told, user, fresh>>
             \/ told[a] = "nothing" /\ fresh' = FALSE /\ user' = "pay"
      BY <2>2, <2>4, Told
    <3>2. /\ at' \in [Send!Attempts -> {"new", "route", "config", "broadcast", "accepted", "done"}]
          /\ \A b \in Send!Attempts : b \in gone
             => at'[b] = "done" /\ at[b] \notin {"new", "done"}
          /\ \A b \in Send!Attempts : b \notin gone => at'[b] = at[b]
          /\ a \in gone
      BY <2>1, <2>4 DEF Send!TypeOK, Send!InSidecar
    <3>3. Send!TypeOK' /\ Send!ScanSees'
      BY <2>1, <3>1, <3>2 DEF Send!TypeOK, Send!ScanSees
    <3> HIDE DEF gone
    <3>4. Send!Answered'
      BY <2>1, <3>1, <3>2 DEF Send!Answered
    <3>5. ASSUME excused' = {} PROVE Send!OneAtMost'
      <4>1. Send!OneAtMost /\ a \in Send!Live /\ a \notin accepted
        BY <2>1, <3>2, <3>5 DEF Send!Live
      <4>2. Send!Live = {a} /\ accepted = {}
        BY <4>1 DEF Send!OneAtMost, Send!TypeOK
      <4>3. Send!Live' = {} /\ accepted' = {}
        BY <2>1, <3>2, <4>2 DEF Send!Live
      <4>4. \A b \in Send!Attempts : at'[b] # "broadcast"
        BY <4>3 DEF Send!Live
      <4> QED
        BY <4>3, <4>4 DEF Send!OneAtMost
    <3> QED
      BY <3>3, <3>4, <3>5
  <2> QED
    BY <2>2, <2>3, <2>4
<1> QED
  BY <1>1, <1>2, <1>3, <1>4, <1>5, <1>6, <1>7, <1>8, <1>9, <1>10, <1>11, <1>12,
     <1>13
  DEF Send!Next

LEMMA SendSound == Send!BtcSendInv => Send!RefusedMeansUnsent /\ Send!PaysOnce
<1> SUFFICES ASSUME Send!BtcSendInv
             PROVE  Send!RefusedMeansUnsent /\ Send!PaysOnce
  OBVIOUS
<1>1. Send!RefusedMeansUnsent
  BY DEF Send!BtcSendInv, Send!Answered, Send!RefusedMeansUnsent
<1>2. ASSUME excused = {} PROVE Cardinality(accepted) <= 1
  <2>1. accepted = {} \/ \E a : accepted = {a}
    <3>1. \A a, b \in accepted : a = b
      BY <1>2 DEF Send!BtcSendInv, Send!OneAtMost
    <3> QED
      BY <3>1
  <2>2. CASE accepted = {}
    <3>1. Cardinality(accepted) = 0
      BY <2>2, FS_EmptySet
    <3> QED
      BY <3>1
  <2>3. ASSUME NEW a, accepted = {a} PROVE Cardinality(accepted) <= 1
    <3>1. Cardinality(accepted) = 1
      BY <2>3, FS_Singleton
    <3> QED
      BY <3>1
  <2> QED
    BY <2>1, <2>2, <2>3
<1> QED
  BY <1>1, <1>2, SendCounts DEF Send!PaysOnce

(* A payment that is said to be refused was not made and will not be, and  *)
(* a user who follows the advice of send.ts never pays twice, for any      *)
(* tabs, coins and faults (api/bitcoin/send.ts, main.rs).                  *)
THEOREM PaymentsAreSound ==
    ASSUME Send!BtcSendConstants
    PROVE  Send!Spec => []((Send!RefusedMeansUnsent /\ Send!PaysOnce))
<1>1. Send!Init => Send!BtcSendInv
  BY SendInit
<1>2. Send!BtcSendInv /\ [Send!Next]_Send!vars => Send!BtcSendInv'
  BY SendStep
<1>3. Send!BtcSendInv => (Send!RefusedMeansUnsent /\ Send!PaysOnce)
  BY SendSound
<1> QED
  BY <1>1, <1>2, <1>3, PTL DEF Send!Spec

-----------------------------------------------------------------------------
(* TxToast. What is on its way to a toast is true of the chain, and a      *)
(* verdict after a time-out comes when the watcher has given up.           *)
LEMMA ToastInit == Toast!Init => Toast!TxToastInv
BY DEF Toast!Init, Toast!TxToastInv, Toast!TypeOK, Toast!EventsTrue,
   Toast!ChecksTrue, Toast!InTurn, Toast!VerdictTrue, Toast!Statuses

(* A relayed event is true when it is sent, and stays true.                *)
LEMMA RelayTrue ==
    ASSUME Toast!TypeOK, Toast!EventsTrue, NEW x \in Txs,
           NEW word \in {"InMempool", "Confirmed", "TxDropped"}, Toast!Relay(x, word),
           \A y \in Txs : chain[y] \in {"confirmed", "dropped"} => chain'[y] = chain[y],
           word = "Confirmed" => chain'[x] = "confirmed",
           word = "TxDropped" => chain'[x] = "dropped"
    PROVE  Toast!EventsTrue' /\ events' \in Seq(Toast!Events)
<1> DEFINE e == [tx |-> x, kind |-> word]
<1>1. e \in Toast!Events /\ events \in Seq(Toast!Events)
  BY DEF Toast!Events, Toast!TypeOK
<1>2. CASE stream = "open"
  <2>1. events' = Append(events, e)
    BY <1>2 DEF Toast!Relay
  <2>2. events' \in Seq(Toast!Events)
    BY <1>1, <2>1, LastOf
  <2>3. \A n \in 1..Len(events') : (n \in 1..Len(events) /\ events'[n] = events[n])
          \/ events'[n] = e
    BY <1>1, <2>1, LastOf
  <2>4. \A n \in 1..Len(events) : events[n] \in Toast!Events
    BY <1>1
  <2> QED
    BY <2>2, <2>3, <2>4 DEF Toast!EventsTrue, Toast!Events
<1>3. CASE stream # "open"
  <2>1. \A n \in 1..Len(events) : events[n] \in Toast!Events
    BY <1>1
  <2> QED
    BY <1>1, <1>3, <2>1 DEF Toast!Relay, Toast!EventsTrue, Toast!Events
<1> QED
  BY <1>2, <1>3

LEMMA UpdateTyped ==
    ASSUME Toast!TypeOK, NEW x \in Txs, NEW verdict \in Toast!Statuses, NEW stale \in BOOLEAN,
           Toast!Update(x, verdict, stale)
    PROVE  /\ toast' \in [Txs -> [status : Toast!Statuses, stale : BOOLEAN]]
           /\ \A y \in Txs : \/ toast'[y] = toast[y]
                              \/ /\ y = x /\ toast'[y].status = verdict
                                 /\ toast[x].status \notin {"none", "gone"}
BY DEF Toast!Update, Toast!TypeOK

LEMMA AskTrue ==
    ASSUME Toast!TypeOK, Toast!ChecksTrue, NEW x \in Txs, NEW final \in BOOLEAN,
           Toast!Ask(x, final)
    PROVE  /\ asked' \subseteq Toast!Checks
           /\ \A q \in asked' :
                 \/ q \in asked
                 \/ /\ q.tx = x /\ q.final = final
                    /\ q.says = "confirmed" => chain[x] = "confirmed"
<1>1. PICK says \in Toast!IndexerSays(x) : asked'
        = asked \cup {[tx |-> x, final |-> final, says |-> says]}
  BY DEF Toast!Ask
<1>2. /\ says \in {"unknown", "confirmed", "pending"}
      /\ says = "confirmed" => chain[x] = "confirmed"
  BY DEF Toast!IndexerSays
<1> QED
  BY <1>1, <1>2 DEF Toast!TypeOK, Toast!Checks

LEMMA EventsStay ==
    ASSUME Toast!EventsTrue, UNCHANGED <<chain, events>>
    PROVE  Toast!EventsTrue'
BY DEF Toast!EventsTrue

LEMMA ToastStep ==
    ASSUME Toast!TxToastInv, [Toast!Next]_Toast!vars
    PROVE  Toast!TxToastInv'
<1> USE DEF Toast!TxToastInv, Toast!ChecksTrue, Toast!InTurn, Toast!VerdictTrue
<1>1. ASSUME NEW x \in Txs, Toast!Broadcast(x) PROVE Toast!TxToastInv'
  <2>1. Toast!EventsTrue' /\ events' \in Seq(Toast!Events)
    BY <1>1, RelayTrue DEF Toast!Broadcast, Toast!TypeOK
  <2>2. Toast!TypeOK'
    BY <1>1, <2>1 DEF Toast!Broadcast, Toast!TypeOK
  <2> QED
    BY <1>1, <2>1, <2>2 DEF Toast!Broadcast, Toast!TypeOK, Toast!Checks
<1>2. ASSUME NEW x \in Txs,
             NEW how, NEW word, <<how, word>>
                 \in {<<"confirmed", "Confirmed">>, <<"dropped", "TxDropped">>},
             Toast!Settles(x, how, word)
      PROVE  Toast!TxToastInv'
  <2>1. Toast!EventsTrue' /\ events' \in Seq(Toast!Events)
    BY <1>2, RelayTrue DEF Toast!Settles, Toast!TypeOK
  <2>2. Toast!TypeOK'
    BY <1>2, <2>1 DEF Toast!Settles, Toast!TypeOK
  <2> QED
    BY <1>2, <2>1, <2>2 DEF Toast!Settles, Toast!TypeOK, Toast!Checks
<1>3. ASSUME NEW x \in Txs, Toast!Answered(x) PROVE Toast!TxToastInv'
  <2>1. Toast!Shown \in [status : Toast!Statuses, stale : BOOLEAN]
          /\ Toast!Shown.status = "pending"
    BY DEF Toast!Shown, Toast!Statuses
  <2>2. Toast!TypeOK' /\ Toast!EventsTrue'
    BY <1>3, <2>1 DEF Toast!Answered, Toast!TypeOK, Toast!EventsTrue
  <2>3. Toast!ChecksTrue'
    BY <1>3 DEF Toast!Answered, Toast!TypeOK, Toast!Checks
  <2> QED
    BY <1>3, <2>1, <2>2, <2>3 DEF Toast!Answered, Toast!TypeOK
<1>4. ASSUME NEW x \in Txs, Toast!Escalate(x) PROVE Toast!TxToastInv'
  <2>1. /\ asked' \subseteq Toast!Checks
        /\ \A q \in asked' :
              \/ q \in asked
              \/ /\ q.tx = x /\ q.final = FALSE
                 /\ q.says = "confirmed" => chain[x] = "confirmed"
    BY <1>4, AskTrue DEF Toast!Escalate
  <2>2. UNCHANGED <<chain, answer, events, watcher, toast>>
    BY <1>4 DEF Toast!Escalate
  <2> QED
    BY <2>1, <2>2, EventsStay DEF Toast!TypeOK
<1>5. ASSUME NEW x \in Txs, Toast!WatchTimesOut(x) PROVE Toast!TxToastInv'
  <2>1. /\ asked' \subseteq Toast!Checks
        /\ \A q \in asked' :
              \/ q \in asked
              \/ /\ q.tx = x /\ q.final = TRUE
                 /\ q.says = "confirmed" => chain[x] = "confirmed"
    BY <1>5, AskTrue DEF Toast!WatchTimesOut
  <2>2. /\ UNCHANGED <<chain, answer, events, toast>>
        /\ watcher[x] = "waiting" /\ watcher' = [watcher EXCEPT ![x] = "timedOut"]
    BY <1>5 DEF Toast!WatchTimesOut
  <2>3. Toast!TypeOK' /\ Toast!EventsTrue'
    BY <2>1, <2>2, EventsStay DEF Toast!TypeOK
  <2>4. Toast!ChecksTrue' /\ Toast!InTurn' /\ Toast!VerdictTrue'
    BY <2>1, <2>2 DEF Toast!TypeOK, Toast!Checks
  <2> QED
    BY <2>3, <2>4
<1>6. ASSUME NEW x \in Txs, Toast!Dismiss(x) PROVE Toast!TxToastInv'
  <2>1. UNCHANGED <<chain, answer, events, watcher, asked>>
    BY <1>6 DEF Toast!Dismiss
  <2>2. /\ toast' \in [Txs -> [status : Toast!Statuses, stale : BOOLEAN]]
        /\ \A y \in Txs : y # x => toast'[y] = toast[y]
        /\ toast'[x].status = "gone" /\ toast[x].status # "none"
    BY <1>6 DEF Toast!Dismiss, Toast!TypeOK, Toast!Statuses
  <2>3. \A y \in Txs :
            toast'[y].status = toast[y].status
                \/ (toast'[y].status = "gone" /\ toast[y].status # "none")
    BY <2>2
  <2>4. Toast!TypeOK' /\ Toast!EventsTrue' /\ Toast!ChecksTrue'
    BY <2>1, <2>2, EventsStay DEF Toast!TypeOK
  <2>5. Toast!InTurn'
    BY <2>1, <2>3
  <2>6. Toast!VerdictTrue'
    BY <2>1, <2>3
  <2> QED
    BY <2>4, <2>5, <2>6
<1>7. CASE Toast!StreamOpens
  BY <1>7 DEF Toast!StreamOpens, Toast!TypeOK, Toast!EventsTrue
<1>8. CASE Toast!StreamBreaks
  BY <1>8 DEF Toast!StreamBreaks, Toast!TypeOK, Toast!EventsTrue
<1>9. CASE Toast!Deliver
  <2> DEFINE e == Head(events)
  <2>1. /\ e = events[1] /\ 1 \in 1..Len(events) /\ e \in Toast!Events
        /\ events' = Tail(events) /\ events' \in Seq(Toast!Events)
        /\ \A n \in 1..Len(events') : n + 1 \in 1..Len(events) /\ events'[n] = events[n + 1]
        /\ UNCHANGED <<chain, answer, asked>>
    BY <1>9, FirstOf DEF Toast!Deliver, Toast!TypeOK
  <2>2. Toast!EventsTrue'
    BY <2>1 DEF Toast!EventsTrue
  <2>3. /\ e.kind = "Confirmed" => chain[e.tx] = "confirmed"
        /\ e.kind = "TxDropped" => chain[e.tx] = "dropped"
        /\ e.tx \in Txs /\ e.kind \in {"InMempool", "Confirmed", "TxDropped"}
    BY <2>1 DEF Toast!EventsTrue, Toast!Events
  <2> HIDE DEF e
  <2>4. CASE watcher[e.tx] # "waiting" \/ e.kind = "InMempool"
    <3>1. UNCHANGED <<watcher, toast>>
      BY <1>9, <2>4 DEF Toast!Deliver, e
    <3> QED
      BY <2>1, <2>2, <3>1 DEF Toast!TypeOK
  <2>5. CASE watcher[e.tx] = "waiting" /\ e.kind # "InMempool"
    <3> DEFINE verdict == IF e.kind = "Confirmed" THEN "confirmed" ELSE "failed"
               stale == IF e.kind = "Confirmed" THEN FALSE ELSE toast[e.tx].stale
    <3>1. watcher' = [watcher EXCEPT ![e.tx] = "settled"] /\ Toast!Update(e.tx, verdict, stale)
      BY <1>9, <2>5 DEF Toast!Deliver, e
    <3>2. verdict \in Toast!Statuses /\ stale \in BOOLEAN
      BY <2>3 DEF Toast!TypeOK, Toast!Statuses
    <3>3. verdict = "confirmed" => chain[e.tx] = "confirmed"
      BY <2>3
    <3>4. /\ verdict = "failed" => chain[e.tx] = "dropped"
          /\ verdict \in {"confirmed", "failed"}
      BY <2>3, <2>5
    <3>5. /\ toast' \in [Txs -> [status : Toast!Statuses, stale : BOOLEAN]]
          /\ \A y \in Txs : \/ toast'[y] = toast[y]
                             \/ /\ y = e.tx /\ toast'[y].status = verdict
                                /\ toast[e.tx].status \notin {"none", "gone"}
      <4> HIDE DEF verdict, stale
      <4> QED
        BY <2>3, <3>1, <3>2, UpdateTyped
    <3> HIDE DEF verdict, stale
    <3>6. Toast!TypeOK'
      BY <2>1, <2>3, <3>1, <3>5 DEF Toast!TypeOK
    <3>7. Toast!VerdictTrue'
      BY <2>1, <2>3, <3>3, <3>4, <3>5
    <3>8. Toast!ChecksTrue' /\ Toast!InTurn'
      BY <2>1, <2>3, <2>5, <3>1, <3>4, <3>5 DEF Toast!TypeOK, Toast!Checks
    <3> QED
      BY <2>2, <3>6, <3>7, <3>8
  <2> QED
    BY <2>4, <2>5
<1>10. ASSUME NEW q \in asked, Toast!EscalationAnswered(q) \/ Toast!TimeoutAnswered(q),
              ~Toast!Pending(q.tx)
       PROVE  Toast!TxToastInv'
  BY <1>10
  DEF Toast!EscalationAnswered, Toast!TimeoutAnswered, Toast!TypeOK,
      Toast!EventsTrue
<1>11. ASSUME NEW q \in asked, Toast!EscalationAnswered(q) \/ Toast!TimeoutAnswered(q),
              Toast!Pending(q.tx)
       PROVE  Toast!TxToastInv'
  <2>1. /\ q.tx \in Txs /\ q.says \in {"unknown", "confirmed", "pending"}
        /\ asked' \subseteq asked
        /\ UNCHANGED <<chain, answer, events, watcher>>
    BY <1>11
    DEF Toast!EscalationAnswered, Toast!TimeoutAnswered, Toast!TypeOK,
        Toast!Checks
  <2>2. PICK verdict \in {"confirmed", "pending", "untracked"}, stale \in BOOLEAN :
            /\ Toast!Update(q.tx, verdict, stale)
            /\ verdict = "confirmed" => q.says = "confirmed"
            /\ verdict = "untracked" => q.final
    <3>1. CASE Toast!EscalationAnswered(q) /\ q.says = "confirmed"
      <4>1. Toast!Update(q.tx, "confirmed", FALSE)
        BY <1>11, <3>1 DEF Toast!EscalationAnswered
      <4> QED
        BY <3>1, <4>1
    <3>2. CASE Toast!EscalationAnswered(q) /\ q.says # "confirmed"
      <4>1. Toast!Update(q.tx, "pending", TRUE)
        BY <1>11, <3>2 DEF Toast!EscalationAnswered
      <4> QED
        BY <4>1
    <3>3. CASE Toast!TimeoutAnswered(q)
      <4>1. q.final /\ toast[q.tx].stale \in BOOLEAN
        BY <2>1, <3>3 DEF Toast!TimeoutAnswered, Toast!TypeOK
      <4>2. \/ q.says = "confirmed" /\ Toast!Update(q.tx, "confirmed", FALSE)
            \/ Toast!Update(q.tx, "pending", TRUE)
            \/ Toast!Update(q.tx, "untracked", toast[q.tx].stale)
        BY <1>11, <2>1, <3>3 DEF Toast!TimeoutAnswered
      <4> QED
        BY <4>1, <4>2
    <3> QED
      BY <1>11, <3>1, <3>2, <3>3
  <2>3. /\ toast' \in [Txs -> [status : Toast!Statuses, stale : BOOLEAN]]
        /\ \A y \in Txs : \/ toast'[y] = toast[y]
                           \/ /\ y = q.tx /\ toast'[y].status = verdict
                              /\ toast[q.tx].status \notin {"none", "gone"}
    BY <2>1, <2>2, UpdateTyped DEF Toast!Statuses
  <2>4. Toast!TypeOK' /\ Toast!EventsTrue' /\ Toast!ChecksTrue'
    BY <2>1, <2>3 DEF Toast!TypeOK, Toast!EventsTrue
  <2>5. Toast!VerdictTrue' /\ Toast!InTurn'
    BY <2>1, <2>2, <2>3 DEF Toast!TypeOK
  <2> QED
    BY <2>4, <2>5
<1>12. CASE UNCHANGED Toast!vars
  BY <1>12 DEF Toast!vars, Toast!TypeOK, Toast!EventsTrue
<1> QED
  BY <1>1, <1>2, <1>3, <1>4, <1>5, <1>6, <1>7, <1>8, <1>9, <1>10, <1>11, <1>12
  DEF Toast!Next

LEMMA ToastSound == Toast!TxToastInv => Toast!VerdictTrue
BY DEF Toast!TxToastInv

LEMMA VerdictStep ==
    ASSUME Toast!TxToastInv, [Toast!Next]_Toast!vars
    PROVE  Toast!VerdictStands
<1> SUFFICES ASSUME NEW y \in Txs, toast[y].status \in {"confirmed", "failed", "untracked"}
             PROVE  toast'[y].status \in {toast[y].status, "gone"}
  BY DEF Toast!VerdictStands
<1> USE DEF Toast!TxToastInv, Toast!TypeOK, Toast!InTurn
<1>1. ASSUME NEW x \in Txs, Toast!Answered(x)
      PROVE  toast'[y].status = toast[y].status
  BY <1>1 DEF Toast!Answered
<1>2. ASSUME NEW x \in Txs, Toast!Dismiss(x)
      PROVE  toast'[y].status \in {toast[y].status, "gone"}
  BY <1>2 DEF Toast!Dismiss
<1>3. CASE Toast!Deliver
  <2> DEFINE e == Head(events)
  <2>1. e = events[1] /\ 1 \in 1..Len(events) /\ e \in Toast!Events
    BY <1>3, FirstOf DEF Toast!Deliver
  <2>2. /\ e.kind = "Confirmed" => chain[e.tx] = "confirmed"
        /\ e.kind = "TxDropped" => chain[e.tx] = "dropped"
        /\ e.tx \in Txs /\ e.kind \in {"InMempool", "Confirmed", "TxDropped"}
    BY <2>1 DEF Toast!EventsTrue, Toast!Events
  <2> HIDE DEF e
  <2>3. CASE toast' = toast
    BY <2>3
  <2>4. CASE /\ watcher[e.tx] = "waiting" /\ e.kind # "InMempool"
             /\ IF e.kind = "Confirmed" THEN Toast!Update(e.tx, "confirmed", FALSE)
                ELSE Toast!Update(e.tx, "failed", toast[e.tx].stale)
    <3>1. CASE y # e.tx
      BY <2>4, <3>1 DEF Toast!Update
    <3>2. CASE y = e.tx
      <4>1. toast[y].status = "confirmed"
        BY <2>4, <3>2
      <4>2. chain[y] = "confirmed"
        BY <4>1 DEF Toast!VerdictTrue
      <4>3. e.kind = "Confirmed"
        BY <2>2, <2>4, <3>2, <4>2
      <4> QED
        BY <2>2, <2>4, <3>2, <4>1, <4>3 DEF Toast!Update
    <3> QED
      BY <3>1, <3>2
  <2> QED
    BY <1>3, <2>3, <2>4 DEF Toast!Deliver, e
<1>4. ASSUME NEW q \in asked, Toast!EscalationAnswered(q) \/ Toast!TimeoutAnswered(q)
      PROVE  toast'[y].status = toast[y].status
  BY <1>4
  DEF Toast!EscalationAnswered, Toast!TimeoutAnswered, Toast!Update,
      Toast!Pending, Toast!Checks
<1>5. ASSUME \/ \E x \in Txs :
                   \/ Toast!Broadcast(x) \/ Toast!Settles(x, "confirmed", "Confirmed")
                   \/ Toast!Settles(x, "dropped", "TxDropped") \/ Toast!Escalate(x)
                      \/ Toast!WatchTimesOut(x)
             \/ Toast!StreamOpens \/ Toast!StreamBreaks \/ UNCHANGED Toast!vars
      PROVE  toast' = toast
  BY <1>5
  DEF Toast!Broadcast, Toast!Settles, Toast!Escalate, Toast!WatchTimesOut,
      Toast!StreamOpens, Toast!StreamBreaks, Toast!vars
<1> QED
  BY <1>1, <1>2, <1>3, <1>4, <1>5 DEF Toast!Next

(* A toast says "failed" only of a transaction that was dropped and        *)
(* "confirmed" only of one that is in a block, and no event or answer on   *)
(* its way takes a verdict back, for any transactions, lost events and     *)
(* time-outs (toastStore.ts).                                              *)
THEOREM VerdictsAreTrue ==
    Toast!Spec => []Toast!VerdictTrue /\ [][Toast!VerdictStands]_Toast!vars
<1>1. Toast!Init => Toast!TxToastInv
  BY ToastInit
<1>2. Toast!TxToastInv /\ [Toast!Next]_Toast!vars => Toast!TxToastInv'
  BY ToastStep
<1>3. Toast!TxToastInv => Toast!VerdictTrue
  BY ToastSound
<1>4. Toast!TxToastInv /\ [Toast!Next]_Toast!vars => [Toast!VerdictStands]_Toast!vars
  BY VerdictStep
<1> QED
  BY <1>1, <1>2, <1>3, <1>4, PTL DEF Toast!Spec

-----------------------------------------------------------------------------
(* WalletSubmit. A burnt code belongs to the request that burnt it, the    *)
(* burn of one presented early may end once, and a request has had carried *)
(* out the actions before the one it is at.                                *)
LEMMA RequestReplaced ==
    ASSUME reqs \in Seq(Submit!Requests), NEW r \in 1..Len(reqs), NEW e \in Submit!Requests,
           reqs' = [reqs EXCEPT ![r] = e]
    PROVE  /\ reqs' \in Seq(Submit!Requests) /\ Len(reqs') = Len(reqs) /\ reqs'[r] = e
           /\ \A q \in 1..Len(reqs) : q # r => reqs'[q] = reqs[q]
BY ExceptSeq

LEMMA SubmitInit ==
    ASSUME Submit!WalletSubmitConstants, Submit!Init
    PROVE  Submit!WalletSubmitInv
BY DEF Submit!WalletSubmitConstants, Submit!Init, Submit!WalletSubmitInv,
   Submit!TypeOK, Submit!OwnCodes, Submit!Ordered, Submit!Ids

LEMMA RequestTyped ==
    ASSUME Submit!TypeOK, NEW r \in Submit!Ids
    PROVE  reqs[r] \in Submit!Requests
BY DEF Submit!TypeOK, Submit!Ids

(* A step that changes one request and neither code nor size of it.        *)
Becomes(r, stage, done, reply) ==
    /\ reqs' \in Seq(Submit!Requests) /\ Submit!Ids' = Submit!Ids
    /\ \A q \in Submit!Ids : q # r => reqs'[q] = reqs[q]
    /\ reqs'[r].stage = stage /\ reqs'[r].done = done /\ reqs'[r].answer = reply
    /\ reqs'[r].code = reqs[r].code /\ reqs'[r].size = reqs[r].size

LEMMA Moves ==
    ASSUME Submit!TypeOK, NEW r \in Submit!Ids,
           NEW stage \in {"received", "valid", "next", "calling", "answered"},
           NEW done \in 0..MaxBatch,
           NEW reply \in {"none", "ok", "refused", "consumed", "unavailable"},
           reqs' = [reqs EXCEPT ![r]
               = [@ EXCEPT !.stage = stage, !.done = done, !.answer = reply]]
    PROVE  Becomes(r, stage, done, reply)
<1>1. reqs \in Seq(Submit!Requests) /\ r \in 1..Len(reqs) /\ reqs[r] \in Submit!Requests
  BY RequestTyped DEF Submit!TypeOK, Submit!Ids
<1>0. PICK e : e = [reqs[r] EXCEPT !.stage = stage, !.done = done, !.answer = reply]
  OBVIOUS
<1>2. /\ e \in Submit!Requests /\ e.stage = stage /\ e.done = done /\ e.answer = reply
      /\ e.code = reqs[r].code /\ e.size = reqs[r].size
  BY <1>0, <1>1 DEF Submit!Requests
<1>3. reqs' = [reqs EXCEPT ![r] = e]
  BY <1>0
<1>5. /\ reqs' \in Seq(Submit!Requests) /\ Len(reqs') = Len(reqs) /\ reqs'[r] = e
      /\ \A q \in 1..Len(reqs) : q # r => reqs'[q] = reqs[q]
  BY <1>1, <1>2, <1>3, RequestReplaced
<1> QED
  BY <1>2, <1>5 DEF Becomes, Submit!Ids

LEMMA Unmoved ==
    ASSUME Submit!WalletSubmitInv, UNCHANGED <<reqs, Submit!codes, calls, chain>>,
           typed' \in [Fields -> Codes \cup {None}], waitsFor' \in [SubmitForms -> Nat]
    PROVE  Submit!WalletSubmitInv'
<1> USE DEF Submit!WalletSubmitInv
<1>1. Submit!Ids' = Submit!Ids /\ \A r \in Submit!Ids : (Submit!Began(r)' <=> Submit!Began(r))
        /\ (Submit!InCall(r)' <=> Submit!InCall(r))
  BY DEF Submit!Ids, Submit!Began, Submit!InCall
<1>2. \A r \in Submit!Ids : \A k \in 1..MaxBatch : Submit!Executed(r, k)'
        <=> Submit!Executed(r, k)
  BY DEF Submit!Executed
<1>3. Submit!TypeOK'
  BY <1>1 DEF Submit!TypeOK
<1>4. Submit!OwnCodes'
  BY <1>1 DEF Submit!OwnCodes, Submit!codes
<1>5. (\A q \in Submit!Ids : Submit!Ordered(q))'
  BY <1>1, <1>2 DEF Submit!Ordered
<1> QED
  BY <1>3, <1>4, <1>5

(* Such a step keeps the order, if the request is in order afterwards.     *)
LEMMA Advance ==
    ASSUME Submit!WalletSubmitInv, NEW r \in Submit!Ids, NEW stage, NEW done, NEW reply,
           Becomes(r, stage, done, reply),
           UNCHANGED <<typed, waitsFor, chain>>,
           calls' \subseteq Submit!Ids \X (1..MaxBatch),
           \A q \in Submit!Ids, k \in 1..MaxBatch : q # r /\ <<q, k>> \in calls'
               => <<q, k>> \in calls,
           \/ UNCHANGED Submit!codes /\ (Submit!Began(r) \/ ~Submit!Began(r)')
              /\ (Submit!Began(r) => Submit!Began(r)')
           \/ /\ Submit!Began(r)' /\ ~Submit!Began(r) /\ reqs[r].code \notin burnt
              /\ burnt' = burnt \cup {reqs[r].code} /\ late' = late
              /\ early' = early \/ (early' = early \cup {r} /\ reqs[r].code \notin late),
           Submit!Ordered(r)'
    PROVE  Submit!WalletSubmitInv'
<1> USE DEF Submit!WalletSubmitInv
<1>1. /\ reqs' \in Seq(Submit!Requests) /\ Submit!Ids' = Submit!Ids
      /\ \A q \in Submit!Ids : q # r => reqs'[q] = reqs[q]
      /\ reqs'[r].code = reqs[r].code
  BY DEF Becomes
<1>2. Submit!TypeOK'
  BY <1>1 DEF Submit!TypeOK
<1>3. \A q \in Submit!Ids : q # r
        => (Submit!Began(q)' <=> Submit!Began(q)) /\ (Submit!InCall(q)' <=> Submit!InCall(q))
  BY <1>1 DEF Submit!Began, Submit!InCall
<1>4. \A q \in Submit!Ids : \A k \in 1..MaxBatch : Submit!Executed(q, k)'
        <=> Submit!Executed(q, k)
  BY DEF Submit!Executed
<1>5. Submit!OwnCodes'
  <2>1. CASE UNCHANGED Submit!codes /\ (Submit!Began(r) \/ ~Submit!Began(r)')
               /\ (Submit!Began(r) => Submit!Began(r)')
    BY <1>1, <1>3, <2>1 DEF Submit!OwnCodes, Submit!codes
  <2>2. CASE /\ Submit!Began(r)' /\ ~Submit!Began(r) /\ reqs[r].code \notin burnt
             /\ burnt' = burnt \cup {reqs[r].code} /\ late' = late
             /\ early' = early
    <3>1. r \notin early
      BY <2>2 DEF Submit!OwnCodes
    <3>2. \A q \in Submit!Ids : q # r /\ Submit!Began(q) /\ reqs[q].code = reqs[r].code =>
              q \in early /\ reqs[r].code \in late
      BY <2>2 DEF Submit!OwnCodes
    <3> QED
      BY <1>1, <1>3, <2>2, <3>1, <3>2 DEF Submit!OwnCodes
  <2>3. CASE /\ Submit!Began(r)' /\ ~Submit!Began(r) /\ reqs[r].code \notin burnt
             /\ burnt' = burnt \cup {reqs[r].code} /\ late' = late
             /\ early' = early \cup {r} /\ reqs[r].code \notin late
    <3>1. \A q \in Submit!Ids : q # r /\ Submit!Began(q) => reqs[q].code # reqs[r].code
      BY <2>3 DEF Submit!OwnCodes
    <3> QED
      BY <1>1, <1>3, <2>3, <3>1 DEF Submit!OwnCodes
  <2> QED
    BY <2>1, <2>2, <2>3
<1>6. \A q \in Submit!Ids : q # r => Submit!Ordered(q)'
  BY <1>1, <1>3, <1>4 DEF Submit!Ordered
<1> QED
  BY <1>1, <1>2, <1>5, <1>6

LEMMA SubmitStep ==
    ASSUME Submit!WalletSubmitConstants, Submit!WalletSubmitInv, [Submit!Next]_Submit!vars
    PROVE  Submit!WalletSubmitInv'
<1> USE DEF Submit!WalletSubmitConstants, Submit!WalletSubmitInv
<1>1. ASSUME NEW d \in Fields, NEW c \in Codes, Submit!TypeCode(d, c)
      PROVE  Submit!WalletSubmitInv'
  BY <1>1, Unmoved DEF Submit!TypeCode, Submit!TypeOK
<1>2. ASSUME NEW f \in SubmitForms, Submit!Reopen(f) \/ Submit!LoseAnswer(f)
      PROVE  Submit!WalletSubmitInv'
  <2>1. UNCHANGED <<reqs, Submit!codes, calls, chain>>
    BY <1>2 DEF Submit!Reopen, Submit!LoseAnswer
  <2>2. typed' \in [Fields -> Codes \cup {None}] /\ waitsFor' \in [SubmitForms -> Nat]
    <3>1. FieldOf[f] \in Fields /\ 0 \in Nat /\ None \in Codes \cup {None}
      OBVIOUS
    <3>2. waitsFor' = [waitsFor EXCEPT ![f] = 0]
      BY <1>2 DEF Submit!Reopen, Submit!LoseAnswer
    <3>3. typed' = typed \/ typed' = [typed EXCEPT ![FieldOf[f]] = None]
      BY <1>2 DEF Submit!Reopen, Submit!LoseAnswer
    <3> QED
      BY <3>1, <3>2, <3>3 DEF Submit!TypeOK
  <2> QED
    BY <2>1, <2>2, Unmoved
<1>3. ASSUME NEW r \in Submit!Ids, Submit!Hear(r) PROVE Submit!WalletSubmitInv'
  <2>1. reqs[r].form \in SubmitForms
    BY RequestTyped DEF Submit!Requests
  <2>2. UNCHANGED <<reqs, Submit!codes, calls, chain>>
    BY <1>3 DEF Submit!Hear
  <2>3. typed' \in [Fields -> Codes \cup {None}] /\ waitsFor' \in [SubmitForms -> Nat]
    BY <1>3, <2>1 DEF Submit!Hear, Submit!TypeOK
  <2> QED
    BY <2>2, <2>3, Unmoved
<1>12. CASE UNCHANGED Submit!vars
  BY <1>12, Unmoved DEF Submit!vars, Submit!codes, Submit!TypeOK
<1>4. ASSUME NEW f \in SubmitForms, NEW size \in 1..MaxBatch, Submit!Submit(f, size)
      PROVE  Submit!WalletSubmitInv'
  <2> DEFINE e == [form |-> f, code |-> typed[FieldOf[f]], size |-> size,
                   done |-> 0, stage |-> "received", answer |-> "none"]
  <2>0. PICK r : r = Len(reqs) + 1
    OBVIOUS
  <2>1. e \in Submit!Requests
    BY <1>4 DEF Submit!Submit, Submit!TypeOK, Submit!Requests
  <2>2. reqs \in Seq(Submit!Requests) /\ reqs' = Append(reqs, e)
    BY <1>4 DEF Submit!Submit, Submit!TypeOK
  <2>3. UNCHANGED <<typed, Submit!codes, calls, chain>>
          /\ waitsFor' = [waitsFor EXCEPT ![f] = r]
    BY <1>4, <2>0 DEF Submit!Submit
  <2>4. e.stage = "received" /\ e.answer = "none" /\ e.done = 0 /\ e.size = size
    OBVIOUS
  <2> HIDE DEF e
  <2>5. /\ reqs' \in Seq(Submit!Requests)
        /\ Submit!Ids' = Submit!Ids \cup {r} /\ r \notin Submit!Ids /\ reqs'[r] = e
        /\ \A q \in Submit!Ids : reqs'[q] = reqs[q]
    BY <2>0, <2>1, <2>2, LastOf, AppendedAt DEF Submit!Ids
  <2>6. r \in Nat
    BY <2>0, <2>2
  <2>7. Submit!TypeOK'
    <3>1. chain' \in Seq(Submit!Ids' \X (1..MaxBatch))
            /\ calls' \subseteq Submit!Ids' \X (1..MaxBatch)
      BY <2>3, <2>5 DEF Submit!TypeOK
    <3> QED
      BY <2>3, <2>5, <2>6, <3>1 DEF Submit!TypeOK
  <2>8. /\ \A q \in Submit!Ids : (Submit!Began(q)' <=> Submit!Began(q))
           /\ (Submit!InCall(q)' <=> Submit!InCall(q))
        /\ ~Submit!Began(r)' /\ ~Submit!InCall(r)'
    BY <2>4, <2>5 DEF Submit!Began, Submit!InCall
  <2>9. Submit!OwnCodes'
    BY <2>3, <2>5, <2>8 DEF Submit!OwnCodes, Submit!codes
  <2>10. \A q \in Submit!Ids : \A k \in 1..MaxBatch : Submit!Executed(q, k)'
           <=> Submit!Executed(q, k)
    BY <2>3 DEF Submit!Executed
  <2>11. \A k \in 1..MaxBatch : ~Submit!Executed(r, k)' /\ <<r, k>> \notin calls'
    BY <2>3, <2>5 DEF Submit!Executed, Submit!TypeOK
  <2>12. (\A q \in Submit!Ids : Submit!Ordered(q))'
    BY <2>3, <2>4, <2>5, <2>8, <2>10, <2>11 DEF Submit!Ordered
  <2> QED
    BY <2>7, <2>9, <2>12
<1>5. ASSUME NEW r \in Submit!Ids, Submit!Validate(r)
      PROVE  Submit!WalletSubmitInv'
  <2>1. reqs[r] \in Submit!Requests /\ UNCHANGED <<typed, waitsFor, Submit!codes, calls, chain>>
    BY <1>5, RequestTyped DEF Submit!Validate
  <2>2. ~Submit!Began(r) /\ ~Submit!InCall(r) /\ reqs[r].stage = "received"
    BY <1>5 DEF Submit!Validate, Submit!Ordered, Submit!Began, Submit!InCall
  <2>3. PICK stage, reply :
            /\ Becomes(r, stage, reqs[r].done, reply)
            /\ <<stage, reply>> \in {<<"valid", "none">>, <<"answered", "refused">>}
    <3>1. CASE reqs' = [reqs EXCEPT ![r].stage = "valid"]
      <4>1. reqs' = [reqs EXCEPT ![r]
              = [@ EXCEPT !.stage = "valid", !.done = reqs[r].done, !.answer = "none"]]
        BY <2>1, <2>2, <3>1 DEF Submit!Requests, Submit!Ordered
      <4> QED
        BY <2>1, <4>1, Moves DEF Submit!Requests
    <3>2. CASE Submit!Answers(r, "refused")
      <4>1. reqs' = [reqs EXCEPT ![r]
              = [@ EXCEPT !.stage = "answered", !.done = reqs[r].done, !.answer = "refused"]]
        BY <2>1, <2>2, <3>2 DEF Submit!Requests, Submit!Ordered, Submit!Answers
      <4> QED
        BY <2>1, <4>1, Moves DEF Submit!Requests
    <3> QED
      BY <1>5, <3>1, <3>2 DEF Submit!Validate
  <2>4. ~Submit!Began(r)' /\ ~Submit!InCall(r)'
    BY <2>3 DEF Becomes, Submit!Began, Submit!InCall
  <2>5. Submit!Ordered(r)'
    BY <2>1, <2>2, <2>3, <2>4 DEF Becomes, Submit!Ordered, Submit!Executed
  <2> QED
    BY <2>1, <2>2, <2>3, <2>4, <2>5, Advance DEF Submit!TypeOK
<1>6. ASSUME NEW r \in Submit!Ids, Submit!StepUp(r)
      PROVE  Submit!WalletSubmitInv'
  <2>1. /\ reqs[r] \in Submit!Requests /\ UNCHANGED <<typed, waitsFor, late, calls, chain>>
        /\ reqs[r].stage = "valid" /\ reqs[r].answer = "none" /\ reqs[r].done = 0
    BY <1>6, RequestTyped DEF Submit!StepUp, Submit!Ordered, Submit!Began
  <2>2. /\ ~Submit!Began(r) /\ ~Submit!InCall(r) /\ 0 \in 0..MaxBatch
        /\ \A k \in 1..MaxBatch : ~Submit!Executed(r, k) /\ <<r, k>> \notin calls
    BY <2>1 DEF Submit!Began, Submit!InCall, Submit!Ordered
  <2>3. CASE reqs[r].code \in burnt
    <3>1. reqs' = [reqs EXCEPT ![r]
            = [@ EXCEPT !.stage = "answered", !.done = 0, !.answer = "refused"]]
      BY <1>6, <2>1, <2>3 DEF Submit!StepUp, Submit!Answers, Submit!Requests
    <3>2. Becomes(r, "answered", 0, "refused")
      BY <2>2, <3>1, Moves
    <3>3. ~Submit!Began(r)' /\ ~Submit!InCall(r)'
      BY <3>2 DEF Becomes, Submit!Began, Submit!InCall
    <3>4. Submit!Ordered(r)'
      BY <2>1, <2>2, <3>2, <3>3 DEF Becomes, Submit!Ordered, Submit!Executed
    <3>5. UNCHANGED Submit!codes
      BY <1>6, <2>1, <2>3 DEF Submit!StepUp, Submit!codes
    <3> QED
      BY <2>1, <2>2, <3>2, <3>3, <3>4, <3>5, Advance DEF Submit!TypeOK
  <2>4. CASE reqs[r].code \notin burnt
    <3>1. reqs' = [reqs EXCEPT ![r]
            = [@ EXCEPT !.stage = "next", !.done = 0, !.answer = "none"]]
      BY <1>6, <2>1, <2>4 DEF Submit!StepUp, Submit!Requests
    <3>2. Becomes(r, "next", 0, "none")
      BY <2>2, <3>1, Moves
    <3>3. Submit!Began(r)' /\ ~Submit!InCall(r)'
      BY <3>2 DEF Becomes, Submit!Began, Submit!InCall
    <3>4. Submit!Ordered(r)'
      <4>1. \A k \in 1..MaxBatch : ~Submit!Executed(r, k)' /\ <<r, k>> \notin calls'
        BY <2>1, <2>2 DEF Submit!Executed
      <4> QED
        BY <2>1, <3>2, <3>3, <4>1 DEF Becomes, Submit!Ordered, Submit!Requests
    <3>5. /\ burnt' = burnt \cup {reqs[r].code}
          /\ early' = early \/ (early' = early \cup {r} /\ reqs[r].code \notin late)
      BY <1>6, <2>4 DEF Submit!StepUp
    <3> QED
      BY <2>1, <2>2, <2>4, <3>2, <3>3, <3>4, <3>5, Advance DEF Submit!TypeOK
  <2> QED
    BY <2>3, <2>4
<1>7. ASSUME NEW r \in Submit!Ids, reqs[r].stage \in {"next", "calling"},
             Submit!Call(r) \/ Submit!CallReturns(r) \/ Submit!DaemonRefuses(r)
                 \/ Submit!CallTimesOut(r)
      PROVE  Submit!WalletSubmitInv'
  <2>1. /\ reqs[r] \in Submit!Requests /\ UNCHANGED <<typed, waitsFor, Submit!codes, chain>>
        /\ reqs[r].answer = "none" /\ Submit!Began(r)
        /\ reqs[r].done + 1 \in 1..MaxBatch /\ reqs[r].done + 1 <= reqs[r].size
    BY <1>7, RequestTyped
    DEF Submit!Call, Submit!CallReturns, Submit!DaemonRefuses,
        Submit!CallTimesOut, Submit!Ordered, Submit!Began, Submit!InCall,
        Submit!Requests
  <2>2. PICK stage \in {"next", "calling", "answered"}, done \in 0..MaxBatch,
             reply \in {"none", "ok", "consumed", "unavailable"} :
            /\ reqs' = [reqs EXCEPT ![r]
               = [@ EXCEPT !.stage = stage, !.done = done, !.answer = reply]]
            /\ \/ /\ stage = "calling" /\ done = reqs[r].done /\ reply = "none"
                  /\ reqs[r].stage = "next" /\ calls' = calls \cup {<<r, reqs[r].done + 1>>}
               \/ /\ stage = "next" /\ done = reqs[r].done + 1 /\ reply = "none"
                  /\ done # reqs[r].size /\ Submit!Executed(r, done)
                  /\ calls' = calls \ {<<r, done>>}
               \/ /\ stage = "answered" /\ done = reqs[r].size /\ reply = "ok"
                  /\ done = reqs[r].done + 1 /\ Submit!Executed(r, done)
                  /\ calls' = calls \ {<<r, done>>}
               \/ /\ stage = "answered" /\ done = reqs[r].done /\ reply = "consumed"
                  /\ ~Submit!Executed(r, done + 1)
                  /\ calls' = calls \ {<<r, done + 1>>}
               \/ /\ stage = "answered" /\ done = reqs[r].done /\ reply = "unavailable"
                  /\ reqs[r].stage = "calling" /\ calls' = calls
    <3>1. reqs[r].done \in 0..MaxBatch /\ reqs[r].done + 1 \in 0..MaxBatch
      BY <2>1 DEF Submit!Requests
    <3>2. CASE Submit!Call(r)
      <4>1. reqs' = [reqs EXCEPT ![r]
              = [@ EXCEPT !.stage = "calling", !.done = reqs[r].done, !.answer = "none"]]
        BY <2>1, <3>2 DEF Submit!Call, Submit!Requests
      <4> QED
        BY <3>1, <3>2, <4>1 DEF Submit!Call
    <3>3. CASE Submit!CallReturns(r) /\ reqs[r].done + 1 # reqs[r].size
      <4>1. reqs' = [reqs EXCEPT ![r]
              = [@ EXCEPT !.stage = "next", !.done = reqs[r].done + 1, !.answer = "none"]]
        BY <2>1, <3>3 DEF Submit!CallReturns, Submit!Requests
      <4> QED
        BY <3>1, <3>3, <4>1 DEF Submit!CallReturns
    <3>4. CASE Submit!CallReturns(r) /\ reqs[r].done + 1 = reqs[r].size
      <4>1. reqs' = [reqs EXCEPT ![r]
              = [@ EXCEPT !.stage = "answered", !.done = reqs[r].done + 1, !.answer = "ok"]]
        BY <2>1, <3>4 DEF Submit!CallReturns, Submit!Requests
      <4> QED
        BY <3>1, <3>4, <4>1 DEF Submit!CallReturns
    <3>5. CASE Submit!DaemonRefuses(r)
      <4>1. reqs' = [reqs EXCEPT ![r]
              = [@ EXCEPT !.stage = "answered", !.done = reqs[r].done, !.answer = "consumed"]]
        BY <2>1, <3>5 DEF Submit!DaemonRefuses, Submit!Answers, Submit!Requests
      <4> QED
        BY <3>1, <3>5, <4>1 DEF Submit!DaemonRefuses
    <3>6. CASE Submit!CallTimesOut(r)
      <4>1. reqs' = [reqs EXCEPT ![r]
              = [@ EXCEPT !.stage = "answered", !.done = reqs[r].done, !.answer = "unavailable"]]
        BY <2>1, <3>6 DEF Submit!CallTimesOut, Submit!Answers, Submit!Requests
      <4> QED
        BY <3>1, <3>6, <4>1 DEF Submit!CallTimesOut
    <3> QED
      BY <1>7, <3>2, <3>3, <3>4, <3>5, <3>6
  <2>3. Becomes(r, stage, done, reply)
    BY <2>2, Moves
  <2>4. Submit!Began(r)' /\ (Submit!InCall(r)' <=> stage = "calling" \/ reply = "unavailable")
    BY <2>2, <2>3 DEF Becomes, Submit!Began, Submit!InCall
  <2>5. \A k \in 1..MaxBatch : Submit!Executed(r, k)' <=> Submit!Executed(r, k)
    BY <2>1 DEF Submit!Executed
  <2>6. Submit!InCall(r) <=> reqs[r].stage = "calling"
    BY <2>1 DEF Submit!InCall
  <2>7. Submit!Ordered(r)'
    <3>1. Submit!Ordered(r)
      OBVIOUS
    <3> HIDE DEF Submit!WalletSubmitInv
    <3> QED
      BY <2>1, <2>2, <2>3, <2>4, <2>5, <2>6, <3>1
      DEF Becomes, Submit!Ordered, Submit!Requests
  <2>8. /\ calls' \subseteq Submit!Ids \X (1..MaxBatch)
        /\ \A q \in Submit!Ids, k \in 1..MaxBatch : q # r /\ <<q, k>> \in calls'
           => <<q, k>> \in calls
    BY <2>1, <2>2 DEF Submit!TypeOK
  <2> QED
    BY <2>1, <2>3, <2>4, <2>7, <2>8, Advance
<1>8. ASSUME NEW call \in calls, Submit!Execute(call)
      PROVE  Submit!WalletSubmitInv'
  <2>1. PICK r \in Submit!Ids, k \in 1..MaxBatch : call = <<r, k>>
    BY DEF Submit!TypeOK
  <2>2. /\ chain' = Append(chain, <<r, k>>)
        /\ UNCHANGED <<typed, waitsFor, reqs, Submit!codes, calls>>
    BY <1>8, <2>1 DEF Submit!Execute
  <2>3. chain \in Seq(Submit!Ids \X (1..MaxBatch)) /\ <<r, k>> \in Submit!Ids \X (1..MaxBatch)
    BY DEF Submit!TypeOK
  <2>4. \A q \in Submit!Ids, j \in 1..MaxBatch : Submit!Executed(q, j)'
          <=> Submit!Executed(q, j) \/ <<q, j>> = <<r, k>>
    <3>1. /\ chain'[Len(chain) + 1] = <<r, k>>
          /\ \A n \in 1..Len(chain) : chain'[n] = chain[n]
          /\ 1..Len(chain') = 1..Len(chain) \cup {Len(chain) + 1}
      BY <2>2, <2>3, AppendedAt
    <3> QED
      BY <3>1 DEF Submit!Executed
  <2>5. Submit!Ids' = Submit!Ids /\ \A q \in Submit!Ids : (Submit!Began(q)' <=> Submit!Began(q))
          /\ (Submit!InCall(q)' <=> Submit!InCall(q))
    BY <2>2 DEF Submit!Ids, Submit!Began, Submit!InCall
  <2>6. Submit!InCall(r) /\ k = reqs[r].done + 1
    BY <1>8, <2>1 DEF Submit!Ordered
  <2>7. Submit!TypeOK'
    BY <2>2, <2>3, <2>5, LastOf DEF Submit!TypeOK
  <2>8. Submit!OwnCodes'
    BY <2>2, <2>5 DEF Submit!OwnCodes, Submit!codes
  <2>9. \A q \in Submit!Ids : Submit!Ordered(q)'
    BY <2>2, <2>4, <2>5, <2>6 DEF Submit!Ordered
  <2> QED
    BY <2>5, <2>7, <2>8, <2>9
<1>10. ASSUME NEW c \in burnt, Submit!BurnExpires(c)
       PROVE  Submit!WalletSubmitInv'
  <2>1. /\ c \notin late /\ burnt' = burnt \ {c} /\ late' = late \cup {c}
        /\ UNCHANGED <<typed, waitsFor, reqs, early, calls, chain>>
    BY <1>10 DEF Submit!BurnExpires
  <2>2. PICK r \in early : reqs[r].code = c
    BY <1>10 DEF Submit!BurnExpires
  <2>3. Submit!Ids' = Submit!Ids /\ \A q \in Submit!Ids : (Submit!Began(q)' <=> Submit!Began(q))
          /\ (Submit!InCall(q)' <=> Submit!InCall(q))
    BY <2>1 DEF Submit!Ids, Submit!Began, Submit!InCall
  <2>4. \A q \in Submit!Ids : Submit!Began(q) /\ q # r => reqs[q].code # c
    BY <2>1, <2>2 DEF Submit!OwnCodes
  <2>5. Submit!OwnCodes'
    BY <2>1, <2>2, <2>3, <2>4 DEF Submit!OwnCodes
  <2>6. Submit!TypeOK'
    BY <2>1, <2>3 DEF Submit!TypeOK
  <2>7. \A q \in Submit!Ids : \A k \in 1..MaxBatch : Submit!Executed(q, k)'
          <=> Submit!Executed(q, k)
    BY <2>1 DEF Submit!Executed
  <2>8. \A q \in Submit!Ids : Submit!Ordered(q)'
    BY <2>1, <2>3, <2>7 DEF Submit!Ordered
  <2> QED
    BY <2>3, <2>5, <2>6, <2>8
<1>9. \A r \in Submit!Ids : /\ Submit!Call(r) => reqs[r].stage = "next"
                            /\ Submit!CallReturns(r) \/ Submit!DaemonRefuses(r)
                               \/ Submit!CallTimesOut(r) => reqs[r].stage = "calling"
  BY DEF Submit!Call, Submit!CallReturns, Submit!DaemonRefuses,
     Submit!CallTimesOut
<1> QED
  BY <1>1, <1>2, <1>3, <1>4, <1>5, <1>6, <1>7, <1>8, <1>9, <1>10, <1>12
  DEF Submit!Next

LEMMA SubmitSound ==
    ASSUME Submit!WalletSubmitConstants, Submit!WalletSubmitInv
    PROVE  Submit!OneRequestPerCode /\ Submit!AnswerTellsTruth
<1> USE DEF Submit!WalletSubmitConstants
<1>1. \A r \in Submit!Ids : reqs[r] \in Submit!Requests
  BY RequestTyped DEF Submit!WalletSubmitInv
<1>2. ASSUME NEW r \in Submit!Ids, Submit!Submitted(r) # {}
      PROVE  Submit!Began(r)
  <2>1. PICK k \in 1..MaxBatch : Submit!Executed(r, k)
    BY <1>2 DEF Submit!Submitted
  <2>2. Submit!Ordered(r) /\ reqs[r] \in Submit!Requests
    BY <1>1 DEF Submit!WalletSubmitInv
  <2>3. Submit!InCall(r) => Submit!Began(r)
    BY <2>2 DEF Submit!Ordered, Submit!Began, Submit!InCall
  <2>4. k <= reqs[r].done \/ Submit!InCall(r)
    BY <2>1, <2>2 DEF Submit!Ordered
  <2>5. ~Submit!Began(r) => reqs[r].done = 0
    BY <2>2 DEF Submit!Ordered
  <2> QED
    BY <2>1, <2>3, <2>4, <2>5
<1>3. Submit!OneRequestPerCode
  BY <1>2 DEF Submit!OneRequestPerCode, Submit!WalletSubmitInv, Submit!OwnCodes
<1>4. ASSUME NEW r \in Submit!Ids
      PROVE  /\ reqs[r].answer = "ok" => Submit!Submitted(r) = 1..reqs[r].size
             /\ reqs[r].answer = "refused" => Submit!Submitted(r) = {}
             /\ reqs[r].answer = "consumed" => Submit!Submitted(r) = 1..reqs[r].done
             /\ reqs[r].answer = "unavailable" =>
                    Submit!Submitted(r) \in {1..reqs[r].done, 1..(reqs[r].done + 1)}
  <2>1. reqs[r] \in Submit!Requests /\ Submit!Ordered(r)
    BY <1>1 DEF Submit!WalletSubmitInv
  <2>2. reqs[r].done \in 0..MaxBatch /\ reqs[r].size \in 1..MaxBatch /\ MaxBatch \in Nat
    BY <2>1 DEF Submit!Requests
  <2>3. Submit!InCall(r) => Submit!Began(r) /\ reqs[r].answer \in {"none", "unavailable"}
    BY <2>1 DEF Submit!Ordered, Submit!Began, Submit!InCall
  <2>4. CASE ~Submit!InCall(r)
    <3>1. \A k \in 1..MaxBatch : Submit!Executed(r, k) <=> k <= reqs[r].done
      BY <2>1, <2>4 DEF Submit!Ordered
    <3>2. Submit!Submitted(r) = 1..reqs[r].done
      BY <2>2, <3>1 DEF Submit!Submitted
    <3>3. reqs[r].answer = "refused" => reqs[r].done = 0
      BY <2>1 DEF Submit!Ordered, Submit!Began
    <3> QED
      BY <2>1, <2>2, <2>4, <3>2, <3>3 DEF Submit!Ordered, Submit!InCall
  <2>5. CASE Submit!InCall(r)
    <3>1. reqs[r].answer \in {"none", "unavailable"} /\ reqs[r].done + 1 \in 1..MaxBatch
      BY <2>1, <2>2, <2>3, <2>5 DEF Submit!Ordered
    <3>2. CASE Submit!Executed(r, reqs[r].done + 1)
      <4>1. \A k \in 1..MaxBatch : Submit!Executed(r, k) <=> k <= reqs[r].done + 1
        <5>1. \A k \in 1..MaxBatch : k <= reqs[r].done + 1
                <=> k <= reqs[r].done \/ k = reqs[r].done + 1
          BY <2>2
        <5> QED
          BY <2>1, <3>2, <5>1 DEF Submit!Ordered
      <4>2. Submit!Submitted(r) = 1..(reqs[r].done + 1)
        BY <2>2, <3>1, <4>1 DEF Submit!Submitted
      <4> QED
        BY <3>1, <4>2
    <3>3. CASE ~Submit!Executed(r, reqs[r].done + 1)
      <4>1. \A k \in 1..MaxBatch : Submit!Executed(r, k) <=> k <= reqs[r].done
        BY <2>1, <2>2, <3>1, <3>3 DEF Submit!Ordered
      <4>2. Submit!Submitted(r) = 1..reqs[r].done
        BY <2>2, <4>1 DEF Submit!Submitted
      <4> QED
        BY <3>1, <4>2
    <3> QED
      BY <3>2, <3>3
  <2> QED
    BY <2>4, <2>5
<1> QED
  BY <1>3, <1>4 DEF Submit!AnswerTellsTruth

(* As long as the process lives, a code moves funds for one request only,  *)
(* or for two of which just one had presented it before its period, and    *)
(* the answer to a request tells which of its actions the daemon carried   *)
(* out, for any forms, codes and batches (lib/step-up.ts:106,              *)
(* api/transact).                                                          *)
THEOREM CodesPayOnce ==
    ASSUME Submit!WalletSubmitConstants
    PROVE  Submit!Spec => [](Submit!OneRequestPerCode /\ Submit!AnswerTellsTruth)
<1>1. Submit!Init => Submit!WalletSubmitInv
  BY SubmitInit
<1>2. Submit!WalletSubmitInv /\ [Submit!Next]_Submit!vars => Submit!WalletSubmitInv'
  BY SubmitStep
<1>3. Submit!WalletSubmitInv => (Submit!OneRequestPerCode /\ Submit!AnswerTellsTruth)
  BY SubmitSound
<1> QED
  BY <1>1, <1>2, <1>3, PTL DEF Submit!Spec
-----------------------------------------------------------------------------
(* WalletFile. One import at most is under way; a scan has a file of its   *)
(* own, and what was scanned to its end is whole.                          *)
LEMMA FileCounts ==
    \A S : (File!IsFiniteSet(S) <=> IsFiniteSet(S)) /\ File!Cardinality(S) = Cardinality(S)
BY DEF File!IsFiniteSet, IsFiniteSet, File!Cardinality, Cardinality

LEMMA FileInit ==
    ASSUME File!WalletFileConstants, File!Init
    PROVE  File!WalletFileInv
<1> USE DEF File!WalletFileConstants, File!Init
<1>1. DOMAIN files = {0} /\ File!Cardinality({0}) = 1 /\ {0} = 0..(1 - 1)
  <2>1. File!Cardinality({0}) = 1
    BY FS_Singleton, FileCounts
  <2>2. \A m : m \in 0..(1 - 1) <=> m = 0
    OBVIOUS
  <2> QED
    BY <2>1, <2>2
<1>2. File!Cardinality(DOMAIN files) \in Nat
        /\ DOMAIN files = 0..(File!Cardinality(DOMAIN files) - 1)
  BY <1>1
<1>3. File!TypeOK
  BY <1>1, <1>2 DEF File!TypeOK, File!Steps
<1> QED
  BY <1>3
  DEF File!WalletFileInv, File!OneUnderWay, File!UnderWay, File!ScanHasFile,
      File!OwnFile, File!CanonWhole

(* The next file's number is new.                                          *)
LEMMA NextFile ==
    ASSUME File!TypeOK, NEW n, n = File!Cardinality(DOMAIN files)
    PROVE  /\ n \in Nat /\ n \notin DOMAIN files
           /\ DOMAIN files \cup {n} = 0..n
           /\ File!Cardinality(0..n) = n + 1
<1>1. n \in Nat /\ DOMAIN files = 0..(n - 1)
  BY DEF File!TypeOK
<1>2. \A m : m \in 0..(n - 1) \/ m = n <=> m \in 0..n
  BY <1>1
<1>3. File!Cardinality(0..n) = n + 1
  <2>1. File!Cardinality(0..n) = n - 0 + 1
    BY <1>1, FS_Interval, FileCounts
  <2> QED
    BY <1>1, <2>1
<1>4. n \notin 0..(n - 1)
  BY <1>1
<1>5. DOMAIN files \cup {n} = 0..n
  BY <1>1, <1>2
<1> QED
  BY <1>1, <1>3, <1>4, <1>5

LEMMA FileStep ==
    ASSUME File!WalletFileConstants, File!WalletFileInv, [File!Next]_File!vars
    PROVE  File!WalletFileInv'
<1> USE DEF File!WalletFileConstants, File!WalletFileInv, File!TypeOK, File!OneUnderWay,
            File!UnderWay, File!ScanHasFile, File!OwnFile, File!CanonWhole
<1>1. ASSUME NEW i \in Imports, File!Begin(i) PROVE File!WalletFileInv'
  BY <1>1 DEF File!Begin, File!Goes, File!Steps
<1>2. ASSUME NEW i \in Imports, File!Close(i, "close", "clear")
      PROVE  File!WalletFileInv'
  BY <1>2 DEF File!Close, File!Goes, File!Steps
<1>3. ASSUME NEW i \in Imports, File!ClearTemp(i) PROVE File!WalletFileInv'
  BY <1>3 DEF File!ClearTemp, File!Goes, File!Steps
<1>4. ASSUME NEW i \in Imports, File!Recover(i) PROVE File!WalletFileInv'
  <2>1. CASE slot # None \/ temp # None
    BY <1>4, <2>1 DEF File!Recover, File!Goes, File!Fails, File!Steps
  <2>2. CASE slot = None /\ temp = None
    <3> DEFINE n == File!Cardinality(DOMAIN files)
    <3>1. /\ n \in Nat /\ n \notin DOMAIN files
          /\ DOMAIN files \cup {n} = 0..n
          /\ File!Cardinality(0..n) = n + 1
      BY NextFile
    <3>2. /\ files' = [m \in 0..n |-> IF m = n THEN [seed |-> i, whole |-> FALSE] ELSE files[m]]
          /\ temp' = n /\ slot' = n /\ scanning' = TRUE /\ canon' = canon
          /\ pc[i] = "recover" /\ pc' = [pc EXCEPT ![i] = "scan"]
      BY <1>4, <2>2, <3>1 DEF File!Recover, File!Goes
    <3> HIDE DEF n
    <3>3. DOMAIN files' = 0..n /\ File!Cardinality(DOMAIN files') = n + 1 /\ n + 1 - 1 = n
      BY <3>1, <3>2
    <3>4. File!TypeOK'
      <4>1. files' \in [DOMAIN files' -> [seed : Imports \cup {None}, whole : BOOLEAN]]
        BY <3>1, <3>2, <3>3
      <4>2. n \in DOMAIN files' /\ canon \in DOMAIN files'
        BY <3>1, <3>3
      <4>3. pc' \in [Imports -> File!Steps] /\ scanning' \in BOOLEAN
              /\ said' \in [Imports -> {"none", "recovered", "error"}]
        BY <1>4, <2>2, <3>2 DEF File!Recover, File!Steps
      <4>4. File!Cardinality(DOMAIN files') \in Nat
              /\ DOMAIN files' = 0..(File!Cardinality(DOMAIN files') - 1)
        BY <3>1, <3>3
      <4> QED
        BY <4>1, <4>2, <4>3, <4>4, <3>2
    <3>5. files'[canon'].whole /\ files'[n].seed = i /\ n # None
      BY <3>1, <3>2
    <3>6. File!OneUnderWay' /\ File!ScanHasFile' /\ File!OwnFile'
      BY <3>2, <3>5
    <3> QED
      BY <3>4, <3>5, <3>6
  <2> QED
    BY <2>1, <2>2
<1>5. ASSUME NEW i \in Imports, File!Close(i, "closeAgain", "swap")
      PROVE  File!WalletFileInv'
  BY <1>5 DEF File!Close, File!Goes, File!Steps
<1>6. ASSUME NEW i \in Imports, File!Swap(i) PROVE File!WalletFileInv'
  BY <1>6 DEF File!Swap, File!Goes, File!Fails, File!Steps
<1>7. ASSUME NEW i \in Imports, File!Open(i) PROVE File!WalletFileInv'
  BY <1>7 DEF File!Open, File!Goes, File!Fails, File!Steps
<1>8. CASE File!ScanEnds
  <2>1. slot \in DOMAIN files
    BY <1>8 DEF File!ScanEnds
  <2>2. /\ files' \in [DOMAIN files -> [seed : Imports \cup {None}, whole : BOOLEAN]]
        /\ DOMAIN files' = DOMAIN files
        /\ files'[slot].whole
        /\ \A m \in DOMAIN files : files'[m].seed = files[m].seed
           /\ (files[m].whole => files'[m].whole)
    BY <1>8, <2>1 DEF File!ScanEnds
  <2>3. pc' \in [Imports -> File!Steps]
    BY <1>8 DEF File!ScanEnds, File!Steps
  <2>4. File!TypeOK'
    BY <1>8, <2>2, <2>3 DEF File!ScanEnds
  <2>5. File!OneUnderWay' /\ File!ScanHasFile' /\ File!CanonWhole'
    BY <1>8, <2>2 DEF File!ScanEnds
  <2>6. File!OwnFile'
    BY <1>8, <2>1, <2>2 DEF File!ScanEnds
  <2> QED
    BY <2>4, <2>5, <2>6
<1>9. CASE File!ScanFails
  BY <1>9 DEF File!ScanFails, File!Steps
<1>10. CASE File!PageOpens \/ File!PageCloses
  BY <1>10 DEF File!PageOpens, File!PageCloses
<1>11. CASE File!WebCrash
  BY <1>11 DEF File!WebCrash, File!Steps
<1>13. CASE File!DaemonCrash
  BY <1>13 DEF File!DaemonCrash, File!Steps
<1>12. CASE UNCHANGED File!vars
  BY <1>12 DEF File!vars
<1> QED
  BY <1>1, <1>2, <1>3, <1>4, <1>5, <1>6, <1>7, <1>8, <1>9, <1>10, <1>11, <1>12,
     <1>13
  DEF File!Next

LEMMA FileSound == File!WalletFileInv => File!CanonWhole
BY DEF File!WalletFileInv

(* Only Open says so, of the file that Swap put in place.                  *)
LEMMA ServedStep ==
    ASSUME File!WalletFileConstants, File!WalletFileInv, [File!Next]_File!vars
    PROVE  File!RecoveredIsServed
<1> SUFFICES ASSUME NEW i \in Imports, said[i] = "none", said'[i] = "recovered"
             PROVE  slot' = canon' /\ files'[canon'].seed = i
  BY DEF File!RecoveredIsServed
<1> USE DEF File!WalletFileInv, File!TypeOK, File!OwnFile
<1>1. ASSUME NEW j \in Imports, File!Open(j)
      PROVE  slot' = canon' /\ files'[canon'].seed = i
  <2>1. slot = None /\ i = j
    BY <1>1 DEF File!Open, File!Fails, File!Goes
  <2> QED
    BY <1>1, <2>1 DEF File!Open
<1>2. ASSUME NEW j \in Imports,
             File!Begin(j) \/ File!Close(j, "close", "clear") \/ File!ClearTemp(j)
                 \/ File!Recover(j)
               \/ File!Close(j, "closeAgain", "swap") \/ File!Swap(j)
      PROVE  FALSE
  BY <1>2
  DEF File!Begin, File!Close, File!ClearTemp, File!Recover, File!Swap,
      File!Fails
<1>3. ~(File!ScanEnds \/ File!ScanFails)
  BY DEF File!ScanEnds, File!ScanFails
<1>4. ~(File!PageOpens \/ File!PageCloses \/ File!WebCrash \/ File!DaemonCrash
        \/ UNCHANGED File!vars)
  BY DEF File!PageOpens, File!PageCloses, File!WebCrash, File!DaemonCrash,
     File!vars
<1> QED
  BY <1>1, <1>2, <1>3, <1>4 DEF File!Next

(* The path of the wallet names a complete wallet wherever web-gui or the  *)
(* daemon dies, and "recovered" is said only of the wallet that is then in *)
(* use (wallet-recovery.ts).                                               *)
THEOREM WalletStaysWhole ==
    ASSUME File!WalletFileConstants
    PROVE  File!Spec => []File!CanonWhole /\ [][File!RecoveredIsServed]_File!vars
<1>1. File!Init => File!WalletFileInv
  BY FileInit
<1>2. File!WalletFileInv /\ [File!Next]_File!vars => File!WalletFileInv'
  BY FileStep
<1>3. File!WalletFileInv => File!CanonWhole
  BY FileSound
<1>4. File!WalletFileInv /\ [File!Next]_File!vars => [File!RecoveredIsServed]_File!vars
  BY ServedStep
<1> QED
  BY <1>1, <1>2, <1>3, <1>4, PTL DEF File!Spec

-----------------------------------------------------------------------------
(* OpForms. A request at the daemon passed the form's checks and then the  *)
(* route's.                                                                *)
LEMMA FormsInit ==
    ASSUME Forms!OpFormsConstants
    PROVE  Forms!Init => Forms!OpFormsInv
<1> DEFINE Number == [u : Nat, s : Int]
<1>1. \A u, s \in Nat : Forms!Dec(u, s) \in Number
  BY DEF Forms!Dec
<1>2. Forms!Typed \subseteq Number
  <2>1. Digits \subseteq Nat
    BY DEF Forms!OpFormsConstants
  <2>2. Forms!Exponent \in Number
    BY DEF Forms!Exponent
  <2>3. Scales \subseteq Nat
    BY DEF Forms!OpFormsConstants
  <2> HIDE DEF Number
  <2>4. {Forms!Dec(u, s) : u \in Digits, s \in Scales} \subseteq Number
    BY <2>1, <2>3, <1>1
  <2> QED
    BY <2>2, <2>4 DEF Forms!Typed
<1>3. Forms!Zero \in Number /\ Forms!Dec(1, 0) \in Number /\ Forms!Dec(5, 0) \in Number
        /\ Forms!Dec(5, 12) \in Number
  BY <1>1 DEF Forms!Zero
<1> HIDE DEF Number
<1> SUFFICES ASSUME Forms!Init PROVE Forms!OpFormsInv
  OBVIOUS
<1>4. Forms!TypedSound
  <2>1. /\ typed.form \in Forms!Forms
        /\ typed.amount \in Number /\ typed.price \in Number /\ typed.cost \in Number
        /\ typed.decimals \in Nat
    <3>1. CASE typed \in [form : Forms!Forms, amount : Forms!Typed, price : {Forms!Dec(1, 0)},
                          cost : {Forms!Zero}, decimals : Decimals, known : BOOLEAN,
                          over : BOOLEAN]
      <4>1. /\ typed.form \in Forms!Forms /\ typed.amount \in Forms!Typed
            /\ typed.price = Forms!Dec(1, 0) /\ typed.cost = Forms!Zero
               /\ typed.decimals \in Decimals
        BY <3>1
      <4>2. typed.amount \in Number /\ typed.price \in Number /\ typed.cost \in Number
        BY <4>1, <1>2, <1>3
      <4> QED
        BY <4>1, <4>2 DEF Forms!OpFormsConstants
    <3>2. CASE typed \in [form : {"limit"}, amount : Forms!Typed, price : Forms!Typed,
                          cost : {Forms!Zero}, decimals : Decimals, known : BOOLEAN,
                          over : {FALSE}]
      <4>1. /\ typed.form = "limit" /\ typed.amount \in Forms!Typed
               /\ typed.price \in Forms!Typed
            /\ typed.cost = Forms!Zero /\ typed.decimals \in Decimals
        BY <3>2
      <4>2. typed.form \in Forms!Forms
        BY <4>1 DEF Forms!Forms, Forms!StakeForms
      <4>3. typed.amount \in Number /\ typed.price \in Number /\ typed.cost \in Number
        BY <4>1, <1>2, <1>3
      <4> QED
        BY <4>1, <4>2, <4>3 DEF Forms!OpFormsConstants
    <3>3. CASE typed \in [form : {"list nft", "buy nft", "pool"},
                          amount : {Forms!Dec(5, 0)}, price : Forms!Typed,
                          cost : {Forms!Zero, Forms!Dec(1, 0), Forms!Dec(5, 12)},
                          decimals : {0}, known : {TRUE}, over : {FALSE}]
      <4>1. /\ typed.form \in {"list nft", "buy nft", "pool"}
            /\ typed.amount = Forms!Dec(5, 0) /\ typed.price \in Forms!Typed
            /\ typed.cost \in {Forms!Zero, Forms!Dec(1, 0), Forms!Dec(5, 12)}
        BY <3>3
      <4>2. typed.form \in Forms!Forms
        BY <4>1 DEF Forms!Forms, Forms!StakeForms
      <4>3. typed.amount \in Number /\ typed.price \in Number
        BY <4>1, <1>2, <1>3
      <4>4. typed.cost \in Number
        BY <4>1, <1>3
      <4>5. typed.decimals = 0
        BY <3>3
      <4> QED
        BY <4>2, <4>3, <4>4, <4>5
    <3> QED
      BY <3>1, <3>2, <3>3 DEF Forms!Init
  <2> QED
    BY <2>1 DEF Forms!TypedSound, Number
<1> QED
  BY <1>4 DEF Forms!Init, Forms!OpFormsInv, Forms!ChecksPassed

LEMMA FormsStep ==
    ASSUME Forms!OpFormsInv, [Forms!Next]_Forms!vars
    PROVE  Forms!OpFormsInv'
<1>1. typed' = typed /\ Forms!TypedSound'
  BY DEF Forms!OpFormsInv, Forms!TypedSound, Forms!Next, Forms!vars,
     Forms!Submit, Forms!RouteBurns, Forms!RouteRefuses, Forms!DaemonAnswers
<1>2. CASE Forms!Submit
  BY <1>1, <1>2 DEF Forms!OpFormsInv, Forms!ChecksPassed, Forms!Submit
<1>3. CASE Forms!RouteBurns
  BY <1>1, <1>3 DEF Forms!OpFormsInv, Forms!ChecksPassed, Forms!RouteBurns
<1>4. CASE Forms!RouteRefuses
  BY <1>1, <1>4 DEF Forms!OpFormsInv, Forms!ChecksPassed, Forms!RouteRefuses
<1>5. CASE Forms!DaemonAnswers
  BY <1>1, <1>5 DEF Forms!OpFormsInv, Forms!ChecksPassed, Forms!DaemonAnswers
<1>6. CASE UNCHANGED Forms!vars
  BY <1>6 DEF Forms!OpFormsInv, Forms!TypedSound, Forms!ChecksPassed, Forms!vars
<1> QED
  BY <1>2, <1>3, <1>4, <1>5, <1>6 DEF Forms!Next

(* What the form's checks and the route's leave for the daemon to refuse.  *)
LEMMA Decoded ==
    ASSUME Forms!TypedSound, Forms!Gate(typed), Forms!RouteAccepts(typed, Forms!Built(typed)),
           ~Forms!Unchecked(typed)
    PROVE  Forms!Legible(typed, Forms!WithDefaults(typed, Forms!Built(typed)))
<1>0. /\ typed.amount.s \in Int /\ typed.price.s \in Int /\ typed.decimals \in Nat
  BY DEF Forms!TypedSound
<1>1. CASE typed.form = "limit"
  BY <1>1
  DEF Forms!TypedSound, Forms!Gate, Forms!RouteAccepts, Forms!Unchecked,
      Forms!Legible, Forms!WithDefaults, Forms!Built, Forms!Request, Forms!Full,
      Forms!StakeForms, Forms!TokenForms, Forms!StakeValid, Forms!TokenValid,
      Forms!SendValid, Forms!IntentValid, Forms!CoinDecimals,
      Forms!IsPositiveDecimal, Forms!IsValidAmount, Forms!Plain, Forms!LimitGate,
      Forms!LimitOrder, Forms!Believed
<1>2. CASE typed.form = "market buy"
  BY <1>2
  DEF Forms!TypedSound, Forms!Gate, Forms!RouteAccepts, Forms!Unchecked,
      Forms!Legible, Forms!WithDefaults, Forms!Built, Forms!Request, Forms!Full,
      Forms!StakeForms, Forms!TokenForms, Forms!StakeValid, Forms!TokenValid,
      Forms!SendValid, Forms!IntentValid, Forms!CoinDecimals,
      Forms!IsPositiveDecimal, Forms!IsValidAmount, Forms!Plain,
      Forms!MarketGate, Forms!MarketOrder
<1>3. CASE typed.form = "market sell"
  BY <1>3
  DEF Forms!TypedSound, Forms!Gate, Forms!RouteAccepts, Forms!Unchecked,
      Forms!Legible, Forms!WithDefaults, Forms!Built, Forms!Request, Forms!Full,
      Forms!StakeForms, Forms!TokenForms, Forms!StakeValid, Forms!TokenValid,
      Forms!SendValid, Forms!IntentValid, Forms!CoinDecimals,
      Forms!IsPositiveDecimal, Forms!IsValidAmount, Forms!Plain,
      Forms!MarketGate, Forms!MarketOrder, Forms!Believed
<1>4. CASE typed.form = "bare"
  BY <1>4
  DEF Forms!TypedSound, Forms!Gate, Forms!RouteAccepts, Forms!Unchecked,
      Forms!Legible, Forms!WithDefaults, Forms!Built, Forms!Request, Forms!Full,
      Forms!StakeForms, Forms!TokenForms, Forms!StakeValid, Forms!TokenValid,
      Forms!SendValid, Forms!IntentValid, Forms!CoinDecimals,
      Forms!IsPositiveDecimal, Forms!IsValidAmount, Forms!Plain,
      Forms!BareRequest
<1>5. CASE typed.form = "list nft"
  <2>1. Forms!Built(typed) = Forms!Request({typed.price}, {Forms!Dec(1, 0)}, Forms!Full)
    BY <1>5 DEF Forms!Built, Forms!NftListing
  <2>1a. Forms!Built(typed).coins = {typed.price}
    BY <2>1 DEF Forms!Request
  <2>2. Forms!IsValidAmount(typed.price, Forms!CoinDecimals)
    BY <1>5, <2>1a DEF Forms!RouteAccepts, Forms!StakeValid, Forms!StakeForms
  <2>3. Forms!Dec(1, 0).u = 1 /\ Forms!Dec(1, 0).s = 0
    BY DEF Forms!Dec
  <2>4. Forms!IsPositiveDecimal(Forms!Dec(1, 0)) /\ Forms!Dec(1, 0).s <= typed.decimals
    BY <1>0, <2>3 DEF Forms!IsPositiveDecimal, Forms!Plain
  <2> QED
    BY <2>1, <2>2, <2>4
    DEF Forms!Legible, Forms!WithDefaults, Forms!Request, Forms!Full,
        Forms!IsValidAmount
<1>6. CASE typed.form = "buy nft"
  BY <1>6
  DEF Forms!TypedSound, Forms!Gate, Forms!RouteAccepts, Forms!Unchecked,
      Forms!Legible, Forms!WithDefaults, Forms!Built, Forms!Request, Forms!Full,
      Forms!StakeForms, Forms!TokenForms, Forms!StakeValid, Forms!TokenValid,
      Forms!SendValid, Forms!IntentValid, Forms!CoinDecimals,
      Forms!IsPositiveDecimal, Forms!IsValidAmount, Forms!Plain,
      Forms!NftBuyGate, Forms!NftPurchase
<1>7. CASE typed.form = "delegate"
  BY <1>7
  DEF Forms!TypedSound, Forms!Gate, Forms!RouteAccepts, Forms!Unchecked,
      Forms!Legible, Forms!WithDefaults, Forms!Built, Forms!Request, Forms!Full,
      Forms!StakeForms, Forms!TokenForms, Forms!StakeValid, Forms!TokenValid,
      Forms!SendValid, Forms!IntentValid, Forms!CoinDecimals,
      Forms!IsPositiveDecimal, Forms!IsValidAmount, Forms!Plain, Forms!Delegate
<1>8. CASE typed.form = "pool"
  <2>1. Forms!Built(typed) = Forms!NewPool(typed)
    BY <1>8 DEF Forms!Built
  <2>2. /\ Forms!Built(typed).coins = {typed.amount} /\ Forms!Built(typed).tokens = {}
        /\ Forms!Built(typed).fields = Forms!Full
    BY <2>1 DEF Forms!NewPool, Forms!Request
  <2>3. /\ Forms!IsValidAmount(typed.amount, Forms!CoinDecimals)
        /\ Forms!IsValidAmount(Forms!Built(typed).cost, Forms!CoinDecimals)
        /\ Forms!IsPositiveDecimal(Forms!Built(typed).margin)
           /\ Forms!AtMost(Forms!Built(typed).margin, 1000)
    BY <1>8, <2>2 DEF Forms!RouteAccepts, Forms!StakeValid, Forms!StakeForms
  <2>4. LET r == Forms!WithDefaults(typed, Forms!Built(typed))
        IN  /\ r.coins = Forms!Built(typed).coins /\ r.tokens = {}
            /\ Forms!Full \subseteq r.fields
            /\ r.cost = Forms!Built(typed).cost /\ r.margin = Forms!Built(typed).margin
    BY <2>1, <2>2 DEF Forms!WithDefaults, Forms!NewPool, Forms!Request
  <2> QED
    BY <2>2, <2>3, <2>4
    DEF Forms!Legible, Forms!IsValidAmount, Forms!IsPositiveDecimal
<1>9. CASE typed.form = "mint"
  BY <1>9
  DEF Forms!TypedSound, Forms!Gate, Forms!RouteAccepts, Forms!Unchecked,
      Forms!Legible, Forms!WithDefaults, Forms!Built, Forms!Request, Forms!Full,
      Forms!StakeForms, Forms!TokenForms, Forms!StakeValid, Forms!TokenValid,
      Forms!SendValid, Forms!IntentValid, Forms!CoinDecimals,
      Forms!IsPositiveDecimal, Forms!IsValidAmount, Forms!Plain, Forms!TokenGate,
      Forms!TokenAmount
<1>10. CASE typed.form = "freeze"
  BY <1>10
  DEF Forms!TypedSound, Forms!Gate, Forms!RouteAccepts, Forms!Unchecked,
      Forms!Legible, Forms!WithDefaults, Forms!Built, Forms!Request, Forms!Full,
      Forms!StakeForms, Forms!TokenForms, Forms!StakeValid, Forms!TokenValid,
      Forms!SendValid, Forms!IntentValid, Forms!CoinDecimals,
      Forms!IsPositiveDecimal, Forms!IsValidAmount, Forms!Plain,
      Forms!TokenSwitch
<1>11. CASE typed.form = "irreversible"
  BY <1>11
  DEF Forms!TypedSound, Forms!Gate, Forms!RouteAccepts, Forms!Unchecked,
      Forms!Legible, Forms!WithDefaults, Forms!Built, Forms!Request, Forms!Full,
      Forms!StakeForms, Forms!TokenForms, Forms!StakeValid, Forms!TokenValid,
      Forms!SendValid, Forms!IntentValid, Forms!CoinDecimals,
      Forms!IsPositiveDecimal, Forms!IsValidAmount, Forms!Plain,
      Forms!TokenSwitch
<1>12. CASE typed.form = "send coins"
  <2>1. Forms!Built(typed) = Forms!Request({typed.amount}, {}, Forms!Full)
    BY <1>12 DEF Forms!Built, Forms!SendCoins
  <2>4. /\ Forms!Built(typed).coins = {typed.amount} /\ Forms!Built(typed).tokens = {}
        /\ Forms!Built(typed).fields = Forms!Full
        /\ Forms!Built(typed).cost = None /\ Forms!Built(typed).margin = None
    BY <2>1 DEF Forms!Request
  <2>5. Forms!WithDefaults(typed, Forms!Built(typed)) = Forms!Built(typed)
    BY <1>12 DEF Forms!WithDefaults, Forms!StakeForms
  <2>2. Forms!IsValidAmount(typed.amount, 9)
    BY <1>12, <2>4 DEF Forms!RouteAccepts, Forms!SendValid
  <2>3. Forms!IsPositiveDecimal(typed.amount) /\ typed.amount.s <= Forms!CoinDecimals
    BY <1>0, <2>2 DEF Forms!IsValidAmount, Forms!CoinDecimals
  <2> QED
    BY <2>3, <2>4, <2>5 DEF Forms!Legible
<1> QED
  BY <1>1, <1>2, <1>3, <1>4, <1>5, <1>6, <1>7, <1>8, <1>9, <1>10, <1>11, <1>12
  DEF Forms!TypedSound, Forms!Forms, Forms!StakeForms, Forms!TokenForms,
      Forms!Unchecked

(* What is on the chain already is not too large.                          *)
LEMMA Bounded ==
    ASSUME Forms!Gate(typed), ~Forms!Unbounded(typed)
    PROVE  ~Forms!TooLarge(Forms!WithDefaults(typed, Forms!Built(typed)))
<1>1. typed.form \in {"market buy", "market sell", "buy nft"}
  BY DEF Forms!Unbounded
<1>2. /\ typed.form \in {"market buy", "market sell"} => Forms!AtMost(typed.amount, Largest)
      /\ typed.form = "buy nft" => Forms!AtMost(typed.price, Largest)
  BY DEF Forms!Gate, Forms!MarketGate, Forms!NftBuyGate
<1>3. /\ Forms!Numbers(Forms!Built(typed)) \subseteq {typed.amount, typed.price}
      /\ typed.form \in {"market buy", "market sell"}
         => Forms!Numbers(Forms!Built(typed)) = {typed.amount}
      /\ typed.form = "buy nft" => Forms!Numbers(Forms!Built(typed)) = {typed.price}
  BY <1>1
  DEF Forms!Numbers, Forms!Built, Forms!MarketOrder, Forms!NftPurchase,
      Forms!Request
<1>4. Forms!Numbers(Forms!WithDefaults(typed, Forms!Built(typed)))
        = Forms!Numbers(Forms!Built(typed))
  BY <1>1
  DEF Forms!Numbers, Forms!Built, Forms!MarketOrder, Forms!NftPurchase,
      Forms!Request, Forms!WithDefaults
<1> QED
  BY <1>1, <1>2, <1>3, <1>4 DEF Forms!TooLarge

LEMMA FormsSound == ASSUME Forms!OpFormsInv PROVE Forms!CodeNotWasted
<1> SUFFICES ASSUME phase \in {"daemon", "accepted"}, ~Forms!Unchecked(typed),
                    ~Forms!Overlong(typed, req)
             PROVE  /\ Forms!Decodes(typed, req)
                    /\ typed.form \in {"market buy", "market sell", "irreversible"}
                       => ~typed.over
  BY DEF Forms!CodeNotWasted
<1>1. /\ Forms!TypedSound /\ Forms!Gate(typed) /\ Forms!RouteAccepts(typed, Forms!Built(typed))
      /\ req = Forms!WithDefaults(typed, Forms!Built(typed))
  BY DEF Forms!OpFormsInv, Forms!ChecksPassed
<1>2. typed.form \in {"market buy", "market sell", "irreversible"} => ~typed.over
  BY <1>1 DEF Forms!Gate, Forms!MarketGate, Forms!ConfirmGate
<1>3. ~Forms!TooLarge(req)
  BY <1>1, Bounded DEF Forms!Overlong
<1>4. Forms!Legible(typed, req)
  BY <1>1, Decoded
<1> QED
  BY <1>2, <1>3, <1>4 DEF Forms!Decodes

(* Once its code is burnt, a request is one that the daemon can decode,    *)
(* unless it is of the forms that let an amount through without its        *)
(* decimals, or without asking whether the daemon can hold it, whatever    *)
(* digits, scales and decimals meet (OrderBook.tsx:252, stake-trade.ts:45, *)
(* validation.ts:20).                                                      *)
THEOREM CodesAreNotWasted ==
    ASSUME Forms!OpFormsConstants
    PROVE  Forms!Spec => []Forms!CodeNotWasted
<1>1. Forms!Init => Forms!OpFormsInv
  BY FormsInit
<1>2. Forms!OpFormsInv /\ [Forms!Next]_Forms!vars => Forms!OpFormsInv'
  BY FormsStep
<1>3. Forms!OpFormsInv => Forms!CodeNotWasted
  BY FormsSound
<1> QED
  BY <1>1, <1>2, <1>3, PTL DEF Forms!Spec
-----------------------------------------------------------------------------
(* OrderBookPage. What is on the page, and the newest load, are of the     *)
(* selected pair.                                                          *)
LEMMA PageInit ==
    ASSUME Book!OrderBookConstants
    PROVE  Book!Init => Book!OrderBookInv
BY DEF Book!OrderBookConstants, Book!Init, Book!OrderBookInv, Book!TypeOK,
   Book!NewestIsSelected, Book!OfSelected, Book!Sending

(* A load that begins for the selected pair supersedes the others.         *)
LEMMA NewLoad ==
    ASSUME Book!OrderBookInv, NEW token \in BookTokens, Book!LoadPairOrders(token),
           selected' = token
    PROVE  /\ loadSeq' \in Nat /\ loads' \subseteq Book!Loads
           /\ Book!OrderBookConstants => Book!NewestIsSelected'
BY DEF Book!OrderBookConstants, Book!OrderBookInv, Book!TypeOK, Book!Loads,
   Book!NewestIsSelected, Book!LoadPairOrders

LEMMA PageStep ==
    ASSUME Book!OrderBookConstants, Book!OrderBookInv, [Book!Next]_Book!vars
    PROVE  Book!OrderBookInv'
<1> USE DEF Book!OrderBookConstants
<1>1. ASSUME NEW t \in BookTokens, Book!SelectPair(t) PROVE Book!OrderBookInv'
  <2>1. loadSeq' \in Nat /\ loads' \subseteq Book!Loads /\ Book!NewestIsSelected'
    BY <1>1, NewLoad DEF Book!SelectPair
  <2> QED
    BY <1>1, <2>1
    DEF Book!OrderBookInv, Book!TypeOK, Book!OfSelected, Book!Sending,
        Book!SelectPair
<1>2. ASSUME NEW t \in BookTokens, Book!TypeTokenId(t) PROVE Book!OrderBookInv'
  BY <1>2
  DEF Book!OrderBookInv, Book!TypeOK, Book!NewestIsSelected, Book!OfSelected,
      Book!Sending, Book!TypeTokenId
<1>3. CASE Book!DeselectPair
  BY <1>3
  DEF Book!OrderBookInv, Book!TypeOK, Book!NewestIsSelected, Book!OfSelected,
      Book!Sending, Book!DeselectPair
<1>4. CASE Book!Refresh
  <2>1. selected \in BookTokens
    BY <1>4 DEF Book!OrderBookInv, Book!TypeOK, Book!Refresh
  <2>2. loadSeq' \in Nat /\ loads' \subseteq Book!Loads /\ Book!NewestIsSelected'
    BY <1>4, <2>1, NewLoad DEF Book!Refresh
  <2> QED
    BY <1>4, <2>2
    DEF Book!OrderBookInv, Book!TypeOK, Book!OfSelected, Book!Sending,
        Book!Refresh
<1>5. ASSUME NEW l \in loads, Book!LoadAnswered(l) PROVE Book!OrderBookInv'
  <2>1. l \in Book!Loads
    BY DEF Book!OrderBookInv, Book!TypeOK
  <2> QED
    BY <1>5, <2>1
    DEF Book!OrderBookInv, Book!TypeOK, Book!Loads, Book!NewestIsSelected,
        Book!OfSelected, Book!Sending, Book!LoadAnswered
<1>6. ASSUME NEW l \in loads, Book!LoadFailed(l) PROVE Book!OrderBookInv'
  BY <1>6
  DEF Book!OrderBookInv, Book!TypeOK, Book!NewestIsSelected, Book!OfSelected,
      Book!Sending, Book!LoadFailed
<1>7. CASE Book!TakeFromBook
  BY <1>7
  DEF Book!OrderBookInv, Book!TypeOK, Book!NewestIsSelected, Book!OfSelected,
      Book!Sending, Book!TakeFromBook
<1>8. CASE Book!SendMarket
  <2>1. selected # None /\ book = selected /\ Book!Effective = selected
    BY <1>8
    DEF Book!OrderBookInv, Book!TypeOK, Book!OfSelected, Book!SendMarket,
        Book!Effective
  <2>2. order' \in Book!Orders /\ order'.pair = selected /\ order'.from = order'.asked
    BY <1>8, <2>1
    DEF Book!OrderBookInv, Book!TypeOK, Book!Orders, Book!SendMarket
  <2> QED
    BY <1>8, <2>2
    DEF Book!OrderBookInv, Book!TypeOK, Book!NewestIsSelected, Book!OfSelected,
        Book!Sending, Book!SendMarket
<1>9. CASE Book!SendLimit
  <2>1. order' \in Book!Orders /\ order'.pair = selected /\ order'.kind = "limit"
    BY <1>9
    DEF Book!OrderBookInv, Book!TypeOK, Book!Orders, Book!SendLimit,
        Book!Effective
  <2> QED
    BY <1>9, <2>1
    DEF Book!OrderBookInv, Book!TypeOK, Book!NewestIsSelected, Book!OfSelected,
        Book!Sending, Book!SendLimit
<1>10. CASE Book!OrderAnswered
  <2>1. CASE Book!LoadPairOrders(order.pair) /\ order.pair # None
    <3>1. selected \in BookTokens /\ order.pair = selected
      BY <1>10, <2>1
      DEF Book!OrderBookInv, Book!TypeOK, Book!OfSelected, Book!OrderAnswered
    <3>2. loadSeq' \in Nat /\ loads' \subseteq Book!Loads /\ Book!NewestIsSelected'
      BY <1>10, <2>1, <3>1, NewLoad DEF Book!OrderAnswered
    <3> QED
      BY <1>10, <3>2
      DEF Book!OrderBookInv, Book!TypeOK, Book!OfSelected, Book!Sending,
          Book!OrderAnswered
  <2>2. CASE UNCHANGED <<loadSeq, loads>>
    BY <1>10, <2>2
    DEF Book!OrderBookInv, Book!TypeOK, Book!NewestIsSelected, Book!OfSelected, Book!Sending,
        Book!OrderAnswered
  <2> QED
    BY <1>10, <2>1, <2>2 DEF Book!OrderAnswered
<1>11. CASE Book!OrderFailed
  BY <1>11
  DEF Book!OrderBookInv, Book!TypeOK, Book!NewestIsSelected, Book!OfSelected,
      Book!Sending, Book!OrderFailed
<1>12. CASE Book!TypePrice
  BY <1>12
  DEF Book!OrderBookInv, Book!TypeOK, Book!NewestIsSelected, Book!OfSelected,
      Book!Sending, Book!TypePrice
<1>13. CASE UNCHANGED Book!vars
  BY <1>13
  DEF Book!OrderBookInv, Book!TypeOK, Book!NewestIsSelected, Book!OfSelected,
      Book!Sending, Book!vars
<1> QED
  BY <1>1, <1>2, <1>3, <1>4, <1>5, <1>6, <1>7, <1>8, <1>9, <1>10, <1>11, <1>12,
     <1>13
  DEF Book!Next

LEMMA PageSound ==
    ASSUME Book!OrderBookConstants, Book!OrderBookInv
    PROVE  Book!TradesWhatItShows
BY DEF Book!OrderBookConstants, Book!OrderBookInv, Book!TypeOK, Book!OfSelected,
   Book!Sending, Book!TradesWhatItShows, Book!Effective

(* For a user who waits for an order and a load before changing the pair,  *)
(* a market order trades the token on its button, and amounts are checked  *)
(* with the decimals of that token, for any tokens and loads               *)
(* (OrderBook.tsx:835, loadSeqRef).                                        *)
THEOREM OrdersAreAsShown ==
    ASSUME Book!OrderBookConstants
    PROVE  Book!Spec => []Book!TradesWhatItShows
<1>1. Book!Init => Book!OrderBookInv
  BY PageInit
<1>2. Book!OrderBookInv /\ [Book!Next]_Book!vars => Book!OrderBookInv'
  BY PageStep
<1>3. Book!OrderBookInv => Book!TradesWhatItShows
  BY PageSound
<1> QED
  BY <1>1, <1>2, <1>3, PTL DEF Book!Spec
-----------------------------------------------------------------------------
(* Favourites. While luck lasts, the writes under way lead from what is    *)
(* stored to what the user left.                                           *)
LEMMA FlipTwice ==
    \A T, list : \A t \in T : list \in SUBSET T =>
        Stars!Flip(list, t) \in SUBSET T /\ Stars!Flip(Stars!Flip(list, t), t) = list
BY DEF Stars!Flip

LEMMA ListInit ==
    ASSUME Stars!FavouritesConstants
    PROVE  Stars!Init => Stars!FavouritesInv
<1> SUFFICES ASSUME Stars!Init PROVE Stars!FavouritesInv
  OBVIOUS
<1>1. store \subseteq StarTokens
  BY DEF Stars!Init, Stars!FavouritesConstants
<1>2. posts = <<>> /\ Len(posts) = 0
  BY DEF Stars!Init
<1>3. Stars!TypeOK
  BY <1>1, <1>2 DEF Stars!Init, Stars!TypeOK, Stars!Lists
<1>4. Stars!WritesLinked
  BY <1>2 DEF Stars!Init, Stars!WritesLinked
<1>5. Stars!PagesCurrent
  BY DEF Stars!Init, Stars!PagesCurrent
<1> QED
  BY <1>3, <1>4, <1>5 DEF Stars!FavouritesInv

(* One of the writes leaves the queue.                                     *)
LEMMA OneLeaves ==
    ASSUME NEW S, posts \in Seq(S), NEW n \in 1..Len(posts), posts' = Stars!Without(n)
    PROVE  /\ Len(posts) \in Nat /\ Len(posts) >= 1
           /\ posts[n] \in S /\ posts[Len(posts)] \in S
           /\ posts' \in Seq(S) /\ Len(posts') = Len(posts) - 1
           /\ posts' = <<>> <=> Len(posts) = 1
           /\ n = 1 => \A k \in 1..Len(posts') : posts'[k] = posts[k + 1]
<1>1. Len(posts) \in Nat /\ Len(posts) >= 1
  BY LenProperties
<1>2. posts[n] \in S /\ posts[Len(posts)] \in S
  BY <1>1, ElementOfSeq
<1>3. posts' = [k \in 1..(Len(posts) - 1) |-> IF k < n THEN posts[k] ELSE posts[k + 1]]
  BY DEF Stars!Without
<1>4. /\ Len(posts) - 1 \in Nat
      /\ \A k \in 1..(Len(posts) - 1) : (IF k < n THEN posts[k] ELSE posts[k + 1]) \in S
  BY <1>1, ElementOfSeq
<1>5. posts' \in Seq(S) /\ Len(posts') = Len(posts) - 1
  BY <1>3, <1>4, IsASeq, LenProperties
<1>6. posts' = <<>> <=> Len(posts) = 1
  BY <1>1, <1>5, EmptySeq
<1>7. n = 1 => \A k \in 1..Len(posts') : posts'[k] = posts[k + 1]
  BY <1>1, <1>3, <1>5
<1> QED
  BY <1>1, <1>2, <1>5, <1>6, <1>7

(* A write joins the others and makes the list what the user left.         *)
LEMMA WriteJoins ==
    ASSUME Stars!TypeOK, Stars!WritesLinked,
           NEW p \in [list : Stars!Lists, before : Stars!Lists, token : StarTokens \cup {None}],
           posts' = Append(posts, p), UNCHANGED store,
           p.before = wanted, p.list = wanted',
           \A n \in 1..Len(posts) : posts[n].token # None => page' = page,
           p.token # None => page' = "tokens" /\ p.list = Stars!Flip(p.before, p.token)
    PROVE  /\ posts' \in Seq([list : Stars!Lists, before : Stars!Lists, token : StarTokens \cup {None}])
           /\ Stars!WritesLinked' /\ posts' # <<>>
           /\ \A n \in 1..Len(posts') :
                posts'[n].token = p.token \/ \E k \in 1..Len(posts) : posts'[n] = posts[k]
<1> DEFINE Post == [list : Stars!Lists, before : Stars!Lists, token : StarTokens \cup {None}]
<1>1. posts \in Seq(Post) /\ Len(posts) \in Nat /\ (posts = <<>> <=> Len(posts) = 0)
  BY EmptySeq DEF Stars!TypeOK
<1> HIDE DEF Post
<1>2. /\ posts' \in Seq(Post) /\ posts' # <<>> /\ Len(posts') = Len(posts) + 1
      /\ posts'[Len(posts) + 1] = p
      /\ \A n \in 1..Len(posts) : posts'[n] = posts[n]
  BY <1>1, Queued DEF Post
<1>3. posts'[1].before = store'
  <2>1. CASE posts = <<>>
    BY <2>1, <1>1, <1>2 DEF Stars!WritesLinked
  <2>2. CASE posts # <<>>
    BY <2>2, <1>1, <1>2 DEF Stars!WritesLinked
  <2> QED
    BY <2>1, <2>2
<1>4. ASSUME NEW n \in 1..Len(posts')
      PROVE  /\ posts'[n].token # None =>
                  page' = "tokens"
                      /\ posts'[n].list = Stars!Flip(posts'[n].before, posts'[n].token)
             /\ n > 1 => posts'[n].before = posts'[n - 1].list
             /\ posts'[n].token = p.token \/ \E k \in 1..Len(posts) : posts'[n] = posts[k]
  <2>1. CASE n = Len(posts) + 1
    <3>1. n > 1 => posts'[n - 1].list = wanted
      BY <2>1, <1>1, <1>2 DEF Stars!WritesLinked
    <3> QED
      BY <2>1, <3>1, <1>2
  <2>2. CASE n \in 1..Len(posts)
    <3>1. n > 1 => n - 1 \in 1..Len(posts)
      BY <2>2, <1>1
    <3> QED
      BY <2>2, <3>1, <1>2 DEF Stars!WritesLinked
  <2> QED
    BY <1>1, <1>2, <1>4, <2>1, <2>2
<1>5. Stars!WritesLinked'
  BY <1>1, <1>2, <1>3, <1>4 DEF Stars!WritesLinked
<1> QED
  BY <1>2, <1>4, <1>5 DEF Post

(* The first write leaves for the row, or is undone as the only one.       *)
LEMMA WriteLeaves ==
    ASSUME Stars!TypeOK, Stars!WritesLinked, posts # <<>>, posts' = Stars!Without(1),
           UNCHANGED page,
           Len(posts) = 1 => wanted' = store',
           Len(posts) > 1 => store' = posts[1].list /\ wanted' = wanted
    PROVE  /\ posts' \in Seq([list : Stars!Lists, before : Stars!Lists, token : StarTokens \cup {None}])
           /\ Stars!WritesLinked'
           /\ \A n \in 1..Len(posts') : n + 1 \in 1..Len(posts) /\ posts'[n] = posts[n + 1]
<1> DEFINE Post == [list : Stars!Lists, before : Stars!Lists, token : StarTokens \cup {None}]
<1>1. posts \in Seq(Post)
  BY DEF Stars!TypeOK
<1> HIDE DEF Post
<1>0. 1 \in 1..Len(posts)
  BY <1>1, EmptySeq
<1>2. /\ Len(posts) \in Nat /\ Len(posts) >= 1
      /\ posts' \in Seq(Post) /\ Len(posts') = Len(posts) - 1
      /\ posts' = <<>> <=> Len(posts) = 1
      /\ \A n \in 1..Len(posts') : posts'[n] = posts[n + 1]
  BY <1>0, <1>1, OneLeaves
<1>3. ASSUME NEW n \in 1..Len(posts')
      PROVE  /\ n + 1 \in 1..Len(posts) /\ posts'[n] = posts[n + 1]
             /\ posts'[n].token # None =>
                  page' = "tokens"
                      /\ posts'[n].list = Stars!Flip(posts'[n].before, posts'[n].token)
             /\ n > 1 => posts'[n].before = posts'[n - 1].list
  <2>1. n + 1 \in 1..Len(posts) /\ n + 1 > 1 /\ (n > 1 => n - 1 \in 1..Len(posts'))
    BY <1>2
  <2>2. /\ posts[n + 1].token # None =>
             page = "tokens"
                 /\ posts[n + 1].list = Stars!Flip(posts[n + 1].before, posts[n + 1].token)
        /\ posts[n + 1].before = posts[(n + 1) - 1].list
    BY <2>1 DEF Stars!WritesLinked
  <2>3. n > 1 => posts'[n - 1] = posts[(n + 1) - 1]
    BY <1>2, <2>1
  <2> QED
    BY <2>1, <2>2, <2>3, <1>2
<1>4. posts' # <<>> => posts'[1].before = store' /\ posts'[Len(posts')].list = wanted'
  <2> SUFFICES ASSUME posts' # <<>>
               PROVE  posts'[1].before = store' /\ posts'[Len(posts')].list = wanted'
    OBVIOUS
  <2>1. Len(posts) > 1 /\ 2 \in 1..Len(posts) /\ Len(posts') \in 1..Len(posts')
          /\ 1 \in 1..Len(posts')
    BY <1>2
  <2>2. posts'[1] = posts[2] /\ posts'[Len(posts')] = posts[Len(posts)]
    BY <1>2, <2>1
  <2>3. posts[2].before = posts[2 - 1].list /\ posts[Len(posts)].list = wanted
    BY <2>1 DEF Stars!WritesLinked
  <2> QED
    BY <2>1, <2>2, <2>3
<1>5. posts' = <<>> => wanted' = store'
  BY <1>2
<1>6. Stars!WritesLinked'
  BY <1>2, <1>3, <1>4, <1>5 DEF Stars!WritesLinked
<1> QED
  BY <1>2, <1>3, <1>6 DEF Post

(* A write that nobody looks at any more is still on its way.              *)
LEMMA Orphaned ==
    ASSUME NEW q \in Seq([list : Stars!Lists, before : Stars!Lists, token : StarTokens \cup {None}])
    PROVE  [n \in 1..Len(q) |-> [q[n] EXCEPT !.token = None]]
             \in Seq([list : Stars!Lists, before : Stars!Lists, token : StarTokens \cup {None}])
<1> DEFINE Post == [list : Stars!Lists, before : Stars!Lists, token : StarTokens \cup {None}]
<1>1. Len(q) \in Nat /\ \A n \in 1..Len(q) : q[n] \in Post
  BY LenProperties, ElementOfSeq
<1>2. \A n \in 1..Len(q) : [q[n] EXCEPT !.token = None] \in Post
  BY <1>1
<1> HIDE DEF Post
<1>3. [n \in 1..Len(q) |-> [q[n] EXCEPT !.token = None]] \in Seq(Post)
  BY <1>1, <1>2, IsASeq
<1> QED
  BY <1>3 DEF Post

LEMMA ListTyped ==
    ASSUME Stars!FavouritesConstants, Stars!TypeOK, [Stars!Next]_Stars!vars
    PROVE  Stars!TypeOK'
<1> USE DEF Stars!FavouritesConstants
<1> DEFINE Post == [list : Stars!Lists, before : Stars!Lists, token : StarTokens \cup {None}]
<1>0. posts \in Seq(Post) /\ ref \in Stars!Lists /\ wanted \in Stars!Lists
        /\ store \in Stars!Lists
  BY DEF Stars!TypeOK
<1>1. CASE Stars!MountReads
  BY <1>1 DEF Stars!TypeOK, Stars!MountReads, Stars!Leaves, Stars!Lists
<1>2. CASE Stars!Draw
  BY <1>2 DEF Stars!TypeOK, Stars!Draw
<1>3. ASSUME NEW t \in StarTokens, Stars!ToggleFavourite(t) PROVE Stars!TypeOK'
  <2> DEFINE p == [list |-> Stars!Flip(ref, t), before |-> ref, token |-> t]
  <2>1. Stars!Flip(ref, t) \in Stars!Lists /\ Stars!Flip(wanted, t) \in Stars!Lists
          /\ p \in Post
    BY <1>0, FlipTwice DEF Stars!Lists
  <2>2. posts' = Append(posts, p) /\ ref' = Stars!Flip(ref, t)
          /\ wanted' \in {Stars!Flip(wanted, t), {}}
    BY <1>3 DEF Stars!ToggleFavourite, Stars!Current, Stars!Leaves
  <2> HIDE DEF p, Post
  <2>3. posts' \in Seq(Post)
    BY <1>0, <2>1, <2>2, Queued
  <2> QED
    BY <1>3, <2>1, <2>2, <2>3
    DEF Stars!TypeOK, Stars!ToggleFavourite, Post, Stars!Lists
<1>4. ASSUME NEW n \in 1..Len(posts), Stars!Saved(n) \/ Stars!SaveFails(n)
      PROVE  Stars!TypeOK'
  <2> HIDE DEF Post
  <2>1. posts' \in Seq(Post) /\ posts[n] \in Post
    BY <1>0, <1>4, OneLeaves DEF Stars!Saved, Stars!SaveFails
  <2>2. /\ posts[n].list \in Stars!Lists /\ posts[n].before \in Stars!Lists
        /\ posts[n].token # None => posts[n].token \in StarTokens
    BY <2>1 DEF Post
  <2>3. posts[n].token # None => Stars!Flip(wanted, posts[n].token) \in Stars!Lists
    BY <1>0, <2>2 DEF Stars!Flip, Stars!Lists
  <2>4. {} \in Stars!Lists
    BY DEF Stars!Lists
  <2> QED
    BY <1>4, <2>1, <2>2, <2>3, <2>4
    DEF Stars!TypeOK, Stars!Saved, Stars!SaveFails, Stars!Leaves, Post
<1>5. ASSUME NEW picked \in SUBSET StarTokens, Stars!ImportVerified(picked)
      PROVE  Stars!TypeOK'
  BY <1>5 DEF Stars!TypeOK, Stars!ImportVerified, Stars!Leaves, Stars!Lists
<1>6. CASE Stars!ImportReads
  BY <1>6 DEF Stars!TypeOK, Stars!ImportReads
<1>7. CASE Stars!ImportWrites
  BY <1>7 DEF Stars!TypeOK, Stars!ImportWrites, Stars!Leaves, Stars!Lists
<1>8. ASSUME NEW wants \in SUBSET StarTokens, Stars!OpenTrading(wants)
      PROVE  Stars!TypeOK'
  <2> HIDE DEF Post
  <2>1. posts' \in Seq(Post)
    BY <1>0, <1>8, Orphaned DEF Stars!OpenTrading, Post
  <2> QED
    BY <1>8, <2>1
    DEF Stars!TypeOK, Stars!OpenTrading, Stars!Leaves, Stars!Lists, Post
<1>9. ASSUME NEW list \in Stars!Lists, NEW old \in Stars!Lists, Stars!Sends(list, old)
      PROVE  posts' \in Seq(Post)
  BY <1>0, <1>9, Queued DEF Stars!Sends
<1>10. CASE Stars!TradingReads
  <2>1. PICK favs \in {store, {}} :
          /\ trade' = [trade EXCEPT !.favs = favs \cup (trade.wants \ favs)]
          /\ IF trade.wants \ favs # {} THEN Stars!Sends(favs \cup (trade.wants \ favs), favs)
             ELSE UNCHANGED posts
    BY <1>10 DEF Stars!TradingReads
  <2>2. trade # None /\ trade.wants \in Stars!Lists
    BY <1>10 DEF Stars!TypeOK, Stars!TradingReads
  <2>3. favs \in Stars!Lists /\ favs \cup (trade.wants \ favs) \in Stars!Lists
    BY <1>0, <2>1, <2>2 DEF Stars!Lists
  <2> HIDE DEF Post
  <2>4. posts' \in Seq(Post)
    BY <1>0, <1>9, <2>1, <2>3
  <2>5. trade' \in [favs : Stars!Lists \cup {None}, wants : Stars!Lists]
    BY <2>1, <2>2, <2>3 DEF Stars!TypeOK
  <2>7. wanted' \in Stars!Lists
    BY <1>0, <1>10, <2>2 DEF Stars!TradingReads, Stars!Leaves, Stars!Lists
  <2>8. UNCHANGED <<store, page, ref, drawn, import>> /\ page = "trading"
    BY <1>10 DEF Stars!TypeOK, Stars!TradingReads
  <2> QED
    BY <2>2, <2>4, <2>5, <2>7, <2>8 DEF Stars!TypeOK, Post
<1>11. CASE Stars!TradingResolves
  <2>1. UNCHANGED <<store, page, ref, drawn, import>> /\ trade' = None
    BY <1>11 DEF Stars!TradingResolves
  <2>2. CASE UNCHANGED <<posts, wanted>>
    BY <2>1, <2>2 DEF Stars!TypeOK
  <2>3. CASE ~UNCHANGED <<posts, wanted>>
    <3>1. PICK added \in SUBSET (StarTokens \ NFTs) :
            /\ Stars!Sends((trade.favs \ NFTs) \cup added, trade.favs)
            /\ wanted' = IF luck = "good" THEN (wanted \ NFTs) \cup added ELSE {}
      BY <1>11, <2>3 DEF Stars!TradingResolves
    <3>2. trade.favs \in Stars!Lists
      BY <1>11 DEF Stars!TypeOK, Stars!TradingResolves
    <3>3. (trade.favs \ NFTs) \cup added \in Stars!Lists /\ wanted' \in Stars!Lists
      BY <1>0, <3>1, <3>2 DEF Stars!Lists
    <3> HIDE DEF Post
    <3>4. posts' \in Seq(Post)
      BY <1>9, <3>1, <3>2, <3>3
    <3> QED
      BY <2>1, <3>3, <3>4 DEF Stars!TypeOK, Post
  <2> QED
    BY <2>2, <2>3
<1>12. CASE Stars!OpenTokens
  BY <1>12 DEF Stars!TypeOK, Stars!OpenTokens, Stars!Lists
<1>13. CASE UNCHANGED Stars!vars
  BY <1>13 DEF Stars!TypeOK, Stars!vars
<1> QED
  BY <1>1, <1>2, <1>3, <1>4, <1>5, <1>6, <1>7, <1>8, <1>10, <1>11, <1>12, <1>13
  DEF Stars!Next

(* Luck that holds has held, and every step keeps what goes with it; it is *)
(* restored only by a fresh look at a list to which nothing is on its way. *)
LEMMA ListLinked ==
    ASSUME Stars!FavouritesConstants, Stars!FavouritesInv, [Stars!Next]_Stars!vars,
           luck' = "good"
    PROVE  Stars!WritesLinked' /\ Stars!PagesCurrent'
<1> USE DEF Stars!FavouritesConstants
<1> DEFINE Post == [list : Stars!Lists, before : Stars!Lists, token : StarTokens \cup {None}]
<1>0. Stars!TypeOK /\ posts \in Seq(Post) /\ ref \in Stars!Lists /\ wanted \in Stars!Lists
        /\ store \in Stars!Lists
  BY DEF Stars!FavouritesInv, Stars!TypeOK
<1>1. CASE Stars!OpenTokens
  <2>1. /\ posts = <<>> /\ posts' = <<>> /\ Len(posts) = 0 /\ UNCHANGED <<store, import>>
        /\ wanted' = IF luck = "good" THEN wanted ELSE store
        /\ page' = "opening" /\ trade' = None /\ page = "trading"
    BY <1>1 DEF Stars!OpenTokens
  <2>2. wanted' = store /\ import = None
    BY <1>0, <2>1 DEF Stars!FavouritesInv, Stars!TypeOK, Stars!WritesLinked
  <2> QED
    BY <2>1, <2>2 DEF Stars!WritesLinked, Stars!PagesCurrent
<1>2. CASE ~Stars!OpenTokens
  <2>1. luck = "good"
    BY <1>2
    DEF Stars!Next, Stars!vars, Stars!MountReads, Stars!Draw,
        Stars!ToggleFavourite, Stars!Saved, Stars!SaveFails,
        Stars!ImportVerified,
         Stars!ImportReads, Stars!ImportWrites, Stars!OpenTrading, Stars!TradingReads, Stars!TradingResolves, Stars!LuckNeeds
  <2>2. Stars!WritesLinked /\ Stars!PagesCurrent
    BY <2>1 DEF Stars!FavouritesInv
  <2>3. CASE Stars!MountReads
    BY <2>2, <2>3
    DEF Stars!WritesLinked, Stars!PagesCurrent, Stars!MountReads,
        Stars!LuckNeeds, Stars!TypeOK
  <2>4. CASE Stars!Draw
    BY <2>2, <2>4 DEF Stars!WritesLinked, Stars!PagesCurrent, Stars!Draw
  <2>5. ASSUME NEW t \in StarTokens, Stars!ToggleFavourite(t)
        PROVE  Stars!WritesLinked' /\ Stars!PagesCurrent'
    <3> DEFINE p == [list |-> Stars!Flip(ref, t), before |-> ref, token |-> t]
    <3>1. /\ page = "tokens" /\ import = None /\ wanted = ref
          /\ wanted' = Stars!Flip(wanted, t) /\ ref' = Stars!Flip(ref, t)
             /\ posts' = Append(posts, p)
          /\ UNCHANGED <<store, page, drawn, import, trade>>
      BY <2>2, <2>5
      DEF Stars!PagesCurrent, Stars!ToggleFavourite, Stars!Current,
          Stars!LuckNeeds, Stars!Leaves
    <3>2. p \in Post /\ p.before = wanted /\ p.list = wanted' /\ p.token = t /\ t # None
      BY <1>0, <3>1, FlipTwice DEF Stars!Lists
    <3>3. p.list = Stars!Flip(p.before, p.token)
      OBVIOUS
    <3> HIDE DEF p
    <3>4. /\ Stars!WritesLinked' /\ posts' # <<>>
          /\ \A n \in 1..Len(posts') :
               posts'[n].token = p.token \/ \E k \in 1..Len(posts) : posts'[n] = posts[k]
      BY <1>0, <2>2, <3>1, <3>2, <3>3, WriteJoins
    <3>5. Stars!PagesCurrent'
      BY <1>0, <2>2, <3>1, <3>2, <3>4 DEF Stars!PagesCurrent, Stars!TypeOK
    <3> QED
      BY <3>4, <3>5
  <2>6. ASSUME NEW n \in 1..Len(posts), Stars!Saved(n)
        PROVE  Stars!WritesLinked' /\ Stars!PagesCurrent'
    <3>1. /\ n = 1 /\ posts # <<>> /\ posts' = Stars!Without(1) /\ store' = posts[1].list
          /\ wanted' = wanted /\ UNCHANGED <<page, ref, drawn, import, trade>>
      BY <2>6, EmptySeq DEF Stars!Saved, Stars!LuckNeeds, Stars!Leaves
    <3>2. Len(posts) = 1 => wanted' = store'
      BY <2>2, <3>1 DEF Stars!WritesLinked
    <3>3. /\ Stars!WritesLinked'
          /\ \A k \in 1..Len(posts') : k + 1 \in 1..Len(posts) /\ posts'[k] = posts[k + 1]
      BY <1>0, <2>2, <3>1, <3>2, WriteLeaves
    <3>4. Stars!PagesCurrent'
      BY <2>2, <3>1, <3>3 DEF Stars!PagesCurrent
    <3> QED
      BY <3>3, <3>4
  <2>7. ASSUME NEW n \in 1..Len(posts), Stars!SaveFails(n)
        PROVE  Stars!WritesLinked' /\ Stars!PagesCurrent'
    <3>1. /\ Len(posts) = 1 /\ n = 1 /\ posts # <<>> /\ posts' = Stars!Without(1)
             /\ store' = store
          /\ posts[1].token # None /\ ref' = posts[1].before
          /\ wanted' = Stars!Flip(wanted, posts[1].token)
             /\ UNCHANGED <<page, drawn, import, trade>>
      BY <2>7, EmptySeq DEF Stars!SaveFails, Stars!LuckNeeds, Stars!Leaves
    <3>2. /\ posts[1].list = Stars!Flip(posts[1].before, posts[1].token) /\ page = "tokens"
          /\ posts[1].before = store /\ posts[1].list = wanted
      BY <2>2, <3>1 DEF Stars!WritesLinked
    <3> HIDE DEF Post
    <3>3. posts[1] \in Post
      BY <1>0, <3>1, ElementOfSeq
    <3>4. posts[1].before \in Stars!Lists /\ posts[1].token \in StarTokens
      BY <3>1, <3>3 DEF Post
    <3>5. wanted' = store' /\ ref' = wanted'
      BY <3>1, <3>2, <3>4, FlipTwice DEF Stars!Lists
    <3>6. /\ Stars!WritesLinked'
          /\ \A k \in 1..Len(posts') : k + 1 \in 1..Len(posts) /\ posts'[k] = posts[k + 1]
      BY <1>0, <2>2, <3>1, <3>5, WriteLeaves
    <3>7. Stars!PagesCurrent'
      BY <1>0, <2>2, <3>1, <3>2, <3>5, <3>6 DEF Stars!PagesCurrent, Stars!TypeOK
    <3> QED
      BY <3>6, <3>7
  <2>8. ASSUME NEW picked \in SUBSET StarTokens, Stars!ImportVerified(picked)
        PROVE  Stars!WritesLinked' /\ Stars!PagesCurrent'
    BY <2>2, <2>8
    DEF Stars!WritesLinked, Stars!PagesCurrent, Stars!ImportVerified,
        Stars!LuckNeeds, Stars!Leaves, Stars!TypeOK
  <2>9. CASE Stars!ImportReads
    BY <1>0, <2>2, <2>9
    DEF Stars!WritesLinked, Stars!PagesCurrent, Stars!ImportReads, Stars!TypeOK
  <2>10. CASE Stars!ImportWrites
    BY <1>0, <2>2, <2>10
    DEF Stars!WritesLinked, Stars!PagesCurrent, Stars!ImportWrites,
        Stars!LuckNeeds, Stars!Leaves, Stars!TypeOK
  <2>11. ASSUME NEW wants \in SUBSET StarTokens, Stars!OpenTrading(wants)
         PROVE  Stars!WritesLinked' /\ Stars!PagesCurrent'
    <3>1. /\ posts = <<>> /\ page' = "trading" /\ import' = None /\ store' = store
          /\ trade' = [favs |-> None, wants |-> wants] /\ wanted' = wanted
          /\ posts' = [n \in 1..Len(posts) |-> [posts[n] EXCEPT !.token = None]]
      BY <2>11 DEF Stars!OpenTrading, Stars!LuckNeeds, Stars!Leaves
    <3>2. posts' = <<>>
      BY <3>1
    <3> QED
      BY <2>2, <3>1, <3>2 DEF Stars!WritesLinked, Stars!PagesCurrent
  <2>12. ASSUME NEW list \in Stars!Lists, NEW old \in Stars!Lists, Stars!Sends(list, old),
                UNCHANGED <<store, page>>,
                old = wanted, list = wanted'
         PROVE  Stars!WritesLinked' /\ posts' # <<>>
    <3> DEFINE p == [list |-> list, before |-> old, token |-> None]
    <3>1. p \in Post /\ p.before = wanted /\ p.list = wanted' /\ p.token = None
      BY <2>12
    <3>2. posts' = Append(posts, p)
      BY <2>12 DEF Stars!Sends
    <3> HIDE DEF p
    <3> QED
      BY <1>0, <2>2, <2>12, <3>1, <3>2, WriteJoins
  <2>13. CASE Stars!TradingReads
    <3>1. PICK favs \in {store, {}} :
            /\ trade' = [trade EXCEPT !.favs = favs \cup (trade.wants \ favs)]
            /\ IF trade.wants \ favs # {} THEN Stars!Sends(favs \cup (trade.wants \ favs), favs)
               ELSE UNCHANGED posts
            /\ Stars!LuckNeeds(favs = store)
      BY <2>13 DEF Stars!TradingReads
    <3>2. favs = store
      BY <3>1 DEF Stars!LuckNeeds
    <3>3. /\ trade # None /\ trade.favs = None /\ trade.wants \in Stars!Lists /\ posts = <<>>
          /\ page = "trading" /\ import = None /\ wanted = store
          /\ wanted' = wanted \cup trade.wants /\ UNCHANGED <<store, page, import>>
      BY <1>0, <2>2, <2>13
      DEF Stars!TradingReads, Stars!TypeOK, Stars!PagesCurrent,
          Stars!WritesLinked, Stars!Leaves
    <3>4. store \cup (trade.wants \ store) = wanted' /\ wanted' \in Stars!Lists
      BY <1>0, <3>3 DEF Stars!Lists
    <3>5. Stars!WritesLinked' /\ (trade.wants \ store # {} => posts' # <<>>)
      <4>1. CASE trade.wants \ store # {}
        BY <4>1, <1>0, <2>12, <3>1, <3>2, <3>3, <3>4
      <4>2. CASE trade.wants \ store = {}
        <5>1. wanted' = wanted /\ posts' = posts
          BY <4>2, <3>1, <3>2, <3>3
        <5> QED
          BY <5>1, <4>2, <2>2, <3>3 DEF Stars!WritesLinked
      <4> QED
        BY <4>1, <4>2
    <3>6. trade'.favs = wanted' /\ trade'.favs # None
      BY <1>0, <3>1, <3>2, <3>3, <3>4 DEF Stars!TypeOK, Stars!Lists
    <3>7. Stars!PagesCurrent'
      BY <3>3, <3>6 DEF Stars!PagesCurrent
    <3> QED
      BY <3>5, <3>7
  <2>14. CASE Stars!TradingResolves
    <3>1. /\ UNCHANGED <<store, page, ref, drawn, import>> /\ trade' = None
          /\ page = "trading" /\ import = None /\ trade # None /\ trade.favs = wanted
      BY <1>0, <2>2, <2>14
      DEF Stars!TradingResolves, Stars!TypeOK, Stars!PagesCurrent
    <3>2. Stars!PagesCurrent'
      BY <3>1 DEF Stars!PagesCurrent
    <3>3. CASE UNCHANGED <<posts, wanted>>
      BY <2>2, <3>1, <3>2, <3>3 DEF Stars!WritesLinked
    <3>4. CASE ~UNCHANGED <<posts, wanted>>
      <4>1. PICK added \in SUBSET (StarTokens \ NFTs) :
              /\ Stars!Sends((trade.favs \ NFTs) \cup added, trade.favs)
              /\ wanted' = IF luck = "good" THEN (wanted \ NFTs) \cup added ELSE {}
        BY <2>14, <3>4 DEF Stars!TradingResolves
      <4>2. wanted' = (trade.favs \ NFTs) \cup added /\ wanted' \in Stars!Lists
        BY <1>0, <2>1, <3>1, <4>1 DEF Stars!Lists
      <4> QED
        BY <1>0, <2>12, <3>1, <3>2, <4>1, <4>2
    <3> QED
      BY <3>3, <3>4
  <2>15. CASE UNCHANGED Stars!vars
    BY <2>2, <2>15 DEF Stars!WritesLinked, Stars!PagesCurrent, Stars!vars
  <2> QED
    BY <1>2, <2>3, <2>4, <2>5, <2>6, <2>7, <2>8, <2>9, <2>10, <2>11, <2>13,
       <2>14, <2>15
    DEF Stars!Next
<1> QED
  BY <1>1, <1>2

LEMMA ListStep ==
    ASSUME Stars!FavouritesConstants, Stars!FavouritesInv, [Stars!Next]_Stars!vars
    PROVE  Stars!FavouritesInv'
BY ListTyped, ListLinked DEF Stars!FavouritesInv

LEMMA ListSound == ASSUME Stars!FavouritesInv PROVE Stars!NoLostUpdate
BY DEF Stars!FavouritesInv, Stars!WritesLinked, Stars!PagesCurrent,
   Stars!NoLostUpdate, Stars!Settled

(* While luck lasts (reads come before toggles and succeed, writes arrive  *)
(* in order with their answers, none fails before a later one, imports run *)
(* alone and pages wait for their writes), the list of favourites that is  *)
(* stored and shown is what the user left in it, for any tokens, queue of  *)
(* writes, imports and merges (TokenSearch.tsx, OrderBook.tsx).            *)
THEOREM ListIsAsLeft ==
    ASSUME Stars!FavouritesConstants
    PROVE  Stars!Spec => []Stars!NoLostUpdate
<1>1. Stars!Init => Stars!FavouritesInv
  BY ListInit
<1>2. Stars!FavouritesInv /\ [Stars!Next]_Stars!vars => Stars!FavouritesInv'
  BY ListStep
<1>3. Stars!FavouritesInv => Stars!NoLostUpdate
  BY ListSound
<1> QED
  BY <1>1, <1>2, <1>3, PTL DEF Stars!Spec
-----------------------------------------------------------------------------
(* IssuedTokens. Only an issuance, a merge and a removal touch the rows.   *)
LEMMA Fetching ==
    /\ Issued!Free \in Issued!Jobs
    /\ \A rows \in SUBSET OwnTokens : Issued!Sent(rows) \in Issued!Jobs
       /\ Issued!Sent(rows) # Issued!Free
    /\ \A how : Issued!Rows(how) \in SUBSET OwnTokens
    /\ \A rows \in SUBSET OwnTokens : Issued!Opened(rows) \in [FetchSlots -> Issued!Jobs]
BY DEF Issued!Free, Issued!Sent, Issued!Jobs, Issued!Rows, Issued!Opened

LEMMA IssuedTyped == Issued!Init => Issued!TypeOK
<1> SUFFICES ASSUME Issued!Init PROVE Issued!TypeOK
  OBVIOUS
<1>1. jobs \in [FetchSlots -> Issued!Jobs]
  BY Fetching DEF Issued!Init
<1> QED
  BY <1>1 DEF Issued!Init, Issued!TypeOK

(* A step that leaves the rows alone, and lets no scan that has looked     *)
(* something up end.                                                       *)
LEMMA RowsRest ==
    ASSUME Issued!TypeOK, stored' = stored, clicks' \in Nat, indexed' \subseteq OwnTokens,
           jobs' \in [FetchSlots -> Issued!Jobs],
           \A s \in FetchSlots \cap {"wallet", "indexer"} : jobs[s].at = "details"
               => jobs'[s] = jobs[s]
    PROVE  Issued!TypeOK' /\ Issued!RowsKept
<1>1. Issued!Free.at # "details"
  BY DEF Issued!Free
<1> QED
  BY <1>1 DEF Issued!TypeOK, Issued!RowsKept

LEMMA Answers ==
    ASSUME Issued!TypeOK, NEW s \in FetchSlots,
           Issued!Read(s) \/ Issued!InfosAnswered(s) \/ Issued!PendingAnswered(s)
               \/ Issued!ScanAnswered(s)
    PROVE  Issued!TypeOK' /\ Issued!RowsKept
<1>1. /\ UNCHANGED <<stored, clicks, indexed>> /\ jobs[s].at # "details"
      /\ jobs[s] \in Issued!Jobs /\ jobs \in [FetchSlots -> Issued!Jobs]
  BY DEF Issued!Read, Issued!InfosAnswered, Issued!PendingAnswered,
     Issued!ScanAnswered, Issued!page, Issued!chain, Issued!TypeOK
<1>2. PICK j : jobs' = [jobs EXCEPT ![s] = j] /\ j \in Issued!Jobs
  <2>1. CASE Issued!Read(s)
    <3>1. PICK failing \in BOOLEAN :
            jobs' = [jobs EXCEPT ![s] = [jobs[s] EXCEPT !.at = "read",
                       !.found = IF failing THEN {} ELSE Issued!Known(jobs[s].rows)]]
      BY <2>1 DEF Issued!Read, Issued!Become
    <3>2. Issued!Known(jobs[s].rows) \subseteq OwnTokens
      BY <1>1 DEF Issued!Known, Issued!Jobs
    <3> DEFINE j == [jobs[s] EXCEPT !.at = "read",
                        !.found = IF failing THEN {} ELSE Issued!Known(jobs[s].rows)]
    <3>3. j \in Issued!Jobs
      BY <1>1, <3>2 DEF Issued!Jobs
    <3>4. jobs' = [jobs EXCEPT ![s] = j]
      BY <3>1
    <3> HIDE DEF j
    <3> QED
      BY <3>3, <3>4
  <2>2. CASE Issued!InfosAnswered(s)
    <3> DEFINE missing == {t \in jobs[s].rows \ jobs[s].found : stored[t] = "issued"}
    <3>1. PICK old \in SUBSET missing :
            jobs' = [jobs EXCEPT ![s] = IF old = {} THEN Issued!Free
                       ELSE [at |-> "pending", rows |-> old, found |-> {}]]
      BY <2>2 DEF Issued!InfosAnswered, Issued!Become
    <3>2. old \in SUBSET OwnTokens
      BY <1>1 DEF Issued!Jobs
    <3> DEFINE j == IF old
        = {} THEN Issued!Free ELSE [at |-> "pending", rows |-> old, found |-> {}]
    <3>3. j \in Issued!Jobs
      <4>1. [at |-> "pending", rows |-> old, found |-> {}] \in Issued!Jobs
        BY <3>2 DEF Issued!Jobs
      <4> QED
        BY <4>1, Fetching
    <3>4. jobs' = [jobs EXCEPT ![s] = j]
      BY <3>1
    <3> HIDE DEF j
    <3> QED
      BY <3>3, <3>4
  <2>3. CASE Issued!PendingAnswered(s)
    BY <2>3, Fetching DEF Issued!PendingAnswered, Issued!Become
  <2>4. CASE Issued!ScanAnswered(s)
    <3> DEFINE held == IF s = "wallet" THEN Issued!Unspent ELSE Issued!Authority
    <3>1. PICK found \in {{}, held} :
            jobs' = [jobs EXCEPT ![s] = IF found \subseteq jobs[s].rows THEN Issued!Free
                       ELSE [jobs[s] EXCEPT !.at = "details", !.found = found \ jobs[s].rows]]
      BY <2>4 DEF Issued!ScanAnswered, Issued!Become
    <3>2. held \subseteq OwnTokens
      BY DEF Issued!Unspent, Issued!Authority, Issued!TypeOK
    <3>3. found \ jobs[s].rows \in SUBSET OwnTokens
      BY <3>2
    <3> HIDE DEF held
    <3> DEFINE j == IF found \subseteq jobs[s].rows THEN Issued!Free
                    ELSE [jobs[s] EXCEPT !.at = "details", !.found = found \ jobs[s].rows]
    <3>4. j \in Issued!Jobs
      <4>1. [jobs[s] EXCEPT !.at = "details", !.found = found \ jobs[s].rows] \in Issued!Jobs
        BY <1>1, <3>3 DEF Issued!Jobs
      <4> QED
        BY <4>1, Fetching
    <3>5. jobs' = [jobs EXCEPT ![s] = j]
      BY <3>1
    <3> HIDE DEF j
    <3> QED
      BY <3>4, <3>5
  <2> QED
    BY <2>1, <2>2, <2>3, <2>4
<1>3. jobs' \in [FetchSlots -> Issued!Jobs]
  BY <1>1, <1>2
<1>4. \A u \in FetchSlots : u # s => jobs'[u] = jobs[u]
  BY <1>1, <1>2
<1> QED
  BY <1>1, <1>3, <1>4, RowsRest DEF Issued!TypeOK

(* What a scan has looked up becomes a row, and no other row goes.         *)
LEMMA Merges ==
    ASSUME Issued!TypeOK, NEW s \in FetchSlots, Issued!DetailsAnswered(s)
    PROVE  Issued!TypeOK' /\ Issued!RowsKept
<1>1. /\ jobs[s].at = "details" /\ stored' = Issued!Merged(jobs[s])
         /\ UNCHANGED <<clicks, indexed>>
      /\ jobs' = [jobs EXCEPT ![s] = Issued!Free]
      /\ jobs \in [FetchSlots -> Issued!Jobs] /\ jobs[s].found \subseteq OwnTokens
  BY DEF Issued!DetailsAnswered, Issued!Become, Issued!chain, Issued!TypeOK,
     Issued!Jobs
<1>2. /\ \A t \in OwnTokens : stored[t] # "none" => stored'[t] # "none"
      /\ \A t \in jobs[s].found : stored'[t] # "none"
      /\ stored' \in [OwnTokens -> {"none", "issued", "scan"}]
  BY <1>1 DEF Issued!Merged, Issued!TypeOK
<1>3. /\ \A u \in FetchSlots : u # s => jobs'[u] = jobs[u]
      /\ jobs' \in [FetchSlots -> Issued!Jobs] /\ Issued!Free.at # "details"
  BY <1>1, Fetching DEF Issued!Free
<1>4. Issued!TypeOK'
  BY <1>1, <1>2, <1>3 DEF Issued!TypeOK
<1>5. Issued!RowsKept
  BY <1>1, <1>2, <1>3 DEF Issued!RowsKept
<1> QED
  BY <1>4, <1>5

LEMMA Removes ==
    ASSUME Issued!TypeOK, NEW t \in OwnTokens,
           Issued!Remove(t) \/ \E s \in FetchSlots : Issued!RemoveUndrawn(s, t)
    PROVE  Issued!TypeOK' /\ Issued!RowsKept
<1>1. /\ clicks' = clicks + 1 /\ clicks \in Nat /\ live[t] = "null" /\ indexed' = indexed
      /\ stored' = [stored EXCEPT ![t] = "none"]
  BY DEF Issued!Remove, Issued!RemoveUndrawn, Issued!Removable, Issued!chain,
     Issued!TypeOK
<1>2. jobs' \in [FetchSlots -> Issued!Jobs]
  BY Fetching
  DEF Issued!Remove, Issued!RemoveUndrawn, Issued!Become, Issued!TypeOK
<1>3. /\ clicks' \in Nat /\ clicks' > clicks /\ clicks' # clicks
      /\ \A u \in OwnTokens : u # t => stored'[u] = stored[u]
      /\ stored' \in [OwnTokens -> {"none", "issued", "scan"}]
  BY <1>1 DEF Issued!TypeOK
<1>4. Issued!TypeOK'
  BY <1>1, <1>2, <1>3 DEF Issued!TypeOK
<1>5. Issued!RowsKept
  BY <1>1, <1>3 DEF Issued!RowsKept
<1> QED
  BY <1>4, <1>5

LEMMA Refreshes ==
    ASSUME Issued!TypeOK, NEW t \in OwnTokens, Issued!Issue(t)
    PROVE  Issued!TypeOK' /\ Issued!RowsKept
<1>1. /\ stored' = [stored EXCEPT ![t] = "issued"] /\ UNCHANGED <<clicks, indexed>>
      /\ jobs' = Issued!Opened(Issued!Rows(stored'))
  BY DEF Issued!Issue
<1>2. jobs' \in [FetchSlots -> Issued!Jobs] /\ Issued!Rows(stored') \in SUBSET OwnTokens
  BY <1>1, Fetching
<1>3. \A s \in FetchSlots \cap {"wallet", "indexer"} : jobs'[s] # Issued!Free
  BY <1>1, <1>2, Fetching DEF Issued!Opened
<1>4. Issued!TypeOK'
  BY <1>1, <1>2 DEF Issued!TypeOK
<1>5. Issued!RowsKept
  BY <1>1, <1>3 DEF Issued!RowsKept, Issued!TypeOK
<1> QED
  BY <1>4, <1>5

LEMMA Starts ==
    ASSUME Issued!TypeOK,
           Issued!Chain \/ Issued!ScanRefused \/ Issued!NewBlock \/ Issued!Resync
               \/ Issued!Refresh \/ Issued!Retry
    PROVE  Issued!TypeOK' /\ Issued!RowsKept
<1>1. stored' = stored /\ clicks' \in Nat /\ indexed' \subseteq OwnTokens
  BY DEF Issued!Chain, Issued!ScanRefused, Issued!NewBlock, Issued!Resync,
     Issued!Refresh, Issued!Retry, Issued!page, Issued!chain, Issued!TypeOK
<1>2. jobs \in [FetchSlots -> Issued!Jobs] /\ Issued!Rows(stored) \in SUBSET OwnTokens
        /\ Issued!Sent(Issued!Rows(stored)) \in Issued!Jobs
  BY Fetching DEF Issued!TypeOK
<1>3. Issued!Free \in Issued!Jobs /\ Issued!Free.at = "free"
  BY Fetching DEF Issued!Free
<1>4. /\ Issued!Look(Issued!Rows(stored)) \in [FetchSlots -> Issued!Jobs]
      /\ \A s \in FetchSlots \ {"infos", "again"} : Issued!Look(Issued!Rows(stored))[s]
         = jobs[s]
  BY <1>2 DEF Issued!Look
<1>5. CASE Issued!Chain
  BY <1>1, <1>2, <1>5, RowsRest DEF Issued!Chain
<1>6. CASE Issued!ScanRefused
  <2>1. jobs["wallet"].at = "sent" /\ jobs' = [jobs EXCEPT !["wallet"] = Issued!Free]
    BY <1>6 DEF Issued!ScanRefused, Issued!Become
  <2>2. /\ jobs' \in [FetchSlots -> Issued!Jobs]
        /\ \A s \in FetchSlots : jobs[s].at = "details" => jobs'[s] = jobs[s]
    BY <1>2, <1>3, <2>1
  <2> QED
    BY <1>1, <2>2, RowsRest
<1>7. CASE Issued!NewBlock \/ Issued!Refresh
  <2>1. jobs' = Issued!Look(Issued!Rows(stored))
    BY <1>7 DEF Issued!NewBlock, Issued!Refresh
  <2> QED
    BY <1>1, <1>4, <2>1, RowsRest
<1>8. CASE Issued!Resync
  <2>1. /\ jobs["wallet"] = Issued!Free
        /\ jobs' = [Issued!Look(Issued!Rows(stored)) EXCEPT !["wallet"]
           = Issued!Sent(Issued!Rows(stored))]
    BY <1>8 DEF Issued!Resync
  <2>2. /\ jobs' \in [FetchSlots -> Issued!Jobs]
        /\ \A s \in FetchSlots \cap {"wallet", "indexer"} : jobs[s].at = "details"
           => jobs'[s] = jobs[s]
    BY <1>2, <1>3, <1>4, <2>1
  <2> QED
    BY <1>1, <2>2, RowsRest
<1>9. CASE Issued!Retry
  <2>1. jobs["wallet"] = Issued!Free
          /\ jobs' = [jobs EXCEPT !["wallet"] = Issued!Sent(Issued!Rows(stored))]
    BY <1>9 DEF Issued!Retry, Issued!Become
  <2>2. /\ jobs' \in [FetchSlots -> Issued!Jobs]
        /\ \A s \in FetchSlots : jobs[s].at = "details" => jobs'[s] = jobs[s]
    BY <1>2, <1>3, <2>1
  <2> QED
    BY <1>1, <2>2, RowsRest
<1> QED
  BY <1>5, <1>6, <1>7, <1>8, <1>9

LEMMA IssuedStep ==
    ASSUME Issued!TypeOK, [Issued!Next]_Issued!vars
    PROVE  Issued!TypeOK' /\ [Issued!RowsKept]_Issued!vars
<1>1. ASSUME NEW t \in OwnTokens, Issued!Issue(t)
      PROVE  Issued!TypeOK' /\ Issued!RowsKept
  BY <1>1, Refreshes
<1>2. ASSUME NEW t \in OwnTokens, Issued!Remove(t)
      PROVE  Issued!TypeOK' /\ Issued!RowsKept
  BY <1>2, Removes
<1>3. ASSUME NEW s \in FetchSlots, Issued!Deliver(s)
      PROVE  Issued!TypeOK' /\ Issued!RowsKept
  BY <1>3, Answers, Merges DEF Issued!Deliver
<1>4. ASSUME NEW s \in FetchSlots, NEW t \in OwnTokens, Issued!RemoveUndrawn(s, t)
      PROVE  Issued!TypeOK' /\ Issued!RowsKept
  BY <1>4, Removes
<1>5. CASE Issued!Chain \/ Issued!ScanRefused \/ Issued!NewBlock \/ Issued!Resync
             \/ Issued!Refresh \/ Issued!Retry
  BY <1>5, Starts
<1>6. CASE UNCHANGED Issued!vars
  BY <1>6 DEF Issued!TypeOK, Issued!vars, Issued!page, Issued!chain
<1> QED
  BY <1>1, <1>2, <1>3, <1>4, <1>5, <1>6 DEF Issued!Next

(* A row of an issued token goes only when the user removes it, and only   *)
(* while nothing is known of the token; what a scan has looked up becomes  *)
(* a row, unless the user removes another one before it is drawn, for any  *)
(* tokens and scans that overlap (IssuedTokensPanel.tsx:216, :267, :173).  *)
THEOREM RowsAreKept ==
    Issued!Init /\ [][Issued!Next]_(Issued!vars) => [][Issued!RowsKept]_Issued!vars
<1>1. Issued!Init => Issued!TypeOK
  BY IssuedTyped
<1>2. Issued!TypeOK /\ [Issued!Next]_Issued!vars => Issued!TypeOK'
  BY IssuedStep
<1>3. Issued!TypeOK /\ [Issued!Next]_Issued!vars => [Issued!RowsKept]_Issued!vars
  BY IssuedStep
<1> QED
  BY <1>1, <1>2, <1>3, PTL
-----------------------------------------------------------------------------
(* Bridge. One submission at a time, the newest, and every request that    *)
(* was posted is still visible, made or not.                               *)
(* The elements of a sequence, and a wider set they are of.                *)
LEMMA Widened ==
    ASSUME NEW R, NEW S, NEW h \in Seq(R), R \subseteq S
    PROVE  h \in Seq(S) /\ \A i \in 1..Len(h) : h[i] \in R
OBVIOUS

(* A row of the history as it is, and the rows once another is on top.     *)
LEMMA TopRow ==
    ASSUME NEW R, NEW h \in Seq(R), NEW r \in R, NEW limit \in Nat \ {0}, Len(h) <= limit
    PROVE  LET all == <<r>> \o h
               new == IF Len(all) <= limit THEN all ELSE SubSeq(all, 1, limit)
           IN  /\ new \in Seq(R) /\ Len(new) <= limit /\ 1 <= Len(new)
               /\ new[1] = r /\ \A i \in 2..Len(new) : new[i] = h[i - 1]
               /\ Len(new) = Len(h) + 1 \/ (Len(new) = limit /\ Len(h) = limit)
<1> DEFINE all == <<r>> \o h
<1>1. all \in Seq(R) /\ Len(all) = Len(h) + 1
  OBVIOUS
<1>2. all[1] = r /\ \A i \in 2..Len(all) : all[i] = h[i - 1]
  OBVIOUS
<1> HIDE DEF all
<1>3. CASE Len(all) <= limit
  BY <1>1, <1>2, <1>3 DEF all
<1>4. CASE ~(Len(all) <= limit)
  <2> DEFINE new == SubSeq(all, 1, limit)
  <2>1. Len(h) = limit /\ limit \in 1..Len(all)
    BY <1>1, <1>4
  <2>2. new \in Seq(R) /\ Len(new) = limit /\ \A i \in 1..limit : new[i] = all[i]
    BY <1>1, <2>1, SubSeqProperties
  <2> QED
    BY <1>2, <1>4, <2>1, <2>2 DEF all
<1> QED
  BY <1>3, <1>4

LEMMA CardInit == ASSUME Card!BridgeConstants PROVE Card!Init => Card!BridgeInv
<1> SUFFICES ASSUME Card!Init PROVE Card!BridgeInv
  OBVIOUS
<1>1. /\ attempts = 0 /\ subs = {} /\ history = <<>>
      /\ slot = None /\ tracked = None /\ progress = None
  BY DEF Card!Init
<1>2. Card!TypeOK
  BY <1>1 DEF Card!Init, Card!TypeOK, Card!BridgeConstants
<1>3. Card!OneAtATime /\ Card!NewestFirst /\ Card!Posted
  BY <1>1
  DEF Card!Init, Card!OneAtATime, Card!NewestFirst, Card!Posted,
      Card!BridgeConstants
<1> QED
  BY <1>1, <1>2, <1>3
  DEF Card!BridgeInv, Card!PageAlone, Card!InStep, Card!InFlight, Card!Init

(* A submission's end at the top of the history, which has no row of it.   *)
LEMMA Appended ==
    ASSUME Card!BridgeConstants, Card!NewestFirst, NEW top \in Nat \ {0},
           NEW about \in {"request", "orphan", "unknown"},
           history \in Seq([n : 1..top, kind : {"request", "orphan", "unknown"}]),
           ~Card!Recorded(top),
           history' = Card!WithRow(top, about)
    PROVE  /\ history' \in Seq([n : 1..top, kind : {"request", "orphan", "unknown"}])
           /\ Card!NewestFirst' /\ Card!Recorded(top)'
           /\ \A n \in 1..top :
                Card!Recorded(n) \/ (Len(history) = HistoryLimit /\ history[HistoryLimit].n > n)
                => Card!Recorded(n)'
                    \/ (Len(history') = HistoryLimit /\ history'[HistoryLimit].n > n)
<1> DEFINE R == [n : 1..top, kind : {"request", "orphan", "unknown"}]
           r == [n |-> top, kind |-> about]
           all == <<r>> \o history
<1>1. r \in R /\ history \in Seq(R) /\ r.n = top /\ ~Card!Recorded(top) /\ top \in Nat
  OBVIOUS
<1>2. /\ Len(history) <= HistoryLimit
      /\ \A i, j \in 1..Len(history) : i < j => history[i].n > history[j].n
  BY DEF Card!NewestFirst
<1>3. history' = IF Len(all) <= HistoryLimit THEN all ELSE SubSeq(all, 1, HistoryLimit)
  BY <1>1 DEF Card!WithRow, Card!Capped, Card!Others
<1>4. HistoryLimit \in Nat \ {0}
  BY DEF Card!BridgeConstants
<1> DEFINE h == history
           k == history'
<1>5. /\ k \in Seq(R) /\ Len(k) <= HistoryLimit /\ 1 <= Len(k)
      /\ k[1] = r /\ \A i \in 2..Len(k) : k[i] = h[i - 1]
      /\ Len(k) = Len(h) + 1 \/ (Len(k) = HistoryLimit /\ Len(h) = HistoryLimit)
  <2> HIDE DEF R, r
  <2> QED
    BY <1>1, <1>2, <1>3, <1>4, TopRow
<1>6. \A i \in 1..Len(h) : h[i].n \in 1..top /\ h[i].n # top
  <2>1. \A i \in 1..Len(h) : h[i] \in R
    <3> HIDE DEF R
    <3> QED
      BY <1>1
  <2> QED
    BY <1>1, <2>1 DEF Card!Recorded
<1>6a. Len(h) \in Nat /\ Len(k) \in Nat
  BY <1>1, <1>5
<1> HIDE DEF R, r, h, k
<1>7. \A i, j \in 1..Len(k) : i < j => k[i].n > k[j].n
  <2> SUFFICES ASSUME NEW i \in 1..Len(k), NEW j \in 1..Len(k), i < j
               PROVE  k[i].n > k[j].n
    OBVIOUS
  <2>1. j \in 2..Len(k) /\ j - 1 \in 1..Len(h) /\ k[j] = h[j - 1]
    BY <1>4, <1>5, <1>6a
  <2>2. CASE i = 1
    BY <1>1, <1>5, <1>6, <2>1, <2>2
  <2>3. CASE i # 1
    <3>1. i \in 2..Len(k) /\ i - 1 \in 1..Len(h) /\ i - 1 < j - 1 /\ k[i] = h[i - 1]
      BY <1>4, <1>5, <1>6a, <2>1, <2>3
    <3> QED
      BY <1>2, <2>1, <3>1 DEF h
  <2> QED
    BY <2>2, <2>3
<1>8. Card!NewestFirst'
  BY <1>5, <1>7, <1>4 DEF Card!NewestFirst, k, Card!BridgeConstants
<1>9. Card!Recorded(top)'
  BY <1>1, <1>5, <1>6a DEF Card!Recorded, k
<1>10. ASSUME NEW n \in 1..top,
              Card!Recorded(n) \/ (Len(h) = HistoryLimit /\ h[HistoryLimit].n > n)
       PROVE  (\E i \in 1..Len(k) : k[i].n = n)
                \/ (Len(k) = HistoryLimit /\ k[HistoryLimit].n > n)
  <2>1. CASE Card!Recorded(n)
    <3>1. PICK i \in 1..Len(h) : h[i].n = n
      BY <2>1 DEF Card!Recorded, h
    <3>2. CASE i + 1 \in 1..Len(k)
      <4>1. i + 1 \in 2..Len(k) /\ (i + 1) - 1 = i
        BY <1>6a, <3>1, <3>2
      <4>2. k[i + 1] = h[i]
        BY <1>5, <4>1
      <4> QED
        BY <3>1, <3>2, <4>2
    <3>3. CASE i + 1 \notin 1..Len(k)
      <4>1. Len(k) = HistoryLimit /\ Len(h) = HistoryLimit /\ i = HistoryLimit
        BY <1>4, <1>5, <1>6a, <3>1, <3>3
      <4>2. CASE HistoryLimit = 1
        BY <1>1, <1>5, <1>6, <3>1, <4>1, <4>2
      <4>3. CASE HistoryLimit # 1
        <5>1. HistoryLimit \in 2..Len(k) /\ HistoryLimit - 1 \in 1..Len(h)
                /\ HistoryLimit - 1 < i
          BY <1>4, <4>1, <4>3
        <5>2. k[HistoryLimit] = h[HistoryLimit - 1]
          BY <1>5, <5>1
        <5>3. h[HistoryLimit - 1].n > h[i].n
          BY <1>2, <3>1, <5>1 DEF h
        <5> QED
          BY <3>1, <4>1, <5>2, <5>3
      <4> QED
        BY <4>2, <4>3
    <3> QED
      BY <3>2, <3>3
  <2>2. CASE Len(h) = HistoryLimit /\ h[HistoryLimit].n > n
    <3>1. Len(k) = HistoryLimit /\ HistoryLimit \in 1..Len(h) /\ h[HistoryLimit].n \in 1..top
      BY <1>4, <1>5, <1>6, <1>6a, <2>2
    <3>2. CASE HistoryLimit = 1
      BY <1>1, <1>5, <1>6, <2>2, <3>1, <3>2
    <3>3. CASE HistoryLimit # 1
      <4>1. HistoryLimit \in 2..Len(k) /\ HistoryLimit - 1 \in 1..Len(h)
              /\ HistoryLimit - 1 < HistoryLimit
        BY <1>4, <3>1, <3>3
      <4>2. k[HistoryLimit] = h[HistoryLimit - 1]
        BY <1>5, <4>1
      <4>3. h[HistoryLimit - 1].n > h[HistoryLimit].n
        BY <1>2, <3>1, <4>1 DEF h
      <4>4. h[HistoryLimit - 1].n \in 1..top
        BY <1>6, <4>1
      <4> QED
        BY <1>1, <2>2, <3>1, <4>2, <4>3, <4>4
    <3> QED
      BY <3>2, <3>3
  <2> QED
    BY <1>10, <2>1, <2>2
<1> QED
  BY <1>5, <1>8, <1>9, <1>10 DEF Card!Recorded, h, k, R

(* What no submission, history or deposit is touched by, PageAlone aside. *)
LEMMA FieldsKept ==
    ASSUME Card!BridgeInv, UNCHANGED <<subs, history, posted, moved, left, attempts>>,
           slot' \in {None} \cup [n : 1..attempts, lastStep : 1..5],
           tracked' \in {None} \cup 1..attempts,
           \A p \in polls' : p.n \in 1..attempts, Card!PageAlone'
    PROVE  Card!BridgeInv'
<1>1. Card!TypeOK'
  BY DEF Card!BridgeInv, Card!TypeOK
<1>2. Card!OneAtATime' /\ Card!NewestFirst' /\ Card!Posted'
  BY DEF Card!BridgeInv, Card!OneAtATime, Card!NewestFirst, Card!Posted,
     Card!Visible, Card!Recorded
<1> QED
  BY <1>1, <1>2 DEF Card!BridgeInv

(* The one submission, and what it was before it is another stage.         *)
LEMMA OnlyOne ==
    ASSUME Card!BridgeInv, NEW s \in subs
    PROVE  /\ subs = {s} /\ subs \ {s} = {} /\ s.n = attempts /\ ~Card!Recorded(s.n)
           /\ s.n \in 1..attempts /\ s.dir \in {"e2m", "m2e"}
           /\ s.stage # "submitting" => s.n \notin posted \cup moved
           /\ \A n \in posted \cup moved : n = s.n \/ Card!Recorded(n) \/ n \in left
                               \/ (Len(history) = HistoryLimit /\ history[HistoryLimit].n > n)
<1>1. subs = {s} /\ subs \ {s} = {}
  BY DEF Card!BridgeInv, Card!OneAtATime
<1> QED
  BY <1>1
  DEF Card!BridgeInv, Card!TypeOK, Card!OneAtATime, Card!Posted, Card!Visible

LEMMA SubmissionMoves ==
    ASSUME Card!BridgeInv, NEW s \in subs, NEW stage \in {"approve", "deposit", "submitting"},
           Card!Moves(s, stage), phase' = stage,
           moved' \in {moved, moved \cup {s.n}}, posted' \in {posted, posted \cup {s.n}},
           stage # "submitting" =>
             posted' = posted /\ moved' = moved /\ s.stage # "submitting",
           UNCHANGED <<Card!Card, polls, history, left, attempts>>
    PROVE  Card!BridgeInv'
<1> DEFINE t == [s EXCEPT !.stage = stage]
<1>1. s \in [n : 1..attempts, dir : {"e2m", "m2e"},
             stage : {"wallet", "approve", "deposit", "signing", "submitting"}]
  BY DEF Card!BridgeInv, Card!TypeOK
<1>2. /\ t.n = s.n /\ t.stage = stage
      /\ t \in [n : 1..attempts, dir : {"e2m", "m2e"},
                stage : {"wallet", "approve", "deposit", "signing", "submitting"}]
  BY <1>1
<1>3. subs' = {t}
  BY OnlyOne DEF Card!Moves
<1> HIDE DEF t
<1>4. Card!TypeOK'
  BY <1>2, <1>3 DEF Card!BridgeInv, Card!TypeOK, Card!Card
<1>5. Card!OneAtATime'
  BY <1>2, <1>3, OnlyOne DEF Card!OneAtATime, Card!Recorded
<1>6. Card!NewestFirst'
  BY DEF Card!BridgeInv, Card!NewestFirst
<1>7. Card!Posted'
  <2>1. posted' \cup moved' \subseteq 1..attempts
    BY OnlyOne DEF Card!BridgeInv, Card!Posted
  <2>2. \A n \in posted' \cup moved' : Card!Visible(n)'
    BY <1>2, <1>3, OnlyOne DEF Card!Visible, Card!Recorded
  <2> QED
    BY <2>1, <2>2 DEF Card!Posted
<1>8. Card!PageAlone' /\ phase' # "polling"
  BY DEF Card!BridgeInv, Card!PageAlone, Card!CardLive, Card!InStep,
     Card!InFlight, Card!Card
<1> QED
  BY <1>4, <1>5, <1>6, <1>7, <1>8 DEF Card!BridgeInv

(* The end of a submission, a row at the top of the history or refused.    *)
LEMMA SubmissionEnds ==
    ASSUME Card!BridgeConstants, Card!BridgeInv, NEW s \in subs,
           NEW about \in {"request", "orphan", "unknown"},
           subs' = subs \ {s}, Card!AppendHistory(s.n, about),
           UNCHANGED <<attempts, posted, moved, polls>>,
           slot' \in {None} \cup [n : 1..attempts, lastStep : 1..5],
           tracked' \in {None} \cup 1..attempts, Card!PageAlone'
    PROVE  Card!BridgeInv'
<1>1. subs' = {} /\ s.n = attempts /\ s.n \in Nat \ {0} /\ ~Card!Recorded(s.n)
  BY OnlyOne DEF Card!BridgeInv, Card!TypeOK, Card!BridgeConstants
<1>2. posted \cup moved \subseteq 1..attempts
  BY DEF Card!BridgeInv, Card!Posted
<1>3. CASE history' = history /\ left' = left \cup {s.n}
  <2>1. Card!TypeOK' /\ Card!OneAtATime' /\ Card!NewestFirst'
    BY <1>1, <1>3
    DEF Card!BridgeInv, Card!TypeOK, Card!OneAtATime, Card!NewestFirst
  <2>2. \A n \in posted \cup moved : Card!Visible(n)'
    BY <1>1, <1>3, OnlyOne DEF Card!Visible, Card!Recorded
  <2> QED
    BY <1>1, <1>2, <2>1, <2>2 DEF Card!BridgeInv, Card!Posted
<1>4. CASE /\ history' = Card!WithRow(s.n, about)
           /\ left' = left
  <2>1. history \in Seq([n : 1..attempts, kind : {"request", "orphan", "unknown"}])
          /\ Card!NewestFirst
    BY DEF Card!BridgeInv, Card!TypeOK
  <2>2. /\ history' \in Seq([n : 1..attempts, kind : {"request", "orphan", "unknown"}])
        /\ Card!NewestFirst' /\ Card!Recorded(s.n)'
        /\ \A n \in 1..attempts :
             Card!Recorded(n) \/ (Len(history) = HistoryLimit /\ history[HistoryLimit].n > n)
             => Card!Recorded(n)'
                 \/ (Len(history') = HistoryLimit /\ history'[HistoryLimit].n > n)
    BY <1>1, <1>4, <2>1, Appended
  <2>3. Card!TypeOK' /\ Card!OneAtATime'
    BY <1>1, <2>2 DEF Card!BridgeInv, Card!TypeOK, Card!OneAtATime
  <2>4. \A n \in posted \cup moved : Card!Visible(n)'
    BY <1>2, <1>4, <2>2, OnlyOne DEF Card!Visible
  <2> QED
    BY <1>1, <1>2, <2>2, <2>3, <2>4 DEF Card!BridgeInv, Card!Posted
<1> QED
  BY <1>3, <1>4 DEF Card!AppendHistory

LEMMA Submits ==
    ASSUME Card!BridgeConstants, Card!BridgeInv, NEW dir \in {"e2m", "m2e"}, Card!Submit(dir)
    PROVE  Card!BridgeInv'
<1> DEFINE t == [n |-> attempts + 1, dir |-> dir,
                 stage |-> IF dir = "e2m" THEN "wallet" ELSE "signing"]
<1>1. /\ subs' = {t} /\ subs = {} /\ attempts' = attempts + 1 /\ attempts \in Nat
      /\ attempts' \in 0..CardAttempts /\ phase' # "polling"
      /\ UNCHANGED <<slot, tracked, unsaved, progress, unavailable, polls, history, posted, moved, left>>
  BY DEF Card!Submit, Card!BridgeInv, Card!TypeOK, Card!BridgeConstants,
     Card!Card, Card!Money, Card!Busy
<1>2. /\ t.n = attempts + 1 /\ t.stage # "submitting"
      /\ t \in [n : 1..attempts', dir : {"e2m", "m2e"},
                stage : {"wallet", "approve", "deposit", "signing", "submitting"}]
  BY <1>1
<1> DEFINE Rows(n) == [n : 1..n, kind : {"request", "orphan", "unknown"}]
<1>3. history \in Seq(Rows(attempts)) /\ Rows(attempts) \subseteq Rows(attempts + 1)
  BY <1>1 DEF Card!BridgeInv, Card!TypeOK
<1> HIDE DEF Rows
<1>4. history \in Seq(Rows(attempts + 1))
        /\ \A i \in 1..Len(history) : history[i] \in Rows(attempts)
  BY <1>3, Widened
<1>5. history' \in Seq([n : 1..attempts', kind : {"request", "orphan", "unknown"}])
  BY <1>1, <1>4 DEF Rows
<1> HIDE DEF t
<1>6. Card!TypeOK'
  BY <1>1, <1>2, <1>5 DEF Card!BridgeInv, Card!TypeOK
<1>7. Card!OneAtATime'
  <2>1. \A i \in 1..Len(history) : history[i].n \in 1..attempts
    BY <1>4 DEF Rows
  <2>2. posted \cup moved \subseteq 1..attempts
    BY DEF Card!BridgeInv, Card!Posted
  <2> QED
    BY <1>1, <1>2, <2>1, <2>2 DEF Card!OneAtATime, Card!Recorded
<1>8. Card!NewestFirst' /\ Card!Posted'
  BY <1>1
  DEF Card!BridgeInv, Card!NewestFirst, Card!Posted, Card!Visible, Card!Recorded
<1>9. Card!PageAlone'
  BY <1>1
  DEF Card!BridgeInv, Card!PageAlone, Card!CardLive, Card!InStep, Card!InFlight
<1> QED
  BY <1>1, <1>6, <1>7, <1>8, <1>9 DEF Card!BridgeInv

LEMMA SubmissionStep ==
    ASSUME Card!BridgeConstants, Card!BridgeInv, NEW s \in subs,
           Card!Approve(s) \/ Card!AskForDeposit(s) \/ Card!Deposit(s) \/ Card!DepositThrows(s)
               \/ Card!Signed(s) \/ Card!GivesUp(s)
           \/ Card!BroadcastAnswered(s) \/ Card!BroadcastFails(s)
    PROVE  Card!BridgeInv'
<1>1. CASE Card!Approve(s)
  BY <1>1, SubmissionMoves
  DEF Card!Approve, Card!Money, Card!BridgeInv, Card!Posted
<1>2. CASE Card!AskForDeposit(s)
  BY <1>2, SubmissionMoves
  DEF Card!AskForDeposit, Card!Money, Card!BridgeInv, Card!Posted
<1>3. CASE Card!Deposit(s)
  BY <1>3, SubmissionMoves DEF Card!Deposit, Card!BridgeInv, Card!Posted
<1>4. CASE Card!Signed(s)
  BY <1>4, SubmissionMoves DEF Card!Signed, Card!BridgeInv, Card!Posted
<1>5. CASE Card!GivesUp(s) \/ Card!DepositThrows(s)
  <2>1. /\ subs' = {} /\ s.stage # "submitting" /\ phase' = "idle"
        /\ UNCHANGED <<slot, tracked, unsaved, progress, unavailable, polls, history, posted, attempts>>
        /\ \/ moved' = moved /\ left' = left
           \/ moved' = moved \cup {s.n} /\ left' = left \cup {s.n}
    BY <1>5, OnlyOne DEF Card!GivesUp, Card!DepositThrows, Card!Card, Card!Money
  <2>2. Card!TypeOK' /\ Card!OneAtATime' /\ Card!NewestFirst'
    BY <2>1 DEF Card!BridgeInv, Card!TypeOK, Card!OneAtATime, Card!NewestFirst
  <2>3. Card!Posted'
    <3>1. s.n \notin posted \cup moved /\ s.n \in 1..attempts
      BY <2>1, OnlyOne
    <3>2. \A n \in posted \cup moved : Card!Visible(n)'
      BY <2>1, <3>1, OnlyOne DEF Card!Visible, Card!Recorded
    <3>3. moved' = moved \/ (moved' = moved \cup {s.n} /\ s.n \in left')
      BY <2>1
    <3> QED
      BY <2>1, <3>1, <3>2, <3>3 DEF Card!BridgeInv, Card!Posted, Card!Visible
  <2>4. Card!PageAlone'
    BY <2>1
    DEF Card!BridgeInv, Card!PageAlone, Card!CardLive, Card!InStep,
        Card!InFlight
  <2> QED
    BY <2>1, <2>2, <2>3, <2>4 DEF Card!BridgeInv
<1>6. CASE Card!BroadcastAnswered(s)
  <2>1. /\ slot' \in {None} \cup [n : 1..attempts, lastStep : 1..5]
        /\ tracked' = (IF slot' = None THEN None ELSE slot'.n)
        /\ unsaved' = (slot' = None) /\ progress' = None /\ unavailable' = FALSE
        /\ polls' = polls /\ subs' = {}
    BY <1>6, OnlyOne
    DEF Card!BroadcastAnswered, Card!InFlight, Card!BridgeInv, Card!TypeOK,
        Card!BridgeConstants
  <2>2. tracked' \in {None} \cup 1..attempts /\ (slot' # None => tracked' # None)
    BY <2>1 DEF Card!BridgeConstants, Card!BridgeInv, Card!TypeOK
  <2>3. Card!PageAlone'
    BY <2>1, <2>2 DEF Card!PageAlone, Card!CardLive, Card!InStep, Card!InFlight
  <2> QED
    BY <1>6, <2>1, <2>2, <2>3, SubmissionEnds DEF Card!BroadcastAnswered
<1>7. CASE Card!BroadcastFails(s)
  <2>1. Card!PageAlone'
    BY <1>7
    DEF Card!BroadcastFails, Card!PageAlone, Card!InStep, Card!InFlight,
        Card!BridgeInv, Card!Card
  <2>2. /\ slot' \in {None} \cup [n : 1..attempts, lastStep : 1..5]
        /\ tracked' \in {None} \cup 1..attempts
    BY <1>7 DEF Card!BroadcastFails, Card!Card, Card!BridgeInv, Card!TypeOK
  <2> QED
    BY <1>7, <2>1, <2>2, SubmissionEnds DEF Card!BroadcastFails, Card!Card
<1> QED
  BY <1>1, <1>2, <1>3, <1>4, <1>5, <1>6, <1>7

LEMMA PollStep ==
    ASSUME Card!BridgeConstants, Card!BridgeInv, NEW p \in polls,
           Card!PollAnswered(p) \/ Card!PollFails(p)
    PROVE  Card!BridgeInv'
<1>0. /\ polls' \subseteq polls /\ (\A q \in polls' : q.n \in 1..attempts)
      /\ UNCHANGED <<subs, history, posted, moved, left, attempts, unsaved>>
      /\ slot \in {None} \cup [n : 1..attempts, lastStep : 1..5]
      /\ tracked \in {None} \cup 1..attempts
      /\ attempts \in 0..CardAttempts
  BY DEF Card!PollAnswered, Card!PollFails, Card!Money, Card!BridgeInv,
     Card!TypeOK
<1>1. CASE Card!PollAnswered(p)
  <2>1. unavailable' = unavailable
    BY <1>1 DEF Card!PollAnswered
  <2>2. CASE slot # None /\ slot.n = p.n
    <3>1. PICK news \in {p.status, backend[p.n]} :
            /\ progress' = [of |-> p.n, status |-> news]
            /\ slot' \in {slot, [slot EXCEPT !.lastStep = Card!StepKept(news)]}
            /\ tracked' \in {slot.n, tracked}
            /\ phase' = IF news \in Card!Terminal
               /\ Card!FreePhase THEN Card!PhaseOf(news) ELSE phase
      BY <1>1, <2>2 DEF Card!PollAnswered
    <3>2. Card!StepKept(news) \in 1..5
      <4>1. Card!Step(news) \in 1..5
        BY DEF Card!Step
      <4> QED
        BY <1>0, <2>2, <4>1 DEF Card!StepKept
    <3>3. /\ slot' \in [n : 1..attempts, lastStep : 1..5] /\ slot' # None
          /\ slot'.n = p.n /\ progress'.of = p.n /\ progress'.status = news
          /\ slot.n \in 1..attempts /\ slot.n # None
      BY <1>0, <2>2, <3>1, <3>2 DEF Card!BridgeConstants
    <3>4. tracked # None /\ tracked' # None /\ tracked' \in 1..attempts
      BY <1>0, <2>2, <3>1, <3>3 DEF Card!BridgeInv, Card!PageAlone
    <3>5. phase' = "polling" =>
            subs = {} /\ news \notin Card!Terminal /\ ~unavailable
      BY <3>1, <3>4
      DEF Card!FreePhase, Card!SubmitPhases, Card!PhaseOf, Card!Terminal,
          Card!BridgeInv, Card!PageAlone, Card!CardLive
    <3>6. Card!PageAlone'
      BY <1>0, <2>1, <3>3, <3>4, <3>5
      DEF Card!PageAlone, Card!CardLive, Card!InStep, Card!InFlight
    <3> QED
      BY <1>0, <3>3, <3>4, <3>6, FieldsKept
  <2>3. CASE ~(slot # None /\ slot.n = p.n)
    <3>1. UNCHANGED <<progress, slot, tracked, phase>>
      BY <1>1, <2>3 DEF Card!PollAnswered
    <3>2. Card!PageAlone'
      BY <1>0, <2>1, <3>1
      DEF Card!BridgeInv, Card!PageAlone, Card!CardLive, Card!InStep,
          Card!InFlight
    <3> QED
      BY <1>0, <3>1, <3>2, FieldsKept
  <2> QED
    BY <2>2, <2>3
<1>2. CASE Card!PollFails(p)
  <2>1. UNCHANGED <<slot, tracked, progress>>
    BY <1>2 DEF Card!PollFails
  <2>2. phase' = "polling" => phase = "polling" /\ unavailable' = unavailable
    BY <1>2
    DEF Card!PollFails, Card!FreePhase, Card!SubmitPhases, Card!BridgeInv,
        Card!PageAlone
  <2>3. Card!PageAlone'
    BY <1>0, <2>1, <2>2
    DEF Card!BridgeInv, Card!PageAlone, Card!CardLive, Card!InStep,
        Card!InFlight
  <2> QED
    BY <1>0, <2>1, <2>3, FieldsKept
<1> QED
  BY <1>1, <1>2

LEMMA Reloads ==
    ASSUME Card!BridgeConstants, Card!BridgeInv, Card!Reload
    PROVE  Card!BridgeInv'
<1>1. PICK made \in SUBSET {s \in subs : s.stage = "deposit"} :
        /\ moved' = moved \cup {s.n : s \in made}
        /\ left' = left \cup {s.n : s \in made \cup {t \in subs : t.stage = "submitting"}}
  BY DEF Card!Reload
<1>2. /\ subs' = {} /\ phase' = "idle" /\ progress' = None /\ tracked' = Card!InFlight
      /\ UNCHANGED <<slot, history, posted, attempts>>
  BY DEF Card!Reload
<1>2a. polls' = {}
  BY DEF Card!Reload
<1>3. Card!TypeOK' /\ Card!OneAtATime' /\ Card!NewestFirst' /\ Card!PageAlone'
  BY <1>2, <1>2a
  DEF Card!BridgeInv, Card!TypeOK, Card!OneAtATime, Card!NewestFirst,
      Card!PageAlone, Card!InStep, Card!InFlight, Card!BridgeConstants
<1>4. ASSUME NEW n \in posted' \cup moved'
      PROVE  n \in 1..attempts /\ Card!Visible(n)'
  <2>1. CASE \E s \in made : s.n = n
    BY <1>1, <2>1, OnlyOne DEF Card!Visible
  <2>2. CASE n \in posted \cup moved /\ ~\E s \in subs : s.n = n
    BY <1>1, <1>2, <2>2
    DEF Card!BridgeInv, Card!Posted, Card!Visible, Card!Recorded
  <2>3. CASE n \in posted \cup moved /\ \E s \in subs : s.n = n
    BY <1>1, <1>2, <2>3, OnlyOne DEF Card!BridgeInv, Card!Posted, Card!Visible
  <2> QED
    BY <1>1, <1>2, <1>4, <2>1, <2>2, <2>3
<1>5. Card!Posted'
  BY <1>2, <1>4 DEF Card!Posted
<1> QED
  BY <1>2, <1>3, <1>5 DEF Card!BridgeInv

LEMMA OtherTabs ==
    ASSUME Card!BridgeConstants, Card!BridgeInv, Card!OtherTabTracks \/ Card!OtherTabDismisses
    PROVE  Card!BridgeInv'
<1>1. CASE Card!OtherTabDismisses
  <2>1. /\ slot' = None /\ slot # None
        /\ UNCHANGED <<phase, subs, tracked, unsaved, progress, unavailable, polls, history,
                       posted, moved, left, attempts>>
    BY <1>1 DEF Card!OtherTabDismisses, Card!Money
  <2>2. Card!PageAlone'
    BY <2>1
    DEF Card!BridgeInv, Card!PageAlone, Card!CardLive, Card!InStep,
        Card!InFlight
  <2> QED
    BY <2>1, <2>2, FieldsKept DEF Card!BridgeInv, Card!TypeOK
<1>2. CASE Card!OtherTabTracks
  <2>0. attempts \in Nat
    BY DEF Card!BridgeInv, Card!TypeOK, Card!BridgeConstants
  <2>0a. PICK top \in Nat : top = attempts + 1
    BY <2>0
  <2>1. /\ subs = {} /\ subs' = {} /\ attempts' = top /\ top \in Nat \ {0}
           /\ top \in 1..CardAttempts
        /\ attempts \in Nat
        /\ slot' = [n |-> top, lastStep |-> 1] /\ Card!AppendHistory(top, "request")
        /\ posted' = posted \cup {top} /\ moved' = moved \cup {top}
        /\ UNCHANGED <<phase, tracked, unsaved, progress, unavailable, polls>>
    BY <1>2, <2>0a
    DEF Card!OtherTabTracks, Card!BridgeInv, Card!TypeOK, Card!BridgeConstants
  <2> DEFINE Rows(n) == [n : 1..n, kind : {"request", "orphan", "unknown"}]
  <2>2. history \in Seq(Rows(attempts)) /\ Rows(attempts) \subseteq Rows(top)
    BY <2>1, <2>0a DEF Card!BridgeInv, Card!TypeOK
  <2> HIDE DEF Rows
  <2>3. history \in Seq(Rows(top)) /\ \A i \in 1..Len(history) : history[i] \in Rows(attempts)
    BY <2>2, Widened
  <2>4. history \in Seq([n : 1..top, kind : {"request", "orphan", "unknown"}])
          /\ ~Card!Recorded(top)
    BY <2>0a, <2>1, <2>3 DEF Rows, Card!Recorded
  <2>5. \A n \in posted \cup moved :
          /\ n \in 1..attempts /\ n \in 1..top
          /\ Card!Recorded(n) \/ n \in left
             \/ (Len(history) = HistoryLimit /\ history[HistoryLimit].n > n)
    BY <2>1, <2>0a DEF Card!BridgeInv, Card!Posted, Card!Visible
  <2>6. /\ history' \in Seq([n : 1..top, kind : {"request", "orphan", "unknown"}])
           /\ Card!NewestFirst'
        /\ \A n \in posted' \cup moved' : n \in 1..top /\ Card!Visible(n)'
    <3>1. CASE history' = history /\ left' = left \cup {top}
      BY <2>1, <2>4, <2>5, <3>1
      DEF Card!BridgeInv, Card!NewestFirst, Card!Visible, Card!Recorded
    <3>2. CASE /\ history' = Card!WithRow(top, "request")
               /\ left' = left
      <4>1. /\ history' \in Seq([n : 1..top, kind : {"request", "orphan", "unknown"}])
            /\ Card!NewestFirst' /\ Card!Recorded(top)'
            /\ \A n \in 1..top :
                 Card!Recorded(n)
                     \/ (Len(history) = HistoryLimit /\ history[HistoryLimit].n > n)
                 => Card!Recorded(n)'
                     \/ (Len(history') = HistoryLimit /\ history'[HistoryLimit].n > n)
        <5>1. Card!NewestFirst /\ top \in Nat \ {0}
                /\ "request" \in {"request", "orphan", "unknown"}
          BY <2>1 DEF Card!BridgeInv
        <5> QED
          BY <2>4, <3>2, <5>1, Appended
      <4>2. ASSUME NEW n \in posted' \cup moved'
            PROVE  n \in 1..top /\ Card!Visible(n)'
        <5>1. CASE n = top
          BY <4>1, <5>1 DEF Card!Visible, Card!Recorded
        <5>2. CASE n # top
          BY <2>1, <2>5, <3>2, <4>1, <5>2 DEF Card!Visible
        <5> QED
          BY <5>1, <5>2
      <4> QED
        BY <4>1, <4>2
    <3> QED
      BY <2>1, <3>1, <3>2 DEF Card!AppendHistory
  <2>7. /\ slot' \in [n : 1..top, lastStep : 1..5] /\ slot'.n = top /\ slot' # None
        /\ tracked \in {None} \cup 1..attempts /\ None \notin 1..CardAttempts
        /\ \A p \in polls : p.n \in 1..attempts
    BY <2>1 DEF Card!BridgeConstants, Card!BridgeInv, Card!TypeOK
  <2>8. Card!TypeOK' /\ Card!OneAtATime' /\ Card!Posted'
    BY <2>1, <2>6, <2>7, <2>0, <2>0a
    DEF Card!BridgeInv, Card!TypeOK, Card!OneAtATime, Card!Posted
  <2>9. Card!PageAlone'
    BY <2>1, <2>7, <2>0, <2>0a
    DEF Card!BridgeInv, Card!PageAlone, Card!CardLive, Card!InStep,
        Card!InFlight
  <2> QED
    BY <2>1, <2>6, <2>8, <2>9 DEF Card!BridgeInv
<1> QED
  BY <1>1, <1>2

LEMMA CardStep ==
    ASSUME Card!BridgeConstants
    PROVE  Card!BridgeInv /\ [Card!Next]_Card!vars => Card!BridgeInv'
<1> SUFFICES ASSUME Card!BridgeInv, [Card!Next]_Card!vars PROVE Card!BridgeInv'
  OBVIOUS
<1>1. CASE \E dir \in {"e2m", "m2e"} : Card!Submit(dir)
  BY <1>1, Submits
<1>2. CASE \E s \in subs : Card!Approve(s) \/ Card!AskForDeposit(s) \/ Card!Deposit(s)
             \/ Card!DepositThrows(s)
                          \/ Card!Signed(s) \/ Card!GivesUp(s) \/ Card!BroadcastAnswered(s)
                             \/ Card!BroadcastFails(s)
  BY <1>2, SubmissionStep
<1>3. ASSUME NEW n \in 1..CardAttempts, Card!Registers(n) PROVE Card!BridgeInv'
  <2>1. /\ moved' = moved \cup {n} /\ n \in posted
        /\ UNCHANGED <<phase, subs, slot, tracked, unsaved, progress, unavailable, polls, history,
                       posted, left, attempts>>
    BY <1>3 DEF Card!Registers, Card!Card
  <2>2. Card!TypeOK' /\ Card!NewestFirst' /\ Card!PageAlone'
    BY <2>1
    DEF Card!BridgeInv, Card!TypeOK, Card!NewestFirst, Card!PageAlone,
        Card!CardLive, Card!InStep, Card!InFlight
  <2>3. Card!Posted' /\ Card!OneAtATime'
    BY <2>1
    DEF Card!BridgeInv, Card!Posted, Card!Visible, Card!Recorded,
        Card!OneAtATime
  <2> QED
    BY <2>1, <2>2, <2>3 DEF Card!BridgeInv
<1>4. ASSUME NEW n \in 1..CardAttempts, Card!Advances(n) PROVE Card!BridgeInv'
  BY <1>4, FieldsKept
  DEF Card!Advances, Card!Card, Card!BridgeInv, Card!TypeOK, Card!PageAlone, Card!CardLive,
      Card!InStep, Card!InFlight
<1>5. CASE Card!PollStarts
  BY <1>5, FieldsKept
  DEF Card!PollStarts, Card!Card, Card!Money, Card!BridgeInv, Card!TypeOK, Card!PageAlone,
      Card!CardLive, Card!InStep, Card!InFlight
<1>6. CASE \E p \in polls : Card!PollAnswered(p) \/ Card!PollFails(p)
  BY <1>6, PollStep
<1>7. CASE Card!Dismiss
  BY <1>7, FieldsKept
  DEF Card!Dismiss, Card!Money, Card!PageAlone, Card!InStep, Card!InFlight,
      Card!BridgeInv, Card!TypeOK
<1>8. CASE Card!Reload
  BY <1>8, Reloads
<1>9. CASE Card!OtherTabTracks \/ Card!OtherTabDismisses
  BY <1>9, OtherTabs
<1>10. CASE UNCHANGED Card!vars
  BY <1>10, FieldsKept
  DEF Card!vars, Card!BridgeInv, Card!TypeOK, Card!PageAlone, Card!CardLive,
      Card!InStep, Card!InFlight
<1> QED
  BY <1>1, <1>2, <1>3, <1>4, <1>5, <1>6, <1>7, <1>8, <1>9, <1>10 DEF Card!Next

LEMMA CardSound == Card!BridgeInv => Card!CardIsLive /\ Card!DepositAccounted
<1>1. Card!PageAlone => Card!CardIsLive
  BY DEF Card!PageAlone, Card!CardIsLive
<1>2. Card!Posted => Card!DepositAccounted
  BY DEF Card!Posted, Card!Visible, Card!DepositAccounted
<1> QED
  BY <1>1, <1>2 DEF Card!BridgeInv

(* While the page is in step with the storage, the card shows its own      *)
(* request and is polled while a form waits for it, unless the storage     *)
(* refused its record; and every deposit is being submitted, in the        *)
(* history, filled out of it by later rows, or was made while the page was *)
(* reloaded, the wallet failed or the storage refused its row, for any     *)
(* attempts, polls, reloads and limit of the history (BridgePanel.tsx,     *)
(* progress.ts, bridge-history.ts).                                        *)
THEOREM DepositsStayVisible ==
    ASSUME Card!BridgeConstants
    PROVE  Card!Spec => [](Card!CardIsLive /\ Card!DepositAccounted)
<1>1. Card!Init => Card!BridgeInv
  BY CardInit
<1>2. Card!BridgeInv /\ [Card!Next]_Card!vars => Card!BridgeInv'
  BY CardStep
<1>3. Card!BridgeInv => (Card!CardIsLive /\ Card!DepositAccounted)
  BY CardSound
<1> QED
  BY <1>1, <1>2, <1>3, PTL DEF Card!Spec
-----------------------------------------------------------------------------
(* BridgeForm. A submission under way is what was confirmed, and balances  *)
(* of another account are about to be replaced.                            *)
LEMMA PartFits ==
    ASSUME NEW b \in Nat, NEW p \in 0..100
    PROVE  (b * p) \div 100 \in Nat /\ (b * p) \div 100 <= b
<1>1. b * p \in Nat /\ b * p <= b * 100
  BY Z3
<1> DEFINE q == (b * p) \div 100
<1>2. q \in Nat /\ 100 * q <= b * p
  BY <1>1, Z3
<1> QED
  BY <1>1, <1>2, Z3

LEMMA DepositInit == ASSUME Deposit!Init PROVE Deposit!BridgeFormInv
BY DEF Deposit!Init, Deposit!BridgeFormInv, Deposit!TypeOK, Deposit!Directions,
   Deposit!FetchesOwn, Deposit!BalancesComing, Deposit!FilledInt,
       Deposit!FlightSound, Deposit!SentIsConfirmed, Deposit!FillFits

(* A new account, or a new list of assets, and the read it starts.         *)
LEMMA ReadStarts ==
    ASSUME Deposit!BridgeFormInv, NEW a \in Accounts \cup {None}, NEW assets \in SUBSET Assets,
           Deposit!Balances(a, assets), account' = a,
           config' = "loading" => config = "loading" /\ assets = {}
    PROVE  Deposit!FetchesOwn' /\ Deposit!BalancesComing'
<1> DEFINE Fetch == [of : Accounts, assets : SUBSET Assets, live : BOOLEAN]
<1>1. \A g \in Deposit!Disowned : g \in Fetch /\ ~g.live
        /\ (config = "loading" => g.assets = {})
  BY DEF Deposit!Disowned, Deposit!BridgeFormInv, Deposit!FetchesOwn
<1>2. CASE a = None
  <2>1. fetches' = Deposit!Disowned /\ balances' = None
    BY <1>2 DEF Deposit!Balances
  <2>2. Deposit!FetchesOwn'
    BY <1>1, <2>1 DEF Deposit!FetchesOwn
  <2> QED
    BY <2>1, <2>2 DEF Deposit!BalancesComing
<1>3. CASE a # None
  <2> DEFINE f == [of |-> a, assets |-> assets, live |-> TRUE]
  <2>1. fetches' = Deposit!Disowned \cup {f} /\ balances' = balances
    BY <1>3 DEF Deposit!Balances
  <2>2. f \in Fetch /\ f.of = a /\ f.assets = assets /\ f.live = TRUE
    BY <1>3
  <2> HIDE DEF f
  <2>3. Deposit!FetchesOwn'
    BY <1>1, <2>1, <2>2 DEF Deposit!FetchesOwn
  <2>4. \E g \in fetches' : g.live
    BY <2>1, <2>2
  <2>5. Deposit!BalancesComing'
    BY <1>3, <2>1, <2>4 DEF Deposit!BridgeFormInv, Deposit!BalancesComing
  <2> QED
    BY <2>3, <2>5
<1> QED
  BY <1>2, <1>3

(* What the user does to the form.                                         *)
LEMMA Edited ==
    ASSUME Deposit!BridgeFormInv, UNCHANGED <<config, Deposit!wallet, Deposit!order>>,
           form' \in [dir : Deposit!Directions, asset : Assets \cup {None}, amount : Int \cup {None},
                      receiver : Receivers \cup {None, "ml", "eth"}, code : BOOLEAN,
                      suggestion : BOOLEAN],
           \/ filled' = None
           \/ filled' = filled /\ form'.asset = form.asset /\ form'.amount = form.amount
    PROVE  Deposit!BridgeFormInv'
<1>1. Deposit!TypeOK' /\ Deposit!FetchesOwn' /\ Deposit!BalancesComing' /\ Deposit!FilledInt'
        /\ Deposit!FillFits'
  BY DEF Deposit!BridgeFormInv, Deposit!TypeOK, Deposit!FetchesOwn,
     Deposit!BalancesComing, Deposit!FilledInt, Deposit!FillFits, Deposit!wallet
<1>2. Deposit!FlightSound' /\ Deposit!SentIsConfirmed'
  BY DEF Deposit!BridgeFormInv, Deposit!FlightSound, Deposit!SentIsConfirmed,
     Deposit!order
<1> QED
  BY <1>1, <1>2 DEF Deposit!BridgeFormInv

LEMMA DepositStep ==
    ASSUME Deposit!BridgeFormConstants, Deposit!BridgeFormInv, [Deposit!Next]_Deposit!vars
    PROVE  Deposit!BridgeFormInv'
<1> USE DEF Deposit!BridgeFormInv
<1> DEFINE Formed == [dir : Deposit!Directions, asset : Assets \cup {None}, amount : Int \cup {None},
                      receiver : Receivers \cup {None, "ml", "eth"}, code : BOOLEAN,
                      suggestion : BOOLEAN]
<1>0. form \in Formed
  BY DEF Deposit!TypeOK
<1> HIDE DEF Formed
<1>1. CASE Deposit!ConfigAnswered
  <2>1. UNCHANGED <<selected, account, filled>> /\ UNCHANGED Deposit!order
    BY <1>1 DEF Deposit!ConfigAnswered
  <2>2. Deposit!FlightSound' /\ Deposit!SentIsConfirmed'
    BY <2>1 DEF Deposit!FlightSound, Deposit!SentIsConfirmed, Deposit!order
  <2>3. filled = None /\ filled' = None /\ config = "loading"
    BY <1>1 DEF Deposit!ConfigAnswered, Deposit!FilledInt
  <2>4. CASE config' = "failed" /\ UNCHANGED <<form, balances, fetches>>
    <3>1. Deposit!TypeOK' /\ Deposit!FetchesOwn' /\ Deposit!BalancesComing'
      BY <2>1, <2>3, <2>4
      DEF Deposit!TypeOK, Deposit!FetchesOwn, Deposit!BalancesComing
    <3> QED
      BY <2>2, <2>3, <3>1 DEF Deposit!FilledInt, Deposit!FillFits
  <2>5. CASE /\ config' = "loaded"
             /\ \E a \in MlSide : form' = [form EXCEPT !.asset = a]
             /\ Deposit!Balances(account, Assets)
    <3>1. form' \in Formed
      BY <1>0, <2>5 DEF Formed, Deposit!BridgeFormConstants
    <3>2. Deposit!TypeOK'
      BY <2>1, <2>5, <3>1 DEF Deposit!TypeOK, Formed
    <3>3. Deposit!FetchesOwn' /\ Deposit!BalancesComing'
      BY <2>1, <2>5, ReadStarts DEF Deposit!TypeOK
    <3> QED
      BY <2>2, <2>3, <3>2, <3>3 DEF Deposit!FilledInt, Deposit!FillFits
  <2> QED
    BY <1>1, <2>4, <2>5 DEF Deposit!ConfigAnswered
<1>2. ASSUME NEW a \in Accounts \cup {None}, Deposit!AccountIs(a),
             UNCHANGED <<config, selected, form, filled>>, UNCHANGED Deposit!order
      PROVE  Deposit!BridgeFormInv'
  <2>1. Deposit!FlightSound' /\ Deposit!SentIsConfirmed'
    BY <1>2 DEF Deposit!FlightSound, Deposit!SentIsConfirmed, Deposit!order
  <2>2. Deposit!TypeOK' /\ Deposit!FilledInt' /\ Deposit!FillFits'
    BY <1>2
    DEF Deposit!TypeOK, Deposit!FilledInt, Deposit!FillFits, Deposit!AccountIs
  <2>3. CASE a = account
    BY <1>2, <2>1, <2>2, <2>3
    DEF Deposit!AccountIs, Deposit!FetchesOwn, Deposit!BalancesComing
  <2>4. CASE a # account
    <3>1. Deposit!Balances(a, Deposit!Loaded) /\ account' = a
      BY <1>2, <2>4 DEF Deposit!AccountIs
    <3>2. Deposit!Loaded \in SUBSET Assets /\ (config # "loaded" => Deposit!Loaded = {})
      BY DEF Deposit!Loaded
    <3>3. Deposit!FetchesOwn' /\ Deposit!BalancesComing'
      BY <1>2, <3>1, <3>2, ReadStarts
    <3> QED
      BY <2>1, <2>2, <3>3
  <2> QED
    BY <2>3, <2>4
<1>3. CASE Deposit!RestoreAnswered
  <2>1. \E a \in Accounts \cup {None} : Deposit!AccountIs(a)
    BY <1>3 DEF Deposit!RestoreAnswered, Deposit!TypeOK
  <2> QED
    BY <1>2, <1>3, <2>1 DEF Deposit!RestoreAnswered
<1>4. ASSUME UNCHANGED <<config, account, balances, fetches, form, filled, Deposit!order>>,
             selected' \in Accounts
      PROVE  Deposit!BridgeFormInv'
  <2>1. Deposit!TypeOK' /\ Deposit!FetchesOwn' /\ Deposit!BalancesComing' /\ Deposit!FilledInt'
          /\ Deposit!FillFits'
    BY <1>4
    DEF Deposit!TypeOK, Deposit!FetchesOwn, Deposit!BalancesComing,
        Deposit!FilledInt, Deposit!FillFits
  <2>2. Deposit!FlightSound' /\ Deposit!SentIsConfirmed'
    BY <1>4 DEF Deposit!FlightSound, Deposit!SentIsConfirmed, Deposit!order
  <2> QED
    BY <2>1, <2>2
<1>5. CASE Deposit!Connect
  BY <1>4, <1>5 DEF Deposit!Connect, Deposit!TypeOK
<1>6. CASE Deposit!ConnectAnswered
  <2>1. CASE Deposit!AccountIs(selected)
    BY <1>2, <1>6, <2>1 DEF Deposit!ConnectAnswered, Deposit!TypeOK
  <2>2. CASE UNCHANGED <<account, balances, fetches>>
    BY <1>4, <1>6, <2>2 DEF Deposit!ConnectAnswered, Deposit!TypeOK
  <2> QED
    BY <1>6, <2>1, <2>2 DEF Deposit!ConnectAnswered
<1>7. CASE Deposit!SelectAccount
  BY <1>4, <1>7 DEF Deposit!SelectAccount
<1>8. ASSUME NEW f \in fetches, Deposit!BalancesRead(f)
      PROVE  Deposit!BridgeFormInv'
  <2>1. UNCHANGED <<config, selected, account, form, filled>> /\ UNCHANGED Deposit!order
        /\ fetches' = fetches \ {f}
    BY <1>8 DEF Deposit!BalancesRead
  <2>2. Deposit!TypeOK' /\ Deposit!FilledInt' /\ Deposit!FillFits' /\ Deposit!FetchesOwn'
    BY <2>1
    DEF Deposit!TypeOK, Deposit!FilledInt, Deposit!FillFits, Deposit!FetchesOwn
  <2>3. Deposit!FlightSound' /\ Deposit!SentIsConfirmed'
    BY <2>1 DEF Deposit!FlightSound, Deposit!SentIsConfirmed, Deposit!order
  <2>4. CASE f.live
    <3>1. PICK got \in SUBSET (EthSide \cap f.assets) : balances' = [of |-> f.of, got |-> got]
      BY <1>8, <2>4 DEF Deposit!BalancesRead
    <3>2. balances'.of = f.of /\ balances'.got = got
      BY <3>1
    <3>3. f.of \in Accounts /\ f.of = account /\ f.assets \subseteq Assets
          /\ (config = "loading" => f.assets = {})
      BY <2>4 DEF Deposit!FetchesOwn
    <3>4. account # None
      BY <3>3 DEF Deposit!BridgeFormConstants
    <3> QED
      BY <2>1, <2>2, <2>3, <3>2, <3>3, <3>4 DEF Deposit!BalancesComing
  <2>5. CASE ~f.live
    <3>1. balances' = balances
      BY <1>8, <2>5 DEF Deposit!BalancesRead
    <3> QED
      BY <2>1, <2>2, <2>3, <2>5, <3>1 DEF Deposit!BalancesComing
  <2> QED
    BY <2>4, <2>5
<1>9. CASE Deposit!IndexerAnswered
  BY <1>0, <1>9, Edited DEF Deposit!IndexerAnswered, Formed
<1>10. ASSUME NEW g, Deposit!Edit(g), g \in Formed,
              \/ filled' = None
              \/ filled' = filled /\ g.asset = form.asset /\ g.amount = form.amount
       PROVE  Deposit!BridgeFormInv'
  BY <1>10, Edited DEF Deposit!Edit, Formed
<1>11. CASE Deposit!Turn
  <2> DEFINE g == [form EXCEPT !.dir = CHOOSE d \in Deposit!Directions : d # @, !.suggestion
      = FALSE]
  <2>1. (CHOOSE d \in Deposit!Directions : d # form.dir) \in Deposit!Directions
    BY <1>0 DEF Deposit!Directions, Formed
  <2>2. g \in Formed /\ g.asset = form.asset /\ g.amount = form.amount
    BY <1>0, <2>1 DEF Formed
  <2>3. Deposit!Edit(g) /\ filled' = filled
    BY <1>11 DEF Deposit!Turn
  <2> QED
    BY <1>10, <2>2, <2>3
<1>12. CASE Deposit!PickAsset
  <2>1. PICK a \in Deposit!Loaded : Deposit!Edit([form EXCEPT !.asset = a])
    BY <1>12 DEF Deposit!PickAsset
  <2>2. [form EXCEPT !.asset = a] \in Formed
    BY <1>0, <2>1 DEF Formed, Deposit!Loaded
  <2> QED
    BY <1>10, <1>12, <2>1, <2>2 DEF Deposit!PickAsset
<1>13. CASE Deposit!TypeAmount
  <2>1. PICK n \in Amounts : Deposit!Edit([form EXCEPT !.amount = n])
    BY <1>13 DEF Deposit!TypeAmount
  <2>2. [form EXCEPT !.amount = n] \in Formed
    BY <1>0, <2>1 DEF Formed, Deposit!BridgeFormConstants
  <2> QED
    BY <1>10, <1>13, <2>1, <2>2 DEF Deposit!TypeAmount
<1>14. CASE Deposit!TypeReceiver
  <2>1. PICK r \in Receivers : Deposit!Edit([form EXCEPT !.receiver = r, !.suggestion = FALSE])
    BY <1>14 DEF Deposit!TypeReceiver
  <2> DEFINE g == [form EXCEPT !.receiver = r, !.suggestion = FALSE]
  <2>2. g \in Formed /\ g.asset = form.asset /\ g.amount = form.amount
    BY <1>0, <2>1 DEF Formed
  <2> QED
    BY <1>10, <1>14, <2>1, <2>2 DEF Deposit!TypeReceiver
<1>15. CASE Deposit!TypeCode
  <2> DEFINE g == [form EXCEPT !.code = TRUE]
  <2>1. g \in Formed /\ g.asset = form.asset /\ g.amount = form.amount
    BY <1>0 DEF Formed
  <2> QED
    BY <1>10, <1>15, <2>1 DEF Deposit!TypeCode
<1>16. CASE Deposit!AcceptSuggestion
  <2> DEFINE g == [form EXCEPT !.receiver = "ml", !.suggestion = FALSE]
  <2>1. g \in Formed /\ g.asset = form.asset /\ g.amount = form.amount
    BY <1>0 DEF Formed
  <2> QED
    BY <1>10, <1>16, <2>1 DEF Deposit!AcceptSuggestion
<1>17. CASE Deposit!UseMetaMask
  <2> DEFINE g == [form EXCEPT !.receiver = "eth", !.suggestion = FALSE]
  <2>1. g \in Formed /\ g.asset = form.asset /\ g.amount = form.amount
    BY <1>0 DEF Formed
  <2> QED
    BY <1>10, <1>17, <2>1 DEF Deposit!UseMetaMask
<1>18. CASE Deposit!UseMlAddress
  BY <1>0, <1>18, Edited DEF Deposit!UseMlAddress, Formed
<1>19. CASE Deposit!AddressAnswered
  <2> DEFINE g == [form EXCEPT !.receiver = "ml", !.suggestion = FALSE]
  <2>1. g \in Formed /\ g.asset = form.asset /\ g.amount = form.amount
    BY <1>0 DEF Formed
  <2>2. form' \in {form, g} /\ UNCHANGED <<config, filled>> /\ UNCHANGED Deposit!wallet
          /\ UNCHANGED Deposit!order
    BY <1>19 DEF Deposit!AddressAnswered
  <2> HIDE DEF g
  <2> QED
    BY <1>0, <2>1, <2>2, Edited DEF Formed
<1>20. ASSUME NEW pct \in Fractions, Deposit!ApplyFraction(pct)
       PROVE  Deposit!BridgeFormInv'
  <2> DEFINE b == Balance[balances.of][form.asset]
             c == IF form.asset \in Fine THEN None ELSE Cap[form.asset]
             n == Deposit!Fraction(pct)
  <2>1. balances # None /\ form.asset \in balances.got /\ filled' = balances.of
        /\ form' = [form EXCEPT !.amount = n]
        /\ UNCHANGED <<config, Deposit!wallet, Deposit!order>>
    BY <1>20 DEF Deposit!ApplyFraction, Deposit!Edit
  <2>2. form.asset \in Assets /\ balances.of \in Accounts /\ config # "loading"
    BY <2>1 DEF Deposit!BalancesComing
  <2>3. b \in Nat /\ c \in Nat \cup {None} /\ pct \in 0..100
    BY <2>2 DEF Deposit!BridgeFormConstants
  <2> DEFINE part == (b * pct) \div 100
  <2>4. part \in Nat /\ part <= b
    BY <2>3, PartFits
  <2>5. n = IF c # None /\ part > c THEN c ELSE part
    BY DEF Deposit!Fraction
  <2> HIDE DEF b, c, n, part
  <2>6. n \in Nat /\ n <= b /\ (c # None => n <= c)
    BY <2>3, <2>4, <2>5
  <2>7. form' \in Formed /\ form'.asset = form.asset /\ form'.amount = n
    BY <1>0, <2>1, <2>6 DEF Formed
  <2>8. Deposit!FillFits'
    BY <2>1, <2>6, <2>7 DEF Deposit!FillFits, b, c
  <2>9. Deposit!FetchesOwn' /\ Deposit!BalancesComing'
    BY <2>1 DEF Deposit!FetchesOwn, Deposit!BalancesComing, Deposit!wallet
  <2>10. Deposit!FlightSound' /\ Deposit!SentIsConfirmed'
    BY <2>1 DEF Deposit!FlightSound, Deposit!SentIsConfirmed, Deposit!order
  <2>11. Deposit!TypeOK'
    BY <2>1, <2>2, <2>7 DEF Deposit!TypeOK, Formed, Deposit!wallet
  <2>12. Deposit!FilledInt'
    BY <2>1, <2>2, <2>6, <2>7 DEF Deposit!FilledInt
  <2> QED
    BY <2>8, <2>9, <2>10, <2>11, <2>12
<1>21. CASE Deposit!Submit
  <2> DEFINE asking == [form EXCEPT !.suggestion = FALSE]
  <2>1. UNCHANGED <<config, filled>> /\ UNCHANGED Deposit!wallet /\ flight = None
    BY <1>21 DEF Deposit!Submit, Deposit!Enabled
  <2>2. asking \in Formed /\ asking.asset = form.asset /\ asking.amount = form.amount
        /\ asking.dir = form.dir /\ asking.receiver = form.receiver
    BY <1>0 DEF Formed
  <2>3. CASE Deposit!Complete /\ (form.dir = "e2m" => form.receiver = "ml")
    <3>1. form' = asking /\ flight' = asking /\ confirmed' = asking /\ sent' = None
      BY <1>21, <2>3 DEF Deposit!Submit
    <3> HIDE DEF asking
    <3>2. Deposit!TypeOK' /\ Deposit!FetchesOwn' /\ Deposit!BalancesComing'
            /\ Deposit!FilledInt' /\ Deposit!FillFits'
      BY <2>1, <2>2, <3>1
      DEF Deposit!TypeOK, Deposit!FetchesOwn, Deposit!BalancesComing,
          Deposit!FilledInt, Deposit!FillFits, Deposit!wallet, Formed
    <3>3. form.dir \in Deposit!Directions /\ (form.dir # "e2m" <=> form.dir = "m2e")
      BY <1>0 DEF Formed, Deposit!Directions
    <3>4. form.asset \in Assets
      BY <1>0, <2>3 DEF Formed, Deposit!Complete
    <3>5. Deposit!FlightSound'
      BY <2>2, <2>3, <3>1, <3>3, <3>4 DEF Deposit!FlightSound, Deposit!Complete
    <3>6. Deposit!SentIsConfirmed'
      BY <3>1 DEF Deposit!SentIsConfirmed
    <3> QED
      BY <3>2, <3>5, <3>6
  <2>4. CASE ~(Deposit!Complete /\ (form.dir = "e2m" => form.receiver = "ml"))
    <3> DEFINE w == /\ Deposit!Complete /\ form.dir = "e2m"
                    /\ form.receiver = "typo"
    <3>1. form' = [asking EXCEPT !.suggestion = w] /\ UNCHANGED Deposit!order
      BY <1>21, <2>4 DEF Deposit!Submit
    <3>2. w \in BOOLEAN
      OBVIOUS
    <3> HIDE DEF asking, w
    <3>3. form' \in Formed /\ form'.asset = form.asset /\ form'.amount = form.amount
      BY <2>2, <3>1, <3>2 DEF Formed
    <3> QED
      BY <2>1, <3>1, <3>3, Edited DEF Formed
  <2> QED
    BY <2>3, <2>4
<1>22. CASE Deposit!Deposit
  <2>1. UNCHANGED <<config, form, filled, confirmed>> /\ UNCHANGED Deposit!wallet
          /\ flight # None
        /\ flight' = None /\ sent' = flight /\ (flight.dir = "e2m" => flight.asset \in EthSide)
    BY <1>22 DEF Deposit!Deposit, Deposit!Taken
  <2>2. Deposit!TypeOK' /\ Deposit!FetchesOwn' /\ Deposit!BalancesComing' /\ Deposit!FilledInt'
          /\ Deposit!FillFits'
    BY <2>1
    DEF Deposit!TypeOK, Deposit!FetchesOwn, Deposit!BalancesComing,
        Deposit!FilledInt, Deposit!FillFits, Deposit!wallet
  <2>3. Deposit!FlightSound'
    BY <2>1 DEF Deposit!FlightSound
  <2>4. Deposit!SentIsConfirmed'
    BY <2>1 DEF Deposit!SentIsConfirmed, Deposit!FlightSound, Deposit!Directions
  <2> QED
    BY <2>2, <2>3, <2>4
<1>23. CASE Deposit!SubmitFails
  <2>1. UNCHANGED <<config, form, filled, sent>> /\ UNCHANGED Deposit!wallet /\ flight # None
        /\ flight' = None
    BY <1>23 DEF Deposit!SubmitFails
  <2>2. Deposit!TypeOK' /\ Deposit!FetchesOwn' /\ Deposit!BalancesComing' /\ Deposit!FilledInt'
          /\ Deposit!FillFits'
    BY <2>1
    DEF Deposit!TypeOK, Deposit!FetchesOwn, Deposit!BalancesComing,
        Deposit!FilledInt, Deposit!FillFits, Deposit!wallet
  <2>3. Deposit!FlightSound' /\ Deposit!SentIsConfirmed'
    BY <2>1 DEF Deposit!FlightSound, Deposit!SentIsConfirmed
  <2> QED
    BY <2>2, <2>3
<1>24. CASE Deposit!ResetForm
  <2> DEFINE g == [form EXCEPT !.amount = None, !.receiver = None, !.code = FALSE, !.suggestion
      = FALSE]
  <2>1. g \in Formed
    BY <1>0 DEF Formed
  <2> QED
    BY <1>10, <1>24, <2>1 DEF Deposit!ResetForm
<1>25. CASE UNCHANGED Deposit!vars
  BY <1>4, <1>25 DEF Deposit!vars, Deposit!wallet, Deposit!TypeOK
<1> QED
  BY <1>1, <1>3, <1>5, <1>6, <1>7, <1>8, <1>9, <1>11, <1>12, <1>13, <1>14, <1>15,
     <1>16, <1>17,
     <1>18, <1>19, <1>20, <1>21, <1>22, <1>23, <1>24, <1>25 DEF Deposit!Next

LEMMA DepositSound == ASSUME Deposit!BridgeFormInv PROVE Deposit!FormSound
BY DEF Deposit!BridgeFormInv, Deposit!BalancesComing, Deposit!FormSound,
   Deposit!BalancesOwn

(* What is deposited is what the user confirmed, to an address of the      *)
(* right chain and not above the cap as far as two doubles can tell, and   *)
(* an amount that a button filled in fits the balance of the account it    *)
(* was filled from, and the cap when that can be read, for any accounts,   *)
(* assets, caps and balances (BridgePanel.tsx:442, :648, :687).            *)
THEOREM DepositsAreAsConfirmed ==
    ASSUME Deposit!BridgeFormConstants
    PROVE  Deposit!Spec => []Deposit!FormSound
<1>1. Deposit!Init => Deposit!BridgeFormInv
  BY DepositInit
<1>2. Deposit!BridgeFormInv /\ [Deposit!Next]_Deposit!vars => Deposit!BridgeFormInv'
  BY DepositStep
<1>3. Deposit!BridgeFormInv => Deposit!FormSound
  BY DepositSound
<1> QED
  BY <1>1, <1>2, <1>3, PTL DEF Deposit!Spec
-----------------------------------------------------------------------------
(* BtcSetup. A page's own read waits for its submission, an answer that    *)
(* claims a wallet has one or is doubted, and words are taken away only    *)
(* from who entered them.                                                  *)
LEMMA SetupInit == ASSUME Setup!Init PROVE Setup!BtcSetupInv
<1>1. Setup!Fresh \in Setup!PagesOpen /\ Setup!NoReq \in Setup!Requests
        /\ Setup!Opening \in [own : Setup!Seen, other : Setup!Seen]
  BY DEF Setup!Fresh, Setup!NoReq, Setup!Opening, Setup!PagesOpen,
     Setup!Requests, Setup!Seen, Setup!Answers, Setup!Submissions
<1>2. Setup!TypeOK
  BY <1>1 DEF Setup!Init, Setup!TypeOK
<1>3. Setup!RequestsTrue /\ Setup!OwnRead /\ Setup!WordsProved /\ Setup!ToldTrue
        /\ Setup!KeysRelocked
  BY DEF Setup!Init, Setup!RequestsTrue, Setup!OwnRead, Setup!WordsProved,
     Setup!ToldTrue, Setup!Claims, Setup!Landed, Setup!KeysRelocked,
     Setup!Linked,
         Setup!Fresh, Setup!NoReq, Setup!Opening
<1>4. Setup!OpeningAlone /\ Setup!WaitsSilent
  BY DEF Setup!Init, Setup!OpeningAlone, Setup!WaitsSilent, Setup!Claims,
     Setup!Fresh, Setup!NoReq
<1> QED
  BY <1>2, <1>3, <1>4 DEF Setup!BtcSetupInv

(* One caller's request goes on.                                           *)
Changed(t, stage, reply) ==
    /\ req' \in [Setup!Callers -> Setup!Requests]
    /\ req'[t].kind = req[t].kind /\ req'[t].at = stage /\ req'[t].answer = reply
    /\ \A u \in Setup!Callers \ {t} : req'[u] = req[u]

Stages == {"idle", "sent", "probe", "create", "opening", "unlock", "reveal", "locking", "answered", "refreshing"}

LEMMA GoChanges ==
    ASSUME Setup!TypeOK, NEW t \in Setup!Callers, NEW stage \in Stages, Setup!Go(t, stage)
    PROVE  Changed(t, stage, req[t].answer)
BY DEF Setup!TypeOK, Setup!Go, Changed, Setup!Requests, Stages

LEMMA AnswerChanges ==
    ASSUME Setup!TypeOK, NEW t \in Setup!Callers, NEW a \in Setup!Answers, Setup!Answer(t, a)
    PROVE  Changed(t, "answered", a)
BY DEF Setup!TypeOK, Setup!Answer, Changed, Setup!Requests

LEMMA FailChanges ==
    ASSUME Setup!TypeOK, NEW t \in Setup!Callers, NEW a \in Setup!Answers, Setup!Fails(t, a)
    PROVE  Changed(t, "locking", a)
BY DEF Setup!TypeOK, Setup!Fails, Changed, Setup!Requests

(* Who holds the keys open, and whether a link has ended.                  *)
LEMMA KeysKept ==
    ASSUME Setup!KeysRelocked, NEW t \in Setup!Callers, UNCHANGED <<locked, leftOpen>>,
           \A u \in Setup!Callers \ {t} : req'[u] = req[u],
           Setup!Within(t) => req'[t].at \in {"reveal", "locking"},
           wallet' \in {wallet, "none"} \/ (wallet' = req[t].kind /\ req[t].at = "create"),
           req'[t].kind = "linked" /\ req'[t].at \in {"create", "opening"} =>
               req[t].kind = "linked" /\ req[t].at \in {"create", "opening"}
    PROVE  Setup!KeysRelocked'
<1>1. ASSUME Setup!Linked' PROVE Setup!Linked
  BY <1>1 DEF Setup!Linked
<1>2. \A u \in Setup!Callers : Setup!Within(u) => Setup!Within(u)'
  BY DEF Setup!Within
<1> QED
  BY <1>1, <1>2 DEF Setup!KeysRelocked

(* Nothing is said to the page, and nobody else's word is worth less.      *)
LEMMA HandlerKeeps ==
    ASSUME Setup!BtcSetupInv, NEW t \in Setup!Callers, NEW stage \in Stages,
           NEW a \in Setup!Answers, Changed(t, stage, a),
           UNCHANGED <<page, reads>>,
           req[t].at \notin {"idle", "refreshing"}, stage \notin {"idle", "refreshing"},
           wallet' \in {wallet, req[t].kind, "none"},
           stage \in {"probe", "unlock", "reveal", "locking"} => req[t].kind = "linked",
           Setup!Landed(a) => (wallet' # "none" \/ t \in doubted') /\ stage = "answered",
           Setup!KeysRelocked',
           doubted' \subseteq Setup!Callers,
           \A u \in Setup!Callers \ {t} :
               /\ u \in doubted => u \in doubted'
               /\ wallet' # "none" \/ u \in doubted' \/ wallet = "none" \/ ~Setup!CountsOnIt(u),
           Setup!OpeningAlone'
    PROVE  Setup!BtcSetupInv'
<1>1. req[t].kind \in Setup!Submissions /\ "none" \notin Setup!Submissions
        /\ SetupTabs \subseteq Setup!Callers
  BY DEF Setup!BtcSetupInv, Setup!RequestsTrue, Setup!Submissions, Setup!Callers
<1>2. Setup!TypeOK'
  BY <1>1 DEF Setup!BtcSetupInv, Setup!TypeOK, Changed
<1>3. \A u \in SetupTabs : Setup!Claims(u) => u # t
  BY DEF Setup!BtcSetupInv, Setup!WaitsSilent
<1>4. \A u \in Setup!Callers \ {t} :
          /\ Setup!Landed(req[u].answer) => wallet' # "none" \/ u \in doubted'
          /\ u \in SetupTabs /\ Setup!Claims(u) => wallet' # "none" \/ u \in doubted'
  BY DEF Setup!BtcSetupInv, Setup!RequestsTrue, Setup!ToldTrue, Setup!CountsOnIt
<1>5. Setup!RequestsTrue'
  <2>1. Setup!RequestsTrue /\ \A u \in Setup!Callers \ {t} : req'[u] = req[u]
    BY DEF Setup!BtcSetupInv, Changed
  <2>2. req'[t].kind = req[t].kind /\ req'[t].at = stage /\ req'[t].answer = a
    BY DEF Changed
  <2>3. ASSUME NEW u \in Setup!Callers \ {t}
        PROVE  /\ req'[u].at # "idle" => req'[u].kind \in Setup!Submissions
               /\ req'[u].at \in {"probe", "unlock", "reveal", "locking"}
                  => req'[u].kind = "linked"
               /\ Setup!Landed(req'[u].answer) => /\ wallet' # "none" \/ u \in doubted'
                                                  /\ req'[u].at \in {"answered", "refreshing"}
    <3>1. req'[u] = req[u]
            /\ (Setup!Landed(req[u].answer) => wallet' # "none" \/ u \in doubted')
      BY <1>4, <2>1, <2>3
    <3> QED
      BY <2>1, <3>1 DEF Setup!RequestsTrue
  <2>4. /\ req'[t].at # "idle" => req'[t].kind \in Setup!Submissions
        /\ req'[t].at \in {"probe", "unlock", "reveal", "locking"} => req'[t].kind = "linked"
        /\ Setup!Landed(req'[t].answer) => /\ wallet' # "none" \/ t \in doubted'
                                           /\ req'[t].at \in {"answered", "refreshing"}
    BY <1>1, <2>2
  <2> QED
    BY <2>3, <2>4 DEF Setup!RequestsTrue
<1>6. Setup!OwnRead' /\ Setup!WaitsSilent'
  BY <1>1
  DEF Setup!BtcSetupInv, Setup!OwnRead, Setup!WaitsSilent, Setup!Claims, Changed
<1>7. Setup!WordsProved' /\ Setup!ToldTrue'
  <2>1. Setup!WordsProved'
    BY DEF Setup!BtcSetupInv, Setup!WordsProved
  <2>2. \A u \in SetupTabs : Setup!Claims(u)' <=> Setup!Claims(u)
    BY DEF Setup!Claims
  <2>3. Setup!ToldTrue'
    <3> SUFFICES ASSUME NEW u \in SetupTabs, Setup!Claims(u)'
                 PROVE  wallet' # "none" \/ u \in doubted'
      BY DEF Setup!ToldTrue
    <3>1. u \in Setup!Callers \ {t} /\ Setup!Claims(u)
      BY <1>1, <1>3, <2>2
    <3> QED
      BY <1>4, <3>1
  <2> QED
    BY <2>1, <2>3
<1> QED
  BY <1>2, <1>5, <1>6, <1>7 DEF Setup!BtcSetupInv

(* A step that does not touch the file leaves those alone who open it.     *)
LEMMA AloneKept ==
    ASSUME Setup!BtcSetupInv, NEW t \in Setup!Callers, UNCHANGED <<page, wallet, doubted>>,
           \A u \in Setup!Callers \ {t} : req'[u] = req[u],
           req'[t].at = "opening" => req[t].at = "opening",
           Setup!Landed(req'[t].answer) => Setup!Landed(req[t].answer) \/ req[t].at = "opening"
    PROVE  Setup!OpeningAlone'
BY DEF Setup!BtcSetupInv, Setup!OpeningAlone, Setup!CountsOnIt, Setup!Claims

(* The request of a caller that rests, or begins, or ends.                 *)
Rests(t) ==
    /\ req' \in [Setup!Callers -> Setup!Requests]
    /\ \A u \in Setup!Callers \ {t} : req'[u] = req[u]
    /\ \/ req'[t] = req[t]
       \/ /\ req[t].at \in {"idle", "answered", "refreshing"}
          /\ req'[t].at \in {"idle", "sent", "refreshing"}
          /\ req'[t].at # "idle" => req'[t].kind \in Setup!Submissions
          /\ Setup!Landed(req'[t].answer)
             => Setup!Landed(req[t].answer) /\ req'[t].at = "refreshing"

LEMMA RestKeeps ==
    ASSUME Setup!BtcSetupInv, NEW t \in Setup!Callers, UNCHANGED Setup!server, Rests(t)
    PROVE  Setup!RequestsTrue' /\ Setup!KeysRelocked'
<1>1. Setup!RequestsTrue'
  BY DEF Setup!BtcSetupInv, Setup!RequestsTrue, Rests, Setup!server
<1>2. Setup!KeysRelocked'
  <2>1. UNCHANGED <<wallet, locked, leftOpen>> /\ Setup!KeysRelocked
    BY DEF Setup!server, Setup!BtcSetupInv
  <2>2. \A u \in Setup!Callers \ {t} : req'[u] = req[u]
    BY DEF Rests
  <2>3. Setup!Within(t) => req'[t].at \in {"reveal", "locking"}
    BY DEF Rests, Setup!Within
  <2>4. req'[t].kind = "linked" /\ req'[t].at \in {"create", "opening"} =>
             req[t].kind = "linked" /\ req[t].at \in {"create", "opening"}
    BY DEF Rests
  <2> QED
    BY <2>1, <2>2, <2>3, <2>4, KeysKept
<1> QED
  BY <1>1, <1>2

(* What happens on one page.                                               *)
PageGoes(t) ==
    /\ page' \in [SetupTabs -> Setup!PagesOpen]
    /\ \A u \in SetupTabs \ {t} : page'[u] = page[u]
    /\ page'[t].given => page'[t].words \/ page'[t].proved
    /\ page'[t].verified => page'[t].proved
    /\ Setup!Claims(t)' => Setup!Claims(t) \/ Setup!Landed(req[t].answer)

LEMMA PageKeeps ==
    ASSUME Setup!BtcSetupInv, NEW t \in SetupTabs, UNCHANGED Setup!server, Rests(t),
           PageGoes(t),
           reads' \in [SetupTabs -> [own : Setup!Seen, other : Setup!Seen]],
           \A u \in SetupTabs \ {t} : reads'[u] = reads[u],
           reads'[t].own # "free" => req'[t].at = "refreshing",
           Setup!Claims(t)' => req'[t].at \in {"idle", "refreshing"}
    PROVE  Setup!BtcSetupInv'
<1>1. t \in Setup!Callers /\ SetupTabs \subseteq Setup!Callers
  BY DEF Setup!Callers
<1>2. Setup!RequestsTrue' /\ Setup!KeysRelocked'
  BY <1>1, RestKeeps
<1>3. Setup!TypeOK'
  BY DEF Setup!BtcSetupInv, Setup!TypeOK, Rests, PageGoes, Setup!server
<1>4. Setup!OwnRead'
  BY <1>1 DEF Setup!BtcSetupInv, Setup!OwnRead, Rests
<1>5. Setup!WordsProved'
  BY DEF Setup!BtcSetupInv, Setup!WordsProved, PageGoes
<1>6. Setup!ToldTrue'
  <2>1. Setup!Claims(t)' => wallet # "none" \/ t \in doubted
    BY <1>1 DEF Setup!BtcSetupInv, Setup!ToldTrue, Setup!RequestsTrue, PageGoes
  <2> QED
    BY <2>1
    DEF Setup!BtcSetupInv, Setup!ToldTrue, Setup!Claims, PageGoes, Setup!server
<1>7. Setup!OpeningAlone' /\ Setup!WaitsSilent'
  <2>1. \A u \in Setup!Callers : Setup!CountsOnIt(u)' => Setup!CountsOnIt(u)
    BY DEF Setup!CountsOnIt, Rests, PageGoes, Setup!Claims, Setup!server
  <2>2. \A u \in Setup!Callers : req'[u].at = "opening" => req[u].at = "opening"
    BY DEF Rests
  <2>3. Setup!OpeningAlone'
    BY <2>1, <2>2 DEF Setup!BtcSetupInv, Setup!OpeningAlone, Setup!server
  <2>4. Setup!WaitsSilent'
    BY <1>1
    DEF Setup!BtcSetupInv, Setup!WaitsSilent, Setup!Claims, Rests, PageGoes
  <2> QED
    BY <2>3, <2>4
<1> QED
  BY <1>2, <1>3, <1>4, <1>5, <1>6, <1>7 DEF Setup!BtcSetupInv

LEMMA SameRequests ==
    ASSUME Setup!TypeOK, NEW t \in Setup!Callers, UNCHANGED req
    PROVE  Rests(t)
BY DEF Setup!TypeOK, Rests

LEMMA NoRequest ==
    ASSUME Setup!TypeOK, NEW t \in Setup!Callers, req' = [req EXCEPT ![t] = Setup!NoReq],
           req[t].at \in {"idle", "answered", "refreshing"}
    PROVE  Rests(t) /\ req'[t] = Setup!NoReq
<1>1. Setup!NoReq \in Setup!Requests /\ Setup!NoReq.at = "idle"
        /\ ~Setup!Landed(Setup!NoReq.answer)
  BY DEF Setup!NoReq, Setup!Requests, Setup!Answers, Setup!Landed
<1> QED
  BY <1>1 DEF Setup!TypeOK, Rests

LEMMA SamePages ==
    ASSUME Setup!BtcSetupInv, NEW t \in SetupTabs, UNCHANGED page
    PROVE  PageGoes(t)
BY DEF Setup!BtcSetupInv, Setup!TypeOK, Setup!WordsProved, Setup!Claims,
   PageGoes

LEMMA SameReads ==
    ASSUME Setup!BtcSetupInv, NEW t \in SetupTabs, reads' = reads, req'[t] = req[t]
    PROVE  /\ reads' \in [SetupTabs -> [own : Setup!Seen, other : Setup!Seen]]
           /\ \A u \in SetupTabs \ {t} : reads'[u] = reads[u]
           /\ reads'[t].own # "free" => req'[t].at = "refreshing"
BY DEF Setup!BtcSetupInv, Setup!TypeOK, Setup!OwnRead

LEMMA Bounced ==
    ASSUME Setup!BtcSetupInv, NEW t \in SetupTabs, NEW a \in Setup!Answers, Setup!Bounce(t, a),
           UNCHANGED Setup!server
    PROVE  Setup!BtcSetupInv'
<1>1. t \in Setup!Callers
  BY DEF Setup!Callers
<1> DEFINE p == [Setup!Fresh EXCEPT !.at = "login", !.left = a]
<1>2. page' = [page EXCEPT ![t] = p]
  BY DEF Setup!Bounce
<1>3. p \in Setup!PagesOpen /\ ~p.given /\ ~p.verified /\ p.says = "nothing"
  BY DEF Setup!Fresh, Setup!PagesOpen
<1> HIDE DEF p
<1>4. PageGoes(t) /\ ~Setup!Claims(t)'
  BY <1>2, <1>3 DEF Setup!BtcSetupInv, Setup!TypeOK, PageGoes, Setup!Claims
<1> DEFINE r == [own |-> "free", other |-> "free"]
<1>5. reads' = [reads EXCEPT ![t] = r] /\ r \in [own : Setup!Seen, other : Setup!Seen]
        /\ r.own = "free"
  BY DEF Setup!Bounce, Setup!Seen
<1> HIDE DEF r
<1>6. /\ reads' \in [SetupTabs -> [own : Setup!Seen, other : Setup!Seen]]
      /\ \A u \in SetupTabs \ {t} : reads'[u] = reads[u]
      /\ reads'[t].own = "free"
  BY <1>5 DEF Setup!BtcSetupInv, Setup!TypeOK
<1>7. Rests(t)
  <2>1. CASE Setup!Working(t)
    BY <1>1, <2>1, SameRequests DEF Setup!Bounce, Setup!BtcSetupInv
  <2>2. CASE ~Setup!Working(t)
    BY <1>1, <2>2, NoRequest DEF Setup!Bounce, Setup!BtcSetupInv, Setup!Working
  <2> QED
    BY <2>1, <2>2
<1> QED
  BY <1>4, <1>6, <1>7, PageKeeps

LEMMA HandlerStep ==
    ASSUME Setup!BtcSetupInv, NEW t \in Setup!Callers, Setup!Handler(t)
    PROVE  Setup!BtcSetupInv'
<1> USE DEF Setup!BtcSetupInv
<1>0. /\ req[t] \in Setup!Requests /\ req[t].answer \in Setup!Answers
      /\ req[t].at # "idle" => req[t].kind \in Setup!Submissions
      /\ req[t].at \in {"probe", "unlock", "reveal", "locking"} => req[t].kind = "linked"
      /\ req[t].at \notin {"answered", "refreshing"} => ~Setup!Landed(req[t].answer)
      /\ doubted \subseteq Setup!Callers
  BY DEF Setup!TypeOK, Setup!RequestsTrue, Setup!Requests
<1>1. {"expired", "code", "refused", "password", "exists", "ok", "gone"} \subseteq Setup!Answers
  BY DEF Setup!Answers
<1>2. ASSUME NEW stage \in Stages, NEW a \in Setup!Answers, Changed(t, stage, a),
             UNCHANGED <<page, reads>>, UNCHANGED <<wallet, locked, leftOpen>>,
             req[t].at \notin {"idle", "refreshing", "answered"}, stage # "idle",
             stage \in {"probe", "unlock", "reveal", "locking"} => req[t].kind = "linked",
             stage # "opening", req[t].at # "opening", stage # "refreshing",
             stage = "create" => req[t].kind # "linked",
             Setup!Within(t) => stage \in {"reveal", "locking"},
             ~Setup!Landed(a), UNCHANGED doubted
      PROVE  Setup!BtcSetupInv'
  <2>1. Setup!KeysRelocked'
    BY <1>2, KeysKept DEF Changed
  <2>2. Setup!OpeningAlone'
    BY <1>2, AloneKept DEF Changed
  <2>3. doubted \subseteq Setup!Callers
    BY DEF Setup!TypeOK
  <2> QED
    BY <1>2, <2>1, <2>2, <2>3, HandlerKeeps
<1>3. CASE Setup!StepUp(t)
  <2>1. req[t].at = "sent" /\ UNCHANGED <<page, reads>>
          /\ UNCHANGED <<wallet, locked, leftOpen, doubted>>
    BY <1>3 DEF Setup!StepUp, Setup!server, Setup!Untouched
  <2>2. ~Setup!Within(t)
    BY <2>1 DEF Setup!Within
  <2>3. CASE \E a \in {"expired", "code"} : Setup!Answer(t, a)
    BY <1>1, <1>2, <2>1, <2>2, <2>3, AnswerChanges DEF Stages, Setup!Landed
  <2>4. CASE Setup!Go(t, IF req[t].kind = "linked" THEN "probe" ELSE "create")
    BY <1>0, <1>2, <2>1, <2>2, <2>4, GoChanges DEF Stages
  <2> QED
    BY <1>3, <2>3, <2>4 DEF Setup!StepUp
<1>4. CASE Setup!Probe(t)
  <2>1. req[t].at = "probe" /\ UNCHANGED <<page, reads>>
          /\ UNCHANGED <<wallet, locked, leftOpen, doubted>>
    BY <1>4 DEF Setup!Probe, Setup!server, Setup!Untouched
  <2>2. ~Setup!Within(t)
    BY <2>1 DEF Setup!Within
  <2>3. CASE Setup!Answer(t, "refused")
    BY <1>1, <1>2, <2>1, <2>2, <2>3, AnswerChanges DEF Stages, Setup!Landed
  <2>4. CASE Setup!Go(t, "unlock")
    BY <1>0, <1>2, <2>1, <2>2, <2>4, GoChanges DEF Stages
  <2> QED
    BY <1>4, <2>3, <2>4 DEF Setup!Probe
<1>5. CASE Setup!Unlock(t)
  <2>1. req[t].at = "unlock" /\ UNCHANGED <<page, reads>>
          /\ UNCHANGED <<wallet, leftOpen, doubted>>
    BY <1>5 DEF Setup!Unlock, Setup!Untouched
  <2>2. CASE Setup!Fails(t, "password") /\ UNCHANGED locked
    BY <1>0, <1>1, <1>2, <2>1, <2>2, FailChanges DEF Stages, Setup!Landed
  <2>3. CASE Setup!Go(t, "reveal")
    <3>1. Changed(t, "reveal", req[t].answer)
      BY <2>3, GoChanges DEF Stages
    <3>2. Setup!KeysRelocked'
      BY <3>1 DEF Changed, Setup!KeysRelocked, Setup!Within
    <3>3. Setup!OpeningAlone'
      BY <2>1, <3>1, AloneKept DEF Changed
    <3> QED
      BY <1>0, <2>1, <3>1, <3>2, <3>3, HandlerKeeps DEF Stages
  <2> QED
    BY <1>5, <2>2, <2>3 DEF Setup!Unlock
<1>6. CASE Setup!Reveal(t)
  <2>1. req[t].at = "reveal" /\ UNCHANGED <<page, reads>>
          /\ UNCHANGED <<wallet, locked, leftOpen, doubted>>
    BY <1>6 DEF Setup!Reveal, Setup!server, Setup!Untouched
  <2>2. CASE \E a \in {"password", "refused"} : Setup!Fails(t, a)
    BY <1>0, <1>1, <1>2, <2>1, <2>2, FailChanges DEF Stages, Setup!Landed
  <2>3. CASE Setup!Go(t, "locking")
    BY <1>0, <1>2, <2>1, <2>3, GoChanges DEF Stages
  <2> QED
    BY <1>6, <2>2, <2>3 DEF Setup!Reveal
<1>7. CASE Setup!Lock(t)
  <2> DEFINE stage == IF req[t].answer = "none" THEN "create" ELSE "answered"
  <2>1. /\ req[t].at = "locking" /\ UNCHANGED <<page, reads>> /\ UNCHANGED <<wallet, doubted>>
        /\ (locked' \/ leftOpen') /\ Setup!Go(t, stage)
    BY <1>7 DEF Setup!Lock, Setup!Untouched
  <2>2. stage \in Stages /\ stage \in {"create", "answered"} /\ Setup!Go(t, stage)
    BY <1>7 DEF Setup!Lock, Stages
  <2> HIDE DEF stage
  <2>3. Changed(t, stage, req[t].answer)
    BY <2>2, GoChanges
  <2>4. Setup!KeysRelocked'
    BY <2>1 DEF Setup!KeysRelocked
  <2>5. Setup!OpeningAlone'
    BY <2>1, <2>2, <2>3, AloneKept DEF Changed
  <2> QED
    BY <1>0, <2>1, <2>2, <2>3, <2>4, <2>5, HandlerKeeps
<1>8. ASSUME NEW stage \in {"answered", "opening", "create"}, NEW a \in Setup!Answers,
             Changed(t, stage, a),
             UNCHANGED <<page, reads>>, UNCHANGED <<locked, leftOpen>>, ~Setup!Within(t),
             req[t].at \in {"create", "opening"},
             wallet' \in {wallet, "none"} \/ (wallet' = req[t].kind /\ req[t].at = "create"),
             Setup!Landed(a) => (wallet' # "none" \/ t \in doubted') /\ stage = "answered",
             doubted' \subseteq Setup!Callers,
             \A u \in Setup!Callers \ {t} :
                 /\ u \in doubted => u \in doubted'
                 /\ wallet' # "none" \/ u \in doubted' \/ wallet = "none"
                    \/ ~Setup!CountsOnIt(u),
             Setup!OpeningAlone'
      PROVE  Setup!BtcSetupInv'
  <2>1. Setup!KeysRelocked'
    BY <1>8, KeysKept DEF Changed
  <2> QED
    BY <1>8, <2>1, HandlerKeeps DEF Stages
<1>9. ASSUME NEW stage \in {"answered", "create"}, NEW a \in Setup!Answers,
             Changed(t, stage, a),
             UNCHANGED <<page, reads, wallet, doubted>>, UNCHANGED <<locked, leftOpen>>,
             req[t].at \in {"create", "opening"}, Setup!Landed(a)
                 => a = "ok" /\ req[t].at = "opening"
                                                              /\ stage = "answered"
      PROVE  Setup!BtcSetupInv'
  <2>1. Setup!OpeningAlone'
    BY <1>9, AloneKept DEF Changed
  <2>2. Setup!Landed(a) => wallet # "none" \/ t \in doubted
    BY <1>9 DEF Setup!OpeningAlone
  <2>3. ~Setup!Within(t)
    BY <1>9 DEF Setup!Within
  <2> QED
    BY <1>0, <1>8, <1>9, <2>1, <2>2, <2>3
<1>10. ASSUME Setup!TryAgain(t), UNCHANGED <<page, reads, wallet, doubted>>,
              UNCHANGED <<locked, leftOpen>>,
              req[t].at \in {"create", "opening"}
       PROVE  Setup!BtcSetupInv'
  <2>1. Changed(t, "answered", "gone") \/ Changed(t, "create", req[t].answer)
    BY <1>1, <1>10, AnswerChanges, GoChanges DEF Setup!TryAgain, Stages
  <2>2. ~Setup!Landed("gone") /\ ~Setup!Landed(req[t].answer) /\ "gone" \in Setup!Answers
    BY <1>0, <1>10, <1>1 DEF Setup!Landed
  <2> QED
    BY <1>0, <1>9, <1>10, <2>1, <2>2
<1>11. CASE Setup!Create(t)
  <2>1. req[t].at = "create" /\ UNCHANGED <<page, reads>> /\ UNCHANGED <<locked, leftOpen>>
          /\ ~Setup!Within(t)
    BY <1>11 DEF Setup!Create, Setup!Untouched, Setup!Within
  <2>2. req[t].kind \in Setup!Submissions /\ "none" \notin Setup!Submissions
    BY <1>0, <2>1 DEF Setup!Submissions
  <2>3. CASE /\ wallet # "none"
             /\ doubted' = IF Setup!OpenedByOther(t) THEN doubted \cup {t} ELSE doubted \ {t}
             /\ Setup!Answer(t, "exists") /\ UNCHANGED wallet
    <3>1. Changed(t, "answered", "exists")
      BY <1>1, <2>3, AnswerChanges
    <3>2. doubted' \subseteq Setup!Callers /\ \A u \in Setup!Callers \ {t} : u \in doubted
            <=> u \in doubted'
      BY <1>0, <2>3
    <3>3. t \notin doubted' => \A u \in Setup!Callers \ {t} : req[u].at # "opening"
      BY <2>3 DEF Setup!OpenedByOther
    <3>4. \A u \in Setup!Callers \ {t} : Setup!CountsOnIt(u)' => Setup!CountsOnIt(u)
      BY <2>1, <3>1, <3>2 DEF Changed, Setup!CountsOnIt, Setup!Claims
    <3>5. Setup!OpeningAlone'
      BY <2>3, <3>1, <3>2, <3>3, <3>4
      DEF Setup!OpeningAlone, Changed, Setup!CountsOnIt
    <3> QED
      BY <1>1, <1>8, <2>1, <2>3, <3>1, <3>2, <3>5
  <2>4. CASE wallet = "none" /\ wallet' = req[t].kind /\ doubted' = doubted \ {t}
               /\ Setup!Go(t, "opening")
    <3>1. Changed(t, "opening", req[t].answer)
      BY <2>4, GoChanges DEF Stages
    <3>2. doubted' \subseteq Setup!Callers /\ \A u \in Setup!Callers \ {t} : u \in doubted
            <=> u \in doubted'
      BY <1>0, <2>4
    <3>3. \A u \in Setup!Callers \ {t} : ~Setup!CountsOnIt(u)
      BY <2>4
      DEF Setup!CountsOnIt, Setup!OpeningAlone, Setup!RequestsTrue,
          Setup!ToldTrue
    <3>4. \A u \in Setup!Callers \ {t} : ~Setup!CountsOnIt(u)'
      BY <2>1, <3>1, <3>2, <3>3 DEF Changed, Setup!CountsOnIt, Setup!Claims
    <3>5. Setup!OpeningAlone'
      BY <2>2, <2>4, <3>1, <3>2, <3>4
      DEF Setup!OpeningAlone, Changed, Setup!CountsOnIt
    <3> QED
      BY <1>0, <1>8, <2>1, <2>2, <2>4, <3>1, <3>2, <3>5
  <2>5. CASE Setup!Answer(t, "refused") /\ UNCHANGED <<wallet, doubted>>
    <3>1. Changed(t, "answered", "refused")
      BY <1>1, <2>5, AnswerChanges
    <3> QED
      BY <1>1, <1>9, <2>1, <2>5, <3>1 DEF Setup!Landed
  <2>6. CASE Setup!TryAgain(t) /\ UNCHANGED <<wallet, doubted>>
    BY <1>10, <2>1, <2>6
  <2>7. CASE /\ Setup!Answer(t, "refused") /\ wallet' = "none"
             /\ doubted' = IF wallet = "none" THEN doubted ELSE Setup!Callers
    <3>1. Changed(t, "answered", "refused")
      BY <1>1, <2>7, AnswerChanges
    <3>2. CASE wallet = "none"
      BY <1>1, <1>9, <2>1, <2>7, <3>1, <3>2 DEF Setup!Landed
    <3>3. CASE wallet # "none"
      <4>1. doubted' = Setup!Callers
        BY <2>7, <3>3
      <4>2. Setup!OpeningAlone'
        BY <4>1 DEF Setup!OpeningAlone
      <4> QED
        BY <1>1, <1>8, <2>1, <2>7, <3>1, <4>1, <4>2 DEF Setup!Landed
    <3> QED
      BY <3>2, <3>3
  <2> QED
    BY <1>11, <2>3, <2>4, <2>5, <2>6, <2>7 DEF Setup!Create
<1>12. CASE Setup!Open(t)
  <2>1. req[t].at = "opening" /\ UNCHANGED <<page, reads>> /\ UNCHANGED <<locked, leftOpen>>
          /\ ~Setup!Within(t)
    BY <1>12 DEF Setup!Open, Setup!Untouched, Setup!Within
  <2>2. CASE Setup!Answer(t, "ok") /\ UNCHANGED <<wallet, doubted>>
    <3>1. Changed(t, "answered", "ok")
      BY <1>1, <2>2, AnswerChanges
    <3> QED
      BY <1>1, <1>9, <2>1, <2>2, <3>1
  <2>3. CASE Setup!TryAgain(t) /\ UNCHANGED <<wallet, doubted>>
    BY <1>10, <2>1, <2>3
  <2>4. CASE /\ Setup!Answer(t, "refused") /\ wallet' = "none"
             /\ doubted' = IF t \in doubted THEN Setup!Callers ELSE doubted
    <3>1. Changed(t, "answered", "refused")
      BY <1>1, <2>4, AnswerChanges
    <3>2. /\ doubted' \subseteq Setup!Callers
          /\ \A u \in Setup!Callers \ {t} :
                /\ u \in doubted => u \in doubted'
                /\ u \in doubted' \/ ~Setup!CountsOnIt(u)
      BY <1>0, <2>1, <2>4 DEF Setup!OpeningAlone
    <3>3. Setup!OpeningAlone'
      <4>1. CASE t \in doubted
        BY <2>4, <4>1 DEF Setup!OpeningAlone
      <4>2. CASE t \notin doubted
        BY <2>1, <2>4, <3>1, <3>2, <4>2
        DEF Setup!OpeningAlone, Changed, Setup!CountsOnIt
      <4> QED
        BY <4>1, <4>2
    <3> QED
      BY <1>1, <1>8, <2>1, <2>4, <3>1, <3>2, <3>3 DEF Setup!Landed
  <2> QED
    BY <1>12, <2>2, <2>3, <2>4 DEF Setup!Open
<1> QED
  BY <1>3, <1>4, <1>5, <1>6, <1>7, <1>11, <1>12 DEF Setup!Handler

LEMMA OverviewKeeps ==
    ASSUME NEW p \in Setup!PagesOpen, NEW seen \in {"no", "yes", "down", "gone"}
    PROVE  LET q == Setup!Overview(p, seen)
           IN  /\ q \in Setup!PagesOpen /\ q.given = p.given /\ q.words = p.words
               /\ q.proved = p.proved
               /\ q.verified = p.verified /\ q.says = p.says
BY DEF Setup!Overview, Setup!PagesOpen

LEMMA ClearedKeeps ==
    ASSUME NEW p \in Setup!PagesOpen
    PROVE  /\ Setup!Cleared(p) \in Setup!PagesOpen /\ Setup!Cleared(p).given = p.given
              /\ Setup!Cleared(p).words = p.words
           /\ Setup!Cleared(p).proved = p.proved /\ Setup!Cleared(p).verified = p.verified
           /\ Setup!Cleared(p).says = p.says
BY DEF Setup!Cleared, Setup!PagesOpen

(* Fields that no property is about.                                       *)
Like(p, q) ==
    /\ q \in Setup!PagesOpen /\ q.given = p.given /\ q.words = p.words /\ q.proved = p.proved
    /\ q.verified = p.verified /\ q.says \in {"nothing", p.says}

LEMMA LikeFields ==
    ASSUME NEW p \in Setup!PagesOpen, NEW b \in BOOLEAN
    PROVE  /\ Like(p, [p EXCEPT !.modal = b]) /\ Like(p, [p EXCEPT !.coded = b])
           /\ Like(p, [p EXCEPT !.says = "nothing"])
<1>1. Like(p, [p EXCEPT !.modal = b])
  BY DEF Like, Setup!PagesOpen
<1>2. Like(p, [p EXCEPT !.coded = b])
  BY DEF Like, Setup!PagesOpen
<1>3. Like(p, [p EXCEPT !.says = "nothing"])
  BY DEF Like, Setup!PagesOpen
<1> QED
  BY <1>1, <1>2, <1>3

LEMMA LikeTwice ==
    ASSUME NEW p, NEW q, NEW r, Like(p, q), Like(q, r) PROVE Like(p, r)
BY DEF Like

LEMMA AnsweredStep ==
    ASSUME Setup!BtcSetupInv, NEW t \in SetupTabs, Setup!Answered(t)
    PROVE  Setup!BtcSetupInv'
<1> USE DEF Setup!BtcSetupInv
<1> DEFINE r == req[t]
           made == r.answer = "ok"
           p == page[t]
           q == [p EXCEPT !.coded = IF r.kind = "linked" THEN @ ELSE FALSE]
<1>1. t \in Setup!Callers /\ r \in Setup!Requests /\ p \in Setup!PagesOpen /\ r.at = "answered"
        /\ UNCHANGED Setup!server
  BY DEF Setup!TypeOK, Setup!Callers, Setup!Answered
<1>2. r.answer \in Setup!Answers /\ r.kind \in Setup!Submissions
  BY <1>1 DEF Setup!Requests, Setup!RequestsTrue
<1>3. CASE req' = [req EXCEPT ![t] = Setup!NoReq] /\ UNCHANGED <<page, reads>>
  <2>1. Rests(t) /\ req'[t] = Setup!NoReq
    BY <1>1, <1>3, NoRequest
  <2>2. reads[t].own = "free"
    BY <1>1 DEF Setup!OwnRead
  <2>3. req'[t].at = "idle"
    BY <2>1 DEF Setup!NoReq
  <2> QED
    BY <1>1, <1>3, <2>1, <2>2, <2>3, SamePages, PageKeeps DEF Setup!TypeOK
<1>4. CASE \E a \in Setup!Answers : Setup!Bounce(t, a)
  BY <1>1, <1>4, Bounced
<1>5. /\ q \in Setup!PagesOpen /\ q.given = p.given /\ q.words = p.words /\ q.proved = p.proved
      /\ q.verified = p.verified /\ q.says = p.says
  BY <1>1 DEF Setup!PagesOpen
<1>6. CASE /\ page' = [page EXCEPT ![t] = [q EXCEPT !.says = "failed"]]
           /\ req' = [req EXCEPT ![t] = Setup!NoReq]
           /\ UNCHANGED reads
  <2>1. Rests(t) /\ req'[t] = Setup!NoReq
    BY <1>1, <1>6, NoRequest
  <2>2. reads[t].own = "free"
    BY <1>1 DEF Setup!OwnRead
  <2> DEFINE n == [q EXCEPT !.says = "failed"]
  <2> HIDE DEF q
  <2>3. /\ n \in Setup!PagesOpen /\ n.given = p.given /\ n.words = p.words
           /\ n.proved = p.proved
        /\ n.verified = p.verified /\ n.says = "failed"
    BY <1>5 DEF Setup!PagesOpen
  <2>4. page' = [page EXCEPT ![t] = n]
    BY <1>6
  <2> HIDE DEF n
  <2>5. PageGoes(t)
    BY <2>3, <2>4 DEF PageGoes, Setup!TypeOK, Setup!WordsProved, Setup!Claims
  <2>6. req'[t].at = "idle"
    BY <2>1 DEF Setup!NoReq
  <2> QED
    BY <1>1, <1>6, <2>1, <2>2, <2>5, <2>6, PageKeeps DEF Setup!TypeOK
<1>7. CASE /\ Setup!Landed(r.answer)
           /\ page' = [page EXCEPT ![t] = Setup!Cleared(
                    IF r.kind = "linked" THEN [q EXCEPT !.says = "linked"]
                    ELSE IF ~made THEN [q EXCEPT !.says = "there"]
                    ELSE [q EXCEPT !.modal = FALSE, !.says = "there",
                            !.words = r.kind = "generated", !.verified = FALSE,
                            !.given = r.kind = "generated"])]
           /\ Setup!Go(t, "refreshing")
           /\ reads' = [reads EXCEPT ![t].own = "asked"]
  <2>2. Changed(t, "refreshing", r.answer)
    BY <1>1, <1>7, GoChanges DEF Stages
  <2>3. Rests(t) /\ req'[t].at = "refreshing"
    BY <1>1, <1>2, <1>7, <2>2 DEF Changed, Rests
  <2> DEFINE linked == [q EXCEPT !.says = "linked"]
             there == [q EXCEPT !.says = "there"]
             g == r.kind = "generated"
             new == [q EXCEPT !.modal = FALSE, !.says = "there", !.words = g,
                              !.verified = FALSE, !.given = g]
             n == IF r.kind = "linked" THEN linked ELSE IF ~made THEN there ELSE new
  <2>4. g \in BOOLEAN
    OBVIOUS
  <2>5. page' = [page EXCEPT ![t] = Setup!Cleared(n)]
    BY <1>7
  <2> HIDE DEF q, g
  <2>6. /\ linked \in Setup!PagesOpen /\ linked.given = p.given /\ linked.words = p.words
        /\ linked.proved = p.proved /\ linked.verified = p.verified
    BY <1>5 DEF Setup!PagesOpen
  <2>7. /\ there \in Setup!PagesOpen /\ there.given = p.given /\ there.words = p.words
        /\ there.proved = p.proved /\ there.verified = p.verified
    BY <1>5 DEF Setup!PagesOpen
  <2>8. new \in Setup!PagesOpen /\ new.given = g /\ new.words = g /\ ~new.verified
    BY <1>5, <2>4 DEF Setup!PagesOpen
  <2> HIDE DEF linked, there, new
  <2>9. (p.given => p.words \/ p.proved) /\ (p.verified => p.proved)
    BY DEF Setup!WordsProved
  <2>10. n \in Setup!PagesOpen /\ (n.given => n.words \/ n.proved) /\ (n.verified => n.proved)
    BY <2>4, <2>6, <2>7, <2>8, <2>9
  <2> HIDE DEF n
  <2> DEFINE c == Setup!Cleared(n)
  <2>11. c \in Setup!PagesOpen /\ (c.given => c.words \/ c.proved) /\ (c.verified => c.proved)
    BY <2>10, ClearedKeeps
  <2>12. page' = [page EXCEPT ![t] = c]
    BY <2>5
  <2> HIDE DEF c
  <2>13. PageGoes(t)
    BY <1>7, <2>11, <2>12 DEF PageGoes, Setup!TypeOK
  <2>14. /\ reads' \in [SetupTabs -> [own : Setup!Seen, other : Setup!Seen]]
         /\ \A u \in SetupTabs \ {t} : reads'[u] = reads[u]
    BY <1>7 DEF Setup!TypeOK, Setup!Seen
  <2> QED
    BY <1>1, <2>3, <2>13, <2>14, PageKeeps
<1>8. "outage" \in Setup!Answers
  BY DEF Setup!Answers
<1> QED
  BY <1>1, <1>2, <1>3, <1>4, <1>6, <1>7, <1>8 DEF Setup!Answered

LEMMA SetupStep ==
    ASSUME Setup!BtcSetupInv, [Setup!Next]_Setup!vars
    PROVE  Setup!BtcSetupInv'
<1> USE DEF Setup!BtcSetupInv
<1>0. SetupTabs \subseteq Setup!Callers /\ \A t \in SetupTabs : page[t] \in Setup!PagesOpen
        /\ reads[t] \in [own : Setup!Seen, other : Setup!Seen]
  BY DEF Setup!Callers, Setup!TypeOK
(* Nothing but the page, or a read of the other kind.                      *)
<1>1. ASSUME NEW t \in SetupTabs, UNCHANGED <<Setup!server, req>>, PageGoes(t),
             reads' \in [SetupTabs -> [own : Setup!Seen, other : Setup!Seen]],
             \A u \in SetupTabs \ {t} : reads'[u] = reads[u],
             reads'[t].own # "free" => reads[t].own # "free",
             Setup!Claims(t)' => Setup!Claims(t)
      PROVE  Setup!BtcSetupInv'
  <2>1. Rests(t)
    BY <1>0, <1>1, SameRequests
  <2>2. Setup!Claims(t)' => req'[t].at \in {"idle", "refreshing"}
    BY <1>1 DEF Setup!WaitsSilent
  <2> QED
    BY <1>0, <1>1, <2>1, <2>2, PageKeeps DEF Setup!OwnRead
<1>2. ASSUME NEW t \in SetupTabs, UNCHANGED <<Setup!server, req, reads>>, PageGoes(t),
             Setup!Claims(t)' => Setup!Claims(t)
      PROVE  Setup!BtcSetupInv'
  BY <1>1, <1>2 DEF Setup!TypeOK
<1>3. ASSUME NEW t \in SetupTabs, reads' = [reads EXCEPT ![t].other = "asked"]
      PROVE  /\ reads' \in [SetupTabs -> [own : Setup!Seen, other : Setup!Seen]]
             /\ \A u \in SetupTabs \ {t} : reads'[u] = reads[u]
             /\ reads'[t].own # "free" => reads[t].own # "free"
  BY <1>3 DEF Setup!TypeOK, Setup!Seen
<1>4. ASSUME NEW t \in SetupTabs, NEW p \in Setup!PagesOpen, page' = [page EXCEPT ![t] = p],
             p.given => p.words \/ p.proved, p.verified => p.proved,
             p.says \in {"there", "linked"} => Setup!Claims(t)
      PROVE  PageGoes(t) /\ (Setup!Claims(t)' => Setup!Claims(t))
  BY <1>4 DEF Setup!TypeOK, PageGoes, Setup!Claims
<1>5. \A t \in SetupTabs : /\ page[t].given => page[t].words \/ page[t].proved
                           /\ page[t].verified => page[t].proved
                           /\ page[t].says \in {"there", "linked"} => Setup!Claims(t)
  BY DEF Setup!WordsProved, Setup!Claims
<1>l. ASSUME NEW t \in SetupTabs, NEW q, Like(page[t], q), page' = [page EXCEPT ![t] = q]
      PROVE  PageGoes(t) /\ (Setup!Claims(t)' => Setup!Claims(t))
  BY <1>4, <1>5, <1>l DEF Like
<1>6. ASSUME NEW t \in SetupTabs, Setup!Refresh(t) PROVE Setup!BtcSetupInv'
  <2> DEFINE p == page[t]
  <2> DEFINE c == Setup!Cleared(p)
  <2>a. page' = [page EXCEPT ![t] = c]
    BY <1>6 DEF Setup!Refresh
  <2>b. p \in Setup!PagesOpen
    BY <1>0
  <2>c. /\ p.given => p.words \/ p.proved
        /\ p.verified => p.proved
        /\ p.says \in {"there", "linked"} => Setup!Claims(t)
    BY <1>5
  <2> HIDE DEF p
  <2>d. /\ c \in Setup!PagesOpen /\ c.given = p.given /\ c.words = p.words
        /\ c.proved = p.proved /\ c.verified = p.verified /\ c.says = p.says
    BY <2>b, ClearedKeeps
  <2> HIDE DEF c
  <2>1. PageGoes(t) /\ (Setup!Claims(t)' => Setup!Claims(t))
    BY <1>4, <2>a, <2>c, <2>d
  <2> QED
    BY <1>1, <1>3, <1>6, <2>1 DEF Setup!Refresh
<1>7. ASSUME NEW t \in SetupTabs, NEW s \in {"own", "other"}, Setup!ReadOverview(t, s)
      PROVE  Setup!BtcSetupInv'
  <2>1. UNCHANGED <<Setup!server, page, req>> /\ reads[t][s] = "asked"
    BY <1>7 DEF Setup!ReadOverview
  <2>2. PICK seen \in {"no", "yes", "expired", "down", "gone", "outage"} :
             reads' = [reads EXCEPT ![t][s] = seen]
    BY <1>7 DEF Setup!ReadOverview
  <2>3. /\ reads' \in [SetupTabs -> [own : Setup!Seen, other : Setup!Seen]]
        /\ \A u \in SetupTabs \ {t} : reads'[u] = reads[u]
        /\ reads'[t].own # "free" => reads[t].own # "free"
    <3>1. CASE s = "own"
      BY <2>1, <2>2, <3>1 DEF Setup!TypeOK, Setup!Seen
    <3>2. CASE s = "other"
      BY <2>1, <2>2, <3>2 DEF Setup!TypeOK, Setup!Seen
    <3> QED
      BY <3>1, <3>2
  <2>4. Setup!Claims(t)' => Setup!Claims(t)
    BY <2>1 DEF Setup!Claims
  <2> QED
    BY <1>1, <2>1, <2>3, <2>4, SamePages
<1>8. ASSUME NEW t \in SetupTabs, NEW s \in {"own", "other"}, Setup!OverviewAnswered(t, s)
      PROVE  Setup!BtcSetupInv'
  <2> DEFINE seen == reads[t][s]
  <2>1. UNCHANGED Setup!server /\ seen \in Setup!Seen \ {"free", "asked"}
    <3>1. seen \in Setup!Seen
      BY <1>0
    <3> QED
      BY <1>8, <3>1 DEF Setup!OverviewAnswered
  <2>2. CASE Setup!Bounces(seen)
    <3>1. seen \in Setup!Answers /\ Setup!Bounce(t, seen)
      BY <1>8, <2>2 DEF Setup!OverviewAnswered, Setup!Bounces, Setup!Answers
    <3> QED
      BY <2>1, <3>1, Bounced
  <2>3. CASE ~Setup!Bounces(seen)
    <3>1. seen \in {"no", "yes", "down", "gone"}
      BY <2>1, <2>3 DEF Setup!Seen, Setup!Bounces
    <3>2. /\ page' = [page EXCEPT ![t] = Setup!Overview(page[t], seen)]
          /\ reads' = [reads EXCEPT ![t][s] = "free"]
          /\ req' = IF s = "own" THEN [req EXCEPT ![t] = Setup!NoReq] ELSE req
      BY <1>8, <2>3 DEF Setup!OverviewAnswered
    <3> HIDE DEF seen
    <3> DEFINE q == Setup!Overview(page[t], seen)
    <3>q. /\ q \in Setup!PagesOpen /\ q.given = page[t].given /\ q.words = page[t].words
          /\ q.proved = page[t].proved /\ q.verified = page[t].verified /\ q.says = page[t].says
      BY <1>0, <3>1, OverviewKeeps
    <3> HIDE DEF q
    <3>3. PageGoes(t) /\ (Setup!Claims(t)' => Setup!Claims(t))
      BY <1>4, <1>5, <3>2, <3>q DEF q
    <3>4. CASE s = "own"
      <4>1. req[t].at = "refreshing"
        BY <2>1, <3>4 DEF Setup!OwnRead, seen
      <4>2. Rests(t)
        BY <1>0, <3>2, <3>4, <4>1, NoRequest
      <4>3. /\ reads' \in [SetupTabs -> [own : Setup!Seen, other : Setup!Seen]]
            /\ \A u \in SetupTabs \ {t} : reads'[u] = reads[u]
            /\ reads'[t].own = "free"
        BY <3>2, <3>4 DEF Setup!TypeOK, Setup!Seen
      <4>4. req'[t].at = "idle"
        BY <1>0, <3>2, <3>4 DEF Setup!NoReq, Setup!TypeOK
      <4> QED
        BY <2>1, <3>3, <4>2, <4>3, <4>4, PageKeeps
    <3>5. CASE s = "other"
      <4>1. /\ reads' \in [SetupTabs -> [own : Setup!Seen, other : Setup!Seen]]
            /\ \A u \in SetupTabs \ {t} : reads'[u] = reads[u]
            /\ reads'[t].own = reads[t].own
        BY <3>2, <3>5 DEF Setup!TypeOK, Setup!Seen
      <4> QED
        BY <1>1, <2>1, <3>2, <3>3, <3>5, <4>1
    <3> QED
      BY <3>4, <3>5
  <2> QED
    BY <2>2, <2>3
<1>9. ASSUME NEW t \in SetupTabs, NEW way \in Setup!Submissions, Setup!Submit(t, way)
      PROVE  Setup!BtcSetupInv'
  <2> DEFINE coded == way = "linked" \/ page[t].coded
             r == [kind |-> way, at |-> "sent", coded |-> coded, answer |-> "none"]
  <2>1. /\ UNCHANGED <<Setup!server, reads>> /\ req[t].at = "idle"
        /\ req' = [req EXCEPT ![t] = r]
        /\ page' = [page EXCEPT ![t].says = "nothing"]
    BY <1>9 DEF Setup!Submit, Setup!Busy
  <2>2. coded \in BOOLEAN
    BY <1>0 DEF Setup!PagesOpen
  <2> HIDE DEF coded
  <2>3. r \in Setup!Requests /\ r.at = "sent" /\ r.kind \in Setup!Submissions
          /\ ~Setup!Landed(r.answer)
    BY <2>2 DEF Setup!Requests, Setup!Answers, Setup!Landed
  <2> HIDE DEF r
  <2>4. Rests(t)
    BY <1>0, <2>1, <2>3 DEF Setup!TypeOK, Rests
  <2>5. PageGoes(t)
    <3> DEFINE q == [page[t] EXCEPT !.says = "nothing"]
    <3>1. page' = [page EXCEPT ![t] = q]
      BY <2>1
    <3>2. Like(page[t], q)
      BY <1>0, LikeFields
    <3> HIDE DEF q
    <3> QED
      BY <1>l, <3>1, <3>2
  <2>6. reads[t].own = "free"
    BY <2>1 DEF Setup!OwnRead
  <2>7. ~Setup!Claims(t)'
    BY <1>0, <2>1 DEF Setup!TypeOK, Setup!PagesOpen, Setup!Claims
  <2> QED
    BY <2>1, <2>4, <2>5, <2>6, <2>7, PageKeeps DEF Setup!TypeOK
<1>10. ASSUME NEW t \in SetupTabs, Setup!Dialog(t) PROVE Setup!BtcSetupInv'
  <2> DEFINE p == page[t]
             opened == [p EXCEPT !.modal = TRUE]
             coded == [p EXCEPT !.coded = TRUE]
             shut == [p EXCEPT !.modal = FALSE]
             done == [shut EXCEPT !.says = "nothing"]
             cancelled == [done EXCEPT !.coded = FALSE]
  <2>1. UNCHANGED <<Setup!server, req, reads>>
    BY <1>10 DEF Setup!Dialog
  <2>2. \/ page' = [page EXCEPT ![t] = opened]
        \/ page' = [page EXCEPT ![t] = coded]
        \/ page' = [page EXCEPT ![t] = done]
        \/ page' = [page EXCEPT ![t] = cancelled]
    BY <1>0, <1>10 DEF Setup!Dialog, Setup!TypeOK
  <2>3. Like(p, opened) /\ Like(p, coded) /\ Like(p, shut)
    BY <1>0, LikeFields
  <2> HIDE DEF p, opened, coded, shut
  <2>4. Like(shut, done)
    BY <2>3, LikeFields DEF Like
  <2> HIDE DEF done
  <2>5. Like(done, cancelled)
    BY <2>4, LikeFields DEF Like
  <2> HIDE DEF cancelled
  <2>6. Like(p, done) /\ Like(p, cancelled)
    BY <2>3, <2>4, <2>5, LikeTwice
  <2>7. PageGoes(t) /\ (Setup!Claims(t)' => Setup!Claims(t))
    BY <1>l, <2>2, <2>3, <2>6 DEF p
  <2> QED
    BY <1>2, <2>1, <2>7
<1>11. ASSUME NEW t \in SetupTabs, Setup!Continue(t) PROVE Setup!BtcSetupInv'
  <2>1. PageGoes(t) /\ (Setup!Claims(t)' => Setup!Claims(t))
    BY <1>0, <1>5, <1>11
    DEF Setup!Continue, Setup!TypeOK, PageGoes, Setup!PagesOpen, Setup!Claims
  <2> QED
    BY <1>1, <1>3, <1>11, <2>1 DEF Setup!Continue
<1>12. ASSUME NEW t \in SetupTabs,
              Setup!WrittenDown(t) \/ Setup!BackToWords(t) \/ Setup!Verified(t)
       PROVE  Setup!BtcSetupInv'
  <2>1. UNCHANGED <<Setup!server, req, reads>>
    BY <1>12 DEF Setup!WrittenDown, Setup!BackToWords, Setup!Verified
  <2>2. \/ page' = [page EXCEPT ![t].phase = "verify"]
        \/ page' = [page EXCEPT ![t].phase = "display"]
        \/ page' = [page EXCEPT ![t].phase = "success", ![t].verified = TRUE, ![t].proved
           = TRUE]
    BY <1>12 DEF Setup!WrittenDown, Setup!BackToWords, Setup!Verified
  <2>3. PageGoes(t)
    <3>1. CASE \E f \in {"verify", "display"} : page' = [page EXCEPT ![t].phase = f]
      BY <1>0, <1>5, <3>1
      DEF Setup!TypeOK, PageGoes, Setup!PagesOpen, Setup!Claims
    <3>2. CASE page' = [page EXCEPT ![t].phase = "success", ![t].verified = TRUE, ![t].proved
                 = TRUE]
      <4> DEFINE p == [page[t] EXCEPT !.phase = "success", !.verified = TRUE, !.proved = TRUE]
      <4>1. p \in Setup!PagesOpen /\ p.proved = TRUE /\ p.says = page[t].says
        BY <1>0 DEF Setup!PagesOpen
      <4>2. page' = [page EXCEPT ![t] = p]
        BY <1>0, <3>2 DEF Setup!TypeOK
      <4> HIDE DEF p
      <4> QED
        BY <1>4, <1>5, <4>1, <4>2
    <3> QED
      BY <2>2, <3>1, <3>2
  <2>4. Setup!Claims(t)' => Setup!Claims(t)
    BY <1>0, <2>2 DEF Setup!TypeOK, Setup!PagesOpen, Setup!Claims
  <2> QED
    BY <1>2, <2>1, <2>3, <2>4
<1>13. ASSUME NEW t \in SetupTabs, Setup!Return(t) PROVE Setup!BtcSetupInv'
  <2>1. /\ UNCHANGED <<wallet, locked, leftOpen, doubted>> /\ UNCHANGED req
        /\ page' = [page EXCEPT ![t] = Setup!Fresh]
           /\ reads' = [reads EXCEPT ![t] = Setup!Opening]
    BY <1>13 DEF Setup!Return
  <2>2. /\ Setup!Fresh \in Setup!PagesOpen /\ ~Setup!Fresh.given /\ ~Setup!Fresh.verified
           /\ Setup!Fresh.says = "nothing"
        /\ Setup!Opening \in [own : Setup!Seen, other : Setup!Seen]
           /\ Setup!Opening.own = "free"
    BY DEF Setup!Fresh, Setup!PagesOpen, Setup!Opening, Setup!Seen
  <2>3. PageGoes(t)
    BY <1>4, <2>1, <2>2
  <2>4. /\ reads' \in [SetupTabs -> [own : Setup!Seen, other : Setup!Seen]]
        /\ \A u \in SetupTabs \ {t} : reads'[u] = reads[u]
        /\ reads'[t].own = "free"
    BY <2>1, <2>2 DEF Setup!TypeOK
  <2>c. ~Setup!Claims(t)' /\ \A u \in SetupTabs \ {t} : Setup!Claims(u)' => Setup!Claims(u)
    BY <2>1, <2>2 DEF Setup!Claims, Setup!TypeOK
  <2>5. Setup!TypeOK' /\ Setup!OwnRead' /\ Setup!WordsProved' /\ Setup!ToldTrue'
          /\ Setup!WaitsSilent'
    BY <2>1, <2>3, <2>4, <2>c
    DEF Setup!TypeOK, Setup!OwnRead, Setup!WordsProved, Setup!ToldTrue,
        Setup!WaitsSilent, PageGoes
  <2>6. Setup!RequestsTrue' /\ Setup!KeysRelocked'
    BY <2>1
    DEF Setup!RequestsTrue, Setup!KeysRelocked, Setup!Linked, Setup!Within
  <2>7. Setup!OpeningAlone'
    BY <2>1, <2>c DEF Setup!OpeningAlone, Setup!CountsOnIt
  <2> QED
    BY <2>5, <2>6, <2>7
<1>14. ASSUME NEW t \in OtherWallets \ SetupTabs, Rests(t),
              UNCHANGED <<Setup!server, page, reads>>, req[t].at # "refreshing"
       PROVE  Setup!BtcSetupInv'
  <2>1. t \in Setup!Callers
    BY DEF Setup!Callers
  <2>2. Setup!RequestsTrue' /\ Setup!KeysRelocked'
    BY <1>14, <2>1, RestKeeps
  <2>3. \A u \in SetupTabs : Setup!Claims(u)' <=> Setup!Claims(u)
    BY <1>14 DEF Setup!Claims
  <2>4. Setup!TypeOK' /\ Setup!WordsProved' /\ Setup!ToldTrue'
    BY <1>14, <2>3
    DEF Setup!TypeOK, Setup!WordsProved, Setup!ToldTrue, Rests, Setup!server
  <2>5. Setup!OwnRead' /\ Setup!WaitsSilent'
    <3>1. \A u \in SetupTabs : u # t => req'[u] = req[u]
      BY <1>0, <1>14 DEF Rests
    <3>2. Setup!OwnRead'
      BY <1>14, <3>1 DEF Setup!OwnRead
    <3>3. Setup!WaitsSilent'
      BY <2>3, <3>1 DEF Setup!WaitsSilent
    <3> QED
      BY <3>2, <3>3
  <2>6. Setup!OpeningAlone'
    BY <1>14, <2>1, <2>3
    DEF Setup!OpeningAlone, Setup!CountsOnIt, Rests, Setup!server
  <2> QED
    BY <2>2, <2>4, <2>5, <2>6
<1>15. ASSUME NEW t \in OtherWallets \ SetupTabs, Setup!Send(t)
       PROVE  Setup!BtcSetupInv'
  <2>1. req[t].at = "idle" /\ UNCHANGED <<Setup!server, page, reads>>
    BY <1>15 DEF Setup!Send, Setup!Busy
  <2>2. PICK way \in Setup!Submissions :
             req' = [req EXCEPT ![t]
                 = [kind |-> way, at |-> "sent", coded |-> TRUE, answer |-> "none"]]
    BY <1>15 DEF Setup!Send
  <2> DEFINE r == [kind |-> way, at |-> "sent", coded |-> TRUE, answer |-> "none"]
  <2>3. r \in Setup!Requests /\ r.at = "sent" /\ r.kind \in Setup!Submissions
          /\ ~Setup!Landed(r.answer)
    BY DEF Setup!Requests, Setup!Answers, Setup!Landed
  <2>4. req' = [req EXCEPT ![t] = r]
    BY <2>2
  <2> HIDE DEF r
  <2>5. Rests(t)
    BY <2>1, <2>3, <2>4 DEF Setup!TypeOK, Rests, Setup!Callers
  <2> QED
    BY <1>14, <2>1, <2>5
<1>16. ASSUME NEW t \in OtherWallets \ SetupTabs, Setup!Ended(t)
       PROVE  Setup!BtcSetupInv'
  <2>1. t \in Setup!Callers
    BY DEF Setup!Callers
  <2>2. Rests(t)
    BY <1>16, <2>1, NoRequest DEF Setup!Ended
  <2> QED
    BY <1>14, <1>16, <2>2 DEF Setup!Ended
<1>17. ASSUME UNCHANGED <<wallet, locked, leftOpen, doubted, page, req, reads>>
       PROVE  Setup!BtcSetupInv'
  <2>1. Setup!TypeOK' /\ Setup!OwnRead' /\ Setup!WordsProved'
    BY <1>17 DEF Setup!TypeOK, Setup!OwnRead, Setup!WordsProved
  <2>3. Setup!ToldTrue' /\ Setup!WaitsSilent' /\ Setup!OpeningAlone'
    BY <1>17
    DEF Setup!ToldTrue, Setup!WaitsSilent, Setup!OpeningAlone, Setup!CountsOnIt,
        Setup!Claims
  <2>2. Setup!RequestsTrue' /\ Setup!KeysRelocked'
    BY <1>17
    DEF Setup!RequestsTrue, Setup!KeysRelocked, Setup!Linked, Setup!Within
  <2> QED
    BY <2>1, <2>2, <2>3
<1>18. CASE Setup!Expire
  BY <1>17, <1>18 DEF Setup!Expire
<1>19. CASE UNCHANGED Setup!vars
  BY <1>17, <1>19 DEF Setup!vars, Setup!server
<1> QED
  BY <1>6, <1>7, <1>8, <1>9, <1>10, <1>11, <1>12, <1>13, <1>15, <1>16, <1>18,
     <1>19,
     AnsweredStep, HandlerStep DEF Setup!Next

LEMMA SetupIsSound == ASSUME Setup!BtcSetupInv PROVE Setup!SetupSound
<1>1. Setup!WordsFirst
  BY DEF Setup!BtcSetupInv, Setup!WordsProved, Setup!WordsFirst,
     Setup!AddressShown
<1> QED
  BY <1>1 DEF Setup!BtcSetupInv, Setup!SetupSound

(* A Bitcoin page says a wallet is there only when it is, unless it was    *)
(* told so of a file that a create had not opened yet or another one took  *)
(* away; the keys are locked again after a link, and the words come before *)
(* the address, for any pages, other callers, submissions and faults       *)
(* (BitcoinWallet.tsx, link-seed.ts, main.rs:616-671).                     *)
THEOREM SetupsAreSound ==
    Setup!Spec => []Setup!SetupSound
<1>1. Setup!Init => Setup!BtcSetupInv
  BY SetupInit
<1>2. Setup!BtcSetupInv /\ [Setup!Next]_Setup!vars => Setup!BtcSetupInv'
  BY SetupStep
<1>3. Setup!BtcSetupInv => Setup!SetupSound
  BY SetupIsSound
<1> QED
  BY <1>1, <1>2, <1>3, PTL DEF Setup!Spec
-----------------------------------------------------------------------------
(* NftMarket. What a load has read holds every offer that stood all along, *)
(* and a tab without a list of its own is loading or says why.             *)
LEMMA MarketCounts ==
    \A S : (Market!IsFiniteSet(S) <=> IsFiniteSet(S)) /\ Market!Cardinality(S) = Cardinality(S)
BY DEF Market!IsFiniteSet, IsFiniteSet, Market!Cardinality, Cardinality

LEMMA MarketInit == ASSUME Market!Init PROVE Market!NftMarketInv
<1>1. Market!TypeOK
  <2>1. lists \in [Market!Names -> Market!ListsOfCards]
    BY DEF Market!Init, Market!Names, Market!ListsOfCards
  <2>2. loads \in [Market!Slots -> Market!Loads \cup {None}]
    <3> DEFINE b == [list |-> "browse", at |-> "orders", read |-> {}]
               m == [list |-> "mine", at |-> "orders", read |-> {}]
    <3>1. loads = [i \in Market!Slots |-> IF i = 1 THEN b ELSE IF i = 2
            /\ tab = "mine" THEN m ELSE None]
      BY DEF Market!Init
    <3>2. b \in Market!Loads /\ m \in Market!Loads
      BY DEF Market!Loads, Market!Names
    <3> HIDE DEF b, m
    <3> QED
      BY <3>1, <3>2
  <2>3. status \in [NftOrders -> {"new", "open", "concluded", "gone"}]
    BY DEF Market!Init
  <2> QED
    BY <2>1, <2>2, <2>3 DEF Market!Init, Market!TypeOK
<1>2. Market!LoadsSteady
  <2>1. ASSUME NEW i \in Market!Slots, loads[i] # None
        PROVE  loads[i].at = "orders"
    BY <2>1 DEF Market!Init
  <2> QED
    BY <2>1 DEF Market!LoadsSteady
<1>3. Market!SteadyOpen /\ Market!MineExplained /\ Market!OffersShown /\ Market!NoFungibleCards
  BY DEF Market!Init, Market!SteadyOpen, Market!MineExplained,
     Market!OffersShown, Market!NoFungibleCards, Market!Names, Market!Shows
<1> QED
  BY <1>1, <1>2, <1>3 DEF Market!NftMarketInv

(* A load starts with nothing read.                                        *)
LEMMA LoadStarts ==
    ASSUME Market!TypeOK, Market!LoadsSteady, NEW name \in Market!Names,
           Market!Load(name, loads),
           lists' = [lists EXCEPT ![name] = Market!Loading(name)],
           steady' \subseteq steady
    PROVE  /\ lists' \in [Market!Names -> Market!ListsOfCards]
           /\ loads' \in [Market!Slots -> Market!Loads \cup {None}]
           /\ Market!LoadsSteady'
           /\ lists'[name].loading
           /\ \A n \in Market!Names : /\ lists'[n].cards = lists[n].cards
                                      /\ lists'[n].landed = lists[n].landed
           /\ \A n \in Market!Names \ {name} : lists'[n] = lists[n]
<1>1. lists[name] \in Market!ListsOfCards
  BY DEF Market!TypeOK
<1> DEFINE l == Market!Loading(name)
<1>2. l \in Market!ListsOfCards /\ l.loading /\ l.cards = lists[name].cards
        /\ l.landed = lists[name].landed
  BY <1>1 DEF Market!Loading, Market!ListsOfCards
<1> HIDE DEF l
<1>3. /\ lists' \in [Market!Names -> Market!ListsOfCards] /\ lists'[name] = l
      /\ \A n \in Market!Names \ {name} : lists'[n] = lists[n]
  BY <1>2 DEF Market!TypeOK, l
<1> DEFINE new == [list |-> name, at |-> "orders", read |-> {}]
<1>4. PICK i \in Market!Slots : loads' = [loads EXCEPT ![i] = new]
  BY DEF Market!Load
<1>5. new \in Market!Loads /\ new.at # "lookups"
  BY DEF Market!Loads
<1> HIDE DEF new
<1>6. /\ loads' \in [Market!Slots -> Market!Loads \cup {None}] /\ loads'[i] = new
      /\ \A j \in Market!Slots \ {i} : loads'[j] = loads[j]
  BY <1>4, <1>5 DEF Market!TypeOK
<1>7. Market!LoadsSteady'
  BY <1>5, <1>6 DEF Market!LoadsSteady
<1> QED
  BY <1>2, <1>3, <1>6, <1>7

(* What leaves the cards alone leaves them right.                          *)
LEMMA CardsStay ==
    ASSUME Market!OffersShown, Market!NoFungibleCards, steady' \subseteq steady, UNCHANGED unit,
           fails \in Nat, fails' \in Nat, fails' >= fails,
           \A n \in Market!Names : lists'[n].cards = lists[n].cards
               /\ lists'[n].landed = lists[n].landed
    PROVE  Market!OffersShown' /\ Market!NoFungibleCards'
<1>1. \A n \in Market!Names : Market!Shows(n)' = Market!Shows(n)
  BY DEF Market!Shows
<1>2. fails' = 0 => fails = 0
  OBVIOUS
<1> QED
  BY <1>1, <1>2 DEF Market!OffersShown, Market!NoFungibleCards, Market!Names

(* A set of cards, and the orders they are of.                             *)
LEMMA CardsOf ==
    ASSUME NEW S \in SUBSET NftOrders
    PROVE  LET cards == {[order |-> o, frozen |-> o \in frozen] : o \in S}
           IN  cards \subseteq [order : NftOrders, frozen : BOOLEAN]
               /\ {c.order : c \in cards} = S
<1> DEFINE card(o) == [order |-> o, frozen |-> o \in frozen]
           cards == {card(o) : o \in S}
<1>0. \A o \in S : (o \in frozen) \in BOOLEAN
  OBVIOUS
<1>1. \A o \in S : card(o) \in [order : NftOrders, frozen : BOOLEAN] /\ card(o).order = o
  BY <1>0
<1> HIDE DEF card
<1>2. cards \subseteq [order : NftOrders, frozen : BOOLEAN]
  BY <1>1
<1>3. {c.order : c \in cards} = S
  BY <1>1
<1> QED
  BY <1>2, <1>3 DEF card

LEMMA MarketStep ==
    ASSUME Market!NftMarketConstants, Market!NftMarketInv, [Market!Next]_Market!vars
    PROVE  Market!NftMarketInv'
<1> USE DEF Market!NftMarketInv
<1>1. ASSUME NEW i \in Market!Slots, Market!OrdersRead(i)
      PROVE  Market!NftMarketInv'
  <2> DEFINE r == Market!Listed(loads[i].list)
  <2>1. loads[i] \in Market!Loads
          /\ UNCHANGED <<status, unit, frozen, tab, lists, fails, steady>>
        /\ loads' = [loads EXCEPT ![i].at = "lookups", ![i].read = r]
    BY <1>1 DEF Market!OrdersRead, Market!TypeOK, Market!chain
  <2>2. r \in SUBSET NftOrders
    BY DEF Market!Listed
  <2>3. IF loads[i].list = "mine" THEN steady \cap Own \subseteq r ELSE steady \subseteq r
    BY <2>1 DEF Market!SteadyOpen, Market!Listed, Market!Loads, Market!Names
  <2> HIDE DEF r
  <2>4. /\ loads' \in [Market!Slots -> Market!Loads \cup {None}]
        /\ loads'[i].read = r /\ loads'[i].list = loads[i].list
        /\ \A j \in Market!Slots \ {i} : loads'[j] = loads[j]
    BY <2>1, <2>2 DEF Market!TypeOK, Market!Loads
  <2>5. Market!LoadsSteady'
    BY <2>1, <2>3, <2>4 DEF Market!LoadsSteady
  <2> QED
    BY <2>1, <2>4, <2>5, CardsStay
    DEF Market!TypeOK, Market!SteadyOpen, Market!MineExplained
<1>2. ASSUME NEW i \in Market!Slots, Market!LoadFails(i)
      PROVE  Market!NftMarketInv'
  <2> DEFINE name == loads[i].list
  <2>1. loads[i] \in Market!Loads /\ UNCHANGED <<status, unit, frozen, tab, steady>>
        /\ loads' = [loads EXCEPT ![i] = None] /\ fails' = fails + 1
        /\ lists' = [lists EXCEPT ![name].loading = FALSE, ![name].error = TRUE]
    BY <1>2 DEF Market!LoadFails, Market!TypeOK, Market!chain
  <2>2. name \in Market!Names
    BY <2>1 DEF Market!Loads
  <2> HIDE DEF name
  <2>3. /\ lists' \in [Market!Names -> Market!ListsOfCards]
        /\ lists'[name].cards = lists[name].cards /\ lists'[name].landed = lists[name].landed
        /\ lists'[name].error
        /\ \A n \in Market!Names \ {name} : lists'[n] = lists[n]
    BY <2>1, <2>2 DEF Market!TypeOK, Market!ListsOfCards
  <2>4. /\ loads' \in [Market!Slots -> Market!Loads \cup {None}] /\ loads'[i] = None
        /\ \A j \in Market!Slots \ {i} : loads'[j] = loads[j]
    BY <2>1 DEF Market!TypeOK
  <2>5. Market!LoadsSteady'
    BY <2>1, <2>4 DEF Market!LoadsSteady
  <2>6. Market!OffersShown' /\ Market!NoFungibleCards'
    BY <2>1, <2>3, CardsStay DEF Market!TypeOK
  <2>7. Market!MineExplained'
    BY <2>1, <2>3 DEF Market!MineExplained, Market!Names
  <2>8. Market!TypeOK' /\ Market!SteadyOpen'
    BY <2>1, <2>3, <2>4 DEF Market!TypeOK, Market!SteadyOpen
  <2> QED
    BY <2>5, <2>6, <2>7, <2>8
<1>3. ASSUME NEW i \in Market!Slots, Market!LookupsAnswered(i)
      PROVE  Market!NftMarketInv'
  <2> DEFINE name == loads[i].list
             read == loads[i].read
  <2>1. loads[i] \in Market!Loads /\ loads[i] # None /\ loads[i].at = "lookups"
        /\ UNCHANGED <<status, unit, frozen, tab, steady>>
        /\ loads' = [loads EXCEPT ![i] = None]
    BY <1>3 DEF Market!LookupsAnswered, Market!TypeOK, Market!chain
  <2>2. PICK missed \in SUBSET read :
          /\ fails' = fails + Cardinality(missed)
          /\ lists' = [lists EXCEPT ![name] =
              [@ EXCEPT !.cards = {[order |-> o, frozen |-> o \in frozen] :
                                     o \in Market!Cards(name, read, missed)},
                        !.loading = FALSE, !.landed = TRUE]]
    BY <1>3, MarketCounts DEF Market!LookupsAnswered
  <2>3. name \in Market!Names /\ read \subseteq NftOrders
    BY <2>1 DEF Market!Loads
  <2>4. IF name = "mine" THEN steady \cap Own \subseteq read ELSE steady \subseteq read
    BY <2>1 DEF Market!LoadsSteady
  <2> DEFINE of == Market!Cards(name, read, missed)
             cards == {[order |-> o, frozen |-> o \in frozen] : o \in of}
  <2> HIDE DEF name, read
  <2>5. /\ of \in SUBSET NftOrders
        /\ name = "mine" => steady \cap Own \subseteq of
        /\ name = "browse" => steady \ unit \subseteq of
        /\ name = "browse" /\ missed = {} => of \cap unit = {}
    BY <2>3, <2>4 DEF Market!Cards
  <2>6. IsFiniteSet(missed)
    BY <2>2, <2>3, MarketCounts, FS_Subset DEF Market!NftMarketConstants
  <2>7. Cardinality(missed) \in Nat /\ (Cardinality(missed) = 0 <=> missed = {})
    BY <2>6, MarketCounts, FS_CardinalityType, FS_EmptySet
  <2>8. fails' \in Nat /\ fails' >= fails /\ (fails' = 0 => fails = 0 /\ missed = {})
    BY <2>2, <2>7 DEF Market!TypeOK
  <2> HIDE DEF of
  <2>9. cards \in SUBSET [order : NftOrders, frozen : BOOLEAN] /\ {c.order : c \in cards} = of
    BY <2>5, CardsOf
  <2>10. lists' = [lists EXCEPT ![name]
           = [@ EXCEPT !.cards = cards, !.loading = FALSE, !.landed = TRUE]]
    BY <2>2 DEF of
  <2> HIDE DEF cards
  <2>11. /\ lists' \in [Market!Names -> Market!ListsOfCards] /\ lists'[name].cards = cards
            /\ lists'[name].landed
         /\ \A n \in Market!Names \ {name} : lists'[n] = lists[n]
    BY <2>3, <2>9, <2>10 DEF Market!TypeOK, Market!ListsOfCards
  <2>12. /\ loads' \in [Market!Slots -> Market!Loads \cup {None}] /\ loads'[i] = None
         /\ \A j \in Market!Slots \ {i} : loads'[j] = loads[j]
    BY <2>1 DEF Market!TypeOK
  <2>13. Market!LoadsSteady'
    BY <2>1, <2>12 DEF Market!LoadsSteady
  <2>14. \A n \in Market!Names : Market!Shows(n)' = IF n = name THEN of ELSE Market!Shows(n)
    BY <2>9, <2>11 DEF Market!Shows
  <2>15. Market!OffersShown'
    BY <2>1, <2>3, <2>5, <2>11, <2>14 DEF Market!OffersShown, Market!Names
  <2>16. Market!NoFungibleCards'
    BY <2>1, <2>3, <2>5, <2>8, <2>14 DEF Market!NoFungibleCards, Market!Names
  <2>17. Market!MineExplained'
    BY <2>1, <2>11 DEF Market!MineExplained, Market!Names
  <2>18. Market!TypeOK' /\ Market!SteadyOpen'
    BY <2>1, <2>8, <2>11, <2>12 DEF Market!TypeOK, Market!SteadyOpen
  <2> QED
    BY <2>13, <2>15, <2>16, <2>17, <2>18
<1>4. ASSUME NEW name \in Market!Names, Market!Load(name, loads),
             lists' = [lists EXCEPT ![name] = Market!Loading(name)],
             UNCHANGED <<unit, frozen, fails>>, steady' \subseteq steady, Market!SteadyOpen',
             status' \in [NftOrders -> {"new", "open", "concluded", "gone"}],
             tab' \in Market!Names, tab' = tab \/ name = tab'
      PROVE  Market!NftMarketInv'
  <2>1. Market!TypeOK' /\ Market!LoadsSteady'
    BY <1>4, LoadStarts DEF Market!TypeOK
  <2>2. fails' \in Nat /\ fails' >= fails
    BY <1>4 DEF Market!TypeOK
  <2>3. Market!OffersShown' /\ Market!NoFungibleCards'
    BY <1>4, <2>2, LoadStarts, CardsStay DEF Market!TypeOK
  <2>4. Market!MineExplained'
    BY <1>4, LoadStarts DEF Market!MineExplained, Market!Names
  <2> QED
    BY <1>4, <2>1, <2>3, <2>4
<1>5. CASE Market!Refresh
  BY <1>4, <1>5
  DEF Market!Refresh, Market!TypeOK, Market!SteadyOpen, Market!chain
<1>6. CASE Market!ShowTab
  <2>1. CASE tab' = "mine"
    BY <1>4, <1>6, <2>1
    DEF Market!ShowTab, Market!TypeOK, Market!SteadyOpen, Market!chain
  <2>2. CASE tab' # "mine"
    <3>1. tab' \in Market!Names
            /\ UNCHANGED <<status, unit, frozen, lists, loads, fails, steady>>
      BY <1>6, <2>2 DEF Market!ShowTab, Market!chain
    <3> QED
      BY <2>2, <3>1, CardsStay
      DEF Market!TypeOK, Market!SteadyOpen, Market!LoadsSteady,
          Market!MineExplained
  <2> QED
    BY <2>1, <2>2
<1>7. ASSUME UNCHANGED <<tab, lists, loads, fails, unit>>, steady' \subseteq steady,
             Market!SteadyOpen',
             status' \in [NftOrders -> {"new", "open", "concluded", "gone"}]
      PROVE  Market!NftMarketInv'
  <2>1. Market!TypeOK' /\ Market!MineExplained'
    BY <1>7 DEF Market!TypeOK, Market!MineExplained
  <2>2. Market!LoadsSteady'
    BY <1>7 DEF Market!LoadsSteady
  <2> QED
    BY <1>7, <2>1, <2>2, CardsStay DEF Market!TypeOK
<1>8. UNCHANGED <<status, steady>>
        => Market!SteadyOpen' /\ status' \in [NftOrders -> {"new", "open", "concluded", "gone"}]
  BY DEF Market!SteadyOpen, Market!TypeOK
<1>9. CASE Market!PickNft
  BY <1>7, <1>8, <1>9 DEF Market!PickNft, Market!chain
<1>10. CASE Market!CloseDialog
  BY <1>7, <1>8, <1>10 DEF Market!CloseDialog, Market!chain
<1>11. CASE Market!Trade
  BY <1>7, <1>8, <1>11 DEF Market!Trade, Market!chain
<1>12. ASSUME NEW t \in trades, Market!Settled(t) PROVE Market!NftMarketInv'
  <2> DEFINE name == IF t.what = "buy" THEN "browse" ELSE "mine"
  <2>1. /\ name \in Market!Names /\ Market!Load(name, loads)
           /\ lists' = [lists EXCEPT ![name] = Market!Loading(name)]
        /\ UNCHANGED <<unit, frozen, tab, fails>> /\ Market!Accepts(t)
        /\ steady' = IF status' = status \/ t.what = "sell" THEN steady ELSE steady \ {t.order}
    BY <1>12 DEF Market!Settled, Market!Names
  <2> HIDE DEF name
  <2>2. PICK to \in {"open", "concluded", "gone"} :
          /\ status' \in {status, [status EXCEPT ![t.order] = to]}
          /\ t.what = "sell" => to = "open"
    BY <2>1 DEF Market!Accepts
  <2>3. /\ status' \in [NftOrders -> {"new", "open", "concluded", "gone"}]
        /\ \A o \in NftOrders \ {t.order} : status'[o] = status[o]
        /\ t.what = "sell" => \A o \in NftOrders : status'[o] \in {status[o], "open"}
    BY <2>2 DEF Market!TypeOK
  <2>4. steady' \subseteq steady
    BY <2>1
  <2>5. Market!SteadyOpen'
    BY <2>1, <2>3 DEF Market!SteadyOpen
  <2> QED
    BY <1>4, <2>1, <2>3, <2>4, <2>5 DEF Market!TypeOK
<1>13. ASSUME NEW t \in trades, Market!Refused(t) PROVE Market!NftMarketInv'
  BY <1>7, <1>8, <1>13 DEF Market!Refused, Market!chain
<1>14. ASSUME NEW o \in NftOrders, Market!Chain(o) PROVE Market!NftMarketInv'
  <2>1. /\ status' \in {status, [status EXCEPT ![o] = "gone"]}
        /\ steady' = IF status' = status THEN steady ELSE steady \ {o}
        /\ UNCHANGED <<unit, tab, lists, loads, fails>>
    BY <1>14 DEF Market!Chain
  <2>2. status' \in [NftOrders -> {"new", "open", "concluded", "gone"}]
        /\ \A p \in NftOrders \ {o} : status'[p] = status[p]
    BY <2>1 DEF Market!TypeOK
  <2>3. steady' \subseteq steady /\ Market!SteadyOpen'
    BY <2>1, <2>2 DEF Market!SteadyOpen
  <2> QED
    BY <1>7, <2>1, <2>2, <2>3
<1>15. CASE UNCHANGED Market!vars
  BY <1>7, <1>8, <1>15 DEF Market!vars, Market!chain
<1> QED
  BY <1>1, <1>2, <1>3, <1>5, <1>6, <1>9, <1>10, <1>11, <1>12, <1>13, <1>14,
     <1>15
  DEF Market!Next

LEMMA MarketIsSound == ASSUME Market!NftMarketInv PROVE Market!MarketSound
<1>1. Market!NoSilentEmpty
  <2> SUFFICES ASSUME tab = "mine", ~lists["mine"].loading, ~lists["mine"].error,
                      lists["mine"].cards = {}
               PROVE  steady \cap Own = {}
    BY DEF Market!NoSilentEmpty
  <2>1. lists["mine"].landed
    BY DEF Market!NftMarketInv, Market!MineExplained
  <2>2. Market!Shows("mine") = {}
    BY DEF Market!Shows
  <2> QED
    BY <2>1, <2>2 DEF Market!NftMarketInv, Market!OffersShown
<1> QED
  BY <1>1 DEF Market!MarketSound, Market!NftMarketInv

(* An offer that stood all along is shown, to its owner and to buyers, and *)
(* no order of a fungible token while no read has failed, for any finite   *)
(* set of orders, loads, trades and failing reads (NFTMarketplace.tsx:527, *)
(* :597).                                                                  *)
THEOREM OffersAreShown ==
    ASSUME Market!NftMarketConstants
    PROVE  Market!Spec => []Market!MarketSound
<1>1. Market!Init => Market!NftMarketInv
  BY MarketInit
<1>2. Market!NftMarketInv /\ [Market!Next]_Market!vars => Market!NftMarketInv'
  BY MarketStep
<1>3. Market!NftMarketInv => Market!MarketSound
  BY MarketIsSound
<1> QED
  BY <1>1, <1>2, <1>3, PTL DEF Market!Spec

-----------------------------------------------------------------------------
(* IssueForms. Hash and URI on the page are of the file shown, and a       *)
(* submission carries what the form held.                                  *)
LEMMA IssueInit == ASSUME Issue!Init PROVE Issue!IssueFormsInv
BY DEF Issue!Init, Issue!IssueFormsInv, Issue!MediaSound, Issue!OfTheFile,
   Issue!SubmissionSound, Issue!IssuedAsShown, Issue!NoSub, Issue!Stages

(* What is done to the form leaves a submission alone.                     *)
LEMMA FormEdited ==
    ASSUME Issue!IssueFormsInv, UNCHANGED <<kind, ipfs, sub, issued>>, Issue!MediaSound'
    PROVE  Issue!IssueFormsInv'
BY DEF Issue!IssueFormsInv, Issue!SubmissionSound, Issue!Image,
   Issue!IssuedAsShown

LEMMA IssueStep ==
    ASSUME Issue!IssueFormsInv, [Issue!Next]_Issue!vars
    PROVE  Issue!IssueFormsInv'
<1> USE DEF Issue!IssueFormsInv
<1>0. UNCHANGED media => Issue!MediaSound'
  BY DEF Issue!MediaSound, Issue!OfTheFile
<1>1. ASSUME NEW f \in Files, Issue!PickMedia(f) PROVE Issue!IssueFormsInv'
  <2>1. Issue!MediaSound'
    BY <1>1 DEF Issue!PickMedia, Issue!MediaSound, Issue!OfTheFile
  <2> QED
    BY <1>1, <2>1, FormEdited DEF Issue!PickMedia
<1>2. ASSUME NEW f \in Files, Issue!PickMeta(f) PROVE Issue!IssueFormsInv'
  BY <1>0, <1>2, FormEdited DEF Issue!PickMeta
<1>3. ASSUME NEW f \in Files, Issue!PickLogo(f) PROVE Issue!IssueFormsInv'
  BY <1>0, <1>3, FormEdited DEF Issue!PickLogo
<1>4. CASE Issue!MediaAnswered
  <2>1. PICK u \in {media.up, None} :
             media' = IF u = None THEN [media EXCEPT !.up = None]
                      ELSE [media EXCEPT !.up = None, !.hash = media.up,
                                         !.uri = IF ipfs THEN u ELSE @]
    BY <1>4 DEF Issue!MediaAnswered, Issue!Upload
  <2>2. Issue!MediaSound'
    BY <2>1 DEF Issue!MediaSound, Issue!OfTheFile
  <2> QED
    BY <1>4, <2>2, FormEdited DEF Issue!MediaAnswered
<1>5. CASE Issue!MetaAnswered
  BY <1>0, <1>5, FormEdited DEF Issue!MetaAnswered
<1>6. CASE Issue!SwitchMode
  BY <1>0, <1>6, FormEdited DEF Issue!SwitchMode, Issue!form
<1>7. CASE Issue!Describe
  BY <1>0, <1>7, FormEdited DEF Issue!Describe
<1>8. CASE Issue!TypeField
  <2>1. media' \in {media, [media EXCEPT !.hash = "typed"], [media EXCEPT !.uri = "typed"]}
    BY <1>8 DEF Issue!TypeField
  <2>2. Issue!MediaSound'
    BY <2>1 DEF Issue!MediaSound, Issue!OfTheFile
  <2> QED
    BY <1>8, <2>2, FormEdited DEF Issue!TypeField
<1>9. CASE Issue!Submit
  <2> DEFINE stage == IF ~(Issue!Easy /\ ipfs) THEN "issue"
                      ELSE IF kind = "token" /\ logo # None THEN "logo" ELSE "meta"
  <2>1. /\ sub' = [at |-> stage, of |-> Issue!Seen, image |-> None, meta |-> meta.uri]
        /\ UNCHANGED <<kind, ipfs, mode, Issue!form, issued>>
        /\ kind = "nft" => media.hash # None /\ ~Issue!MediaMissing
    BY <1>9 DEF Issue!Submit
  <2>2. /\ sub'.at = stage /\ sub'.of = Issue!Seen /\ sub'.image = None
        /\ Issue!Seen.media = media /\ Issue!Seen.logo = logo /\ Issue!Seen.mode = mode
    BY <2>1 DEF Issue!Seen
  <2>3. Issue!MediaSound'
    BY <1>0, <2>1 DEF Issue!form
  <2>4. /\ stage \in Issue!Stages
        /\ stage \in {"logo", "meta"} => ipfs /\ mode = "easy"
        /\ stage = "logo" => kind = "token"
        /\ stage = "meta" => None = IF kind = "token" THEN logo ELSE None
        /\ stage = "issue" => ~(ipfs /\ mode = "easy")
    BY DEF Issue!Stages, Issue!Easy
  <2>5. kind = "nft" =>
           /\ Issue!OfTheFile(media) /\ media.hash # None
           /\ ipfs /\ media.file # None => media.uri # None
    BY <2>1 DEF Issue!MediaMissing, Issue!MediaSound
  <2> HIDE DEF stage
  <2>6. sub' = [at |-> sub'.at, of |-> sub'.of, image |-> sub'.image, meta |-> sub'.meta]
    BY <2>1
  <2>7. Issue!SubmissionSound'
    BY <2>1, <2>2, <2>4, <2>5, <2>6
    DEF Issue!SubmissionSound, Issue!Image, Issue!Stages, Issue!OfTheFile
  <2>8. Issue!IssuedAsShown'
    BY <2>1 DEF Issue!IssuedAsShown
  <2> QED
    BY <2>3, <2>7, <2>8
<1>10. ASSUME sub' = Issue!NoSub \/ sub' = Issue!Done, UNCHANGED <<kind, ipfs, media>>,
              Issue!IssuedAsShown'
       PROVE  Issue!IssueFormsInv'
  BY <1>0, <1>10
  DEF Issue!SubmissionSound, Issue!NoSub, Issue!Done, Issue!Stages
<1>11. UNCHANGED <<kind, ipfs, issued>> => Issue!IssuedAsShown'
  BY DEF Issue!IssuedAsShown
<1>12. CASE Issue!LogoAnswered
  <2>1. PICK u \in {sub.of.logo, None} :
             sub' = IF u = None THEN Issue!NoSub ELSE [sub EXCEPT !.at = "meta", !.image = u]
    BY <1>12 DEF Issue!LogoAnswered, Issue!Upload
  <2>2. UNCHANGED <<kind, ipfs, mode, Issue!form, issued>> /\ UNCHANGED media /\ sub.at = "logo"
    BY <1>12 DEF Issue!LogoAnswered, Issue!form
  <2>3. CASE u = None
    BY <1>10, <1>11, <2>1, <2>2, <2>3
  <2>4. CASE u # None
    <3>1. /\ sub = [at |-> sub.at, of |-> sub.of, image |-> sub.image, meta |-> sub.meta]
          /\ kind = "token" /\ ipfs /\ sub.of.mode = "easy"
      BY <2>2 DEF Issue!SubmissionSound, Issue!Stages
    <3>2. sub' = [at |-> "meta", of |-> sub.of, image |-> sub.of.logo, meta |-> sub.meta]
      BY <2>1, <2>4, <3>1
    <3>3. Issue!SubmissionSound'
      BY <2>2, <3>1, <3>2 DEF Issue!SubmissionSound, Issue!Stages, Issue!Image
    <3> QED
      BY <1>0, <1>11, <2>2, <3>3
  <2> QED
    BY <2>3, <2>4
<1>13. CASE Issue!MetadataAnswered
  <2> DEFINE file == [text |-> sub.of.text, image |-> sub.image]
  <2>1. PICK u \in {file, None} :
             sub' = IF u = None THEN Issue!NoSub ELSE [sub EXCEPT !.at = "issue", !.meta = u]
    BY <1>13 DEF Issue!MetadataAnswered, Issue!Upload
  <2>2. UNCHANGED <<kind, ipfs, mode, Issue!form, issued>> /\ UNCHANGED media /\ sub.at = "meta"
    BY <1>13 DEF Issue!MetadataAnswered, Issue!form
  <2>3. CASE u = None
    BY <1>10, <1>11, <2>1, <2>2, <2>3
  <2>4. CASE u # None
    <3>1. /\ sub = [at |-> sub.at, of |-> sub.of, image |-> sub.image, meta |-> sub.meta]
          /\ sub.image = Issue!Image
      BY <2>2 DEF Issue!SubmissionSound, Issue!Stages
    <3>2. sub' = [at |-> "issue", of |-> sub.of, image |-> sub.image, meta |-> file]
      BY <2>1, <2>4, <3>1
    <3>3. sub'.at = "issue" /\ sub'.of = sub.of /\ sub'.meta = file
            /\ Issue!Image' = Issue!Image
      BY <2>2, <3>2 DEF Issue!Image
    <3>4. sub' = [at |-> sub'.at, of |-> sub'.of, image |-> sub'.image, meta |-> sub'.meta]
      BY <3>2
    <3>5. kind = "nft" =>
             /\ Issue!OfTheFile(sub.of.media) /\ sub.of.media.hash # None
             /\ ipfs /\ sub.of.media.file # None => sub.of.media.uri # None
      BY <2>2 DEF Issue!SubmissionSound, Issue!Stages
    <3>6. Issue!SubmissionSound'
      BY <2>2, <3>1, <3>3, <3>4, <3>5
      DEF Issue!SubmissionSound, Issue!Stages, Issue!OfTheFile
    <3> QED
      BY <1>0, <1>11, <2>2, <3>6
  <2> QED
    BY <2>3, <2>4
<1>14. CASE Issue!Issue
  <2>1. UNCHANGED <<kind, ipfs, mode, Issue!form>> /\ UNCHANGED media /\ sub.at = "issue"
        /\ (sub' = Issue!NoSub \/ sub' = Issue!Done)
    BY <1>14 DEF Issue!Issue, Issue!form
  <2>2. CASE issued' = issued
    BY <1>10, <1>11, <2>1, <2>2
  <2>3. CASE issued' = [of |-> sub.of, text |-> sub.of.text, meta |-> sub.meta,
                        hash |-> sub.of.media.hash, uri |-> sub.of.media.uri]
    <3>1. /\ issued'.of = sub.of /\ issued'.meta = sub.meta
          /\ issued'.hash = sub.of.media.hash /\ issued'.uri = sub.of.media.uri
      BY <2>3
    <3>2. kind = "nft" =>
             /\ Issue!OfTheFile(sub.of.media) /\ sub.of.media.hash # None
             /\ ipfs /\ sub.of.media.file # None => sub.of.media.uri # None
      BY <2>1 DEF Issue!SubmissionSound, Issue!Stages
    <3>3. ipfs /\ sub.of.mode = "easy"
            => sub.meta = [text |-> sub.of.text, image |-> Issue!Image]
      BY <2>1 DEF Issue!SubmissionSound
    <3>4. Issue!IssuedAsShown'
      BY <2>1, <3>1, <3>2, <3>3
      DEF Issue!IssuedAsShown, Issue!OfTheFile, Issue!Image
    <3> QED
      BY <1>10, <2>1, <3>4
  <2> QED
    BY <1>14, <2>2, <2>3 DEF Issue!Issue
<1>15. CASE UNCHANGED Issue!vars
  BY <1>0, <1>15, FormEdited DEF Issue!vars
<1> QED
  BY <1>1, <1>2, <1>3, <1>4, <1>5, <1>6, <1>7, <1>8, <1>9, <1>12, <1>13, <1>14,
     <1>15
  DEF Issue!Next

LEMMA IssueSound == ASSUME Issue!IssueFormsInv PROVE Issue!IssuedAsShown
BY DEF Issue!IssueFormsInv

(* What is issued is what its dialog showed, whatever is picked, edited    *)
(* and answered while it is on its way, for any files and edits            *)
(* (IssueNFTModal.tsx:83).                                                 *)
THEOREM IssuesAreAsShown ==
    Issue!Spec => []Issue!IssuedAsShown
<1>1. Issue!Init => Issue!IssueFormsInv
  BY IssueInit
<1>2. Issue!IssueFormsInv /\ [Issue!Next]_Issue!vars => Issue!IssueFormsInv'
  BY IssueStep
<1>3. Issue!IssueFormsInv => Issue!IssuedAsShown
  BY IssueSound
<1> QED
  BY <1>1, <1>2, <1>3, PTL DEF Issue!Spec

-----------------------------------------------------------------------------
(* WalletSetup. A wallet of generated words belongs to the create that     *)
(* made it, which still works, has shown them or lost an answer.           *)
LEMMA WordsInit ==
    ASSUME Words!WalletSetupConstants, Words!Init
    PROVE  Words!WalletSetupInv
BY DEF Words!WalletSetupConstants, Words!Init, Words!Idle, Words!WalletSetupInv,
   Words!TypeOK, Words!Stages, Words!WordsHeld, Words!OwnWallet,
       Words!SameSeedTrue, Words!UploadWhole, Words!OpensWhole

(* One request goes on; what it is about stays.                            *)
Goes(p, stage) ==
    /\ Words!TypeOK'
    /\ post'[p].kind = post[p].kind /\ post'[p].at = stage /\ post'[p].note = post[p].note
    /\ \A q \in WordPosts \ {p} : post'[q] = post[q]

Ends(p, note) ==
    /\ Words!TypeOK'
    /\ post'[p].kind = post[p].kind /\ post'[p].at = "page" /\ post'[p].note = note
    /\ \A q \in WordPosts \ {p} : post'[q] = post[q]

LEMMA GoGoes ==
    ASSUME Words!TypeOK, NEW p \in WordPosts, NEW stage \in Words!Stages, Words!Go(p, stage)
    PROVE  Goes(p, stage)
BY DEF Words!TypeOK, Words!Go, Goes

LEMMA EndEnds ==
    ASSUME Words!TypeOK, NEW p \in WordPosts,
           NEW note \in {None, "same", "configured", "failed"}, Words!End(p, note)
    PROVE  Ends(p, note)
BY DEF Words!TypeOK, Words!End, Ends, Words!Stages

LEMMA Phrases ==
    ASSUME NEW p \in WordPosts, post'[p].kind = post[p].kind
    PROVE  Words!Phrase(p)' = Words!Phrase(p)
BY DEF Words!Phrase

(* A request that makes nothing and says nothing of a seed.                *)
LEMMA Quiet ==
    ASSUME Words!WalletSetupConstants, Words!WalletSetupInv, NEW p \in WordPosts,
           NEW stage \in Words!Stages, Goes(p, stage),
           UNCHANGED <<open, walletAt, btc>>, Words!UploadWhole', shown \subseteq shown', lost \subseteq lost',
           post[p].at \in {"rpc", "write", "rename", "open"}, stage
               \in {"rename", "open", "error"}
    PROVE  Words!WalletSetupInv'
<1>1. \A q \in WordPosts : Words!Phrase(q)' = Words!Phrase(q)
  BY Phrases DEF Goes
<1>2. walletAt # p
  BY DEF Words!WalletSetupInv, Words!WordsHeld
<1>3. Words!WordsHeld'
  BY <1>2 DEF Goes, Words!WalletSetupInv, Words!WordsHeld
<1>4. Words!OwnWallet'
  BY <1>1 DEF Goes, Words!WalletSetupInv, Words!OwnWallet
<1>5. Words!SameSeedTrue'
  BY <1>1 DEF Goes, Words!WalletSetupInv, Words!SameSeedTrue
<1> QED
  BY <1>3, <1>4, <1>5 DEF Words!WalletSetupInv, Goes, Words!OpensWhole

LEMMA WordsStep ==
    ASSUME Words!WalletSetupConstants, Words!WalletSetupInv, [Words!Next]_Words!vars
    PROVE  Words!WalletSetupInv'
<1> USE DEF Words!WalletSetupInv
<1>1. ASSUME NEW p \in WordPosts, NEW way \in {"create", "import", "upload"},
             NEW stage \in {"rpc", "write"},
             post[p] = Words!Idle, post' = [post EXCEPT ![p].kind = way, ![p].at = stage],
             way = "upload" <=> stage = "write",
             UNCHANGED <<open, walletAt, uploadAt, btc, shown, lost>>
      PROVE  Words!WalletSetupInv'
  <2>1. /\ Words!TypeOK' /\ post'[p].kind = way /\ post'[p].at = stage
           /\ post'[p].note = post[p].note
        /\ \A q \in WordPosts \ {p} : post'[q] = post[q]
    BY <1>1 DEF Words!TypeOK, Words!Stages
  <2>2. post[p].at = "idle" /\ post[p].note = None
    BY <1>1 DEF Words!Idle
  <2>3. \A q \in WordPosts \ {p} : Words!Phrase(q)' = Words!Phrase(q)
    BY <2>1, Phrases
  <2>4. walletAt # p
    BY <2>2 DEF Words!WordsHeld
  <2>5. Words!WordsHeld'
    BY <1>1, <2>1, <2>4 DEF Words!WordsHeld
  <2>6. Words!OwnWallet'
    BY <1>1, <2>1, <2>2, <2>3 DEF Words!OwnWallet
  <2>7. Words!SameSeedTrue'
    BY <1>1, <2>1, <2>2, <2>3 DEF Words!SameSeedTrue, Words!WalletSetupConstants
  <2> QED
    BY <1>1, <2>1, <2>5, <2>6, <2>7 DEF Words!UploadWhole, Words!OpensWhole
<1>2. ASSUME NEW p \in WordPosts, Words!Create(p) PROVE Words!WalletSetupInv'
  BY <1>1, <1>2 DEF Words!Create, Words!daemon
<1>3. ASSUME NEW p \in WordPosts, Words!Import(p) PROVE Words!WalletSetupInv'
  BY <1>1, <1>3 DEF Words!Import, Words!daemon
<1>4. ASSUME NEW p \in WordPosts, NEW c \in BOOLEAN, Words!Upload(p, c)
      PROVE  Words!WalletSetupInv'
  BY <1>1, <1>4 DEF Words!Upload, Words!daemon
<1>5. ASSUME NEW p \in WordPosts, Words!Refused(p) PROVE Words!WalletSetupInv'
  <2>1. Goes(p, "error")
    BY <1>5, GoGoes DEF Words!Refused, Words!Stages
  <2> QED
    BY <1>5, <2>1, Quiet
    DEF Words!Refused, Words!daemon, Words!Stages, Words!UploadWhole
<1>6. ASSUME NEW p \in WordPosts, Words!Makes(p), NEW stage \in {"btc", "error"},
             Goes(p, stage),
             UNCHANGED <<uploadAt, btc, shown>>, lost \subseteq lost',
             stage = "error" => Words!Phrase(p) \in lost'
      PROVE  Words!WalletSetupInv'
  <2>1. /\ post[p].at = "rpc" /\ walletAt = None /\ walletAt' = Words!Phrase(p)
        /\ open' = [of |-> Words!Phrase(p), whole |-> TRUE]
    BY <1>6 DEF Words!Makes
  <2>2. \A q \in WordPosts : Words!Phrase(q)' = Words!Phrase(q)
    BY <1>6, Phrases DEF Goes
  <2>3. post[p].kind \in {"create", "import"} /\ Words!Phrase(p) \in {"typed", p}
        /\ (Words!Phrase(p) = p => post[p].kind = "create")
    BY <2>1 DEF Words!OwnWallet, Words!Phrase, Words!WalletSetupConstants
  <2>4. \A q \in WordPosts : post[q].at # "btc" /\ post[q].note # "same"
    BY <2>1
    DEF Words!OwnWallet, Words!SameSeedTrue, Words!Phrase,
        Words!WalletSetupConstants
  <2>5. Words!WordsHeld'
    BY <1>6, <2>1, <2>3 DEF Words!WordsHeld, Goes, Words!WalletSetupConstants
  <2>6. Words!OwnWallet'
    BY <1>6, <2>1, <2>2, <2>3, <2>4 DEF Words!OwnWallet, Goes
  <2>7. Words!SameSeedTrue'
    BY <1>6, <2>4 DEF Words!SameSeedTrue, Goes
  <2> QED
    BY <1>6, <2>1, <2>5, <2>6, <2>7
    DEF Words!UploadWhole, Words!OpensWhole, Goes
<1>7. ASSUME NEW p \in WordPosts, Words!Made(p) PROVE Words!WalletSetupInv'
  BY <1>6, <1>7, GoGoes DEF Words!Made, Words!Stages
<1>8. ASSUME NEW p \in WordPosts, Words!MadeUnheard(p)
      PROVE  Words!WalletSetupInv'
  BY <1>6, <1>8, GoGoes DEF Words!MadeUnheard, Words!Stages
<1>9. ASSUME NEW p \in WordPosts, NEW note \in {None, "same", "configured", "failed"},
             Ends(p, note),
             post[p].at = "btc",
             UNCHANGED <<open, walletAt, uploadAt, shown, lost>>,
             note = "same" => btc = None,
             btc' = btc \/ (btc = None /\ btc' = Words!Phrase(p)),
             note = "same" => btc' = Words!Phrase(p)
      PROVE  Words!WalletSetupInv'
  <2>1. \A q \in WordPosts : Words!Phrase(q)' = Words!Phrase(q)
    BY <1>9, Phrases DEF Ends
  <2>2. walletAt = Words!Phrase(p)
    BY <1>9 DEF Words!OwnWallet
  <2>3. \A q \in WordPosts : post[q].note = "same" => btc # None
    BY DEF Words!SameSeedTrue, Words!Phrase, Words!WalletSetupConstants
  <2>4. Words!WordsHeld'
    BY <1>9 DEF Words!WordsHeld, Ends
  <2>5. Words!OwnWallet'
    BY <1>9, <2>1 DEF Words!OwnWallet, Ends
  <2>6. Words!SameSeedTrue'
    BY <1>9, <2>1, <2>2, <2>3 DEF Words!SameSeedTrue, Ends
  <2> QED
    BY <1>9, <2>4, <2>5, <2>6 DEF Words!UploadWhole, Words!OpensWhole, Ends
<1>10. ASSUME NEW p \in WordPosts, Words!NoBitcoin(p)
       PROVE  Words!WalletSetupInv'
  <2>1. None # "same"
    BY DEF Words!WalletSetupConstants
  <2> QED
    BY <1>9, <1>10, <2>1, EndEnds DEF Words!NoBitcoin, Words!daemon
<1>11. ASSUME NEW p \in WordPosts, Words!BtcAnswered(p)
       PROVE  Words!WalletSetupInv'
  <2> DEFINE note == IF btc = None THEN "same" ELSE "configured"
  <2>1. note \in {None, "same", "configured", "failed"} /\ Words!End(p, note)
        /\ (note = "same" <=> btc = None)
    BY <1>11 DEF Words!BtcAnswered
  <2> HIDE DEF note
  <2>2. Ends(p, note)
    BY <2>1, EndEnds
  <2> QED
    BY <1>9, <1>11, <2>1, <2>2 DEF Words!BtcAnswered, Words!Taken, Words!daemon
<1>12. ASSUME NEW p \in WordPosts, Words!BtcRefused(p)
       PROVE  Words!WalletSetupInv'
  BY <1>9, <1>12, EndEnds DEF Words!BtcRefused, Words!daemon
<1>13. ASSUME NEW p \in WordPosts, Words!BtcUnheard(p)
       PROVE  Words!WalletSetupInv'
  <2>1. /\ post[p].at = "btc" /\ UNCHANGED <<open, walletAt, uploadAt, shown, lost>>
        /\ (btc' = btc \/ (btc = None /\ btc' = Words!Phrase(p)))
    BY <1>13 DEF Words!BtcUnheard, Words!Taken, Words!daemon
  <2>2. CASE post' = [post EXCEPT ![p].at = "page", ![p].note = "failed"]
    <3>1. Ends(p, "failed")
      BY <2>2 DEF Words!TypeOK, Ends, Words!Stages
    <3> QED
      BY <1>9, <2>1, <3>1
  <2>3. CASE post' = [post EXCEPT ![p].tries = @ + 1]
    <3>1. Goes(p, "btc")
      BY <2>1, <2>3 DEF Words!TypeOK, Goes, Words!Stages
    <3>2. \A q \in WordPosts : Words!Phrase(q)' = Words!Phrase(q)
      BY <3>1, Phrases DEF Goes
    <3>3. \A q \in WordPosts : post[q].note = "same" => btc # None
      BY DEF Words!SameSeedTrue, Words!Phrase, Words!WalletSetupConstants
    <3>4. Words!WordsHeld'
      BY <2>1, <3>1 DEF Words!WordsHeld, Goes
    <3>5. Words!OwnWallet'
      BY <2>1, <3>1, <3>2 DEF Words!OwnWallet, Goes
    <3>6. Words!SameSeedTrue'
      BY <2>1, <3>1, <3>2, <3>3 DEF Words!SameSeedTrue, Goes
    <3> QED
      BY <2>1, <3>1, <3>4, <3>5, <3>6
      DEF Words!UploadWhole, Words!OpensWhole, Goes
  <2> QED
    BY <1>13, <2>2, <2>3 DEF Words!BtcUnheard
<1>14. ASSUME NEW p \in WordPosts, NEW stage \in {"done", "error"}, Goes(p, stage),
              post[p].at = "page",
              UNCHANGED <<open, walletAt, uploadAt, btc>>,
              shown \subseteq shown', lost \subseteq lost',
              walletAt = p => p \in shown' \cup lost'
       PROVE  Words!WalletSetupInv'
  <2>1. \A q \in WordPosts : Words!Phrase(q)' = Words!Phrase(q)
    BY <1>14, Phrases DEF Goes
  <2>2. Words!WordsHeld'
    BY <1>14 DEF Words!WordsHeld, Goes
  <2>3. Words!OwnWallet'
    BY <1>14, <2>1 DEF Words!OwnWallet, Goes
  <2>4. Words!SameSeedTrue'
    BY <1>14, <2>1 DEF Words!SameSeedTrue, Goes
  <2> QED
    BY <1>14, <2>2, <2>3, <2>4 DEF Words!UploadWhole, Words!OpensWhole, Goes
<1>15. \A p \in WordPosts : walletAt = p => post[p].kind = "create" /\ Words!Phrase(p) = p
  BY DEF Words!WordsHeld, Words!Phrase
<1>16. ASSUME NEW p \in WordPosts, Words!Page(p) PROVE Words!WalletSetupInv'
  <2>1. Goes(p, "done")
    BY <1>16, GoGoes DEF Words!Page, Words!Stages
  <2> QED
    BY <1>14, <1>15, <1>16, <2>1 DEF Words!Page, Words!daemon
<1>17. ASSUME NEW p \in WordPosts, Words!PageLost(p) PROVE Words!WalletSetupInv'
  <2>1. Goes(p, "error")
    BY <1>17, GoGoes DEF Words!PageLost, Words!Stages
  <2> QED
    BY <1>14, <1>15, <1>17, <2>1 DEF Words!PageLost, Words!daemon
<1>18. ASSUME NEW p \in WordPosts, Words!Write(p) PROVE Words!WalletSetupInv'
  <2>1. PICK stage \in {"rename", "error"} : Words!Go(p, stage)
    BY <1>18 DEF Words!Write
  <2>2. Goes(p, stage)
    BY <2>1, GoGoes DEF Words!Stages
  <2> QED
    BY <1>18, <2>2, Quiet
    DEF Words!Write, Words!At, Words!daemon, Words!Stages, Words!UploadWhole
<1>19. ASSUME NEW p \in WordPosts, Words!Rename(p) PROVE Words!WalletSetupInv'
  <2>1. Goes(p, "open")
    BY <1>19, GoGoes DEF Words!Rename, Words!Stages
  <2>2. Words!UploadWhole'
    BY <1>19 DEF Words!Rename, Words!UploadWhole
  <2> QED
    BY <1>19, <2>1, <2>2, Quiet
    DEF Words!Rename, Words!At, Words!daemon, Words!Stages
<1>20. ASSUME NEW p \in WordPosts, Words!Open(p) PROVE Words!WalletSetupInv'
  <2>1. CASE open = None
    <3>1. Ends(p, None) /\ open' = uploadAt
            /\ UNCHANGED <<walletAt, uploadAt, btc, shown, lost>>
          /\ post[p].at = "open"
      BY <1>20, <2>1, EndEnds DEF Words!Open, Words!At
    <3>2. \A q \in WordPosts : Words!Phrase(q)' = Words!Phrase(q)
      BY <3>1, Phrases DEF Ends
    <3>3. walletAt # p /\ None # "same"
      BY <3>1 DEF Words!WordsHeld, Words!WalletSetupConstants
    <3>4. Words!WordsHeld'
      BY <3>1, <3>3 DEF Words!WordsHeld, Ends
    <3>5. Words!OwnWallet'
      BY <3>1, <3>2 DEF Words!OwnWallet, Ends
    <3>6. Words!SameSeedTrue'
      BY <3>1, <3>2, <3>3 DEF Words!SameSeedTrue, Ends
    <3> QED
      BY <3>1, <3>4, <3>5, <3>6 DEF Words!UploadWhole, Words!OpensWhole, Ends
  <2>2. CASE open # None
    <3>1. Goes(p, "error")
      BY <1>20, <2>2, GoGoes DEF Words!Open, Words!Stages
    <3> QED
      BY <1>20, <2>2, <3>1, Quiet
      DEF Words!Open, Words!At, Words!Stages, Words!UploadWhole
  <2> QED
    BY <2>1, <2>2
<1>21. ASSUME UNCHANGED <<walletAt, uploadAt, post, shown, lost>>, open' \in {open, None},
              btc' = btc \/ btc = None
       PROVE  Words!WalletSetupInv'
  <2>1. \A q \in WordPosts : Words!Phrase(q)' = Words!Phrase(q)
    BY <1>21, Phrases
  <2>2. \A q \in WordPosts : post[q].note = "same" => btc # None
    BY DEF Words!SameSeedTrue, Words!Phrase, Words!WalletSetupConstants
  <2>3. Words!TypeOK' /\ Words!WordsHeld' /\ Words!UploadWhole' /\ Words!OpensWhole'
    BY <1>21
    DEF Words!TypeOK, Words!WordsHeld, Words!UploadWhole, Words!OpensWhole
  <2>4. Words!OwnWallet' /\ Words!SameSeedTrue'
    BY <1>21, <2>1, <2>2 DEF Words!OwnWallet, Words!SameSeedTrue
  <2> QED
    BY <2>3, <2>4
<1>22. CASE Words!DaemonRestarts
  BY <1>21, <1>22 DEF Words!DaemonRestarts
<1>23. CASE Words!OtherBtcWallet
  BY <1>21, <1>23 DEF Words!OtherBtcWallet, Words!daemon
<1>24. CASE Words!ServerRestarts
  <2>1. /\ post' = [p \in WordPosts |-> IF p
           \in Words!Working THEN [post[p] EXCEPT !.at = "error"] ELSE post[p]]
        /\ lost' = lost \cup {Words!Phrase(p) : p
           \in {q \in Words!Working : post[q].at \in {"btc", "page"}}}
        /\ UNCHANGED <<open, walletAt, uploadAt, btc, shown>>
    BY <1>24 DEF Words!ServerRestarts, Words!daemon
  <2>2. ASSUME NEW p \in WordPosts
        PROVE  /\ post'[p] \in [kind : {None, "create", "import", "upload"}, at : Words!Stages, tries : Nat,
                                note : {None, "same", "configured", "failed"}]
               /\ post'[p].kind = post[p].kind /\ post'[p].note = post[p].note
               /\ post'[p].at = IF p \in Words!Working THEN "error" ELSE post[p].at
    BY <2>1 DEF Words!TypeOK, Words!Stages
  <2>3. Words!TypeOK'
    BY <2>1, <2>2 DEF Words!TypeOK
  <2>4. \A q \in WordPosts : Words!Phrase(q)' = Words!Phrase(q)
    BY <2>2, Phrases
  <2>5. ASSUME NEW p \in WordPosts, walletAt = p, p \in Words!Working
        PROVE  p \in lost'
    <3>1. post[p].at \in {"btc", "page"} /\ Words!Phrase(p) = p
      BY <1>15, <2>5 DEF Words!WordsHeld, Words!Working
    <3> QED
      BY <2>1, <2>5, <3>1
  <2>6. Words!WordsHeld'
    BY <2>1, <2>2, <2>5 DEF Words!WordsHeld
  <2>7. Words!OwnWallet'
    BY <2>1, <2>2, <2>4 DEF Words!OwnWallet
  <2>8. Words!SameSeedTrue'
    BY <2>1, <2>2, <2>4 DEF Words!SameSeedTrue
  <2> QED
    BY <2>1, <2>3, <2>6, <2>7, <2>8 DEF Words!UploadWhole, Words!OpensWhole
<1>25. CASE UNCHANGED Words!vars
  BY <1>21, <1>25 DEF Words!vars
<1> QED
  BY <1>2, <1>3, <1>4, <1>5, <1>7, <1>8, <1>10, <1>11, <1>12, <1>13, <1>16,
     <1>17, <1>18, <1>19,
     <1>20, <1>22, <1>23, <1>24, <1>25 DEF Words!Next

LEMMA WordsSound ==
    ASSUME Words!WalletSetupConstants, Words!WalletSetupInv
    PROVE  Words!SetupTold
<1>1. Words!WordsShown
  BY DEF Words!WalletSetupInv, Words!WordsHeld, Words!WordsShown, Words!Working
<1> QED
  BY <1>1 DEF Words!WalletSetupInv, Words!SetupTold

(* The words of a new wallet are shown whatever Bitcoin does, "the same    *)
(* seed" is said of one seed only, and the daemon opens no wallet file     *)
(* that is not whole, for any requests and faults (setup.astro:48, :62).   *)
THEOREM WordsAreTold ==
    ASSUME Words!WalletSetupConstants
    PROVE  Words!Spec => []Words!SetupTold
<1>1. Words!Init => Words!WalletSetupInv
  BY WordsInit
<1>2. Words!WalletSetupInv /\ [Words!Next]_Words!vars => Words!WalletSetupInv'
  BY WordsStep
<1>3. Words!WalletSetupInv => Words!SetupTold
  BY WordsSound
<1> QED
  BY <1>1, <1>2, <1>3, PTL DEF Words!Spec
=============================================================================
