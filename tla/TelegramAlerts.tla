--------------------------- MODULE TelegramAlerts ----------------------------
(***************************************************************************)
(* The notification loop of the Telegram bot (lib/telegram-bot.ts:94 and    *)
(* lib/telegram-notifications.ts): every 30 s it compares what the wallet   *)
(* and the node say with what they said on the tick before.                 *)
(*                                                                         *)
(* The five requests of a tick are answered at different moments, so each   *)
(* value is that of the start or of the end of the tick.  A message that    *)
(* Telegram does not take is lost: only the decision to send is followed.   *)
(***************************************************************************)
EXTENDS Integers, FiniteSets

CONSTANTS
    Threshold,    \* OFFLINE_THRESHOLD
    Kinds,        \* the notifications that are switched on
    ListsFail,    \* can the lists of blocks and transactions fail alone
    MaxEvents,    \* bound: deposits, blocks and payments
    MaxOutages,   \* bound: the node goes away
    MaxFailures,  \* bound: ticks in a row that fail
    MaxConfigs    \* bound: changes of the bot or the chat

VARIABLES
    wallet,    \* the wallet: balance, blocks created, transactions, behind
    reachable, \* the node and the wallet daemon answer
    tick,      \* the wallet as it was when the tick began, or Idle
    known,     \* NotificationState
    fresh,     \* the config key changed since the last tick
    (* Observers *)
    base,      \* blocks created when the state was last made
    told,      \* since then: what has been announced
    events, outages, configs

vars == <<wallet, reachable, tick, known, fresh, base, told, events, outages, configs>>

NoWallet == [balance |-> 0, blocks |-> 0, txs |-> {}, behind |-> FALSE]
Idle == [NoWallet EXCEPT !.balance = -1]
FreshState == [init |-> FALSE, online |-> TRUE, failures |-> 0, balance |-> 0,
               blocks |-> 0, txs |-> {}, behind |-> FALSE]
NothingTold == [offline |-> 0, online |-> 0, blocks |-> 0, received |-> 0,
                confirmed |-> 0, behind |-> 0, synced |-> 0]

Init ==
    /\ wallet = NoWallet /\ reachable = TRUE
    /\ tick = Idle /\ known = FreshState /\ fresh = FALSE
    /\ base = 0 /\ told = NothingTold
    /\ events = 0 /\ outages = 0 /\ configs = 0

-----------------------------------------------------------------------------
(* What happens to the wallet: a payment in or out, a block of its own     *)
(* pool, with or without a reward, a tip it falls behind or reaches.       *)
Event ==
    /\ events < MaxEvents
    /\ events' = events + 1
    /\ wallet' \in
         {[wallet EXCEPT !.balance = @ + 1, !.txs = @ \cup {events'}],
          [wallet EXCEPT !.blocks = @ + 1, !.balance = @ + 1],
          [wallet EXCEPT !.behind = ~@]}
         \cup (IF wallet.balance = 0 THEN {} ELSE
               {[wallet EXCEPT !.balance = @ - 1, !.txs = @ \cup {events'}]})
    /\ UNCHANGED <<reachable, tick, known, fresh, base, told, outages, configs>>

Outage ==
    /\ reachable /\ outages < MaxOutages
    /\ outages' = outages + 1
    /\ reachable' = FALSE
    /\ UNCHANGED <<wallet, tick, known, fresh, base, told, events, configs>>
Return ==
    /\ ~reachable
    /\ reachable' = TRUE
    /\ UNCHANGED <<wallet, tick, known, fresh, base, told, events, outages, configs>>

(* The settings name another bot or chat.                                  *)
Configure ==
    /\ configs < MaxConfigs
    /\ configs' = configs + 1
    /\ fresh' = TRUE
    /\ UNCHANGED <<wallet, reachable, tick, known, base, told, events, outages>>

(* The loop wakes; a new config key makes a new state.                     *)
Begin ==
    /\ tick = Idle
    /\ tick' = wallet
    /\ fresh' = FALSE
    /\ IF fresh
       THEN known' = FreshState /\ base' = wallet.blocks /\ told' = NothingTold
       ELSE UNCHANGED <<known, base, told>>
    /\ UNCHANGED <<wallet, reachable, events, outages, configs>>

One(kind, condition) == IF condition /\ kind \in Kinds THEN 1 ELSE 0

(* A required request fails: the alarm is raised on the third tick in a    *)
(* row and nothing else changes.                                           *)
AlarmEveryTick == known.failures + 1 >= Threshold
Alarm == known.failures + 1 = Threshold
TickFails ==
    /\ tick # Idle /\ ~reachable /\ known.failures < MaxFailures
    /\ tick' = Idle
    /\ known' = [known EXCEPT !.failures = @ + 1, !.online = @ /\ ~Alarm]
    /\ told' = [told EXCEPT !.offline = @ + One("offline", Alarm)]
    /\ UNCHANGED <<wallet, reachable, fresh, base, events, outages, configs>>

(* What a tick may read: each value by itself, a list that fails empty.    *)
Readings ==
    [balance : {tick.balance, wallet.balance},
     blocks : {tick.blocks, wallet.blocks} \cup (IF ListsFail THEN {0} ELSE {}),
     txs : {tick.txs, wallet.txs} \cup (IF ListsFail THEN {{}} ELSE {}),
     behind : {tick.behind, wallet.behind}]

(* The state the comparison leaves for the next tick.                      *)
Noted(r) ==
    [init |-> TRUE, online |-> TRUE, failures |-> 0, balance |-> r.balance,
     blocks |-> r.blocks, txs |-> r.txs, behind |-> r.behind]

(* The messages of a tick with an earlier one to compare with.  A rise of  *)
(* the balance without a block is an incoming payment, and its             *)
(* confirmation is then not announced as well; large sends are left out.   *)
Compared(r) ==
    LET mined == r.blocks - known.blocks
        incoming == r.balance > known.balance /\ mined = 0
        covered == incoming /\ "received" \in Kinds
        confirmed == r.txs \ known.txs # {} /\ known.txs # {} /\ ~covered
    IN  [told EXCEPT
            !.online = @ + One("offline", ~known.online),
            !.blocks = @ + IF "staking" \in Kinds /\ mined > 0 THEN mined ELSE 0,
            !.received = @ + One("received", incoming),
            !.confirmed = @ + One("confirmed", confirmed),
            !.behind = @ + One("sync", r.behind /\ ~known.behind),
            !.synced = @ + One("sync", ~r.behind /\ known.behind)]

TickAnswered ==
    /\ tick # Idle /\ reachable
    /\ tick' = Idle
    /\ \E r \in Readings :
         /\ known' = Noted(r)
         /\ told' = IF known.init THEN Compared(r)
                    ELSE [told EXCEPT !.online = @ + One("offline", ~known.online)]
    /\ UNCHANGED <<wallet, reachable, fresh, base, events, outages, configs>>

Next ==
    \/ Event \/ Outage \/ Return \/ Configure
    \/ Begin \/ TickFails \/ TickAnswered

Spec == Init /\ [][Next]_vars

-----------------------------------------------------------------------------
(* Properties.                                                             *)

(* Every alarm is followed by one all-clear before the next alarm, however *)
(* long the outage, and what stands is what the last message said          *)
(* (telegram-notifications.ts:107, :116).                                  *)
AlarmsPaired ==
    "offline" \in Kinds => told.offline - told.online = IF known.online THEN 0 ELSE 1

(* No block is announced twice: the news add up to the blocks created      *)
(* since the state was made (telegram-notifications.ts:139).               *)
BlocksToldOnce == told.blocks <= wallet.blocks - base

(* "behind" and "synced" alternate.                                        *)
SyncPaired == told.behind - told.synced \in {-1, 0, 1}

AlertsSound == AlarmsPaired /\ BlocksToldOnce /\ SyncPaired

-----------------------------------------------------------------------------
(* The inductive invariant behind it, which ServerProofs proves from this  *)
(* assumption: the counters of what was told follow the state that the     *)
(* next tick compares with.                                                *)
AlertsConstants == ~ListsFail /\ Threshold \in Nat \ {0}

Wallets == [balance : Int, blocks : Nat, txs : SUBSET Nat, behind : BOOLEAN]

TypeOK ==
    /\ wallet \in Wallets /\ tick \in Wallets
    /\ known \in [init : BOOLEAN, online : BOOLEAN, failures : Nat, balance : Int,
                  blocks : Nat, txs : SUBSET Nat, behind : BOOLEAN]
    /\ base \in Nat /\ events \in Nat
    /\ told \in [offline : Nat, online : Nat, blocks : Nat, received : Nat,
                 confirmed : Nat, behind : Nat, synced : Nat]

AlarmAtThreshold == known.online <=> known.failures < Threshold

(* No reading is older than the state it is compared with.                 *)
BlocksInOrder ==
    /\ base <= wallet.blocks /\ known.blocks <= wallet.blocks
    /\ tick # Idle => /\ base <= tick.blocks /\ known.blocks <= tick.blocks
                      /\ tick.blocks <= wallet.blocks
    /\ told.blocks <= IF known.init THEN known.blocks - base ELSE 0

SyncFollowed ==
    /\ told.behind - told.synced \in IF known.behind THEN {0, 1} ELSE {-1, 0}
    /\ ~known.init \/ "sync" \notin Kinds => told.behind = told.synced

AlertsInv == TypeOK /\ AlarmsPaired /\ AlarmAtThreshold /\ BlocksInOrder /\ SyncFollowed
=============================================================================
