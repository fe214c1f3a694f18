------------------------------- MODULE MCLife -------------------------------
(* The parts with a promise of progress, checked side by side: the Bitcoin *)
(* sidecar, the Telegram bot and the panel of issued tokens.  A behaviour  *)
(* is about one of them, so they share the variables.                      *)
EXTENDS TLC

CONSTANTS
    None

(* A message that switches staking on, and one from another chat.          *)
Messages == {[chat |-> 1, cmd |-> "on", code |-> 1],
             [chat |-> 2, cmd |-> "show", code |-> 0]}

Slots == {"infos", "again", "wallet", "indexer"}

VARIABLES
    area,    \* which part of the program this behaviour is about
    (* Its state: the variables of its module, in their order.             *)
    s1, s2, s3, s4, s5, s6, s7, s8, s9, s10, s11, s12, s13, s14, s15

vars == <<area, s1, s2, s3, s4, s5, s6, s7, s8, s9, s10, s11, s12, s13, s14, s15>>

Btc == INSTANCE BtcSidecar WITH
    Generate <- {"g1", "g2"}, Restore <- {"r1"}, Old <- "old", None <- None,
    Slack <- 0, PruneWindow <- 1, MaxTime <- 3, MaxTimers <- 1,
    MaxFaults <- 2, seed <- s1, db <- s2, mem <- s3, sync <- s4,
    timers <- s5, node <- s6, request <- s7, now <- s8, up <- s9,
    seen <- s10, faults <- s11, deserted <- s12,
    bereft <- s13

Bot == INSTANCE TelegramBot WITH
    None <- None, Bots <- {"b1", "b2"}, Chats <- {1, 2},
    Messages <- Messages, MaxUpdates <- 2, MaxSettings <- 3, MaxFails <- 1,
    MaxRestarts <- 1, config <- s1, controls <- s2, sent <- s3,
    dropped <- s4, loop <- s5, running <- s6, burned <- s7, early <- s14,
    late <- s15, staking <- s8, heard <- s9, ran <- s10, settings <- s11,
    fails <- s12, restarts <- s13

Issued == INSTANCE IssuedTokens WITH
    Tokens <- {"a"}, Slots <- Slots, MaxFails <- 1, MaxClicks <- 2,
    tx <- s1, indexed <- s2, stored <- s3, live <- s4, failed <- s5,
    scanError <- s6, jobs <- s7, fails <- s8, clicks <- s9

(* The slots a part does not use.                                        *)
Rest9 == <<s10, s11, s12, s13, s14, s15>>
Rest13 == <<s14, s15>>

Init ==
    \/ /\ area = "btc" /\ Btc!Init
       /\ s14 = None /\ s15 = None
    \/ /\ area = "bot" /\ Bot!Init
    \/ /\ area = "issued" /\ Issued!Init
       /\ s10 = None /\ s11 = None /\ s12 = None /\ s13 = None
       /\ s14 = None /\ s15 = None

Next ==
    \/ area = "btc" /\ Btc!Next /\ UNCHANGED <<area, Rest13>>
    \/ area = "bot" /\ Bot!Next /\ UNCHANGED area
    \/ area = "issued" /\ Issued!Next /\ UNCHANGED <<area, Rest9>>

(* The fairness of each module's own specification, for the part that runs.*)
Spec ==
    /\ Init /\ [][Next]_vars
    /\ WF_vars(area = "btc" /\ Btc!SyncTask /\ UNCHANGED <<area, Rest13>>)
    /\ WF_vars(area = "btc" /\ Btc!RetryFires /\ UNCHANGED <<area, Rest13>>)
    /\ WF_vars(area = "btc" /\ Btc!RescanEnds /\ UNCHANGED <<area, Rest13>>)
    /\ WF_vars(area = "bot" /\ Bot!Loop /\ UNCHANGED area)
    /\ SF_vars(area = "issued" /\ Issued!Resync /\ UNCHANGED <<area, Rest9>>)
    /\ \A s \in Slots :
          WF_vars(area = "issued" /\ Issued!Deliver(s) /\ UNCHANGED <<area, Rest9>>)

-----------------------------------------------------------------------------
(* What each part promises to reach; its invariants are in Host.            *)

(* The syncing flag never sticks, whatever the node does (main.rs,         *)
(* spawn_sync).                                                            *)
SyncEnds == (area = "btc" /\ Btc!Syncing) ~> (area = "btc" => ~Btc!Syncing)

(* A message to the bot the settings name is heard, unless they come to    *)
(* name another (telegram-bot.ts:58).                                      *)
CommandsHeard ==
    \A b \in {"b1", "b2"} :
        (area = "bot" /\ Bot!Named(b)) ~> (area = "bot" => Bot!AllHeard(b))

(* A token the node knows gets its row, its data and no "tx failed",       *)
(* whatever was removed in error or overwritten by an old answer           *)
(* (IssuedTokensPanel.tsx:151, :304).                                      *)
IssuedIsShown ==
    (area = "issued" /\ Issued!Indexed("a")) ~> (area = "issued" => Issued!Shown("a"))
=============================================================================
