----------------------------- MODULE TelegramBot -----------------------------
(***************************************************************************)
(* The command loop of the Telegram bot (lib/telegram-bot.ts), its command  *)
(* handlers (lib/telegram-commands.ts) and the settings that can change     *)
(* under it (api/settings/telegram.ts).                                     *)
(*                                                                         *)
(* Telegram keeps the updates of a bot until a getUpdates with a greater    *)
(* offset acknowledges them, so one is delivered again after an answer that *)
(* was lost, a restart or a change to another bot and back.  An update is   *)
(* its bot and its place in the bot's queue; the ids of two bots overlap.   *)
(***************************************************************************)
EXTENDS Integers, Sequences, Functions

CONSTANTS
    None, Bots, Chats,
    Messages,      \* what users may write: [chat, cmd, code]
    MaxUpdates,    \* bound: messages written
    MaxSettings,   \* bound: changes of the settings
    MaxFails,      \* bound: polls that fail
    MaxRestarts    \* bound: restarts of the web process

VARIABLES
    config,     \* the stored bot and chat
    controls,   \* the pref telegram.staking.controls
    sent,       \* per bot: the messages written to it
    dropped,    \* per bot: how many Telegram has forgotten
    loop,       \* the loop: where it is, the bot and chat it read, its offset
    running,    \* the handlers past their first await
    burned,     \* the codes this process has accepted and still refuses
    early,      \* those of them it accepted before their own period
    late,       \* the codes whose burn ran out while they were still good
    staking,    \* the daemon: is it staking
    (* Observers *)
    heard,      \* per bot: the updates a handler was started for
    ran,        \* per bot: how often an update changed staking
    settings, fails, restarts

vars == <<config, controls, sent, dropped, loop, running, burned, early, late,
          staking, heard, ran, settings, fails, restarts>>
codes == <<burned, early, late>>
bounds == <<settings, fails, restarts>>

Settled == [at |-> "read", bot |-> None, chat |-> None, offset |-> 0]

Init ==
    /\ config = [bot |-> None, chat |-> None]
    /\ controls \in BOOLEAN
    /\ sent = [b \in Bots |-> <<>>]
    /\ dropped = [b \in Bots |-> 0]
    /\ loop = Settled
    /\ running = {}
    /\ burned = {} /\ early = {} /\ late = {}
    /\ staking = FALSE
    /\ heard = [b \in Bots |-> {}]
    /\ ran = [b \in Bots |-> [i \in 1..MaxUpdates |-> 0]]
    /\ settings = 0 /\ fails = 0 /\ restarts = 0

-----------------------------------------------------------------------------
(* POST of the settings: both values are stored with no await between.     *)
Configure(b, c) ==
    /\ settings < MaxSettings
    /\ settings' = settings + 1
    /\ config' = [bot |-> b, chat |-> c]
    /\ UNCHANGED <<controls, sent, dropped, loop, running, codes, staking,
                   heard, ran, fails, restarts>>

Written == FoldFunction(LAMBDA q, n : Len(q) + n, 0, sent)

(* Somebody writes to a bot.                                               *)
WriteMessage(b, m) ==
    /\ Written < MaxUpdates
    /\ sent' = [sent EXCEPT ![b] = Append(@, m)]
    /\ UNCHANGED <<config, controls, dropped, loop, running, codes, staking,
                   heard, ran, bounds>>

(* The offset the loop polls with: a rotated token starts over.            *)
OffsetKept == loop.offset
Offset == IF loop.bot = config.bot THEN loop.offset ELSE 0

(* The loop reads the settings and asks; asking forgets what the offset    *)
(* acknowledges.                                                           *)
Ask ==
    /\ loop.at = "read" /\ config.bot # None
    /\ loop' = [at |-> "poll", bot |-> config.bot, chat |-> config.chat, offset |-> Offset]
    /\ dropped' = [dropped EXCEPT ![config.bot] =
                      IF Offset > @ + 1 THEN Offset - 1 ELSE @]
    /\ UNCHANGED <<config, controls, sent, running, codes, staking,
                   heard, ran, bounds>>

(* The updates of an answer.                                               *)
Batch == {i \in dropped[loop.bot] + 1..Len(sent[loop.bot]) : i >= loop.offset}
Message(i) == sent[loop.bot][i]
Authorised(i) == Message(i).chat = loop.chat

(* The code is checked and not burnt.                                      *)
AcceptedUnburned(i) == Authorised(i) /\ controls /\ Message(i).cmd \in {"on", "off"}

(* /staking on or off with a code: the handlers of a batch run one after   *)
(* the other up to their first await, so the first to bring a code burns   *)
(* it.  The other commands, which only read (a fresh address is the daemon's *)
(* count), and the answers are left out.                                   *)
Accepted(i) ==
    /\ Authorised(i) /\ controls
    /\ Message(i).cmd \in {"on", "off"}
    /\ Message(i).code \notin burned
    /\ \A j \in Batch : j < i /\ Authorised(j) => Message(j).code # Message(i).code

Taken == {i \in Batch : Accepted(i)}
Turn(i) == IF Message(i).code \in late THEN 2 ELSE 1

(* A code may be brought before its own period, but not once that is over. *)
Answered ==
    /\ loop.at = "poll" /\ Batch # {}
    /\ loop' = [loop EXCEPT !.at = "read",
                   !.offset = (CHOOSE i \in Batch : \A j \in Batch : j <= i) + 1]
    /\ heard' = [heard EXCEPT ![loop.bot] = @ \cup Batch]
    /\ burned' = burned \cup {Message(i).code : i \in Taken}
    /\ \E E \in SUBSET ({Message(i).code : i \in Taken} \ late) : early' = early \cup E
    /\ running' = running \cup
         {[at |-> "delete", bot |-> loop.bot, id |-> i, cmd |-> Message(i).cmd,
           turn |-> Turn(i)] : i \in Taken}
    /\ UNCHANGED <<config, controls, sent, dropped, late, staking, ran, bounds>>

(* The burn of a code ends with the period after the one it was brought    *)
(* in; the next period still accepts a code that was brought early, and    *)
(* its burn then outlives it.                                              *)
BurnExpires(c) ==
    /\ burned' = burned \ {c}
    /\ early' = early \ {c}
    /\ late' = late \cup {c}
    /\ UNCHANGED <<config, controls, sent, dropped, loop, running, staking,
                   heard, ran, bounds>>

(* The long poll ends with nothing.                                        *)
NothingNew ==
    /\ loop.at = "poll" /\ Batch = {}
    /\ loop' = [loop EXCEPT !.at = "read"]
    /\ UNCHANGED <<config, controls, sent, dropped, running, codes, staking,
                   heard, ran, bounds>>

(* A 409, an error or a lost answer: the loop sleeps and reads again.      *)
PollFails ==
    /\ loop.at = "poll" /\ fails < MaxFails
    /\ fails' = fails + 1
    /\ loop' = [loop EXCEPT !.at = "read"]
    /\ UNCHANGED <<config, controls, sent, dropped, running, codes, staking,
                   heard, ran, settings, restarts>>

(* The message with the code is deleted, if Telegram does it.              *)
Deleted(h) ==
    /\ h.at = "delete"
    /\ running' = (running \ {h}) \cup {[h EXCEPT !.at = "rpc"]}
    /\ UNCHANGED <<config, controls, sent, dropped, loop, codes, staking,
                   heard, ran, bounds>>

(* The daemon starts or stops staking.                                     *)
Performed(h) ==
    /\ h.at = "rpc"
    /\ running' = running \ {h}
    /\ staking' = (h.cmd = "on")
    /\ ran' = [ran EXCEPT ![h.bot][h.id] = @ + 1]
    /\ UNCHANGED <<config, controls, sent, dropped, loop, codes, heard, bounds>>

(* It refuses: the code is spent and the answer says so.                   *)
Refused(h) ==
    /\ h.at = "rpc"
    /\ running' = running \ {h}
    /\ UNCHANGED <<config, controls, sent, dropped, loop, codes, staking,
                   heard, ran, bounds>>

Restart ==
    /\ restarts < MaxRestarts
    /\ restarts' = restarts + 1
    /\ loop' = Settled
    /\ running' = {}
    /\ burned' = {} /\ early' = {}
    /\ UNCHANGED <<config, controls, sent, dropped, late, staking, heard, ran,
                   settings, fails>>

Loop == Ask \/ Answered \/ NothingNew

Next ==
    \/ \E b \in Bots, c \in Chats : Configure(b, c)
    \/ \E b \in Bots, m \in Messages : WriteMessage(b, m)
    \/ Loop \/ PollFails
    \/ \E h \in running : Deleted(h) \/ Performed(h) \/ Refused(h)
    \/ \E c \in early : BurnExpires(c)
    \/ Restart

Spec == Init /\ [][Next]_vars

(* The loop never ends (telegram-bot.ts:49) and Telegram answers a poll    *)
(* within its 25 s.                                                        *)
Fairness == WF_vars(Loop)

FairSpec == Spec /\ Fairness

-----------------------------------------------------------------------------
(* Properties.                                                             *)

(* However often an update is delivered, after a lost answer or a change   *)
(* to another bot and back, it changes staking at most once in the life of *)
(* a process: its code is burnt (telegram-commands.ts:239).  The exception *)
(* is a code that was brought before its period: its burn ends while it is *)
(* still good (step-up.ts:106), and the update runs once more.             *)
Late(b, i) == i \in 1..Len(sent[b]) /\ sent[b][i].code \in late
One(p) == IF p THEN 1 ELSE 0
EffectOnce ==
    \A b \in Bots : \A i \in DOMAIN ran[b] : ran[b][i] <= 1 + restarts + One(Late(b, i))

(* A message to the bot the settings name is heard by a handler sooner or  *)
(* later, unless they come to name another (telegram-bot.ts:58 "reusing    *)
(* the old offset would filter out every command silently").               *)
Named(b) == config.bot = b
AllHeard(b) == ~Named(b) \/ heard[b] = DOMAIN sent[b]
CommandsHeard == \A b \in Bots : Named(b) ~> AllHeard(b)

-----------------------------------------------------------------------------
(* The inductive invariant behind EffectOnce, which ServerProofs proves    *)
(* from this assumption: what an update has done and what its handlers     *)
(* still can is paid for by a restart, by its code being burnt, or by the  *)
(* one burn of it that ended too soon.                                     *)
BotConstants == None \notin Bots

TypeOK ==
    /\ config \in [bot : Bots \cup {None}, chat : Chats \cup {None}]
    /\ sent \in [Bots -> Seq(Messages)]
    /\ dropped \in [Bots -> Nat]
    /\ loop \in [at : {"read", "poll"}, bot : Bots \cup {None}, chat : Chats \cup {None},
                  offset : Nat]
    /\ loop.at = "poll" => loop.bot # None
    /\ running \subseteq [at : {"delete", "rpc"}, bot : Bots, id : Nat \ {0},
                          cmd : {"on", "off"}, turn : {1, 2}]
    /\ ran \in [Bots -> [1..MaxUpdates -> Nat]]
    /\ restarts \in Nat

Burnt(b, i) == i \in 1..Len(sent[b]) /\ sent[b][i].code \in burned
Runs(b, i, n) == \E h \in running : h.bot = b /\ h.id = i /\ h.turn = n

EarlyBurnt == early \subseteq burned \ late

RunningOnce ==
    /\ \A h, k \in running : h.bot = k.bot /\ h.id = k.id /\ h.turn = k.turn => h = k
    /\ \A h \in running : Burnt(h.bot, h.id) \/ Late(h.bot, h.id)
    /\ \A h \in running : h.turn = 2 => Burnt(h.bot, h.id) /\ Late(h.bot, h.id)

Paid ==
    \A b \in Bots : \A i \in 1..MaxUpdates :
        ran[b][i] + One(Runs(b, i, 1)) + One(Runs(b, i, 2))
            <= restarts + One(Late(b, i)) + One(Burnt(b, i))

BotInv == TypeOK /\ EarlyBurnt /\ RunningOnce /\ Paid
=============================================================================
