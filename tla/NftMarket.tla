------------------------------ MODULE NftMarket ------------------------------
(***************************************************************************)
(* The NFT market (NFTMarketplace.tsx): the offers to buy and the viewer's *)
(* own offers, each loaded by a read of the orders followed by a lookup of *)
(* every token, and loaded again after every trade.  Nothing orders the    *)
(* loads: they overlap, and each puts its list in place as it lands.       *)
(* How a trade is authorised and sent is WalletSubmit's subject.           *)
(***************************************************************************)
EXTENDS Integers, FiniteSets

CONSTANTS
    Orders,
    Own,        \* those of this wallet
    None,
    MaxLoads,   \* bound: loads in flight
    MaxTrades,  \* bound: trades in flight
    MaxFails    \* bound: failing reads and lookups

VARIABLES
    status,     \* order -> "new", "open", "concluded" (marked), "gone"
    unit,       \* orders of one unit of a fungible token without decimals
    frozen,
    tab,
    lists,      \* "browse", "mine" -> [cards, loading, error, landed]
    loads,      \* slot -> None or [list, at, read]
    trades,     \* in flight: [what, order]
    modal,      \* the NFT in the dialog of a sale: its order to be, or None
    fails,
    steady      \* observer: orders open since the page was opened

chain == <<status, unit, frozen>>
vars == <<chain, tab, lists, loads, trades, modal, fails, steady>>

Names == {"browse", "mine"}
Slots == 1 .. MaxLoads

(* Both lists are of sells of exactly one atom; one's own come from the    *)
(* wallet, without those it has marked.                                    *)
Listed(name) == {o \in Orders : \/ name = "browse" /\ status[o] \in {"open", "concluded"}
                                \/ name = "mine" /\ status[o] = "open" /\ o \in Own}

Load(name, ls) ==
    \E i \in Slots :
       /\ ls[i] = None
       /\ \A j \in Slots : j < i => ls[j] # None
       /\ loads' = [ls EXCEPT ![i] = [list |-> name, at |-> "orders", read |-> {}]]
Loading(name) == [lists[name] EXCEPT !.loading = TRUE,
                                     !.error = IF name = "browse" THEN FALSE ELSE @]
NoLoad == [i \in Slots |-> None]

Init ==
    /\ unit \in SUBSET Orders
    /\ status \in [Orders -> {"new", "open"}]
    /\ \A o \in Orders : status[o] = "new" => o \in Own
    /\ frozen = {}
    /\ tab \in Names
    /\ modal \in {None} \cup IF tab = "browse" THEN {} ELSE {o \in Own : status[o] = "new"}
    /\ LET opened == {"browse", tab}
       IN  /\ lists = [n \in Names |-> [cards |-> {}, loading |-> n \in opened,
                                        error |-> FALSE, landed |-> FALSE]]
           /\ loads = [i \in Slots |->
                IF i = 1 THEN [list |-> "browse", at |-> "orders", read |-> {}]
                ELSE IF i = 2 /\ tab = "mine" THEN [list |-> "mine", at |-> "orders", read |-> {}]
                ELSE None]
    /\ trades = {} /\ fails = 0
    /\ steady = {o \in Orders : status[o] = "open"}

-----------------------------------------------------------------------------
(* The daemon reads the orders.                                            *)
OrdersRead(i) ==
    /\ loads[i] # None /\ loads[i].at = "orders"
    /\ loads' = [loads EXCEPT ![i].at = "lookups", ![i].read = Listed(loads[i].list)]
    /\ UNCHANGED <<chain, tab, lists, trades, modal, fails, steady>>

(* The error of one's own offers stays once it is shown.                   *)
LoadFails(i) ==
    /\ loads[i] # None /\ loads[i].at = "orders" /\ fails < MaxFails
    /\ fails' = fails + 1
    /\ lists' = [lists EXCEPT ![loads[i].list].loading = FALSE,
                              ![loads[i].list].error = TRUE]
    /\ loads' = [loads EXCEPT ![i] = None]
    /\ UNCHANGED <<chain, tab, trades, modal, steady>>

(* The cards, when the tokens of `lost` could not be looked up: a buyer is *)
(* spared what is known to be fungible, the owner sees every offer.        *)
CardsOfKnown(name, read, lost) ==
    IF name = "browse" THEN read \ (unit \ lost) ELSE read \ lost
Cards(name, read, lost) ==
    IF name = "browse" THEN read \ (unit \ lost) ELSE read
LookupsAnswered(i) ==
    /\ loads[i] # None /\ loads[i].at = "lookups"
    /\ \E lost \in SUBSET loads[i].read :
         /\ fails' = fails + Cardinality(lost) /\ fails' <= MaxFails
         /\ lists' = [lists EXCEPT ![loads[i].list] =
              [@ EXCEPT !.cards = {[order |-> o, frozen |-> o \in frozen] :
                                     o \in Cards(loads[i].list, loads[i].read, lost)},
                        !.loading = FALSE, !.landed = TRUE]]
    /\ loads' = [loads EXCEPT ![i] = None]
    /\ UNCHANGED <<chain, tab, trades, modal, steady>>

-----------------------------------------------------------------------------
(* The viewer.                                                             *)
Refresh ==
    /\ ~lists[tab].loading
    /\ Load(tab, loads)
    /\ lists' = [lists EXCEPT ![tab] = Loading(tab)]
    /\ UNCHANGED <<chain, tab, trades, modal, fails, steady>>

(* The tab of one's own offers loads them whenever it is shown.            *)
ShowTab ==
    /\ tab' \in Names \ {tab}
    /\ IF tab' = "mine"
       THEN Load("mine", loads) /\ lists' = [lists EXCEPT !["mine"] = Loading("mine")]
       ELSE UNCHANGED <<loads, lists>>
    /\ UNCHANGED <<chain, trades, modal, fails, steady>>

PickNft ==
    /\ tab = "mine"
    /\ \E o \in Own : status[o] = "new" /\ modal' = o
    /\ UNCHANGED <<chain, tab, lists, loads, trades, fails, steady>>
CloseDialog ==
    /\ modal # None /\ modal' = None
    /\ UNCHANGED <<chain, tab, lists, loads, trades, fails, steady>>

Buyable == {c.order : c \in lists["browse"].cards} \ Own
Cancellable == {c.order : c \in {d \in lists["mine"].cards : ~d.frozen}}
Trade ==
    \E t \in [what : {"sell"}, order : {modal} \ {None}]
             \cup [what : {"buy"}, order : IF tab = "browse" THEN Buyable ELSE {}]
             \cup [what : {"cancel"}, order : IF tab = "mine" THEN Cancellable ELSE {}] :
       /\ Cardinality(trades) < MaxTrades
       /\ trades' = trades \cup {t} /\ t \notin trades
       /\ UNCHANGED <<chain, tab, lists, loads, modal, fails, steady>>

(* What the daemon takes; a fill shows in no order before its block.       *)
Accepts(t) ==
    \/ t.what = "sell" /\ status[t.order] = "new"
       /\ status' = [status EXCEPT ![t.order] = "open"]
    \/ t.what = "cancel" /\ status[t.order] = "open" /\ t.order \notin frozen
       /\ status' = [status EXCEPT ![t.order] = "concluded"]
    \/ t.what = "buy" /\ status[t.order] = "open" /\ t.order \notin frozen
       /\ status' \in {status, [status EXCEPT ![t.order] = "gone"]}
Settled(t) ==
    LET name == IF t.what = "buy" THEN "browse" ELSE "mine"
    IN  /\ t \in trades /\ Accepts(t)
        /\ trades' = trades \ {t}
        /\ Load(name, loads)
        /\ lists' = [lists EXCEPT ![name] = Loading(name)]
        /\ modal' = IF t.what = "sell" THEN None ELSE modal
        /\ steady' = IF status' = status \/ t.what = "sell" THEN steady ELSE steady \ {t.order}
        /\ UNCHANGED <<unit, frozen, tab, fails>>
Refused(t) ==
    /\ t \in trades /\ trades' = trades \ {t}
    /\ UNCHANGED <<chain, tab, lists, loads, modal, fails, steady>>

(* Others buy, the chain settles what was concluded, an owner freezes.     *)
Chain(o) ==
    /\ \/ /\ status[o] \in {"open", "concluded"}
          /\ status' = [status EXCEPT ![o] = "gone"] /\ UNCHANGED frozen
       \/ /\ status[o] = "open" /\ o \notin frozen
          /\ frozen' = frozen \cup {o} /\ UNCHANGED status
    /\ steady' = IF status' = status THEN steady ELSE steady \ {o}
    /\ UNCHANGED <<unit, tab, lists, loads, trades, modal, fails>>

Next ==
    \/ \E i \in Slots : OrdersRead(i) \/ LoadFails(i) \/ LookupsAnswered(i)
    \/ Refresh \/ ShowTab \/ PickNft \/ CloseDialog \/ Trade
    \/ \E t \in trades : Settled(t) \/ Refused(t)
    \/ \E o \in Orders : Chain(o)

Spec == Init /\ [][Next]_vars

-----------------------------------------------------------------------------
(* Properties.                                                             *)

Shows(name) == {c.order : c \in lists[name].cards}

(* Whatever lookups failed and whichever load landed last: an offer that   *)
(* stood all along is shown to its owner (NFTMarketplace.tsx:597, "hides   *)
(* the only Cancel affordance") and to buyers (:527).                      *)
OffersShown ==
    /\ lists["mine"].landed => steady \cap Own \subseteq Shows("mine")
    /\ lists["browse"].landed => steady \ unit \subseteq Shows("browse")

(* With open offers of one's own, "No active NFT listings" is never said   *)
(* (:615).                                                                 *)
NoSilentEmpty ==
    tab = "mine" /\ ~lists["mine"].loading /\ ~lists["mine"].error
       /\ lists["mine"].cards = {} => steady \cap Own = {}

(* A fungible unit is offered as an NFT only when its lookup failed (:490).*)
NoFungibleCards == fails = 0 => Shows("browse") \cap unit = {}

MarketSound == OffersShown /\ NoSilentEmpty /\ NoFungibleCards

-----------------------------------------------------------------------------
(* The inductive invariant behind it, which PageProofs proves from this    *)
(* assumption: what a load has read holds every offer that stood all       *)
(* along, and a tab without a list of its own is loading or says why.      *)
NftMarketConstants == IsFiniteSet(Orders)

Loads == [list : Names, at : {"orders", "lookups"}, read : SUBSET Orders]
ListsOfCards == [cards : SUBSET [order : Orders, frozen : BOOLEAN], loading : BOOLEAN,
                 error : BOOLEAN, landed : BOOLEAN]

TypeOK ==
    /\ status \in [Orders -> {"new", "open", "concluded", "gone"}]
    /\ tab \in Names
    /\ lists \in [Names -> ListsOfCards]
    /\ loads \in [Slots -> Loads \cup {None}]
    /\ fails \in Nat

SteadyOpen == steady \subseteq {o \in Orders : status[o] = "open"}

LoadsSteady ==
    \A i \in Slots :
        loads[i] # None /\ loads[i].at = "lookups" =>
            IF loads[i].list = "mine" THEN steady \cap Own \subseteq loads[i].read
            ELSE steady \subseteq loads[i].read

MineExplained ==
    tab = "mine" => lists["mine"].loading \/ lists["mine"].error \/ lists["mine"].landed

NftMarketInv ==
    /\ TypeOK /\ SteadyOpen /\ LoadsSteady /\ MineExplained
    /\ OffersShown /\ NoFungibleCards
=============================================================================
