--------------------------- MODULE OrderBookPage ---------------------------
(***************************************************************************)
(* The trading page (OrderBook.tsx): the pair the user has selected, the   *)
(* loads of its order book, and the form that trades on what was loaded.   *)
(* A load awaits four calls of the wallet; a newer one supersedes it.      *)
(***************************************************************************)
EXTENDS Integers

CONSTANTS
    Tokens,      \* each is one pair with ML
    None,
    Hasty,       \* whether the user changes the pair while an order is sent,
                 \* or goes back to "- Select pair -" while its book loads
    MaxLoads     \* bound

VARIABLES
    selected, \* selectedTokenId
    manual,   \* the token id typed into the form while no pair is selected
    book,     \* the token whose asks and bids are loaded
    decimals, \* the token of pairDecimalsOverride
    form,     \* the token from whose book the form's price and amount were
              \* taken, or None when the user typed them
    loadSeq,  \* loadSeqRef
    loads,    \* under way: [seq, token]
    order     \* the order being sent, or None: asked is the token on the
              \* button, from the book it comes from, that of the order it
              \* fills or of the row that gave its price; pair is what
              \* onPairRefresh will reload

vars == <<selected, manual, book, decimals, form, loadSeq, loads, order>>

Init ==
    /\ selected = None
    /\ manual = None
    /\ book = None
    /\ decimals = None
    /\ form = None
    /\ loadSeq = 0
    /\ loads = {}
    /\ order = None

(* effectiveTokenId *)
Effective == IF selected # None THEN selected ELSE manual

PairLoading == \E l \in loads : l.seq = loadSeq

LoadPairOrders(token) ==
    /\ loadSeq < MaxLoads
    /\ loadSeq' = loadSeq + 1
    /\ loads' = loads \cup {[seq |-> loadSeq + 1, token |-> token]}

-----------------------------------------------------------------------------
(* handlePairChange: also at start, for the pair selected automatically.   *)
(* It drops bookPrefill, which the form has copied and ignores when it is  *)
(* null (:178): price and amount stay.                                     *)
SelectPair(token) ==
    /\ order = None \/ Hasty
    /\ selected' = token
    /\ book' = None
    /\ decimals' = None
    /\ LoadPairOrders(token)
    /\ UNCHANGED <<manual, form, order>>

(* The same with no id: it loads nothing, and so supersedes nothing.       *)
DeselectPair ==
    /\ (order = None /\ loads = {}) \/ Hasty
    /\ selected # None
    /\ selected' = None
    /\ book' = None
    /\ decimals' = None
    /\ UNCHANGED <<manual, form, loadSeq, loads, order>>

TypeTokenId(token) ==
    /\ selected = None
    /\ manual' = token
    /\ UNCHANGED <<selected, book, decimals, form, loadSeq, loads, order>>

(* Price and amount, which an order under way locks.                       *)
TypePrice ==
    /\ order = None
    /\ form' = None
    /\ UNCHANGED <<selected, manual, book, decimals, loadSeq, loads, order>>

Refresh ==
    /\ selected # None
    /\ ~PairLoading
    /\ LoadPairOrders(selected)
    /\ UNCHANGED <<selected, manual, book, decimals, form, order>>

(* Every answer written, whatever has been selected since.                 *)
LoadAnsweredBlindly(l) ==
    /\ l \in loads
    /\ loads' = loads \ {l}
    /\ book' = l.token /\ decimals' = l.token
    /\ UNCHANGED <<selected, manual, form, loadSeq, order>>

(* The four answers: written if no newer load has begun.                   *)
LoadAnswered(l) ==
    /\ l \in loads
    /\ loads' = loads \ {l}
    /\ IF l.seq = loadSeq THEN book' = l.token /\ decimals' = l.token
       ELSE UNCHANGED <<book, decimals>>
    /\ UNCHANGED <<selected, manual, form, loadSeq, order>>

(* pairError, and the book stays what it was.                              *)
LoadFailed(l) ==
    /\ l \in loads
    /\ loads' = loads \ {l}
    /\ UNCHANGED <<selected, manual, book, decimals, form, loadSeq, order>>

(* takeFromBook: the rows are shown for a selected pair that is loaded.    *)
TakeFromBook ==
    /\ selected # None
    /\ ~PairLoading
    /\ book # None
    /\ form' = book
    /\ UNCHANGED <<selected, manual, book, decimals, loadSeq, loads, order>>

(* handleSubmit of a market order: it fills bestAsk or bestBid, as they    *)
(* were when the form was drawn.                                           *)
SendMarket ==
    /\ order = None
    /\ Effective # None
    /\ book # None
    /\ order' = [kind |-> "market", asked |-> Effective, from |-> book, pair |-> selected]
    /\ UNCHANGED <<selected, manual, book, decimals, form, loadSeq, loads>>

(* And of a limit order, at the price of the form.                         *)
SendLimit ==
    /\ order = None
    /\ Effective # None
    /\ order' = [kind |-> "limit", asked |-> Effective, from |-> form, pair |-> selected]
    /\ UNCHANGED <<selected, manual, book, decimals, form, loadSeq, loads>>

(* On success the form is emptied, and after a market order onPairRefresh, *)
(* from the same drawing, reloads the pair that was selected then.         *)
OrderAnswered ==
    /\ order # None
    /\ order' = None
    /\ form' = None
    /\ IF order.kind = "market" /\ order.pair # None THEN LoadPairOrders(order.pair)
       ELSE UNCHANGED <<loadSeq, loads>>
    /\ UNCHANGED <<selected, manual, book, decimals>>

(* On failure the form stays.                                              *)
OrderFailed ==
    /\ order # None
    /\ order' = None
    /\ UNCHANGED <<selected, manual, book, decimals, form, loadSeq, loads>>

Next ==
    \/ \E t \in Tokens : SelectPair(t) \/ TypeTokenId(t)
    \/ DeselectPair
    \/ TypePrice
    \/ Refresh
    \/ \E l \in loads : LoadAnswered(l) \/ LoadFailed(l)
    \/ TakeFromBook
    \/ SendMarket
    \/ SendLimit
    \/ OrderAnswered
    \/ OrderFailed

Spec == Init /\ [][Next]_vars

-----------------------------------------------------------------------------
Sending(kind) == order # None /\ order.kind = kind

(* A market order trades the token the button names, and amounts are       *)
(* checked against that token's decimals ("stale in-flight responses are   *)
(* silently discarded", OrderBook.tsx:835), unless the user changes the    *)
(* pair while an order is sent or deselects it while its book loads.       *)
TradesWhatItShows ==
    /\ Sending("market") => order.from = order.asked
    /\ decimals \in {None, Effective}

(* A limit order at the price of a row is of the pair the row was of: a    *)
(* prefill "from the previous pair must not survive" (OrderBook.tsx:1052). *)
PrefillDoesNotSurvive == Sending("limit") => order.from \in {None, order.asked}

-----------------------------------------------------------------------------
(* The inductive invariant behind TradesWhatItShows, which PageProofs      *)
(* proves from this assumption: what is on the page, and the newest load,  *)
(* are of the selected pair, and nothing is there while none is selected.  *)
OrderBookConstants == ~Hasty /\ None \notin Tokens

Loads == [seq : Nat, token : Tokens]
Orders == [kind : {"market", "limit"}, asked : Tokens, from : Tokens \cup {None},
           pair : Tokens \cup {None}]

TypeOK ==
    /\ {selected, manual, book, decimals, form} \subseteq Tokens \cup {None}
    /\ loadSeq \in Nat
    /\ loads \subseteq Loads
    /\ order \in {None} \cup Orders

NewestIsSelected ==
    /\ \A l \in loads :
         /\ l.seq <= loadSeq
         /\ l.seq = loadSeq => l.token = selected
    /\ loads # {} => selected # None

OfSelected ==
    /\ {book, decimals} \subseteq {None, selected}
    /\ order # None => order.pair = selected
    /\ Sending("market") => order.from = order.asked

OrderBookInv == TypeOK /\ NewestIsSelected /\ OfSelected
=============================================================================
