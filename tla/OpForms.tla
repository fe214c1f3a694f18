------------------------------ MODULE OpForms ------------------------------
(***************************************************************************)
(* The forms of the money operations, and the routes behind them           *)
(* (stake-trade.ts, token-manage.ts, send.ts, ml-intent-tx.ts).  A form    *)
(* checks what was typed and builds a request; the route checks the        *)
(* request, burns the code, and only then calls the wallet daemon, which   *)
(* refuses an amount finer than its asset and a request that lacks a       *)
(* field.                                                                  *)
(*                                                                         *)
(* An amount is its digits and how many of them follow the point.  The     *)
(* checks of ids, names and addresses are left out.                        *)
(***************************************************************************)
EXTENDS Integers, FiniteSets

CONSTANTS
    Digits,     \* the digits of a typed amount, as a number below 1000
    Scales,     \* how many of them follow the point
    Decimals,   \* the decimals tokens have
    Longest,    \* the largest number of 38 digits before the point
    Largest,    \* the largest number the daemon can hold, 128 bits of units
    None

CoinDecimals == 11

Dec(u, s) == [u |-> u, s |-> s]
Zero == Dec(0, 0)

(* "1e5": a number to the browser, not to parseDecimal.                    *)
Exponent == [u |-> 1, s |-> -1]
Typed == {Dec(u, s) : u \in Digits, s \in Scales} \cup {Exponent}
Plain(a) == a.s >= 0

(* trimTrailingZeros: of digits below a million.                           *)
Trim(a) ==
    IF a.u = 0 THEN Zero
    ELSE LET k == CHOOSE k \in 0..5 :
                    /\ k <= a.s /\ a.u % 10^k = 0
                    /\ k < a.s => a.u % 10^(k + 1) # 0
         IN  Dec(a.u \div 10^k, a.s - k)

MulDecimal(a, b) == Trim(Dec(a.u * b.u, a.s + b.s))

(* isPositiveDecimal and isValidAmount, which counts digits.               *)
IsPositiveDecimal(a) == Plain(a) /\ a.u > 0
(* At most n, for n from 100 and digits below a million.                   *)
AtMost(a, n) == IF a.s > 3 THEN TRUE ELSE a.u <= n * 10^a.s
IsValidAmount(a, max) ==
    IsPositiveDecimal(a) /\ a.s <= max /\ AtMost(a, Longest)

VARIABLES
    typed,  \* the form and what was typed into it
    req,    \* the request as it is now: None, or the record below
    phase   \* "form", "route", "daemon", "refused" or "accepted"

vars == <<typed, req, phase>>

(* What the page takes a token's decimals to be: when it does not know     *)
(* them, as for an id typed by hand, 18.                                   *)
Believed(t) == IF t.known THEN t.decimals ELSE 18

(* A request: the amounts of ML and of the token it names, the other       *)
(* numbers, the fields beside them.                                        *)
Request(coins, tokens, fields) ==
    [coins |-> coins, tokens |-> tokens, cost |-> None, margin |-> None,
     fields |-> fields]

Full == {"options", "output_address"}

(* BuySellPanel, a limit order: the coin leg is the product.               *)
LimitGate(t) ==
    /\ IsValidAmount(t.amount, Believed(t))
    /\ IsPositiveDecimal(t.price)
    /\ IsValidAmount(MulDecimal(t.amount, t.price), CoinDecimals)

LimitOrder(t) == Request({MulDecimal(t.amount, t.price)}, {t.amount}, Full)

(* A market order fills the best order for no more than it still asks:     *)
(* what an order on the chain asks is not too large.                       *)
MarketGate(t) ==
    /\ IF t.form = "market buy"
       THEN IsValidAmount(t.amount, CoinDecimals)
       ELSE IsValidAmount(t.amount, Believed(t))
    /\ ~t.over /\ AtMost(t.amount, Largest)

MarketOrder(t) ==
    IF t.form = "market buy" THEN Request({t.amount}, {}, Full)
    ELSE Request({}, {t.amount}, Full)

(* MyOrderRow, CancelButton, DecommissionButton: params without options.   *)
BareRequest == Request({}, {}, {})

(* SellNFTModal: one atom of the token for a price.                        *)
NftListGate(t) == IsPositiveDecimal(t.price)
NftListing(t) == Request({t.price}, {Dec(1, 0)}, Full)

(* BuyButton: the price of the listing, an order already on the chain.     *)
NftBuyGate(t) == IsValidAmount(t.price, CoinDecimals) /\ AtMost(t.price, Largest)
NftPurchase(t) == Request({t.price}, {}, Full)

(* DelegationRow: whatever is in the field.                                *)
Delegate(t) == Request({t.amount}, {}, Full)

(* CreatePoolForm: the margin is typed in percent and sent per mille.      *)
PoolGate(t) ==
    /\ IsPositiveDecimal(t.price) /\ AtMost(t.price, 100)

NewPool(t) ==
    [Request({t.amount}, {}, Full) EXCEPT
        !.cost = t.cost, !.margin = MulDecimal(t.price, Dec(10, 0))]

(* MintSection, UnmintSection, IssueTokenModal.                            *)
TokenGate18(t) == IsValidAmount(t.amount, 18)
TokenGate(t) == IsValidAmount(t.amount, t.decimals)
TokenAmount(t) == Request({}, {t.amount}, Full)

(* FreezeSection, UnfreezeSection, ChangeMetadataUriSection; and           *)
(* LockSupplySection and ChangeAuthoritySection, which want a word typed.  *)
TokenSwitch == Request({}, {}, Full)
ConfirmGate(t) == ~t.over

(* The send modal of balances.astro, and the signature of a bridge         *)
(* transfer (BridgePanel).                                                 *)
SendCoins(t) == Request({t.amount}, {}, Full)
SendTokens(t) == Request({}, {t.amount}, Full)
BridgeGate(t) == IsPositiveDecimal(t.amount)

StakeForms == {"limit", "market buy", "market sell", "bare", "list nft",
               "buy nft", "delegate", "pool"}
TokenForms == {"mint", "freeze", "irreversible"}
Forms == StakeForms \cup TokenForms \cup {"send coins", "send tokens", "bridge"}

Gate(t) ==
    /\ t.form = "limit" => LimitGate(t)
    /\ t.form \in {"market buy", "market sell"} => MarketGate(t)
    /\ t.form = "list nft" => NftListGate(t)
    /\ t.form = "buy nft" => NftBuyGate(t)
    /\ t.form = "pool" => PoolGate(t)
    /\ t.form = "mint" => TokenGate(t)
    /\ t.form = "irreversible" => ConfirmGate(t)
    /\ t.form = "bridge" => BridgeGate(t)

Built(t) ==
    CASE t.form = "limit" -> LimitOrder(t)
      [] t.form \in {"market buy", "market sell"} -> MarketOrder(t)
      [] t.form = "bare" -> BareRequest
      [] t.form = "list nft" -> NftListing(t)
      [] t.form = "buy nft" -> NftPurchase(t)
      [] t.form = "delegate" -> Delegate(t)
      [] t.form = "pool" -> NewPool(t)
      [] t.form = "mint" -> TokenAmount(t)
      [] t.form \in {"freeze", "irreversible"} -> TokenSwitch
      [] t.form \in {"send tokens", "bridge"} -> SendTokens(t)
      [] t.form = "send coins" -> SendCoins(t)

(* What matters to a form; the rest of the record is not typed into it.    *)
(* For a market order "over" says that the amount is more than the order   *)
(* still asks, for an irreversible step that the word is not typed.        *)
Init ==
    /\ typed \in [form : Forms, amount : Typed, price : {Dec(1, 0)},
                  cost : {Zero}, decimals : Decimals, known : BOOLEAN,
                  over : BOOLEAN]
       \cup [form : {"limit"}, amount : Typed, price : Typed, cost : {Zero},
             decimals : Decimals, known : BOOLEAN, over : {FALSE}]
       \cup [form : {"list nft", "buy nft", "pool"}, amount : {Dec(5, 0)},
             price : Typed, cost : {Zero, Dec(1, 0), Dec(5, 12)},
             decimals : {0}, known : {TRUE}, over : {FALSE}]
    /\ req = None
    /\ phase = "form"

(* The handler of the form, to its fetch.                                  *)
Submit ==
    /\ phase = "form" /\ Gate(typed)
    /\ req' = Built(typed)
    /\ phase' = "route"
    /\ UNCHANGED typed

(* validateParams of stake-trade.ts; order_fill does not know the currency *)
(* it is asked in.                                                         *)
StakeValid(t, r) ==
    /\ \A a \in r.coins :
         IsValidAmount(a, IF t.form \in {"market buy", "buy nft"} THEN 18
                          ELSE CoinDecimals)
    /\ \A a \in r.tokens : IsValidAmount(a, 18)
    /\ t.form = "pool" =>
         /\ IsValidAmount(r.cost, CoinDecimals)
         /\ IsPositiveDecimal(r.margin) /\ r.margin.s <= 18
         /\ AtMost(r.margin, 1000)

(* validateParams of token-manage.ts.                                      *)
TokenValid(r) == \A a \in r.tokens : IsValidAmount(a, 18)

(* The checks of send.ts and of ml-intent-tx.ts.                           *)
SendValid(r) ==
    /\ \A a \in r.coins : IsValidAmount(a, 9)
    /\ \A a \in r.tokens : IsValidAmount(a, 18)
IntentValid(r) == \A a \in r.tokens : IsPositiveDecimal(a)

RouteAccepts(t, r) ==
    /\ t.form \in StakeForms => StakeValid(t, r)
    /\ t.form \in TokenForms => TokenValid(r)
    /\ t.form \in {"send coins", "send tokens"} => SendValid(r)
    /\ t.form = "bridge" => IntentValid(r)

(* The defaults stake-trade.ts puts in; the other routes build their calls *)
(* or pass on a full one.                                                  *)
WithDefaults(t, r) ==
    IF t.form \in StakeForms THEN [r EXCEPT !.fields = @ \cup Full] ELSE r

(* The checks, and after them the code is burnt.                           *)
RouteBurns ==
    /\ phase = "route" /\ RouteAccepts(typed, req)
    /\ req' = WithDefaults(typed, req)
    /\ phase' = "daemon"
    /\ UNCHANGED typed

RouteRefuses ==
    /\ phase = "route" /\ ~RouteAccepts(typed, req)
    /\ phase' = "refused"
    /\ UNCHANGED <<typed, req>>

(* The wallet daemon decodes the request: it finds every field, reads each *)
(* number to the last decimal, and has room for it.                        *)
Legible(t, r) ==
    /\ Full \subseteq r.fields
    /\ \A a \in r.coins : IsPositiveDecimal(a) /\ a.s <= CoinDecimals
    /\ \A a \in r.tokens : IsPositiveDecimal(a) /\ a.s <= t.decimals
    /\ r.cost # None => Plain(r.cost) /\ r.cost.s <= CoinDecimals
    /\ r.margin # None => IsPositiveDecimal(r.margin) /\ AtMost(r.margin, 1000)
Numbers(r) == r.coins \cup r.tokens \cup ({r.cost} \ {None})
TooLarge(r) == \E a \in Numbers(r) : ~AtMost(a, Largest)
Decodes(t, r) == Legible(t, r) /\ ~TooLarge(r)

DaemonAnswers ==
    /\ phase = "daemon"
    /\ phase' = IF Decodes(typed, req) THEN "accepted" ELSE "refused"
    /\ UNCHANGED <<typed, req>>

Next == Submit \/ RouteBurns \/ RouteRefuses \/ DaemonAnswers

Spec == Init /\ [][Next]_vars

-----------------------------------------------------------------------------
(* Properties.                                                             *)

(* The forms that let an amount of a token through without its decimals:   *)
(* sends and bridge transfers of tokens, and orders for a token whose      *)
(* decimals the page does not know.  An NFT has none, and one atom of it.  *)
Unchecked(t) ==
    \/ t.form \in {"send tokens", "bridge"}
    \/ t.form \in {"limit", "market sell"} /\ ~t.known

(* The forms that take a number of any size: no form and no route asks     *)
(* whether the daemon can hold 38 digits (validation.ts:20).               *)
Unbounded(t) == t.form \notin {"market buy", "market sell", "buy nft"}
Overlong(t, r) == Unbounded(t) /\ TooLarge(r)

(* A code is not spent on a request that is sure to be refused: once it is *)
(* burnt, the daemon can decode every number and finds every field, and a  *)
(* market order asks for no more than the page showed, and an irreversible *)
(* step was confirmed (OrderBook.tsx:252, stake-trade.ts:45 and 224).      *)
(* Excepted are the amounts above: too fine or too large, and unchecked.   *)
CodeNotWasted ==
    phase \in {"daemon", "accepted"} /\ ~Unchecked(typed) /\ ~Overlong(typed, req) =>
        /\ Decodes(typed, req)
        /\ typed.form \in {"market buy", "market sell", "irreversible"} =>
             ~typed.over

-----------------------------------------------------------------------------
(* The inductive invariant behind it, which PageProofs proves from this    *)
(* assumption: a request that has come as far as the daemon passed the     *)
(* form's checks and then the route's.                                     *)
OpFormsConstants ==
    /\ Digits \subseteq 0..999
    /\ Scales \subseteq Nat
    /\ Decimals \subseteq Nat

TypedSound ==
    /\ typed.form \in Forms
    /\ {typed.amount, typed.price, typed.cost} \subseteq [u : Nat, s : Int]
    /\ typed.decimals \in Nat

ChecksPassed ==
    /\ phase = "route" => Gate(typed) /\ req = Built(typed)
    /\ phase \in {"daemon", "accepted"} =>
         /\ Gate(typed) /\ RouteAccepts(typed, Built(typed))
         /\ req = WithDefaults(typed, Built(typed))

OpFormsInv == TypedSound /\ ChecksPassed
=============================================================================
