----------------------------- MODULE BridgeForm -----------------------------
(***************************************************************************)
(* The form of the bridge panel (BridgePanel.tsx, evm.ts): what is typed,  *)
(* what the page fills in itself after awaits (the wallet's address, the   *)
(* account of the extension, its balances, fractions of them), and what a  *)
(* submission takes from it.  What becomes of the request is Bridge's.     *)
(*                                                                         *)
(* Amounts are base units.  A receiver is a class of text: "ml" and "eth"  *)
(* are whole addresses, "typo" has one wrong character, "short" a good     *)
(* checksum and no payload, "other" is anything else.                      *)
(***************************************************************************)
EXTENDS Integers, FiniteSets

CONSTANTS
    None,
    Accounts,   \* of the extension
    Assets,
    MlSide,     \* assets with a token on Mintlayer
    EthSide,    \* assets with a contract on Ethereum
    Cap,        \* asset -> max_amount_per_request (rounded down), or None
    Fine,       \* assets whose cap has more decimals than they have
    Alike,      \* <<n, m>>: parseFloat makes the same double of both
    Balance,    \* account -> asset -> base units
    Fractions,  \* of the buttons, in percent
    Typed, Receivers, \* bounds: what is typed
    Answers,    \* bound: what indexer-status says
    MaxFetches  \* bound: reads of balances in flight

VARIABLES
    config,     \* "loading", "loaded", "failed"
    selected,   \* the extension's account
    restoring,  \* the question for a connected account is not answered
    account, connecting,
    balances,   \* None or [of, got]: whose, and the assets that were read
    fetches,    \* [of, assets, live]; the cleanup of the effect kills one
    addressing, \* the wallet's address was asked for
    indexer,    \* None, or "error", "nodeDown", "down", "syncing", "synced"
    form,       \* [dir, asset, amount, receiver, code, suggestion]
    filled,     \* observer: whose balance the amount was filled from
    flight,     \* the submission under way: what it took from the form
    confirmed,  \* observer: what the user confirmed
    sent        \* what reached the contract or the bridge

wallet == <<selected, restoring, account, connecting, balances, fetches>>
order == <<flight, confirmed, sent>>
vars == <<config, wallet, addressing, indexer, form, filled, order>>

Directions == {"e2m", "m2e"}
Loaded == IF config = "loaded" THEN Assets ELSE {}

(* The effect on [ethAccount, assets]: no account, no balances; otherwise  *)
(* the read before is disowned and a new one starts.                       *)
Disowned == {[f EXCEPT !.live = FALSE] : f \in fetches}
Balances(a, assets) ==
    IF a = None THEN fetches' = Disowned /\ balances' = None
    ELSE /\ Cardinality(fetches) < MaxFetches
         /\ fetches' = Disowned \cup {[of |-> a, assets |-> assets, live |-> TRUE]}
         /\ UNCHANGED balances

Init ==
    /\ config = "loading"
    /\ selected \in Accounts /\ restoring = TRUE
    /\ account = None /\ connecting = FALSE
    /\ balances = None /\ fetches = {}
    /\ addressing = FALSE
    /\ indexer = None
    /\ form = [dir |-> "e2m", asset |-> None, amount |-> None, receiver |-> None,
               code |-> FALSE, suggestion |-> FALSE]
    /\ filled = None /\ flight = None /\ confirmed = None /\ sent = None

-----------------------------------------------------------------------------
(* The page's own questions.                                               *)

ConfigAnswered ==
    /\ config = "loading"
    /\ \/ /\ config' = "failed" /\ UNCHANGED <<form, balances, fetches>>
       \/ /\ config' = "loaded"
          /\ \E a \in MlSide : form' = [form EXCEPT !.asset = a]
          /\ Balances(account, Assets)
    /\ UNCHANGED <<selected, restoring, account, connecting, addressing, indexer, filled, order>>

(* The extension names its account only to a page it is connected to.      *)
AccountIs(a) ==
    /\ account' = a
    /\ IF a = account THEN UNCHANGED <<balances, fetches>> ELSE Balances(a, Loaded)
RestoreAnswered ==
    /\ restoring /\ restoring' = FALSE
    /\ AccountIs(selected) \/ (account = None /\ AccountIs(None))
    /\ UNCHANGED <<config, selected, connecting, addressing, indexer, form, filled, order>>
Connect ==
    /\ account = None /\ ~connecting /\ connecting' = TRUE
    /\ UNCHANGED <<config, selected, restoring, account, balances, fetches, addressing,
                   indexer, form, filled, order>>
ConnectAnswered ==
    /\ connecting /\ connecting' = FALSE
    /\ \/ AccountIs(selected)
       \/ UNCHANGED <<account, balances, fetches>>
    /\ UNCHANGED <<config, selected, restoring, addressing, indexer, form, filled, order>>
(* Nothing tells the page.                                                 *)
SelectAccount ==
    /\ selected' \in Accounts \ {selected}
    /\ UNCHANGED <<config, restoring, account, connecting, balances, fetches, addressing,
                   indexer, form, filled, order>>

(* Each asset's balance is read apart, and may be missing.                 *)
BalancesRead(f) ==
    /\ f \in fetches /\ fetches' = fetches \ {f}
    /\ IF f.live THEN \E got \in SUBSET (EthSide \cap f.assets) :
                         balances' = [of |-> f.of, got |-> got]
       ELSE UNCHANGED balances
    /\ UNCHANGED <<config, selected, restoring, account, connecting, addressing, indexer,
                   form, filled, order>>

IndexerAnswered ==
    /\ indexer' \in Answers
    /\ UNCHANGED <<config, wallet, addressing, form, filled, order>>

-----------------------------------------------------------------------------
(* The form; it gives way to a card while the indexer is not in step.      *)
Shown == indexer \in {None, "synced"}
Edit(to) ==
    /\ Shown /\ form' = to /\ form' # form
    /\ UNCHANGED <<config, wallet, addressing, indexer, order>>

Turn == Edit([form EXCEPT !.dir = CHOOSE d \in Directions : d # @, !.suggestion = FALSE])
        /\ UNCHANGED filled
PickAsset == (\E a \in Loaded : Edit([form EXCEPT !.asset = a])) /\ filled' = None
TypeAmount == (\E n \in Typed : Edit([form EXCEPT !.amount = n])) /\ filled' = None
TypeReceiver ==
    /\ \E r \in Receivers :
          Edit([form EXCEPT !.receiver = r, !.suggestion = FALSE])
    /\ UNCHANGED filled
TypeCode == Edit([form EXCEPT !.code = TRUE]) /\ UNCHANGED filled
AcceptSuggestion ==
    /\ form.suggestion
    /\ Edit([form EXCEPT !.receiver = "ml", !.suggestion = FALSE])
    /\ UNCHANGED filled
UseMetaMask ==
    /\ form.dir = "m2e" /\ account # None
    /\ Edit([form EXCEPT !.receiver = "eth", !.suggestion = FALSE])
    /\ UNCHANGED filled

UseMlAddress ==
    /\ Shown /\ form.dir = "e2m" /\ ~addressing
    /\ addressing' = TRUE
    /\ UNCHANGED <<config, wallet, indexer, form, filled, order>>
(* By now the form may face the other way.                                 *)
AddressAnswered ==
    /\ addressing /\ addressing' = FALSE
    /\ form' \in {form, [form EXCEPT !.receiver = "ml", !.suggestion = FALSE]}
    /\ UNCHANGED <<config, wallet, indexer, filled, order>>

(* 25%, 50%, Max: of the balance that is known, under a cap that           *)
(* parseUnits can read at the asset's decimals.                            *)
Fraction(pct) ==
    LET base == Balance[balances.of][form.asset]
        part == (base * pct) \div 100
        cap  == IF form.asset \in Fine THEN None ELSE Cap[form.asset]
    IN  IF cap # None /\ part > cap THEN cap ELSE part
ApplyFraction(pct) ==
    /\ form.dir = "e2m" /\ balances # None /\ form.asset \in balances.got
    /\ Balance[balances.of][form.asset] > 0
    /\ Edit([form EXCEPT !.amount = Fraction(pct)])
    /\ filled' = balances.of

-----------------------------------------------------------------------------
(* submit.                                                                 *)

Enabled == Shown /\ indexer = "synced" /\ account # None /\ config = "loaded" /\ flight = None

(* The checks, in their order; the receiver's last.  Amount and cap are    *)
(* compared as doubles: what is above the cap by less than they tell apart *)
(* passes.                                                                 *)
Complete ==
    /\ form.asset # None
    /\ form.dir = "m2e" => form.asset \in MlSide
    /\ form.amount # None /\ form.receiver # None
    /\ form.amount > 0
    /\ Cap[form.asset] # None =>
          form.amount <= Cap[form.asset] \/ <<form.amount, Cap[form.asset]>> \in Alike
    /\ form.dir = "m2e" => form.receiver = "eth" /\ form.code
Submit ==
    /\ Enabled
    /\ LET asked == [form EXCEPT !.suggestion = FALSE]
       IN  IF Complete /\ (form.dir = "e2m" => form.receiver = "ml")
           THEN /\ form' = asked  \* a refusal to confirm changes nothing
                /\ flight' = asked /\ confirmed' = asked /\ sent' = None
           ELSE /\ form' = [asked EXCEPT !.suggestion = /\ Complete /\ form.dir = "e2m"
                                                        /\ form.receiver = "typo"]
                /\ form' # form
                /\ UNCHANGED order
    /\ UNCHANGED <<config, wallet, addressing, indexer, filled>>

(* After prompts, with the values the submission began with.               *)
TakenNow == form
Taken == flight
Deposit ==
    /\ flight # None
    /\ flight.dir = "e2m" => flight.asset \in EthSide
    /\ sent' = Taken
    /\ flight' = None
    /\ UNCHANGED <<config, wallet, addressing, indexer, form, filled, confirmed>>
SubmitFails ==
    /\ flight # None /\ flight' = None /\ confirmed' = None
    /\ UNCHANGED <<config, wallet, addressing, indexer, form, filled, sent>>
(* Bridge another.                                                         *)
ResetForm ==
    /\ sent # None /\ flight = None
    /\ Edit([form EXCEPT !.amount = None, !.receiver = None, !.code = FALSE, !.suggestion = FALSE])
    /\ filled' = None

Next ==
    \/ ConfigAnswered \/ RestoreAnswered \/ Connect \/ ConnectAnswered \/ SelectAccount
    \/ \E f \in fetches : BalancesRead(f)
    \/ IndexerAnswered
    \/ Turn \/ PickAsset \/ TypeAmount \/ TypeReceiver \/ TypeCode
    \/ AcceptSuggestion \/ UseMetaMask \/ UseMlAddress \/ AddressAnswered
    \/ \E pct \in Fractions : ApplyFraction(pct)
    \/ Submit \/ Deposit \/ SubmitFails \/ ResetForm

Spec == Init /\ [][Next]_vars

-----------------------------------------------------------------------------
(* Properties.                                                             *)

(* Whatever answered late, and whatever was typed while the wallet was     *)
(* asking: what is sent is what was confirmed (BridgePanel.tsx:700), to an *)
(* address that exists on the chain it is sent to (:687), and no more than *)
(* the cap, as far as two doubles can tell (:648).                         *)
SentIsConfirmed ==
    sent # None =>
       /\ sent = confirmed
       /\ sent.receiver = IF sent.dir = "e2m" THEN "ml" ELSE "eth"
       /\ sent.asset \in IF sent.dir = "e2m" THEN EthSide ELSE MlSide
       /\ Cap[sent.asset] # None =>
             sent.amount <= Cap[sent.asset] \/ <<sent.amount, Cap[sent.asset]>> \in Alike

(* An amount filled in by a button, and left alone, is in the balance it   *)
(* is a part of, exactly (:431-434), and under a cap that can be read.     *)
FillFits ==
    filled # None =>
       /\ form.amount <= Balance[filled][form.asset]
       /\ Cap[form.asset] # None /\ form.asset \notin Fine => form.amount <= Cap[form.asset]

(* When no read is in flight the balances are those of the account shown.  *)
BalancesOwn == fetches = {} /\ balances # None => balances.of = account

FormSound == SentIsConfirmed /\ FillFits /\ BalancesOwn

-----------------------------------------------------------------------------
(* The inductive invariant behind it, which PageProofs proves from this    *)
(* assumption: a submission under way is what was confirmed, and balances  *)
(* of another account are about to be replaced.                            *)
BridgeFormConstants ==
    /\ Fractions \subseteq 0..100
    /\ Typed \subseteq Int
    /\ MlSide \subseteq Assets
    /\ None \notin Accounts
    /\ Balance \in [Accounts -> [Assets -> Nat]]
    /\ Cap \in [Assets -> Nat \cup {None}]

TypeOK ==
    /\ config \in {"loading", "loaded", "failed"}
    /\ selected \in Accounts
    /\ account \in Accounts \cup {None}
    /\ form \in [dir : Directions, asset : Assets \cup {None}, amount : Int \cup {None},
                 receiver : Receivers \cup {None, "ml", "eth"}, code : BOOLEAN,
                 suggestion : BOOLEAN]
    /\ filled \in Accounts \cup {None}

(* Reads that the page still listens to are of its account.                *)
FetchesOwn ==
    \A f \in fetches :
        /\ f \in [of : Accounts, assets : SUBSET Assets, live : BOOLEAN]
        /\ f.live => f.of = account
        /\ config = "loading" => f.assets = {}

BalancesComing ==
    balances # None =>
        /\ balances.of \in Accounts /\ account # None /\ balances.got \subseteq Assets
        /\ balances.of # account => \E f \in fetches : f.live
        /\ config = "loading" => balances.got = {}

(* A button is not there before the asset it is about.                     *)
FilledInt ==
    filled # None => config # "loading" /\ form.asset \in Assets /\ form.amount \in Int

FlightSound ==
    flight # None =>
        /\ sent = None /\ confirmed = flight
        /\ flight.receiver = IF flight.dir = "e2m" THEN "ml" ELSE "eth"
        /\ flight.dir \in Directions /\ flight.asset \in Assets
        /\ flight.dir = "m2e" => flight.asset \in MlSide
        /\ Cap[flight.asset] # None =>
              flight.amount <= Cap[flight.asset] \/ <<flight.amount, Cap[flight.asset]>> \in Alike

BridgeFormInv ==
    TypeOK /\ FetchesOwn /\ BalancesComing /\ FilledInt /\ FlightSound /\ SentIsConfirmed /\ FillFits
=============================================================================
