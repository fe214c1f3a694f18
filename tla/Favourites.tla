----------------------------- MODULE Favourites -----------------------------
(***************************************************************************)
(* The user's list of tokens.  One row of the prefs database holds it; the *)
(* token page (TokenSearch.tsx) toggles entries and imports verified ones, *)
(* the trading page (OrderBook.tsx) merges the wallet's tokens into it and *)
(* drops what is not fungible.  Every writer posts the WHOLE list.         *)
(***************************************************************************)
EXTENDS Integers, Sequences, FiniteSets

CONSTANTS
    Tokens,
    NFTs,        \* the tokens that are not fungible
    None,
    Cap,         \* FAVOURITES_CAP
    MaxWrites,   \* bound on the user's acts
    MaxAstray    \* a lower one, in force while luck is bad

VARIABLES
    store,    \* the row ml_favourite_tokens
    page,     \* "tokens", "opening" while it has not read the list, "trading"
    ref,      \* favouritesRef
    drawn,    \* favourites, as the handlers of the last drawing see it
    posts,    \* writes on their way: [list, before, token]; token None when no
              \* page looks at the answer
    import,   \* None, or an import: [picked, base], base None while it reads
    trade,    \* None, or the trading page's start: [favs, wants], favs None
              \* while it reads
    wanted,   \* history: the tokens the user has left in the list
    luck,     \* history: "bad" once reads and writes of the list have missed
              \* each other, until the list is opened afresh
    acts

vars == <<store, page, ref, drawn, posts, import, trade, wanted, luck, acts>>

Init ==
    /\ store \in {{}, {CHOOSE t \in Tokens : TRUE}}
    /\ page = "opening"
    /\ ref = {} /\ drawn = {} /\ wanted = store
    /\ posts = <<>>
    /\ import = None /\ trade = None
    /\ luck = "good"
    /\ acts = 0

Act ==
    /\ acts < IF luck = "bad" THEN MaxAstray ELSE MaxWrites
    /\ acts' = acts + 1

(* What the user has left in the list is followed while luck lasts.        *)
LuckNeeds(condition) == luck' = IF condition THEN luck ELSE "bad"
Leaves(list) == wanted' = IF luck' = "good" THEN list ELSE {}

Flip(list, t) == IF t \in list THEN list \ {t} ELSE list \cup {t}

(* The writes on their way but for the n-th.                               *)
Without(n) ==
    [k \in 1..(Len(posts) - 1) |-> IF k < n THEN posts[k] ELSE posts[k + 1]]

-----------------------------------------------------------------------------
(* The token page has read the list, over what was toggled meanwhile; or   *)
(* it could not, and goes on with the empty one.                           *)
MountReads ==
    /\ page = "opening"
    /\ page' = "tokens"
    /\ \/ ref' = store /\ drawn' = store /\ UNCHANGED <<luck, wanted>>
       \/ LuckNeeds(FALSE) /\ Leaves({}) /\ UNCHANGED <<ref, drawn>>
    /\ UNCHANGED <<store, posts, import, trade, acts>>

(* The page is drawn again.                                                *)
Draw ==
    /\ page # "trading" /\ drawn # ref
    /\ drawn' = ref
    /\ UNCHANGED <<store, page, ref, posts, import, trade, wanted, luck, acts>>

(* What a toggle starts from.                                              *)
CurrentDrawn == drawn
Current == ref

ToggleFavourite(t) ==
    /\ page # "trading" /\ Act
    /\ t \in Current \/ Cardinality(Current) < Cap
    /\ ref' = Flip(Current, t)
    /\ posts' = Append(posts, [list |-> Flip(Current, t), before |-> Current, token |-> t])
    /\ LuckNeeds(page = "tokens" /\ import = None)
    /\ Leaves(Flip(wanted, t))
    /\ UNCHANGED <<store, page, drawn, import, trade>>

(* POST /api/prefs replaces the row, in whatever order the writes arrive.  *)
(* A toggle has nothing left to do on success.                             *)
Saved(n) ==
    /\ store' = posts[n].list
    /\ posts' = Without(n)
    /\ LuckNeeds(n = 1)
    /\ Leaves(wanted)
    /\ UNCHANGED <<page, ref, drawn, import, trade, acts>>

(* The write failed, or only its answer: the page goes back to the list    *)
(* before the toggle; the trading page does not look.                      *)
SaveFails(n) ==
    /\ store' \in {store, posts[n].list}
    /\ posts' = Without(n)
    /\ LuckNeeds(store' = store /\ Len(posts) = 1 /\ posts[n].token # None)
    /\ IF posts[n].token # None
       THEN ref' = posts[n].before /\ Leaves(Flip(wanted, posts[n].token))
       ELSE ref' = ref /\ Leaves(wanted)
    /\ UNCHANGED <<page, drawn, import, trade, acts>>

-----------------------------------------------------------------------------
ImportVerified(picked) ==
    /\ page # "trading" /\ Act
    /\ import = None /\ picked # {}
    /\ import' = [picked |-> picked, base |-> None]
    /\ LuckNeeds(page = "tokens" /\ posts = <<>> /\ drawn = ref)
    /\ Leaves(wanted)
    /\ UNCHANGED <<store, page, ref, drawn, posts, trade>>

(* fetchCurrentFavourites, or the drawn list when the read fails.          *)
ImportReads ==
    /\ import # None /\ import.base = None
    /\ \E base \in {store, drawn} : import' = [import EXCEPT !.base = base]
    /\ UNCHANGED <<store, page, ref, drawn, posts, trade, wanted, luck, acts>>

Room(base) == IF Cap > Cardinality(base) THEN Cap - Cardinality(base) ELSE 0

(* As many of the additions as there is room for are taken, in their order *)
(* on the list; with none the write is left out, and a failed one changes  *)
(* nothing on the page, even when only its answer is lost.                 *)
ImportWrites ==
    /\ import # None /\ import.base # None
    /\ import' = None
    /\ \/ \E taken \in SUBSET (import.picked \ import.base) :
            /\ taken # {} /\ Cardinality(taken) <= Room(import.base)
            /\ store' = import.base \cup taken
            /\ ref' \in {ref, import.base \cup taken}
            /\ LuckNeeds(ref' # ref)
            /\ Leaves(wanted \cup taken)
       \/ UNCHANGED <<store, ref, wanted, luck>>
    /\ UNCHANGED <<page, drawn, posts, trade, acts>>

-----------------------------------------------------------------------------
(* The trading page, opened with the tokens of the wallet's balance and    *)
(* perhaps with one that was asked for.  The token page is gone, and       *)
(* nobody is left to see its writes answered.                              *)
OpenTrading(wants) ==
    /\ page # "trading" /\ Act
    /\ page' = "trading"
    /\ ref' = {} /\ drawn' = {}
    /\ posts' = [n \in 1..Len(posts) |-> [posts[n] EXCEPT !.token = None]]
    /\ import' = None
    /\ trade' = [favs |-> None, wants |-> wants]
    /\ LuckNeeds(posts = <<>>)
    /\ Leaves(wanted)
    /\ UNCHANGED store

(* saveFavourites sends a list and does not wait.                          *)
Sends(list, old) ==
    posts' = Append(posts, [list |-> list, before |-> old, token |-> None])

(* loadFavourites, a failed read being an empty list; tokens with a        *)
(* balance are put in front and the list is written back at once.          *)
TradingReads ==
    /\ trade # None /\ trade.favs = None
    /\ \E favs \in {store, {}} :
         LET held == trade.wants \ favs IN
         /\ trade' = [trade EXCEPT !.favs = favs \cup held]
         /\ IF held # {} THEN Sends(favs \cup held, favs) ELSE UNCHANGED posts
         /\ LuckNeeds(favs = store)
    /\ Leaves(wanted \cup trade.wants)
    /\ UNCHANGED <<store, page, ref, drawn, import, acts>>

(* With the types of all tokens at hand the list is written without the    *)
(* NFTs, and perhaps with the token asked for; when they cannot be had it  *)
(* stays as it was.                                                        *)
TradingResolves ==
    /\ trade # None /\ trade.favs # None
    /\ trade' = None
    /\ \/ \E asked \in SUBSET (Tokens \ NFTs) :
            /\ trade.favs # {} /\ Cardinality(asked) <= 1
            /\ Sends((trade.favs \ NFTs) \cup asked, trade.favs)
            /\ wanted' = IF luck = "good" THEN (wanted \ NFTs) \cup asked ELSE {}
       \/ UNCHANGED <<posts, wanted>>
    /\ UNCHANGED <<store, page, ref, drawn, import, luck, acts>>

(* The token page again.  With no write on its way it shows the user the   *)
(* list as it is, and he goes on from there.                               *)
OpenTokens ==
    /\ page = "trading"
    /\ page' = "opening"
    /\ trade' = None
    /\ IF posts = <<>>
       THEN luck' = "good" /\ wanted' = IF luck = "good" THEN wanted ELSE store
       ELSE luck' = "bad" /\ wanted' = {}
    /\ UNCHANGED <<store, ref, drawn, posts, import, acts>>

Next ==
    \/ MountReads \/ Draw
    \/ \E t \in Tokens : ToggleFavourite(t)
    \/ \E n \in 1..Len(posts) : Saved(n) \/ SaveFails(n)
    \/ \E picked \in SUBSET Tokens : ImportVerified(picked)
    \/ ImportReads \/ ImportWrites
    \/ \E wants \in SUBSET Tokens : OpenTrading(wants)
    \/ TradingReads \/ TradingResolves
    \/ OpenTokens

Spec == Init /\ [][Next]_vars

-----------------------------------------------------------------------------
Settled == posts = <<>> /\ import = None /\ trade = None /\ page # "opening"

(* "The UI never claims a state the store doesn't hold" (TokenSearch.tsx at *)
(* the write of toggleFavourite), and the store holds what the user left   *)
(* in the list: no toggle, import or merge undoes an earlier one.  It says *)
(* nothing after bad luck: a toggle before the list has been read, a read  *)
(* that fails, writes that arrive out of order, fail before a later one or *)
(* lose their answer, an import among toggles, a page left while it writes.*)
NoLostUpdate ==
    Settled /\ luck = "good" => store = wanted /\ (page = "tokens" => ref = store)

-----------------------------------------------------------------------------
(* The inductive invariant behind it, which PageProofs proves: while luck  *)
(* lasts the writes under way lead from what is stored to what the user    *)
(* left, and an import or a merge starts from what is stored.              *)
FavouritesConstants ==
    Tokens # {} /\ None \notin Tokens /\ \A L \in SUBSET Tokens : L # None

Lists == SUBSET Tokens

TypeOK ==
    /\ {store, ref, drawn, wanted} \subseteq Lists
    /\ page \in {"opening", "tokens", "trading"}
    /\ posts \in Seq([list : Lists, before : Lists, token : Tokens \cup {None}])
    /\ import # None => import.picked \in Lists
    /\ import # None /\ import.base # None => import.base \in Lists
    /\ trade # None => trade \in [favs : Lists \cup {None}, wants : Lists]
    /\ page = "trading" => import = None
    /\ page # "trading" => trade = None

WritesLinked ==
    /\ posts = <<>> => wanted = store
    /\ posts # <<>> =>
         /\ posts[1].before = store
         /\ posts[Len(posts)].list = wanted
    /\ \A n \in 1..Len(posts) :
         /\ posts[n].token # None =>
              page = "tokens" /\ posts[n].list = Flip(posts[n].before, posts[n].token)
         /\ n > 1 => posts[n].before = posts[n - 1].list

PagesCurrent ==
    /\ page = "opening" => posts = <<>> /\ import = None
    /\ page = "tokens" => ref = wanted /\ \A n \in 1..Len(posts) : posts[n].token # None
    /\ trade # None =>
         /\ trade.favs = None => posts = <<>>
         /\ trade.favs # None => trade.favs = wanted
    /\ import # None =>
         /\ posts = <<>> /\ drawn = ref
         /\ import.base # None => import.base = store

FavouritesInv ==
    TypeOK /\ (luck = "good" => WritesLinked /\ PagesCurrent)
=============================================================================
