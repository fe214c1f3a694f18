-------------------------------- MODULE Web ---------------------------------
(* The pages and the routes they call, checked side by side.  A behaviour  *)
(* is about one part, so the parts share the variables.                    *)
EXTENDS Integers, TLAPS

CONSTANTS
    None,
    Tabs, Coins, MaxAttempts, SendFaults,                        \* BtcSend
    Txs, MempoolApi, MaxChecks, MaxBreaks,                       \* TxToast
    SubmitForms, Fields, FieldOf, Codes, MaxBatch, MaxRequests,
                                                            \* WalletSubmit
    Imports, FileCrashes,                                     \* WalletFile
    Digits, Scales, Decimals, Longest, Largest,                  \* OpForms
    BookTokens, MaxLoads,                                  \* OrderBookPage
    StarTokens, NFTs, StarCap, MaxWrites, MaxAstray,          \* Favourites
    FailureLimit, HistoryLimit, MaxPolls, CardAttempts, MaxReloads,
                                                                  \* Bridge
    Accounts, Assets, MlSide, EthSide, Cap, Fine, Alike, Balance, Fractions,
    Amounts, Receivers, SyncAnswers, MaxFetches,                       \* BridgeForm
    OwnTokens, FetchSlots, IssuedFails, MaxClicks,          \* IssuedTokens
    SetupTabs, OtherWallets, MaxTries, SetupFaults,             \* BtcSetup
    NftOrders, Own, MarketLoads, MaxTrades, MarketFails,       \* NftMarket
    Files, MaxPicks, MaxEdits, MaxSubmits,                    \* IssueForms
    WordPosts, WordAttempts, WordFaults                      \* WalletSetup

VARIABLES
    area,    \* which part of the program this behaviour is about
    (* Its state: the variables of its module, as Pages places them.       *)
    s1, s2, s3, s4, s5, s6, s7, s8, s9, s10, s11, s12, s13, s14, s15, s16

vars == <<area, s1, s2, s3, s4, s5, s6, s7, s8, s9, s10, s11, s12, s13,
          s14, s15, s16>>

(* The parts, with their theorems: PageProofs names them as Init does.     *)
Pages == INSTANCE PageProofs WITH
    page <- s3, user <- s2, at <- s4, coin <- s5, told <- s6,
    deserted <- s7, known <- s8, scan <- s9, nodeUp <- s10, up <- s11,
    accepted <- s12, excused <- s13, fresh <- s14, faults <- s1,
    chain <- s2, answer <- s1, stream <- s3, events <- s4, breaks <- s5,
    watcher <- s6, toast <- s7, timer <- s8, asked <- s9, typed <- s1,
    waitsFor <- s3, reqs <- s4, burnt <- s5, calls <- s6, early <- s7,
    late <- s8, files <- s2, canon <- s3, temp <- s4, slot <- s1,
    scanning <- s5, pc <- s6, mine <- s7, said <- s8, crashes <- s9,
    req <- s2, phase <- s3, selected <- s1, manual <- s3, book <- s4,
    decimals <- s5, loadSeq <- s7, loads <- s2, order <- s8, store <- s1,
    ref <- s2, drawn <- s4, posts <- s5, import <- s6, trade <- s7,
    wanted <- s8, acts <- s9, luck <- s10, tx <- s2, indexed <- s3,
    stored <- s4, live <- s5, failed <- s6, scanError <- s7, jobs <- s8,
    fails <- s1, clicks <- s9, subs <- s2, tracked <- s15, unsaved <- s16,
    progress <- s4, unavailable <- s5, failures <- s6, polls <- s7,
    history <- s8, posted <- s9, backend <- s10, moved <- s11,
    left <- s12, attempts <- s13, reloads <- s14, config <- s2,
    restoring <- s3, account <- s4, connecting <- s5, balances <- s6,
    fetches <- s7, addressing <- s8, indexer <- s9, form <- s10,
    filled <- s11, flight <- s12, confirmed <- s13, sent <- s14,
    wallet <- s4, locked <- s5, session <- s6, reads <- s7, tries <- s8,
    leftOpen <- s9, doubted <- s10, status <- s3, unit <- s4,
    frozen <- s5, tab <- s6, lists <- s7, trades <- s8, modal <- s9,
    steady <- s10, kind <- s1, ipfs <- s2, mode <- s3, media <- s4,
    logo <- s5, meta <- s6, text <- s7, sub <- s8, issued <- s9,
    picks <- s10, submits <- s11, open <- s2, walletAt <- s3,
    uploadAt <- s4, btc <- s5, post <- s6, shown <- s7, lost <- s8

(* Four parts once more, without the detour: TLC takes a step of them in  *)
(* half the time, and ToastSame, CardSame, DepositSame and MarketSame say  *)
(* that it is the same step.                                               *)
Toast == INSTANCE TxToast WITH
    chain <- s2, answer <- s1, stream <- s3, events <- s4, breaks <- s5,
    watcher <- s6, toast <- s7, timer <- s8, asked <- s9

Card == INSTANCE Bridge WITH
    MaxAttempts <- CardAttempts, phase <- s3, slot <- s1, subs <- s2,
    tracked <- s15, unsaved <- s16, progress <- s4, unavailable <- s5,
    failures <- s6, polls <- s7, history <- s8, posted <- s9,
    backend <- s10, moved <- s11, left <- s12, attempts <- s13,
    reloads <- s14

Deposit == INSTANCE BridgeForm WITH
    Typed <- Amounts, Answers <- SyncAnswers, config <- s2, selected <- s1,
    restoring <- s3, account <- s4, connecting <- s5, balances <- s6,
    fetches <- s7, addressing <- s8, indexer <- s9, form <- s10,
    filled <- s11, flight <- s12, confirmed <- s13, sent <- s14

Market == INSTANCE NftMarket WITH
    Orders <- NftOrders, MaxLoads <- MarketLoads, MaxFails <- MarketFails,
    status <- s3, unit <- s4, frozen <- s5, tab <- s6, lists <- s7,
    loads <- s2, trades <- s8, modal <- s9, fails <- s1, steady <- s10

(* The slots a part does not use.                                        *)
Rest3 == <<s4, s5, s6, s7, s8, s9, s10, s11, s12, s13, s14, s15, s16>>
RestBook == <<s6, s9, s11, s12, s13, s14, s15, s16>>
Rest8 == <<s9, s10, s11, s12, s13, s14, s15, s16>>
Rest9 == <<s10, s11, s12, s13, s14, s15, s16>>
Rest10 == <<s11, s12, s13, s14, s15, s16>>
Rest11 == <<s12, s13, s14, s15, s16>>
Rest14 == <<s15, s16>>

Init ==
    \/ /\ area = "send" /\ Pages!Send!Init
       /\ s15 = None /\ s16 = None
    \/ /\ area = "toast" /\ Pages!Toast!Init
       /\ s10 = None /\ s11 = None /\ s12 = None /\ s13 = None /\ s14 = None
       /\ s15 = None /\ s16 = None
    \/ /\ area = "submit" /\ Pages!Submit!Init
       /\ s9 = None /\ s10 = None /\ s11 = None /\ s12 = None /\ s13 = None
       /\ s14 = None /\ s15 = None /\ s16 = None
    \/ /\ area = "file" /\ Pages!File!Init
       /\ s10 = None /\ s11 = None /\ s12 = None /\ s13 = None /\ s14 = None
       /\ s15 = None /\ s16 = None
    \/ /\ area = "forms" /\ Pages!Forms!Init
       /\ s4 = None /\ s5 = None /\ s6 = None /\ s7 = None /\ s8 = None
       /\ s9 = None /\ s10 = None /\ s11 = None /\ s12 = None /\ s13 = None
       /\ s14 = None /\ s15 = None /\ s16 = None
    \/ /\ area = "book" /\ Pages!Book!Init
       /\ s6 = None /\ s9 = None /\ s11 = None /\ s12 = None /\ s13 = None
       /\ s14 = None /\ s15 = None /\ s16 = None
    \/ /\ area = "stars" /\ Pages!Stars!Init
       /\ s11 = None /\ s12 = None /\ s13 = None /\ s14 = None /\ s15 = None
       /\ s16 = None
    \/ area = "bridge" /\ Pages!Card!Init
    \/ /\ area = "deposit" /\ Pages!Deposit!Init
       /\ s15 = None /\ s16 = None
    \/ /\ area = "issued" /\ Pages!Issued!Init
       /\ s10 = None /\ s11 = None /\ s12 = None /\ s13 = None /\ s14 = None
       /\ s15 = None /\ s16 = None
    \/ /\ area = "setup" /\ Pages!Setup!Init
       /\ s11 = None /\ s12 = None /\ s13 = None /\ s14 = None /\ s15 = None
       /\ s16 = None
    \/ /\ area = "market" /\ Pages!Market!Init
       /\ s11 = None /\ s12 = None /\ s13 = None /\ s14 = None /\ s15 = None
       /\ s16 = None
    \/ /\ area = "issue" /\ Pages!Issue!Init
       /\ s12 = None /\ s13 = None /\ s14 = None /\ s15 = None /\ s16 = None
    \/ /\ area = "words" /\ Pages!Words!Init
       /\ s9 = None /\ s10 = None /\ s11 = None /\ s12 = None /\ s13 = None
       /\ s14 = None /\ s15 = None /\ s16 = None

Next ==
    \/ area = "send" /\ Pages!Send!Next /\ UNCHANGED <<area, Rest14>>
    \/ area = "toast" /\ Toast!Next /\ UNCHANGED <<area, Rest9>>
    \/ area = "submit" /\ Pages!Submit!Next /\ UNCHANGED <<area, Rest8>>
    \/ area = "file" /\ Pages!File!Next /\ UNCHANGED <<area, Rest9>>
    \/ area = "forms" /\ Pages!Forms!Next /\ UNCHANGED <<area, Rest3>>
    \/ area = "book" /\ Pages!Book!Next /\ UNCHANGED <<area, RestBook>>
    \/ area = "stars" /\ Pages!Stars!Next /\ UNCHANGED <<area, Rest10>>
    \/ area = "bridge" /\ Card!Next /\ UNCHANGED area
    \/ area = "deposit" /\ Deposit!Next /\ UNCHANGED <<area, Rest14>>
    \/ area = "issued" /\ Pages!Issued!Next /\ UNCHANGED <<area, Rest9>>
    \/ area = "setup" /\ Pages!Setup!Next /\ UNCHANGED <<area, Rest10>>
    \/ area = "market" /\ Market!Next /\ UNCHANGED <<area, Rest10>>
    \/ area = "issue" /\ Pages!Issue!Next /\ UNCHANGED <<area, Rest11>>
    \/ area = "words" /\ Pages!Words!Next /\ UNCHANGED <<area, Rest8>>

Spec == Init /\ [][Next]_vars

-----------------------------------------------------------------------------
(* What the theorems below assume of the constants.                        *)
ASSUME SubmitAssumption == Pages!Submit!WalletSubmitConstants
ASSUME FileAssumption == Pages!File!WalletFileConstants
ASSUME FormsAssumption == Pages!Forms!OpFormsConstants
ASSUME BookAssumption == Pages!Book!OrderBookConstants
ASSUME StarsAssumption == Pages!Stars!FavouritesConstants
ASSUME CardAssumption == Pages!Card!BridgeConstants
ASSUME DepositAssumption == Pages!Deposit!BridgeFormConstants
ASSUME MarketAssumption == Pages!Market!NftMarketConstants
ASSUME WordsAssumption == Pages!Words!WalletSetupConstants

(* A payment that is said not to have been made was not and will not be,   *)
(* and the user's rule never pays twice (api/bitcoin/send.ts).             *)
SendSound ==
    area = "send" => Pages!Send!RefusedMeansUnsent /\ Pages!Send!PaysOnce

(* A toast's verdict is the chain's, and no event or answer that was under *)
(* way when it was given takes it back (toastStore.ts).                    *)
ToastSound ==
    /\ [](area = "toast" => Toast!VerdictTrue)
    /\ [][area = "toast" => Toast!VerdictStands]_vars

(* As long as the process lives, a code moves funds for one request, or    *)
(* for two of which just one had presented it before its period (its burn  *)
(* ends first, lib/step-up.ts:106); an answer tells which of its actions   *)
(* the daemon carried out (api/transact routes).                           *)
SubmitSound ==
    area = "submit" =>
        Pages!Submit!OneRequestPerCode /\ Pages!Submit!AnswerTellsTruth

(* The wallet's path always holds a complete wallet, and "recovered" is    *)
(* said only of the wallet in use (wallet-recovery.ts).                    *)
FileSound ==
    /\ [](area = "file" => Pages!File!CanonWhole)
    /\ [][area = "file" => Pages!File!RecoveredIsServed]_vars

(* A code is not spent on a request that is sure to be refused, except by  *)
(* the forms that CodeNotWasted names: those that drop the token's         *)
(* decimals, and those with an amount larger than the daemon decodes       *)
(* (OrderBook.tsx:252, stake-trade.ts:45, validation.ts:20).               *)
CodeNotWasted == area = "forms" => Pages!Forms!CodeNotWasted

(* For a user who waits for an order and a load before changing the pair,  *)
(* a market order trades the token its button names, and amounts are       *)
(* checked with that token's decimals (OrderBook.tsx). A limit order need  *)
(* not: see PrefillDoesNotSurvive.                                         *)
TradesWhatItShows == area = "book" => Pages!Book!TradesWhatItShows

(* While luck lasts, the list of favourites is what the user left in it:   *)
(* the page has read it before a toggle, writes arrive in order with their *)
(* answers, and an import runs alone (TokenSearch.tsx, OrderBook.tsx).     *)
NoLostUpdate == area = "stars" => Pages!Stars!NoLostUpdate

(* The card shows its own request and is polled while a form waits for it, *)
(* unless the storage refused the record or another tab took it; and no    *)
(* deposit disappears from its owner's sight, unless the page was          *)
(* reloaded, the storage refused its row or the wallet failed after        *)
(* sending it (BridgePanel.tsx).                                           *)
BridgeSound == area = "bridge" => Card!CardIsLive /\ Card!DepositAccounted

(* What is deposited is what was confirmed, within the balance and, as     *)
(* doubles compare (BridgePanel.tsx:648), within the cap, to an address of *)
(* the right chain (:687, :700); a fill stays within a cap that can be     *)
(* read in the asset's units (:445); and what is issued is what its dialog *)
(* showed (IssueNFTModal.tsx:83).                                          *)
FormSound ==
    /\ area = "deposit" => Deposit!FormSound
    /\ area = "issue" => Pages!Issue!IssuedAsShown

(* A row of an issued token goes only when the user removes it, and what a *)
(* scan has looked up becomes a row, unless the user removes another one   *)
(* before it is drawn (IssuedTokensPanel.tsx:173, :216, :267).             *)
RowsKept == [][area = "issued" => Pages!Issued!RowsKept]_vars

(* The page says a Bitcoin wallet is there only when it is, unless another *)
(* create was still opening it or took its seed away (main.rs:653); the    *)
(* keys are locked again after a link, and the words come before the       *)
(* address (BitcoinWallet.tsx, link-seed.ts); the words of a new wallet    *)
(* are shown whatever Bitcoin does, and "the same seed" is said of one     *)
(* seed only (setup.astro:48, :62).                                        *)
SetupSound ==
    /\ area = "setup" => Pages!Setup!SetupSound
    /\ area = "words" => Pages!Words!SetupTold

(* An offer that stood all along is shown, to its owner and to buyers, and *)
(* "no listings" is never said over one (NFTMarketplace.tsx:527, :597).    *)
MarketSound == area = "market" => Market!MarketSound

-----------------------------------------------------------------------------
(* A behaviour of a part is one of its module, and the part never changes: *)
(* what the module's theorems say holds of the pages.                      *)

(* A step of the toasts' (TxToast), and its property, are those of Pages.  *)
LEMMA ToastSame ==
    /\ Toast!Next <=> Pages!Toast!Next
    /\ Toast!VerdictTrue <=> Pages!Toast!VerdictTrue
    /\ Toast!VerdictStands <=> Pages!Toast!VerdictStands
<1>1. Toast!Next <=> Pages!Toast!Next
  <2>1. \A x : Toast!Broadcast(x) <=> Pages!Toast!Broadcast(x)
    BY Zenon DEF Toast!Broadcast, Pages!Toast!Broadcast, Toast!Relay, Pages!Toast!Relay
  <2>2. \A x, how, kind : Toast!Settles(x, how, kind) <=> Pages!Toast!Settles(x, how, kind)
    BY Zenon DEF Toast!Settles, Pages!Toast!Settles, Toast!Relay, Pages!Toast!Relay
  <2>3. \A x : Toast!Answered(x) <=> Pages!Toast!Answered(x)
    BY Zenon DEF Toast!Answered, Pages!Toast!Answered, Toast!Shown, Pages!Toast!Shown
  <2>4. \A x : Toast!Escalate(x) <=> Pages!Toast!Escalate(x)
    BY Zenon DEF Toast!Escalate, Pages!Toast!Escalate, Toast!Ask, Pages!Toast!Ask,
      Toast!IndexerSays, Pages!Toast!IndexerSays
  <2>5. \A x : Toast!WatchTimesOut(x) <=> Pages!Toast!WatchTimesOut(x)
    BY Zenon DEF Toast!WatchTimesOut, Pages!Toast!WatchTimesOut, Toast!Disarm,
      Pages!Toast!Disarm, Toast!Ask, Pages!Toast!Ask, Toast!IndexerSays,
      Pages!Toast!IndexerSays
  <2>6. \A x : Toast!Dismiss(x) <=> Pages!Toast!Dismiss(x)
    BY Zenon DEF Toast!Dismiss, Pages!Toast!Dismiss
  <2>7. Toast!StreamOpens <=> Pages!Toast!StreamOpens
    BY Zenon DEF Toast!StreamOpens, Pages!Toast!StreamOpens
  <2>8. Toast!StreamBreaks <=> Pages!Toast!StreamBreaks
    BY Zenon DEF Toast!StreamBreaks, Pages!Toast!StreamBreaks
  <2>9. Toast!Deliver <=> Pages!Toast!Deliver
    BY Zenon DEF Toast!Deliver, Pages!Toast!Deliver, Toast!Disarm, Pages!Toast!Disarm,
      Toast!Update, Pages!Toast!Update
  <2>10. \A q : Toast!EscalationAnswered(q) <=> Pages!Toast!EscalationAnswered(q)
    BY Zenon DEF Toast!EscalationAnswered, Pages!Toast!EscalationAnswered, Toast!Pending,
      Pages!Toast!Pending, Toast!Update, Pages!Toast!Update
  <2>11. \A q : Toast!TimeoutAnswered(q) <=> Pages!Toast!TimeoutAnswered(q)
    BY Zenon DEF Toast!TimeoutAnswered, Pages!Toast!TimeoutAnswered, Toast!Pending,
      Pages!Toast!Pending, Toast!Update, Pages!Toast!Update
  <2> QED
    BY <2>1, <2>2, <2>3, <2>4, <2>5, <2>6, <2>7, <2>8, <2>9, <2>10, <2>11, Zenon DEF
      Toast!Next, Pages!Toast!Next
<1>2. Toast!VerdictTrue <=> Pages!Toast!VerdictTrue
  BY Zenon DEF Toast!VerdictTrue, Pages!Toast!VerdictTrue
<1>3. Toast!VerdictStands <=> Pages!Toast!VerdictStands
  BY Zenon DEF Toast!VerdictStands, Pages!Toast!VerdictStands
<1> QED
  BY <1>1, <1>2, <1>3

(* A step of the bridge card's (Bridge), and its properties, are those of Pages. *)
LEMMA CardSame ==
    /\ Card!Next <=> Pages!Card!Next
    /\ Card!CardIsLive <=> Pages!Card!CardIsLive
    /\ Card!DepositAccounted <=> Pages!Card!DepositAccounted
<1>1. Card!Next <=> Pages!Card!Next
  <2>1. \A dir : Card!Submit(dir) <=> Pages!Card!Submit(dir)
    BY Zenon DEF Card!Submit, Pages!Card!Submit, Card!Busy, Pages!Card!Busy,
      Card!SubmitPhases, Pages!Card!SubmitPhases, Card!Card, Pages!Card!Card, Card!Money,
      Pages!Card!Money
  <2>2. \A s : Card!Approve(s) <=> Pages!Card!Approve(s)
    BY Zenon DEF Card!Approve, Pages!Card!Approve, Card!Moves, Pages!Card!Moves,
      Card!Card, Pages!Card!Card, Card!Money, Pages!Card!Money
  <2>3. \A s : Card!AskForDeposit(s) <=> Pages!Card!AskForDeposit(s)
    BY Zenon DEF Card!AskForDeposit, Pages!Card!AskForDeposit, Card!Moves,
      Pages!Card!Moves, Card!Card, Pages!Card!Card, Card!Money, Pages!Card!Money
  <2>4. \A s : Card!Deposit(s) <=> Pages!Card!Deposit(s)
    BY Zenon DEF Card!Deposit, Pages!Card!Deposit, Card!Moves, Pages!Card!Moves,
      Card!Card, Pages!Card!Card
  <2>5. \A s : Card!DepositThrows(s) <=> Pages!Card!DepositThrows(s)
    BY Zenon DEF Card!DepositThrows, Pages!Card!DepositThrows, Card!Card, Pages!Card!Card
  <2>6. \A s : Card!Signed(s) <=> Pages!Card!Signed(s)
    BY Zenon DEF Card!Signed, Pages!Card!Signed, Card!Moves, Pages!Card!Moves, Card!Card,
      Pages!Card!Card
  <2>7. \A s : Card!GivesUp(s) <=> Pages!Card!GivesUp(s)
    BY Zenon DEF Card!GivesUp, Pages!Card!GivesUp, Card!Card, Pages!Card!Card, Card!Money,
      Pages!Card!Money
  <2>8. \A s : Card!BroadcastAnswered(s) <=> Pages!Card!BroadcastAnswered(s)
    BY Zenon DEF Card!BroadcastAnswered, Pages!Card!BroadcastAnswered, Card!InFlight,
      Pages!Card!InFlight, Card!AppendHistory, Pages!Card!AppendHistory, Card!WithRow,
      Pages!Card!WithRow, Card!Capped, Pages!Card!Capped, Card!Others, Pages!Card!Others,
      Card!Recorded, Pages!Card!Recorded
  <2>9. \A s : Card!BroadcastFails(s) <=> Pages!Card!BroadcastFails(s)
    BY Zenon DEF Card!BroadcastFails, Pages!Card!BroadcastFails, Card!AppendHistory,
      Pages!Card!AppendHistory, Card!WithRow, Pages!Card!WithRow, Card!Capped,
      Pages!Card!Capped, Card!Others, Pages!Card!Others, Card!Recorded,
      Pages!Card!Recorded, Card!Card, Pages!Card!Card
  <2>10. \A n : Card!Registers(n) <=> Pages!Card!Registers(n)
    BY Zenon DEF Card!Registers, Pages!Card!Registers, Card!Card, Pages!Card!Card
  <2>11. \A n : Card!Advances(n) <=> Pages!Card!Advances(n)
    BY Zenon DEF Card!Advances, Pages!Card!Advances, Card!Later, Pages!Card!Later,
      Card!Terminal, Pages!Card!Terminal, Card!Step, Pages!Card!Step, Card!Card,
      Pages!Card!Card
  <2>12. Card!PollStarts <=> Pages!Card!PollStarts
    BY Zenon DEF Card!PollStarts, Pages!Card!PollStarts, Card!CardLive,
      Pages!Card!CardLive, Card!Terminal, Pages!Card!Terminal, Card!Cardinality,
      Pages!Card!Cardinality, Card!Card, Pages!Card!Card, Card!Money, Pages!Card!Money
  <2>13. \A p : Card!PollAnswered(p) <=> Pages!Card!PollAnswered(p)
    BY Zenon DEF Card!PollAnswered, Pages!Card!PollAnswered, Card!StepKept,
      Pages!Card!StepKept, Card!Step, Pages!Card!Step, Card!Terminal, Pages!Card!Terminal,
      Card!FreePhase, Pages!Card!FreePhase, Card!SubmitPhases, Pages!Card!SubmitPhases,
      Card!PhaseOf, Pages!Card!PhaseOf, Card!Money, Pages!Card!Money
  <2>14. \A p : Card!PollFails(p) <=> Pages!Card!PollFails(p)
    BY Zenon DEF Card!PollFails, Pages!Card!PollFails, Card!FreePhase,
      Pages!Card!FreePhase, Card!SubmitPhases, Pages!Card!SubmitPhases, Card!Money,
      Pages!Card!Money
  <2>15. Card!Dismiss <=> Pages!Card!Dismiss
    BY Zenon DEF Card!Dismiss, Pages!Card!Dismiss, Card!Money, Pages!Card!Money
  <2>16. Card!Reload <=> Pages!Card!Reload
    BY Zenon DEF Card!Reload, Pages!Card!Reload, Card!InFlight, Pages!Card!InFlight
  <2>17. Card!OtherTabTracks <=> Pages!Card!OtherTabTracks
    BY Zenon DEF Card!OtherTabTracks, Pages!Card!OtherTabTracks, Card!AppendHistory,
      Pages!Card!AppendHistory, Card!WithRow, Pages!Card!WithRow, Card!Capped,
      Pages!Card!Capped, Card!Others, Pages!Card!Others, Card!Recorded,
      Pages!Card!Recorded
  <2>18. Card!OtherTabDismisses <=> Pages!Card!OtherTabDismisses
    BY Zenon DEF Card!OtherTabDismisses, Pages!Card!OtherTabDismisses, Card!Money,
      Pages!Card!Money
  <2> QED
    BY <2>1, <2>2, <2>3, <2>4, <2>5, <2>6, <2>7, <2>8, <2>9, <2>10, <2>11, <2>12, <2>13,
      <2>14, <2>15, <2>16, <2>17, <2>18, Zenon DEF Card!Next, Pages!Card!Next
<1>2. Card!CardIsLive <=> Pages!Card!CardIsLive
  BY Zenon DEF Card!CardIsLive, Pages!Card!CardIsLive, Card!InStep, Pages!Card!InStep,
    Card!InFlight, Pages!Card!InFlight, Card!CardLive, Pages!Card!CardLive, Card!Terminal,
    Pages!Card!Terminal
<1>3. Card!DepositAccounted <=> Pages!Card!DepositAccounted
  BY Zenon DEF Card!DepositAccounted, Pages!Card!DepositAccounted, Card!Recorded,
    Pages!Card!Recorded
<1> QED
  BY <1>1, <1>2, <1>3

(* A step of the deposit form's (BridgeForm), and its property, are those of Pages. *)
LEMMA DepositSame ==
    /\ Deposit!Next <=> Pages!Deposit!Next
    /\ Deposit!FormSound <=> Pages!Deposit!FormSound
<1>1. Deposit!Next <=> Pages!Deposit!Next
  <2>1. Deposit!ConfigAnswered <=> Pages!Deposit!ConfigAnswered
    BY Zenon DEF Deposit!ConfigAnswered, Pages!Deposit!ConfigAnswered, Deposit!Balances,
      Pages!Deposit!Balances, Deposit!order, Pages!Deposit!order, Deposit!Disowned,
      Pages!Deposit!Disowned, Deposit!Cardinality, Pages!Deposit!Cardinality
  <2>2. Deposit!RestoreAnswered <=> Pages!Deposit!RestoreAnswered
    BY Zenon DEF Deposit!RestoreAnswered, Pages!Deposit!RestoreAnswered, Deposit!AccountIs,
      Pages!Deposit!AccountIs, Deposit!order, Pages!Deposit!order, Deposit!Balances,
      Pages!Deposit!Balances, Deposit!Loaded, Pages!Deposit!Loaded, Deposit!Disowned,
      Pages!Deposit!Disowned, Deposit!Cardinality, Pages!Deposit!Cardinality
  <2>3. Deposit!Connect <=> Pages!Deposit!Connect
    BY Zenon DEF Deposit!Connect, Pages!Deposit!Connect, Deposit!order, Pages!Deposit!order
  <2>4. Deposit!ConnectAnswered <=> Pages!Deposit!ConnectAnswered
    BY Zenon DEF Deposit!ConnectAnswered, Pages!Deposit!ConnectAnswered, Deposit!AccountIs,
      Pages!Deposit!AccountIs, Deposit!order, Pages!Deposit!order, Deposit!Balances,
      Pages!Deposit!Balances, Deposit!Loaded, Pages!Deposit!Loaded, Deposit!Disowned,
      Pages!Deposit!Disowned, Deposit!Cardinality, Pages!Deposit!Cardinality
  <2>5. Deposit!SelectAccount <=> Pages!Deposit!SelectAccount
    BY Zenon DEF Deposit!SelectAccount, Pages!Deposit!SelectAccount, Deposit!order,
      Pages!Deposit!order
  <2>6. \A f : Deposit!BalancesRead(f) <=> Pages!Deposit!BalancesRead(f)
    BY Zenon DEF Deposit!BalancesRead, Pages!Deposit!BalancesRead, Deposit!order,
      Pages!Deposit!order
  <2>7. Deposit!IndexerAnswered <=> Pages!Deposit!IndexerAnswered
    BY Zenon DEF Deposit!IndexerAnswered, Pages!Deposit!IndexerAnswered, Deposit!wallet,
      Pages!Deposit!wallet, Deposit!order, Pages!Deposit!order
  <2>8. Deposit!Turn <=> Pages!Deposit!Turn
    BY Zenon DEF Deposit!Turn, Pages!Deposit!Turn, Deposit!Edit, Pages!Deposit!Edit,
      Deposit!Directions, Pages!Deposit!Directions, Deposit!Shown, Pages!Deposit!Shown,
      Deposit!wallet, Pages!Deposit!wallet, Deposit!order, Pages!Deposit!order
  <2>9. Deposit!PickAsset <=> Pages!Deposit!PickAsset
    BY Zenon DEF Deposit!PickAsset, Pages!Deposit!PickAsset, Deposit!Loaded,
      Pages!Deposit!Loaded, Deposit!Edit, Pages!Deposit!Edit, Deposit!Shown,
      Pages!Deposit!Shown, Deposit!wallet, Pages!Deposit!wallet, Deposit!order,
      Pages!Deposit!order
  <2>10. Deposit!TypeAmount <=> Pages!Deposit!TypeAmount
    BY Zenon DEF Deposit!TypeAmount, Pages!Deposit!TypeAmount, Deposit!Edit,
      Pages!Deposit!Edit, Deposit!Shown, Pages!Deposit!Shown, Deposit!wallet,
      Pages!Deposit!wallet, Deposit!order, Pages!Deposit!order
  <2>11. Deposit!TypeReceiver <=> Pages!Deposit!TypeReceiver
    BY Zenon DEF Deposit!TypeReceiver, Pages!Deposit!TypeReceiver, Deposit!Edit,
      Pages!Deposit!Edit, Deposit!Shown, Pages!Deposit!Shown, Deposit!wallet,
      Pages!Deposit!wallet, Deposit!order, Pages!Deposit!order
  <2>12. Deposit!TypeCode <=> Pages!Deposit!TypeCode
    BY Zenon DEF Deposit!TypeCode, Pages!Deposit!TypeCode, Deposit!Edit, Pages!Deposit!Edit,
      Deposit!Shown, Pages!Deposit!Shown, Deposit!wallet, Pages!Deposit!wallet,
      Deposit!order, Pages!Deposit!order
  <2>13. Deposit!AcceptSuggestion <=> Pages!Deposit!AcceptSuggestion
    BY Zenon DEF Deposit!AcceptSuggestion, Pages!Deposit!AcceptSuggestion, Deposit!Edit,
      Pages!Deposit!Edit, Deposit!Shown, Pages!Deposit!Shown, Deposit!wallet,
      Pages!Deposit!wallet, Deposit!order, Pages!Deposit!order
  <2>14. Deposit!UseMetaMask <=> Pages!Deposit!UseMetaMask
    BY Zenon DEF Deposit!UseMetaMask, Pages!Deposit!UseMetaMask, Deposit!Edit,
      Pages!Deposit!Edit, Deposit!Shown, Pages!Deposit!Shown, Deposit!wallet,
      Pages!Deposit!wallet, Deposit!order, Pages!Deposit!order
  <2>15. Deposit!UseMlAddress <=> Pages!Deposit!UseMlAddress
    BY Zenon DEF Deposit!UseMlAddress, Pages!Deposit!UseMlAddress, Deposit!Shown,
      Pages!Deposit!Shown, Deposit!wallet, Pages!Deposit!wallet, Deposit!order,
      Pages!Deposit!order
  <2>16. Deposit!AddressAnswered <=> Pages!Deposit!AddressAnswered
    BY Zenon DEF Deposit!AddressAnswered, Pages!Deposit!AddressAnswered, Deposit!wallet,
      Pages!Deposit!wallet, Deposit!order, Pages!Deposit!order
  <2>17. \A pct : Deposit!ApplyFraction(pct) <=> Pages!Deposit!ApplyFraction(pct)
    BY Zenon DEF Deposit!ApplyFraction, Pages!Deposit!ApplyFraction, Deposit!Edit,
      Pages!Deposit!Edit, Deposit!Fraction, Pages!Deposit!Fraction, Deposit!Shown,
      Pages!Deposit!Shown, Deposit!wallet, Pages!Deposit!wallet, Deposit!order,
      Pages!Deposit!order
  <2>18. Deposit!Submit <=> Pages!Deposit!Submit
    BY Zenon DEF Deposit!Submit, Pages!Deposit!Submit, Deposit!Enabled,
      Pages!Deposit!Enabled, Deposit!Complete, Pages!Deposit!Complete, Deposit!order,
      Pages!Deposit!order, Deposit!wallet, Pages!Deposit!wallet, Deposit!Shown,
      Pages!Deposit!Shown
  <2>19. Deposit!Deposit <=> Pages!Deposit!Deposit
    BY Zenon DEF Deposit!Deposit, Pages!Deposit!Deposit, Deposit!Taken, Pages!Deposit!Taken,
      Deposit!wallet, Pages!Deposit!wallet
  <2>20. Deposit!SubmitFails <=> Pages!Deposit!SubmitFails
    BY Zenon DEF Deposit!SubmitFails, Pages!Deposit!SubmitFails, Deposit!wallet,
      Pages!Deposit!wallet
  <2>21. Deposit!ResetForm <=> Pages!Deposit!ResetForm
    BY Zenon DEF Deposit!ResetForm, Pages!Deposit!ResetForm, Deposit!Edit,
      Pages!Deposit!Edit, Deposit!Shown, Pages!Deposit!Shown, Deposit!wallet,
      Pages!Deposit!wallet, Deposit!order, Pages!Deposit!order
  <2> QED
    BY <2>1, <2>2, <2>3, <2>4, <2>5, <2>6, <2>7, <2>8, <2>9, <2>10, <2>11, <2>12, <2>13,
      <2>14, <2>15, <2>16, <2>17, <2>18, <2>19, <2>20, <2>21, Zenon DEF Deposit!Next,
      Pages!Deposit!Next
<1>2. Deposit!FormSound <=> Pages!Deposit!FormSound
  BY Zenon DEF Deposit!FormSound, Pages!Deposit!FormSound, Deposit!SentIsConfirmed,
    Pages!Deposit!SentIsConfirmed, Deposit!FillFits, Pages!Deposit!FillFits,
    Deposit!BalancesOwn, Pages!Deposit!BalancesOwn
<1> QED
  BY <1>1, <1>2

(* A step of the market's (NftMarket), and its property, are those of Pages. *)
LEMMA MarketSame ==
    /\ Market!Next <=> Pages!Market!Next
    /\ Market!MarketSound <=> Pages!Market!MarketSound
<1>1. Market!Next <=> Pages!Market!Next
  <2>1. \A i : Market!OrdersRead(i) <=> Pages!Market!OrdersRead(i)
    BY Zenon DEF Market!OrdersRead, Pages!Market!OrdersRead, Market!Listed,
      Pages!Market!Listed, Market!chain, Pages!Market!chain
  <2>2. \A i : Market!LoadFails(i) <=> Pages!Market!LoadFails(i)
    BY Zenon DEF Market!LoadFails, Pages!Market!LoadFails, Market!chain, Pages!Market!chain
  <2>3. \A i : Market!LookupsAnswered(i) <=> Pages!Market!LookupsAnswered(i)
    BY Zenon DEF Market!LookupsAnswered, Pages!Market!LookupsAnswered, Market!Cardinality,
      Pages!Market!Cardinality, Market!Cards, Pages!Market!Cards, Market!chain,
      Pages!Market!chain
  <2>4. Market!Refresh <=> Pages!Market!Refresh
    BY Zenon DEF Market!Refresh, Pages!Market!Refresh, Market!Load, Pages!Market!Load,
      Market!Loading, Pages!Market!Loading, Market!chain, Pages!Market!chain, Market!Slots,
      Pages!Market!Slots
  <2>5. Market!ShowTab <=> Pages!Market!ShowTab
    BY Zenon DEF Market!ShowTab, Pages!Market!ShowTab, Market!Names, Pages!Market!Names,
      Market!Load, Pages!Market!Load, Market!Loading, Pages!Market!Loading, Market!chain,
      Pages!Market!chain, Market!Slots, Pages!Market!Slots
  <2>6. Market!PickNft <=> Pages!Market!PickNft
    BY Zenon DEF Market!PickNft, Pages!Market!PickNft, Market!chain, Pages!Market!chain
  <2>7. Market!CloseDialog <=> Pages!Market!CloseDialog
    BY Zenon DEF Market!CloseDialog, Pages!Market!CloseDialog, Market!chain,
      Pages!Market!chain
  <2>8. Market!Trade <=> Pages!Market!Trade
    BY Zenon DEF Market!Trade, Pages!Market!Trade, Market!Buyable, Pages!Market!Buyable,
      Market!Cancellable, Pages!Market!Cancellable, Market!Cardinality,
      Pages!Market!Cardinality, Market!chain, Pages!Market!chain
  <2>9. \A t : Market!Settled(t) <=> Pages!Market!Settled(t)
    BY Zenon DEF Market!Settled, Pages!Market!Settled, Market!Accepts, Pages!Market!Accepts,
      Market!Load, Pages!Market!Load, Market!Loading, Pages!Market!Loading, Market!Slots,
      Pages!Market!Slots
  <2>10. \A t : Market!Refused(t) <=> Pages!Market!Refused(t)
    BY Zenon DEF Market!Refused, Pages!Market!Refused, Market!chain, Pages!Market!chain
  <2>11. \A o : Market!Chain(o) <=> Pages!Market!Chain(o)
    BY Zenon DEF Market!Chain, Pages!Market!Chain
  <2> QED
    BY <2>1, <2>2, <2>3, <2>4, <2>5, <2>6, <2>7, <2>8, <2>9, <2>10, <2>11, Zenon DEF
      Market!Next, Pages!Market!Next, Market!Slots, Pages!Market!Slots
<1>2. Market!MarketSound <=> Pages!Market!MarketSound
  BY Zenon DEF Market!MarketSound, Pages!Market!MarketSound, Market!OffersShown,
    Pages!Market!OffersShown, Market!NoSilentEmpty, Pages!Market!NoSilentEmpty,
    Market!NoFungibleCards, Pages!Market!NoFungibleCards, Market!Shows, Pages!Market!Shows
<1> QED
  BY <1>1, <1>2

(* A payment that is said not to have been made was not and will not be,   *)
(* and the user's rule never pays twice (api/bitcoin/send.ts).             *)
THEOREM SendSoundHolds == Spec => []SendSound
<1>1. Spec /\ area = "send" => Pages!Send!Spec /\ [](area = "send")
  <2>1. Init /\ area = "send" => Pages!Send!Init
    BY DEF Init
  <2>2. area = "send" /\ [Next]_vars => [Pages!Send!Next]_(Pages!Send!vars) /\ (area = "send")'
    BY DEF Next, vars, Pages!Send!vars
  <2> QED
    BY <2>1, <2>2, PTL DEF Spec, Pages!Send!Spec
<1>2. Spec /\ ~(area = "send") => [](~(area = "send"))
  <2>1. ~(area = "send") /\ [Next]_vars => (~(area = "send"))'
    BY DEF Next, vars
  <2> QED
    BY <2>1, PTL DEF Spec
<1>3. Pages!Send!BtcSendConstants
  BY DEF Pages!Send!BtcSendConstants
<1>4. Pages!Send!Spec => [](Pages!Send!RefusedMeansUnsent /\ Pages!Send!PaysOnce)
  BY <1>3, Pages!PaymentsAreSound
<1>5. Pages!Send!RefusedMeansUnsent /\ Pages!Send!PaysOnce => SendSound
  BY DEF SendSound
<1>6. ~(area = "send") => SendSound
  BY DEF SendSound
<1> QED
  BY <1>1, <1>2, <1>4, <1>5, <1>6, PTL

(* A toast's verdict is the chain's, and stands (toastStore.ts).           *)
THEOREM ToastSoundHolds == Spec => ToastSound
<1> DEFINE Here == area = "toast"
           Sound == Here => Toast!VerdictTrue
           Stands == Here => Toast!VerdictStands
<1>1. Spec /\ Here => Pages!Toast!Spec /\ []Here
  <2>1. Init /\ Here => Pages!Toast!Init
    BY DEF Init
  <2>2. Here /\ [Next]_vars => [Pages!Toast!Next]_(Pages!Toast!vars) /\ Here'
    BY ToastSame DEF Next, vars, Pages!Toast!vars
  <2> QED
    BY <2>1, <2>2, PTL DEF Spec, Pages!Toast!Spec
<1>2. Spec /\ ~Here => [](~Here)
  <2>1. ~Here /\ [Next]_vars => (~Here)'
    BY DEF Next, vars
  <2> QED
    BY <2>1, PTL DEF Spec
<1>3. Pages!Toast!Spec
        => []Pages!Toast!VerdictTrue /\ [][Pages!Toast!VerdictStands]_(Pages!Toast!vars)
  BY Pages!VerdictsAreTrue
<1>4. [Pages!Toast!VerdictStands]_(Pages!Toast!vars) => [Stands]_vars
  BY ToastSame DEF Pages!Toast!VerdictStands, Pages!Toast!vars
<1>5. ~Here => [Stands]_vars
  OBVIOUS
<1>6. (Pages!Toast!VerdictTrue => Sound) /\ (~Here => Sound)
  BY ToastSame
<1>7. Spec => []Sound
  BY <1>1, <1>2, <1>3, <1>6, PTL
<1>8. Spec => [][Stands]_vars
  BY <1>1, <1>2, <1>3, <1>4, <1>5, PTL
<1> QED
  BY <1>7, <1>8 DEF ToastSound

(* As long as the process lives, a code moves funds for one request, or    *)
(* for two of which just one had presented it before its period (its burn  *)
(* ends first, lib/step-up.ts:106); an answer tells which of its actions   *)
(* the daemon carried out (api/transact routes).                           *)
THEOREM SubmitSoundHolds == Spec => []SubmitSound
<1>1. Spec /\ area = "submit" => Pages!Submit!Spec /\ [](area = "submit")
  <2>1. Init /\ area = "submit" => Pages!Submit!Init
    BY DEF Init
  <2>2. area = "submit" /\ [Next]_vars
          => [Pages!Submit!Next]_(Pages!Submit!vars) /\ (area = "submit")'
    BY DEF Next, vars, Pages!Submit!vars
  <2> QED
    BY <2>1, <2>2, PTL DEF Spec, Pages!Submit!Spec
<1>2. Spec /\ ~(area = "submit") => [](~(area = "submit"))
  <2>1. ~(area = "submit") /\ [Next]_vars => (~(area = "submit"))'
    BY DEF Next, vars
  <2> QED
    BY <2>1, PTL DEF Spec
<1>3. Pages!Submit!Spec => [](Pages!Submit!OneRequestPerCode /\ Pages!Submit!AnswerTellsTruth)
  BY Pages!CodesPayOnce, SubmitAssumption
<1>4. Pages!Submit!OneRequestPerCode /\ Pages!Submit!AnswerTellsTruth => SubmitSound
  BY DEF SubmitSound
<1>5. ~(area = "submit") => SubmitSound
  BY DEF SubmitSound
<1> QED
  BY <1>1, <1>2, <1>3, <1>4, <1>5, PTL

(* The path of the wallet always holds a complete wallet, and "recovered"  *)
(* is said only of the wallet in use (wallet-recovery.ts).                 *)
THEOREM FileSoundHolds == Spec => FileSound
<1> DEFINE Here == area = "file"
           Sound == Here => Pages!File!CanonWhole
           Served == Here => Pages!File!RecoveredIsServed
<1>1. Spec /\ Here => Pages!File!Spec /\ []Here
  <2>1. Init /\ Here => Pages!File!Init
    BY DEF Init
  <2>2. Here /\ [Next]_vars => [Pages!File!Next]_(Pages!File!vars) /\ Here'
    BY DEF Next, vars, Pages!File!vars
  <2> QED
    BY <2>1, <2>2, PTL DEF Spec, Pages!File!Spec
<1>2. Spec /\ ~Here => [](~Here)
  <2>1. ~Here /\ [Next]_vars => (~Here)'
    BY DEF Next, vars
  <2> QED
    BY <2>1, PTL DEF Spec
<1>3. Pages!File!Spec
        => []Pages!File!CanonWhole /\ [][Pages!File!RecoveredIsServed]_(Pages!File!vars)
  BY Pages!WalletStaysWhole, FileAssumption
<1>4. [Pages!File!RecoveredIsServed]_(Pages!File!vars) => [Served]_vars
  BY DEF Pages!File!RecoveredIsServed, Pages!File!vars
<1>5. ~Here => [Served]_vars
  OBVIOUS
<1>6. (Pages!File!CanonWhole => Sound) /\ (~Here => Sound)
  OBVIOUS
<1>7. Spec => []Sound
  BY <1>1, <1>2, <1>3, <1>6, PTL
<1>8. Spec => [][Served]_vars
  BY <1>1, <1>2, <1>3, <1>4, <1>5, PTL
<1> QED
  BY <1>7, <1>8 DEF FileSound

(* A code is not spent on a request that is sure to be refused, except by  *)
(* the forms that CodeNotWasted names: those that drop the token's         *)
(* decimals, and those with an amount larger than the daemon decodes       *)
(* (OrderBook.tsx:252, stake-trade.ts:45, validation.ts:20).               *)
THEOREM CodeNotWastedHolds == Spec => []CodeNotWasted
<1>1. Spec /\ area = "forms" => Pages!Forms!Spec /\ [](area = "forms")
  <2>1. Init /\ area = "forms" => Pages!Forms!Init
    BY DEF Init
  <2>2. area = "forms" /\ [Next]_vars
          => [Pages!Forms!Next]_(Pages!Forms!vars) /\ (area = "forms")'
    BY DEF Next, vars, Pages!Forms!vars
  <2> QED
    BY <2>1, <2>2, PTL DEF Spec, Pages!Forms!Spec
<1>2. Spec /\ ~(area = "forms") => [](~(area = "forms"))
  <2>1. ~(area = "forms") /\ [Next]_vars => (~(area = "forms"))'
    BY DEF Next, vars
  <2> QED
    BY <2>1, PTL DEF Spec
<1>3. Pages!Forms!Spec => []Pages!Forms!CodeNotWasted
  BY Pages!CodesAreNotWasted, FormsAssumption
<1>4. Pages!Forms!CodeNotWasted => CodeNotWasted
  BY DEF CodeNotWasted
<1>5. ~(area = "forms") => CodeNotWasted
  BY DEF CodeNotWasted
<1> QED
  BY <1>1, <1>2, <1>3, <1>4, <1>5, PTL

(* For a user who waits for an order and a load before changing the pair,  *)
(* a market order trades the token its button names, and amounts are       *)
(* checked with that token's decimals (OrderBook.tsx). A limit order need  *)
(* not: see PrefillDoesNotSurvive.                                         *)
THEOREM TradesWhatItShowsHolds == Spec => []TradesWhatItShows
<1>1. Spec /\ area = "book" => Pages!Book!Spec /\ [](area = "book")
  <2>1. Init /\ area = "book" => Pages!Book!Init
    BY DEF Init
  <2>2. area = "book" /\ [Next]_vars => [Pages!Book!Next]_(Pages!Book!vars) /\ (area = "book")'
    BY DEF Next, vars, Pages!Book!vars
  <2> QED
    BY <2>1, <2>2, PTL DEF Spec, Pages!Book!Spec
<1>2. Spec /\ ~(area = "book") => [](~(area = "book"))
  <2>1. ~(area = "book") /\ [Next]_vars => (~(area = "book"))'
    BY DEF Next, vars
  <2> QED
    BY <2>1, PTL DEF Spec
<1>3. Pages!Book!Spec => []Pages!Book!TradesWhatItShows
  BY Pages!OrdersAreAsShown, BookAssumption
<1>4. Pages!Book!TradesWhatItShows => TradesWhatItShows
  BY DEF TradesWhatItShows
<1>5. ~(area = "book") => TradesWhatItShows
  BY DEF TradesWhatItShows
<1> QED
  BY <1>1, <1>2, <1>3, <1>4, <1>5, PTL

(* While luck lasts, the list of favourites is what the user left in it:   *)
(* the page has read it before a toggle, writes arrive in order with their *)
(* answers, and an import runs alone (TokenSearch.tsx, OrderBook.tsx).     *)
THEOREM NoLostUpdateHolds == Spec => []NoLostUpdate
<1>1. Spec /\ area = "stars" => Pages!Stars!Spec /\ [](area = "stars")
  <2>1. Init /\ area = "stars" => Pages!Stars!Init
    BY DEF Init
  <2>2. area = "stars" /\ [Next]_vars
          => [Pages!Stars!Next]_(Pages!Stars!vars) /\ (area = "stars")'
    BY DEF Next, vars, Pages!Stars!vars
  <2> QED
    BY <2>1, <2>2, PTL DEF Spec, Pages!Stars!Spec
<1>2. Spec /\ ~(area = "stars") => [](~(area = "stars"))
  <2>1. ~(area = "stars") /\ [Next]_vars => (~(area = "stars"))'
    BY DEF Next, vars
  <2> QED
    BY <2>1, PTL DEF Spec
<1>3. Pages!Stars!Spec => []Pages!Stars!NoLostUpdate
  BY Pages!ListIsAsLeft, StarsAssumption
<1>4. Pages!Stars!NoLostUpdate => NoLostUpdate
  BY DEF NoLostUpdate
<1>5. ~(area = "stars") => NoLostUpdate
  BY DEF NoLostUpdate
<1> QED
  BY <1>1, <1>2, <1>3, <1>4, <1>5, PTL

(* A row of an issued token goes only when the user removes it, and what a *)
(* scan has looked up becomes a row, unless the user removes another one   *)
(* before it is drawn (IssuedTokensPanel.tsx:173, :216, :267).             *)
THEOREM RowsKeptHolds == Spec => RowsKept
<1> DEFINE Here == area = "issued"
           Kept == Here => Pages!Issued!RowsKept
<1>1. Spec /\ Here => (Pages!Issued!Init /\ [][Pages!Issued!Next]_(Pages!Issued!vars)) /\ []Here
  <2>1. Init /\ Here => Pages!Issued!Init
    BY DEF Init
  <2>2. Here /\ [Next]_vars => [Pages!Issued!Next]_(Pages!Issued!vars) /\ Here'
    BY DEF Next, vars, Pages!Issued!vars, Pages!Issued!chain, Pages!Issued!page
  <2> QED
    BY <2>1, <2>2, PTL DEF Spec
<1>2. Spec /\ ~Here => [](~Here)
  <2>1. ~Here /\ [Next]_vars => (~Here)'
    BY DEF Next, vars
  <2> QED
    BY <2>1, PTL DEF Spec
<1>3. (Pages!Issued!Init /\ [][Pages!Issued!Next]_(Pages!Issued!vars))
        => [][Pages!Issued!RowsKept]_(Pages!Issued!vars)
  BY Pages!RowsAreKept
<1>4. [Pages!Issued!RowsKept]_(Pages!Issued!vars) => [Kept]_vars
  BY DEF Pages!Issued!RowsKept, Pages!Issued!vars, Pages!Issued!chain, Pages!Issued!page,
    Pages!Issued!Free
<1>5. ~Here => [Kept]_vars
  OBVIOUS
<1>6. Spec => [][Kept]_vars
  BY <1>1, <1>2, <1>3, <1>4, <1>5, PTL
<1> QED
  BY <1>6 DEF RowsKept

(* The card shows its own request and is polled while a form waits for it, *)
(* unless the storage refused the record or another tab took it; and no    *)
(* deposit disappears from its owner's sight, unless the page was          *)
(* reloaded, the storage refused its row or the wallet failed after        *)
(* sending it (BridgePanel.tsx).                                           *)
THEOREM BridgeSoundHolds == Spec => []BridgeSound
<1>1. Spec /\ area = "bridge" => Pages!Card!Spec /\ [](area = "bridge")
  <2>1. Init /\ area = "bridge" => Pages!Card!Init
    BY DEF Init
  <2>2. area = "bridge" /\ [Next]_vars
          => [Pages!Card!Next]_(Pages!Card!vars) /\ (area = "bridge")'
    BY CardSame DEF Next, vars, Pages!Card!vars
  <2> QED
    BY <2>1, <2>2, PTL DEF Spec, Pages!Card!Spec
<1>2. Spec /\ ~(area = "bridge") => [](~(area = "bridge"))
  <2>1. ~(area = "bridge") /\ [Next]_vars => (~(area = "bridge"))'
    BY DEF Next, vars
  <2> QED
    BY <2>1, PTL DEF Spec
<1>3. Pages!Card!Spec => [](Pages!Card!CardIsLive /\ Pages!Card!DepositAccounted)
  BY Pages!DepositsStayVisible, CardAssumption
<1>4. Pages!Card!CardIsLive /\ Pages!Card!DepositAccounted => BridgeSound
  BY CardSame DEF BridgeSound
<1>5. ~(area = "bridge") => BridgeSound
  BY DEF BridgeSound
<1> QED
  BY <1>1, <1>2, <1>3, <1>4, <1>5, PTL

(* What is deposited is what was confirmed, within the balance and, as     *)
(* doubles compare (BridgePanel.tsx:648), within the cap, to an address of *)
(* the right chain (:687, :700); a fill stays within a cap that can be     *)
(* read in the asset's units (:445); and what is issued is what its dialog *)
(* showed (IssueNFTModal.tsx:83).                                          *)
THEOREM FormSoundHolds == Spec => []FormSound
<1>1. Spec => [](area = "deposit" => Pages!Deposit!FormSound)
  <2>1. Spec /\ area = "deposit" => Pages!Deposit!Spec /\ [](area = "deposit")
    <3>1. Init /\ area = "deposit" => Pages!Deposit!Init
      BY DEF Init
    <3>2. area = "deposit" /\ [Next]_vars
            => [Pages!Deposit!Next]_(Pages!Deposit!vars) /\ (area = "deposit")'
      BY DepositSame
      DEF Next, vars, Pages!Deposit!vars, Pages!Deposit!wallet, Pages!Deposit!order
    <3> QED
      BY <3>1, <3>2, PTL DEF Spec, Pages!Deposit!Spec
  <2>2. Spec /\ ~(area = "deposit") => [](~(area = "deposit"))
    <3>1. ~(area = "deposit") /\ [Next]_vars => (~(area = "deposit"))'
      BY DEF Next, vars
    <3> QED
      BY <3>1, PTL DEF Spec
  <2>3. Pages!Deposit!Spec => []Pages!Deposit!FormSound
    BY Pages!DepositsAreAsConfirmed, DepositAssumption
  <2> QED
    BY <2>1, <2>2, <2>3, PTL
<1>2. Spec => [](area = "issue" => Pages!Issue!IssuedAsShown)
  <2>1. Spec /\ area = "issue" => Pages!Issue!Spec /\ [](area = "issue")
    <3>1. Init /\ area = "issue" => Pages!Issue!Init
      BY DEF Init
    <3>2. area = "issue" /\ [Next]_vars
            => [Pages!Issue!Next]_(Pages!Issue!vars) /\ (area = "issue")'
      BY DEF Next, vars, Pages!Issue!vars
    <3> QED
      BY <3>1, <3>2, PTL DEF Spec, Pages!Issue!Spec
  <2>2. Spec /\ ~(area = "issue") => [](~(area = "issue"))
    <3>1. ~(area = "issue") /\ [Next]_vars => (~(area = "issue"))'
      BY DEF Next, vars
    <3> QED
      BY <3>1, PTL DEF Spec
  <2>3. Pages!Issue!Spec => []Pages!Issue!IssuedAsShown
    BY Pages!IssuesAreAsShown
  <2> QED
    BY <2>1, <2>2, <2>3, PTL
<1>3. (area = "deposit" => Pages!Deposit!FormSound)
        /\ (area = "issue" => Pages!Issue!IssuedAsShown)
         => FormSound
  BY DepositSame DEF FormSound
<1> QED
  BY <1>1, <1>2, <1>3, PTL

(* The page says a Bitcoin wallet is there only when it is, unless another *)
(* create was still opening it or took its seed away (main.rs:653); the    *)
(* keys are locked again after a link, and the words come before the       *)
(* address (BitcoinWallet.tsx, link-seed.ts); the words of a new wallet    *)
(* are shown whatever Bitcoin does, and "the same seed" is said of one     *)
(* seed only (setup.astro:48, :62).                                        *)
THEOREM SetupSoundHolds == Spec => []SetupSound
<1>1. Spec => [](area = "setup" => Pages!Setup!SetupSound)
  <2>1. Spec /\ area = "setup" => Pages!Setup!Spec /\ [](area = "setup")
    <3>1. Init /\ area = "setup" => Pages!Setup!Init
      BY DEF Init
    <3>2. area = "setup" /\ [Next]_vars
            => [Pages!Setup!Next]_(Pages!Setup!vars) /\ (area = "setup")'
      BY DEF Next, vars, Pages!Setup!vars, Pages!Setup!server
    <3> QED
      BY <3>1, <3>2, PTL DEF Spec, Pages!Setup!Spec
  <2>2. Spec /\ ~(area = "setup") => [](~(area = "setup"))
    <3>1. ~(area = "setup") /\ [Next]_vars => (~(area = "setup"))'
      BY DEF Next, vars
    <3> QED
      BY <3>1, PTL DEF Spec
  <2>3. Pages!Setup!Spec => []Pages!Setup!SetupSound
    BY Pages!SetupsAreSound
  <2> QED
    BY <2>1, <2>2, <2>3, PTL
<1>2. Spec => [](area = "words" => Pages!Words!SetupTold)
  <2>1. Spec /\ area = "words" => Pages!Words!Spec /\ [](area = "words")
    <3>1. Init /\ area = "words" => Pages!Words!Init
      BY DEF Init
    <3>2. area = "words" /\ [Next]_vars
            => [Pages!Words!Next]_(Pages!Words!vars) /\ (area = "words")'
      BY DEF Next, vars, Pages!Words!vars
    <3> QED
      BY <3>1, <3>2, PTL DEF Spec, Pages!Words!Spec
  <2>2. Spec /\ ~(area = "words") => [](~(area = "words"))
    <3>1. ~(area = "words") /\ [Next]_vars => (~(area = "words"))'
      BY DEF Next, vars
    <3> QED
      BY <3>1, PTL DEF Spec
  <2>3. Pages!Words!Spec => []Pages!Words!SetupTold
    BY Pages!WordsAreTold, WordsAssumption
  <2> QED
    BY <2>1, <2>2, <2>3, PTL
<1>3. (area = "setup" => Pages!Setup!SetupSound) /\ (area = "words" => Pages!Words!SetupTold)
        => SetupSound
  BY DEF SetupSound
<1> QED
  BY <1>1, <1>2, <1>3, PTL

(* An offer that stood all along is shown, to its owner and to buyers      *)
(* (NFTMarketplace.tsx:527, :597).                                         *)
THEOREM MarketSoundHolds == Spec => []MarketSound
<1>1. Spec /\ area = "market" => Pages!Market!Spec /\ [](area = "market")
  <2>1. Init /\ area = "market" => Pages!Market!Init
    BY DEF Init
  <2>2. area = "market" /\ [Next]_vars
          => [Pages!Market!Next]_(Pages!Market!vars) /\ (area = "market")'
    BY MarketSame DEF Next, vars, Pages!Market!vars, Pages!Market!chain
  <2> QED
    BY <2>1, <2>2, PTL DEF Spec, Pages!Market!Spec
<1>2. Spec /\ ~(area = "market") => [](~(area = "market"))
  <2>1. ~(area = "market") /\ [Next]_vars => (~(area = "market"))'
    BY DEF Next, vars
  <2> QED
    BY <2>1, PTL DEF Spec
<1>3. Pages!Market!Spec => []Pages!Market!MarketSound
  BY Pages!OffersAreShown, MarketAssumption
<1>4. Pages!Market!MarketSound => MarketSound
  BY MarketSame DEF MarketSound
<1>5. ~(area = "market") => MarketSound
  BY DEF MarketSound
<1> QED
  BY <1>1, <1>2, <1>3, <1>4, <1>5, PTL
=============================================================================
