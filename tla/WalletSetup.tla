----------------------------- MODULE WalletSetup -----------------------------
(***************************************************************************)
(* POST of setup.astro: a wallet is created, imported from a phrase or     *)
(* uploaded, and the Bitcoin wallet is made of the same phrase, with       *)
(* retries (bitcoin-wallet.ts).  A form may be submitted twice, answers    *)
(* get lost, the daemon and the server restart.  The limiter in front is   *)
(* Throttles', what follows the words on the screen BtcSetup's, what the   *)
(* daemon does inside one recovery WalletFile's.                           *)
(*                                                                         *)
(* The phrase a create generates and the file an upload brings are named   *)
(* after the request.                                                      *)
(***************************************************************************)
EXTENDS Integers

CONSTANTS
    Posts,        \* requests
    None,
    MaxAttempts,  \* attempts
    MaxFaults     \* bound: lost answers, outages, restarts

VARIABLES
    open,      \* the daemon's one slot: whose wallet, and whether its file was whole
    walletAt,  \* whose phrase the wallet at WALLET_PATH has
    uploadAt,  \* the file at destPath, in the same form as open
    btc,       \* whose phrase the Bitcoin sidecar holds
    post,
    shown,     \* phrases that reached a browser
    lost,      \* phrases whose way to the browser broke
    faults

vars == <<open, walletAt, uploadAt, btc, post, shown, lost, faults>>

daemon == <<open, walletAt>>

Idle == [kind |-> None, at |-> "idle", tries |-> 0, note |-> None]

Init ==
    /\ open = None /\ walletAt = None /\ uploadAt = None
    /\ btc \in {None, "other"}
    /\ post = [p \in Posts |-> Idle]
    /\ shown = {} /\ lost = {}
    /\ faults = 0

At(p, kind, at) == post[p].kind = kind /\ post[p].at = at

Go(p, at) == post' = [post EXCEPT ![p].at = at]

End(p, note) == post' = [post EXCEPT ![p].at = "page", ![p].note = note]

Phrase(p) == IF post[p].kind = "import" THEN "typed" ELSE p

Fault == faults < MaxFaults /\ faults' = faults + 1

-----------------------------------------------------------------------------
(* The checks of a form end it with an error before anything is called; an *)
(* upload over an earlier one has to be confirmed.                         *)
Create(p) ==
    /\ post[p] = Idle
    /\ post' = [post EXCEPT ![p].kind = "create", ![p].at = "rpc"]
    /\ UNCHANGED <<daemon, uploadAt, btc, shown, lost, faults>>

Import(p) ==
    /\ post[p] = Idle
    /\ post' = [post EXCEPT ![p].kind = "import", ![p].at = "rpc"]
    /\ UNCHANGED <<daemon, uploadAt, btc, shown, lost, faults>>

Upload(p, confirmed) ==
    /\ post[p] = Idle
    /\ confirmed \/ uploadAt = None
    /\ post' = [post EXCEPT ![p].kind = "upload", ![p].at = "write"]
    /\ UNCHANGED <<daemon, uploadAt, btc, shown, lost, faults>>

(* wallet_create, wallet_recover: the daemon refuses while a wallet is     *)
(* open, and to write over a file.                                         *)
Refused(p) ==
    /\ post[p].at = "rpc"
    /\ open # None \/ walletAt # None
    /\ Go(p, "error")
    /\ UNCHANGED <<daemon, uploadAt, btc, shown, lost, faults>>

Makes(p) ==
    /\ post[p].at = "rpc"
    /\ open = None /\ walletAt = None
    /\ open' = [of |-> Phrase(p), whole |-> TRUE]
    /\ walletAt' = Phrase(p)

Made(p) ==
    /\ Makes(p)
    /\ Go(p, "btc")
    /\ UNCHANGED <<uploadAt, btc, shown, lost, faults>>

MadeUnheard(p) ==
    /\ Makes(p)
    /\ Go(p, "error")
    /\ lost' = lost \cup {Phrase(p)}
    /\ Fault
    /\ UNCHANGED <<uploadAt, btc, shown>>

-----------------------------------------------------------------------------
(* initBtcWalletFromSeed.  The sidecar's create is one step here: it takes *)
(* the phrase unless it has one.  What was done may go unheard, as a 503   *)
(* or 504; the attempt is then repeated.                                   *)
NoBitcoin(p) ==
    /\ post[p].at = "btc" /\ post[p].tries = 0
    /\ End(p, None)
    /\ UNCHANGED <<daemon, uploadAt, btc, shown, lost, faults>>

Taken(p) == btc' = IF btc = None THEN Phrase(p) ELSE btc

(* The note of the page: "already exists" claims nothing about the phrase. *)
BtcAnswered(p) ==
    /\ post[p].at = "btc"
    /\ Taken(p)
    /\ End(p, IF btc = None THEN "same" ELSE "configured")
    /\ UNCHANGED <<daemon, uploadAt, shown, lost, faults>>

BtcRefused(p) ==
    /\ post[p].at = "btc"
    /\ End(p, "failed")
    /\ UNCHANGED <<daemon, uploadAt, btc, shown, lost, faults>>

BtcUnheard(p) ==
    /\ post[p].at = "btc"
    /\ Taken(p) \/ UNCHANGED btc
    /\ post' = IF post[p].tries + 1 = MaxAttempts
               THEN [post EXCEPT ![p].at = "page", ![p].note = "failed"]
               ELSE [post EXCEPT ![p].tries = @ + 1]
    /\ Fault
    /\ UNCHANGED <<daemon, uploadAt, shown, lost>>

(* create_success renders the words, whatever became of Bitcoin.           *)
Page(p) ==
    /\ post[p].at = "page"
    /\ Go(p, "done")
    /\ shown' = IF post[p].kind = "create" THEN shown \cup {p} ELSE shown
    /\ UNCHANGED <<daemon, uploadAt, btc, lost, faults>>

PageLost(p) ==
    /\ post[p].at = "page"
    /\ Go(p, "error")
    /\ lost' = lost \cup {Phrase(p)}
    /\ Fault
    /\ UNCHANGED <<daemon, uploadAt, btc, shown>>

-----------------------------------------------------------------------------
(* The upload is written under a name of its own, which a failure removes, *)
(* and moved into place whole.                                             *)
Write(p) ==
    /\ At(p, "upload", "write")
    /\ Go(p, "rename") \/ Go(p, "error")
    /\ UNCHANGED <<daemon, uploadAt, btc, shown, lost, faults>>

Rename(p) ==
    /\ At(p, "upload", "rename")
    /\ uploadAt' = [of |-> p, whole |-> TRUE]
    /\ Go(p, "open")
    /\ UNCHANGED <<daemon, btc, shown, lost, faults>>

(* openWallet of what is at destPath by now.                               *)
Open(p) ==
    /\ At(p, "upload", "open")
    /\ IF open = None
       THEN open' = uploadAt /\ End(p, None)
       ELSE Go(p, "error") /\ UNCHANGED open
    /\ UNCHANGED <<walletAt, uploadAt, btc, shown, lost, faults>>

-----------------------------------------------------------------------------
(* The daemon comes back with no wallet open; the server forgets what it   *)
(* was doing; the Bitcoin page makes its own wallet.                       *)
DaemonRestarts ==
    /\ open # None
    /\ open' = None
    /\ Fault
    /\ UNCHANGED <<walletAt, uploadAt, btc, post, shown, lost>>

Working == {p \in Posts : post[p].at \notin {"idle", "done", "error"}}

ServerRestarts ==
    /\ Working # {}
    /\ post' = [p \in Posts |-> IF p \in Working THEN [post[p] EXCEPT !.at = "error"]
                                ELSE post[p]]
    /\ lost' = lost \cup {Phrase(p) : p \in {q \in Working : post[q].at \in {"btc", "page"}}}
    /\ Fault
    /\ UNCHANGED <<daemon, uploadAt, btc, shown>>

OtherBtcWallet ==
    /\ btc = None
    /\ btc' = "other"
    /\ UNCHANGED <<daemon, uploadAt, post, shown, lost, faults>>

Next ==
    \/ \E p \in Posts :
          \/ Create(p) \/ Import(p) \/ \E c \in BOOLEAN : Upload(p, c)
          \/ Refused(p) \/ Made(p) \/ MadeUnheard(p)
          \/ NoBitcoin(p) \/ BtcAnswered(p) \/ BtcRefused(p) \/ BtcUnheard(p)
          \/ Page(p) \/ PageLost(p)
          \/ Write(p) \/ Rename(p) \/ Open(p)
    \/ DaemonRestarts \/ ServerRestarts \/ OtherBtcWallet

Spec == Init /\ [][Next]_vars

-----------------------------------------------------------------------------
(* The words of a generated wallet are shown once: no request that made    *)
(* one ends without showing them, unless an answer was lost on the way; a  *)
(* Bitcoin wallet that fails is no reason (setup.astro:48).                *)
WordsShown ==
    \A p \in Posts :
        walletAt = p /\ p \notin Working => p \in shown \cup lost

(* "The same seed was configured for the BTC wallet" is said only of the   *)
(* phrase both wallets have (setup.astro:62).                              *)
SameSeedTrue ==
    \A p \in Posts :
        post[p].note = "same" => btc = Phrase(p) /\ walletAt = Phrase(p)

(* The daemon never opens a file that is still being written               *)
(* (setup.astro:178).                                                      *)
OpensWhole == open # None => open.whole

SetupTold == WordsShown /\ SameSeedTrue /\ OpensWhole

-----------------------------------------------------------------------------
(* The inductive invariant behind it, which PageProofs proves from this    *)
(* assumption: a wallet of generated words belongs to the create that made *)
(* it, which still works or has shown them or lost an answer.              *)
WalletSetupConstants ==
    /\ None \notin Posts \cup {"typed", "same"}
    /\ "typed" \notin Posts

Stages == {"idle", "rpc", "write", "rename", "open", "btc", "page", "done", "error"}

TypeOK ==
    post \in [Posts -> [kind : {None, "create", "import", "upload"}, at : Stages, tries : Nat,
                        note : {None, "same", "configured", "failed"}]]

WordsHeld ==
    \A p \in Posts :
        walletAt = p =>
            /\ post[p].kind = "create" /\ post[p].at \in {"btc", "page", "done", "error"}
            /\ post[p].at \in {"done", "error"} => p \in shown \cup lost

(* Until its page is sent, no other phrase takes the wallet's place.       *)
OwnWallet ==
    \A p \in Posts :
        /\ post[p].at = "rpc" => post[p].kind \in {"create", "import"}
        /\ post[p].at = "btc" => walletAt = Phrase(p)
        /\ post[p].at \in {"idle", "rpc", "write", "rename", "open"} => post[p].note = None

UploadWhole == uploadAt # None => uploadAt.whole

WalletSetupInv ==
    TypeOK /\ WordsHeld /\ OwnWallet /\ SameSeedTrue /\ UploadWhole /\ OpensWhole
=============================================================================
