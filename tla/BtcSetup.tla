------------------------------- MODULE BtcSetup -------------------------------
(***************************************************************************)
(* How the Bitcoin wallet comes to be: the forms of BitcoinWallet.tsx, the *)
(* backup step that follows (SeedBackupStep.tsx), POST /api/bitcoin/wallet *)
(* and POST /api/bitcoin/link-seed, which unlocks the Mintlayer keys, reads*)
(* the phrase and hands it to the sidecar.  Of a create inside the sidecar *)
(* (BtcSidecar's subject) what callers can tell apart is kept: the seed    *)
(* file is there before the wallet is open, and may be removed again.      *)
(***************************************************************************)
EXTENDS Integers

CONSTANTS
    Tabs,       \* open Bitcoin pages
    Others,     \* callers whose pages are left out
    MaxTries,   \* bound: submissions
    MaxFaults   \* bound: outages, lost answers, failing calls, the session's end

VARIABLES
    wallet,     \* whose seed file there is: "none", "generated", "typed", "linked"
    locked,     \* the Mintlayer private keys
    session,    \* valid
    page,
    req,        \* the submission of each page, as its handler has it
    reads,      \* the overview fetches of each page: its handler's and the others
    tries, faults,
    (* Observers: a lock call failed; who was last told of a wallet while  *)
    (* another create was still opening it, or whose seed file was taken   *)
    (* away by a create that never made it.                                *)
    leftOpen, doubted

server == <<wallet, locked, session, leftOpen, doubted>>
vars == <<server, page, req, reads, tries, faults>>

Callers == Tabs \cup Others
Submissions == {"generated", "typed", "linked"}

(* What a fetch is answered.  "refused" is a 409 or 400 in JSON other than *)
(* "already exists"; "gone" a 502, 503 or 504 in JSON; "code" the step-up's*)
(* 401; "password" link-seed's 403; "outage" an error page; "expired" the  *)
(* redirect to /login of a session that is over.                           *)
Bounces(answer) == answer \in {"code", "password", "outage", "expired"}

(* at: "load" (no overview yet), "ready", "error" (loadError), "login".    *)
(* words: newMnemonic; given, proved: observers of this page life.         *)
Fresh == [at |-> "load", exists |-> "unknown", words |-> FALSE,
          verified |-> FALSE, phase |-> "display", modal |-> FALSE,
          coded |-> FALSE, says |-> "nothing", left |-> "nothing",
          given |-> FALSE, proved |-> FALSE]
NoReq == [kind |-> "none", at |-> "idle", coded |-> FALSE, answer |-> "none"]
Opening == [own |-> "free", other |-> "asked"]

Init ==
    /\ wallet = "none" /\ locked \in BOOLEAN /\ session = TRUE /\ leftOpen = FALSE /\ doubted = {}
    /\ page = [t \in Tabs |-> Fresh]
    /\ req = [t \in Callers |-> NoReq]
    /\ reads = [t \in Tabs |-> Opening]
    /\ tries = 0 /\ faults = 0

Fault == faults < MaxFaults /\ faults' = faults + 1
Busy(t) == req[t].at # "idle"
Go(t, stage) == req' = [req EXCEPT ![t].at = stage]

(* api(): a bounce throws the page away, whatever it shows; a handler that *)
(* still works for it goes on.                                             *)
Working(t) == req[t].at \notin {"idle", "answered", "refreshing"}
Bounce(t, answer) ==
    /\ page' = [page EXCEPT ![t] = [Fresh EXCEPT !.at = "login", !.left = answer]]
    /\ req' = IF Working(t) THEN req ELSE [req EXCEPT ![t] = NoReq]
    /\ reads' = [reads EXCEPT ![t] = [own |-> "free", other |-> "free"]]

-----------------------------------------------------------------------------
(* refresh(): the button, the 8 s poll of a scan, the retry after an error.*)
Cleared(p) == IF p.at # "error" THEN p
              ELSE [p EXCEPT !.at = IF p.exists = "unknown" THEN "load" ELSE "ready"]
Refresh(t) ==
    /\ page[t].at \in {"ready", "error"} /\ reads[t].other = "free"
    /\ page' = [page EXCEPT ![t] = Cleared(page[t])]
    /\ reads' = [reads EXCEPT ![t].other = "asked"]
    /\ UNCHANGED <<server, req, tries, faults>>

(* GET /api/bitcoin/overview; a sidecar that cannot be reached gives a null*)
(* status.                                                                 *)
ReadOverview(t, s) ==
    /\ reads[t][s] = "asked"
    /\ \/ /\ \E seen \in IF session THEN {IF wallet = "none" THEN "no" ELSE "yes"}
                         ELSE {"expired"} :
               reads' = [reads EXCEPT ![t][s] = seen]
          /\ UNCHANGED faults
       \/ /\ Fault
          /\ \E seen \in {"down", "gone", "outage"} : reads' = [reads EXCEPT ![t][s] = seen]
    /\ UNCHANGED <<server, page, req, tries>>

Overview(p, seen) ==
    IF seen = "gone" THEN [p EXCEPT !.at = "error", !.phase = "display"]
    ELSE [p EXCEPT !.at = "ready", !.exists = seen]
OverviewAnswered(t, s) ==
    LET seen == reads[t][s]
    IN  /\ seen \notin {"free", "asked"}
        /\ IF Bounces(seen) THEN Bounce(t, seen)
           ELSE /\ page' = [page EXCEPT ![t] = Overview(page[t], seen)]
                /\ reads' = [reads EXCEPT ![t][s] = "free"]
                /\ req' = IF s = "own" THEN [req EXCEPT ![t] = NoReq] ELSE req
        /\ UNCHANGED <<server, tries, faults>>

-----------------------------------------------------------------------------
(* The forms, while no wallet is seen and no words are shown.              *)
SetupShown(p) == p.at = "ready" /\ p.exists = "no" /\ ~p.words
Submit(t, kind) ==
    /\ SetupShown(page[t]) /\ ~Busy(t) /\ tries < MaxTries
    /\ (kind = "typed") = page[t].modal
    /\ tries' = tries + 1
    /\ req' = [req EXCEPT ![t] = [kind |-> kind, at |-> "sent",
                               coded |-> kind = "linked" \/ page[t].coded,
                               answer |-> "none"]]
    /\ page' = [page EXCEPT ![t].says = "nothing"]
    /\ UNCHANGED <<server, reads, faults>>

(* The restore dialog; its 2FA field is the one the create button uses too,*)
(* and only Cancel leaves it filled.                                       *)
Dialog(t) ==
    /\ ~Busy(t)
    /\ \/ /\ SetupShown(page[t]) /\ ~page[t].modal
          /\ page' = [page EXCEPT ![t].modal = TRUE]
       \/ /\ page[t].modal /\ page[t].at = "ready"
          /\ \/ page' = [page EXCEPT ![t].coded = TRUE]
             \/ page' = [page EXCEPT ![t].modal = FALSE, ![t].says = "nothing"]
             \/ page' = [page EXCEPT ![t].modal = FALSE, ![t].says = "nothing",
                                     ![t].coded = FALSE]
    /\ UNCHANGED <<server, req, reads, tries, faults>>

(* Another caller sends what it likes.                                     *)
Send(t) ==
    /\ ~Busy(t) /\ tries < MaxTries
    /\ tries' = tries + 1
    /\ \E kind \in Submissions :
         req' = [req EXCEPT ![t] = [kind |-> kind, at |-> "sent", coded |-> TRUE,
                                    answer |-> "none"]]
    /\ UNCHANGED <<server, page, reads, faults>>
Ended(t) ==
    /\ req[t].at = "answered"
    /\ req' = [req EXCEPT ![t] = NoReq]
    /\ UNCHANGED <<server, page, reads, tries, faults>>

-----------------------------------------------------------------------------
(* The handlers.                                                           *)
Answer(t, answer) == req' = [req EXCEPT ![t].at = "answered", ![t].answer = answer]
Untouched == UNCHANGED <<page, reads, tries>>

(* The session and the code; the link form sends no empty code.            *)
StepUp(t) ==
    /\ req[t].at = "sent"
    /\ IF ~session THEN Answer(t, "expired")
       ELSE \/ Answer(t, "code")
            \/ /\ req[t].coded
               /\ Go(t, IF req[t].kind = "linked" THEN "probe" ELSE "create")
    /\ UNCHANGED <<server, faults>> /\ Untouched

(* A pruned node refuses the link before any key is unlocked.              *)
Probe(t) ==
    /\ req[t].at = "probe"
    /\ Answer(t, "refused") \/ Go(t, "unlock")
    /\ UNCHANGED <<server, faults>> /\ Untouched

(* Every way out of the unlocked section passes through its finally.       *)
FailsUnlocked(t, answer) == Answer(t, answer)
Fails(t, answer) == req' = [req EXCEPT ![t].at = "locking", ![t].answer = answer]

(* A wrong password answers; any other failure leaves it to the reveal.    *)
Unlock(t) ==
    /\ req[t].at = "unlock"
    /\ \/ Fails(t, "password") /\ UNCHANGED <<locked, faults>>
       \/ Go(t, "reveal") /\ locked' = FALSE /\ UNCHANGED faults
       \/ Go(t, "reveal") /\ Fault /\ UNCHANGED locked
    /\ UNCHANGED <<wallet, session, leftOpen, doubted>> /\ Untouched

Reveal(t) ==
    /\ req[t].at = "reveal"
    /\ \/ locked /\ Fails(t, "password")
       \/ ~locked /\ Go(t, "locking")
       \/ Fails(t, "refused")
    /\ UNCHANGED <<server, faults>> /\ Untouched

Lock(t) ==
    /\ req[t].at = "locking"
    /\ \/ locked' = TRUE /\ UNCHANGED <<leftOpen, faults>>
       \/ Fault /\ leftOpen' = TRUE /\ UNCHANGED locked
    /\ Go(t, IF req[t].answer = "none" THEN "create" ELSE "answered")
    /\ UNCHANGED <<wallet, session, doubted>> /\ Untouched

(* The sidecar is asked, up to three times by a link: a seed file is there,*)
(* or it makes one, or refuses the words, or the call fails before it; or  *)
(* it cannot open the file to write and removes what is at the path.       *)
OpenedByOther(t) == \E u \in Callers \ {t} : req[u].at = "opening"
TryAgain(t) == Answer(t, "gone") \/ (req[t].kind = "linked" /\ Go(t, "create"))
Create(t) ==
    /\ req[t].at = "create"
    /\ \/ /\ wallet # "none"
          /\ doubted' = IF OpenedByOther(t) THEN doubted \cup {t} ELSE doubted \ {t}
          /\ Answer(t, "exists") /\ UNCHANGED <<wallet, faults>>
       \/ /\ wallet = "none"
          /\ wallet' = req[t].kind /\ doubted' = doubted \ {t}
          /\ Go(t, "opening") /\ UNCHANGED faults
       \/ /\ wallet = "none" /\ req[t].kind # "generated"
          /\ Answer(t, "refused") /\ UNCHANGED <<wallet, doubted, faults>>
       \/ /\ Fault /\ TryAgain(t) /\ UNCHANGED <<wallet, doubted>>
       \/ /\ Fault /\ Answer(t, "refused")
          /\ wallet' = "none" /\ doubted' = IF wallet = "none" THEN doubted ELSE Callers
    /\ UNCHANGED <<locked, session, leftOpen>> /\ Untouched

(* The wallet is opened; or it is not, and the seed file goes; or the web  *)
(* side has stopped waiting.                                               *)
Open(t) ==
    /\ req[t].at = "opening"
    /\ \/ Answer(t, "ok") /\ UNCHANGED <<wallet, doubted, faults>>
       \/ /\ Fault /\ Answer(t, "refused")
          /\ wallet' = "none" /\ doubted' = IF t \in doubted THEN Callers ELSE doubted
       \/ Fault /\ TryAgain(t) /\ UNCHANGED <<wallet, doubted>>
    /\ UNCHANGED <<locked, session, leftOpen>> /\ Untouched

-----------------------------------------------------------------------------
(* The page is answered, or an error page comes instead.  Only "already    *)
(* exists" is taken for a success whose answer was lost.                   *)
Landed(answer) == answer \in {"ok", "exists"}
Answered(t) ==
    LET r == req[t]  made == r.answer = "ok"  p == page[t]
        q == [p EXCEPT !.coded = IF r.kind = "linked" THEN @ ELSE FALSE]
    IN  /\ r.at = "answered"
        /\ \/ /\ p.at = "login"
              /\ req' = [req EXCEPT ![t] = NoReq]
              /\ UNCHANGED <<page, reads, faults>>
           \/ /\ p.at # "login" /\ Bounces(r.answer) /\ Bounce(t, r.answer) /\ UNCHANGED faults
           \/ /\ p.at # "login" /\ Fault /\ Bounce(t, "outage")
           \/ /\ p.at # "login" /\ ~Bounces(r.answer) /\ UNCHANGED faults
              /\ IF Landed(r.answer)
                 THEN /\ page' = [page EXCEPT ![t] = Cleared(
                           IF r.kind = "linked" THEN [q EXCEPT !.says = "linked"]
                           ELSE IF ~made THEN [q EXCEPT !.says = "there"]
                           ELSE [q EXCEPT !.modal = FALSE, !.says = "there",
                                   !.words = r.kind = "generated", !.verified = FALSE,
                                   !.given = r.kind = "generated"])]
                      /\ Go(t, "refreshing")
                      /\ reads' = [reads EXCEPT ![t].own = "asked"]
                 ELSE /\ page' = [page EXCEPT ![t] = [q EXCEPT !.says = "failed"]]
                      /\ req' = [req EXCEPT ![t] = NoReq]
                      /\ UNCHANGED reads
        /\ UNCHANGED <<server, tries>>

-----------------------------------------------------------------------------
(* SeedBackupStep: the words, then four of them entered, then Continue.    *)
WordsShown(p, phase) == p.words /\ p.at = "ready" /\ p.phase = phase
WrittenDown(t) ==
    /\ WordsShown(page[t], "display")
    /\ page' = [page EXCEPT ![t].phase = "verify"]
    /\ UNCHANGED <<server, req, reads, tries, faults>>
BackToWords(t) ==
    /\ WordsShown(page[t], "verify")
    /\ page' = [page EXCEPT ![t].phase = "display"]
    /\ UNCHANGED <<server, req, reads, tries, faults>>
Verified(t) ==
    /\ WordsShown(page[t], "verify")
    /\ page' = [page EXCEPT ![t].phase = "success", ![t].verified = TRUE,
                            ![t].proved = TRUE]
    /\ UNCHANGED <<server, req, reads, tries, faults>>
Continue(t) ==
    /\ page[t].words /\ page[t].verified /\ page[t].at = "ready"
    /\ reads[t].other = "free"
    /\ page' = [page EXCEPT ![t].words = FALSE, ![t].verified = FALSE,
                            ![t].phase = "display"]
    /\ reads' = [reads EXCEPT ![t].other = "asked"]
    /\ UNCHANGED <<server, req, tries, faults>>

(* The session ends; a page that was left for /login is opened again.      *)
Expire ==
    /\ session /\ Fault /\ session' = FALSE
    /\ UNCHANGED <<wallet, locked, leftOpen, doubted, page, req, reads, tries>>
Return(t) ==
    /\ page[t].at = "login" /\ ~Busy(t)
    /\ session' = TRUE
    /\ page' = [page EXCEPT ![t] = Fresh]
    /\ reads' = [reads EXCEPT ![t] = Opening]
    /\ UNCHANGED <<wallet, locked, leftOpen, doubted, req, tries, faults>>

Handler(t) == StepUp(t) \/ Probe(t) \/ Unlock(t) \/ Reveal(t) \/ Lock(t) \/ Create(t) \/ Open(t)
Next ==
    \/ Expire
    \/ \E t \in Tabs :
         \/ Refresh(t) \/ \E s \in {"own", "other"} : ReadOverview(t, s) \/ OverviewAnswered(t, s)
         \/ \E kind \in Submissions : Submit(t, kind)
         \/ Dialog(t) \/ Answered(t) \/ Continue(t)
         \/ WrittenDown(t) \/ BackToWords(t) \/ Verified(t) \/ Return(t)
    \/ \E t \in Others \ Tabs : Send(t) \/ Ended(t)
    \/ \E t \in Callers : Handler(t)

Spec == Init /\ [][Next]_vars

-----------------------------------------------------------------------------
(* Properties.                                                             *)

(* A page says that a wallet is there only when the sidecar has one: a     *)
(* refusal is never taken for a lost success (BitcoinWallet.tsx:187, :219),*)
(* unless "already exists" was said of another create's file before its    *)
(* wallet was open (main.rs:544, :653), or the file was taken away by a    *)
(* third create that had failed to make its own (:624).                    *)
Claims(t) == page[t].says \in {"there", "linked"}
ToldTrue == \A t \in Tabs : Claims(t) => wallet # "none" \/ t \in doubted

(* The Mintlayer keys are locked whenever no link is between its unlock and*)
(* its finally, and once the first has ended, unless the lock call itself  *)
(* failed (link-seed.ts:27).                                               *)
Within(t) == req[t].at \in {"reveal", "locking"}
Linked == \/ wallet = "linked"
          \/ \E t \in Callers : req[t].kind = "linked" /\ req[t].at \in {"create", "opening"}
KeysRelocked == Linked /\ ~leftOpen /\ (\A t \in Callers : ~Within(t)) => locked

(* The page that was given the words shows no address before four of them  *)
(* were entered (wallet.ts:13, BitcoinWallet.tsx:573).                     *)
AddressShown(p) == p.at = "ready" /\ p.exists = "yes" /\ ~p.words
WordsFirst == \A t \in Tabs : page[t].given /\ AddressShown(page[t]) => page[t].proved

SetupSound == ToldTrue /\ KeysRelocked /\ WordsFirst

(* BitcoinWallet.tsx:32 says that only an authentication signal sends the  *)
(* page to /login: not a mistyped code, not an outage.                     *)
OnlyAuthBounces == \A t \in Tabs : page[t].at = "login" => page[t].left = "expired"

-----------------------------------------------------------------------------
(* The inductive invariant behind it, which PageProofs proves: a page's    *)
(* own read waits for its submission, an answer that claims a wallet has   *)
(* one, and words are taken away only from who entered them.               *)
Answers == {"none", "ok", "exists", "refused", "gone", "code", "password", "outage", "expired"}
Seen == {"free", "asked", "no", "yes", "down", "gone", "outage", "expired"}

PagesOpen ==
    [at : {"load", "ready", "error", "login"}, exists : {"unknown", "no", "yes", "down"},
     words : BOOLEAN, verified : BOOLEAN, phase : {"display", "verify", "success"},
     modal : BOOLEAN, coded : BOOLEAN, says : {"nothing", "failed", "there", "linked"},
     left : {"nothing"} \cup Answers, given : BOOLEAN, proved : BOOLEAN]
Requests ==
    [kind : {"none"} \cup Submissions,
     at : {"idle", "sent", "probe", "create", "opening", "unlock", "reveal", "locking", "answered", "refreshing"},
     coded : BOOLEAN, answer : Answers]

TypeOK ==
    /\ wallet \in {"none"} \cup Submissions
    /\ page \in [Tabs -> PagesOpen]
    /\ req \in [Callers -> Requests]
    /\ reads \in [Tabs -> [own : Seen, other : Seen]]
    /\ doubted \subseteq Callers

RequestsTrue ==
    \A t \in Callers :
        /\ req[t].at # "idle" => req[t].kind \in Submissions
        /\ req[t].at \in {"probe", "unlock", "reveal", "locking"} => req[t].kind = "linked"
        /\ Landed(req[t].answer) => /\ wallet # "none" \/ t \in doubted
                                    /\ req[t].at \in {"answered", "refreshing"}

(* While a create opens its wallet, nobody counts on the file it may take  *)
(* away, its own page included, which is still waiting.                    *)
CountsOnIt(t) == /\ t \notin doubted
                 /\ \/ req[t].at = "opening" \/ Landed(req[t].answer)
                    \/ t \in Tabs /\ Claims(t)
OpeningAlone ==
    \A t \in Callers : req[t].at = "opening" /\ t \notin doubted =>
        wallet # "none" /\ \A u \in Callers \ {t} : ~CountsOnIt(u)
WaitsSilent ==
    \A t \in Tabs : Claims(t) => req[t].at \in {"idle", "refreshing"}

OwnRead == \A t \in Tabs : reads[t].own # "free" => req[t].at = "refreshing"

WordsProved ==
    \A t \in Tabs : /\ page[t].given => page[t].words \/ page[t].proved
                    /\ page[t].verified => page[t].proved

BtcSetupInv ==
    /\ TypeOK /\ RequestsTrue /\ OpeningAlone /\ WaitsSilent /\ OwnRead /\ WordsProved
    /\ ToldTrue /\ KeysRelocked
=============================================================================
