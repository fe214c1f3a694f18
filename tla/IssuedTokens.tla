----------------------------- MODULE IssuedTokens -----------------------------
(***************************************************************************)
(* The page of issued tokens (IssuedTokensPanel.tsx): rows kept in the     *)
(* browser, what the node says of each, and two scans, of the wallet       *)
(* (api/scan-issued-tokens.ts) and of the indexer (api/token-authority.ts),*)
(* that add rows.  Every fetch is answered in its own time: a job goes     *)
(* through its awaits while other jobs, the block stream, the resync timer *)
(* and the user change the same state.                                     *)
(***************************************************************************)
EXTENDS Integers

CONSTANTS
    Tokens,
    Slots,      \* the fetches that may be in flight: "infos", "again",
                \* "wallet", "indexer"
    MaxFails,   \* bound: failing answers
    MaxClicks   \* bound: removals and refreshes by the user

VARIABLES
    tx,         \* the issuance of each token: none, pending, confirmed, dropped
    indexed,    \* the tokens the node has indexed
    stored,     \* the rows, shown and in localStorage: how each was found
    live,       \* id -> "live", "null" (nothing known) or "undefined"
    failed,     \* failedTokenIds
    scanError,
    jobs,       \* the fetches in flight
    fails, clicks

chain == <<tx, indexed>>
page == <<stored, live, failed, scanError>>
vars == <<chain, page, jobs, fails, clicks>>

Rows(how) == {t \in Tokens : how[t] # "none"}

(* A fetch in flight: what it awaits, the rows known when it began, what   *)
(* its last answer said.  At most two lookups of the rows and one scan of  *)
(* each kind are in flight at a time.                                      *)
Free == [at |-> "free", rows |-> {}, found |-> {}]
Sent(rows) == [at |-> "sent", rows |-> rows, found |-> {}]
Lookups == Slots \cap {"infos", "again"}
LookFree == \E s \in Lookups : jobs[s] = Free
Look(rows) == IF jobs["infos"] = Free THEN [jobs EXCEPT !["infos"] = Sent(rows)]
              ELSE [jobs EXCEPT !["again"] = Sent(rows)]

Undefined == [t \in Tokens |-> "undefined"]

(* The page is opened: the rows of localStorage are loaded and everything  *)
(* is asked at once.                                                       *)
Opened(rows) == [s \in Slots |-> IF s = "again" THEN Free ELSE Sent(rows)]
Init ==
    /\ tx \in [Tokens -> {"none", "pending", "confirmed"}]
    /\ indexed = {}
    /\ stored \in [Tokens -> {"none", "issued"}]
    /\ \A t \in Tokens : stored[t] = "issued" => tx[t] # "none"
    /\ live = Undefined /\ failed = {} /\ scanError = FALSE
    /\ jobs = Opened(Rows(stored))
    /\ fails = 0 /\ clicks = 0

-----------------------------------------------------------------------------
(* The node and the time.                                                  *)
Chain ==
    /\ \E t \in Tokens :
         \/ /\ tx[t] = "pending"
            /\ \E s \in {"confirmed", "dropped"} : tx' = [tx EXCEPT ![t] = s]
            /\ UNCHANGED indexed
         \/ /\ tx[t] = "confirmed" /\ t \notin indexed
            /\ indexed' = indexed \cup {t}
            /\ UNCHANGED tx
    /\ UNCHANGED <<page, jobs, fails, clicks>>

(* A token is issued and recorded; the page is then loaded anew.           *)
Issue(t) ==
    /\ tx[t] = "none"
    /\ tx' = [tx EXCEPT ![t] = "pending"]
    /\ stored' = [stored EXCEPT ![t] = "issued"]
    /\ live' = Undefined /\ failed' = {} /\ scanError' = FALSE
    /\ jobs' = Opened(Rows(stored'))
    /\ UNCHANGED <<indexed, fails, clicks>>

-----------------------------------------------------------------------------
(* What the services answer.                                               *)

(* The wallet's unspent issuances.  The token of one whose transaction     *)
(* cannot be read is left out of an answer that is "ok" all the same.      *)
Unspent == {t \in Tokens : tx[t] \in {"pending", "confirmed"}}

(* The tokens the indexer gives the wallet's addresses authority over.     *)
Authority == indexed

(* token-info-client.ts: an answer for every id that was asked; null where *)
(* the node says nothing or a chunk fails.                                 *)
Known(ids) == ids \cap indexed

Become(s, j) == jobs' = [jobs EXCEPT ![s] = j]

(* The node reads what it knows of the rows, or fails; the answer is       *)
(* delivered later.                                                        *)
Read(s) ==
    /\ s \in Lookups /\ jobs[s].at = "sent"
    /\ \E failing \in BOOLEAN :
         /\ failing => fails < MaxFails
         /\ fails' = IF failing THEN fails + 1 ELSE fails
         /\ Become(s, [jobs[s] EXCEPT !.at = "read",
                         !.found = IF failing THEN {} ELSE Known(jobs[s].rows)])
    /\ UNCHANGED <<chain, page, clicks>>

(* loadLiveInfos: the map replaces the old one, a row that is live loses   *)
(* its failure, and rows issued here of which nothing is known lead to a   *)
(* look at the pending transactions, if FAILURE_GRACE_MS has passed.       *)
ForgivenNever(found) == failed
Forgiven(found) == failed \ found
InfosAnswered(s) ==
    LET j == jobs[s]
        issued == {t \in j.rows \ j.found : stored[t] = "issued"}
    IN  /\ s \in Lookups /\ j.at = "read"
        /\ live' = [t \in Tokens |-> IF t \notin j.rows THEN "undefined"
                                     ELSE IF t \in j.found THEN "live" ELSE "null"]
        /\ failed' = Forgiven(j.found)
        /\ \E old \in SUBSET issued :
             Become(s, IF old = {} THEN Free
                       ELSE [at |-> "pending", rows |-> old, found |-> {}])
        /\ UNCHANGED <<chain, stored, scanError, fails, clicks>>

(* checkFailedTxs.                                                         *)
PendingAnswered(s) ==
    /\ jobs[s].at = "pending"
    /\ failed' = failed \cup {t \in jobs[s].rows : tx[t] # "pending"}
    /\ Become(s, Free)
    /\ UNCHANGED <<chain, stored, live, scanError, fails, clicks>>

(* augmentFromWallet, augmentFromIndexer: what was not known when the scan *)
(* began is looked up, then merged into the rows as they are by then.      *)
ScanAnswered(s) ==
    LET j    == jobs[s]
        held == IF s = "wallet" THEN Unspent ELSE Authority
    IN  /\ s \in {"wallet", "indexer"} /\ j.at = "sent"
        /\ \E found \in {{}, held} :
             /\ fails' = IF found = held THEN fails ELSE fails + 1
             /\ fails' <= MaxFails
             /\ Become(s, IF found \subseteq j.rows THEN Free
                          ELSE [j EXCEPT !.at = "details", !.found = found \ j.rows])
        /\ scanError' = IF s = "wallet" THEN FALSE ELSE scanError
        /\ UNCHANGED <<chain, stored, live, failed, clicks>>

(* The route answers that the wallet service is unavailable.               *)
ScanRefused ==
    /\ jobs["wallet"].at = "sent" /\ fails < MaxFails
    /\ fails' = fails + 1
    /\ scanError' = TRUE
    /\ Become("wallet", Free)
    /\ UNCHANGED <<chain, stored, live, failed, clicks>>

MergedIntoSnapshot(j) ==
    [t \in Tokens |-> IF t \in j.rows THEN stored[t]
                      ELSE IF t \in j.found THEN "scan" ELSE "none"]
Merged(j) ==
    [t \in Tokens |-> IF stored[t] = "none" /\ t \in j.found THEN "scan"
                      ELSE stored[t]]
LiveAfter(j) ==
    [t \in Tokens |-> IF t \notin j.found THEN live[t]
                      ELSE IF t \in indexed THEN "live" ELSE "null"]
DetailsAnswered(s) ==
    LET j == jobs[s]
    IN  /\ j.at = "details"
        /\ stored' = Merged(j)
        /\ live' = LiveAfter(j)
        /\ Become(s, Free)
        /\ UNCHANGED <<chain, failed, scanError, fails, clicks>>

-----------------------------------------------------------------------------
(* What starts jobs.                                                       *)
(* A block: only rows of which nothing is known are worth a look.          *)
NewBlock ==
    /\ LookFree
    /\ \E t \in Tokens : live[t] = "null"
    /\ jobs' = Look(Rows(stored))
    /\ UNCHANGED <<chain, page, fails, clicks>>

(* Every two minutes, from what localStorage has.                          *)
Resync ==
    /\ LookFree /\ jobs["wallet"] = Free
    /\ jobs' = [Look(Rows(stored)) EXCEPT !["wallet"] = Sent(Rows(stored))]
    /\ UNCHANGED <<chain, page, fails, clicks>>

(* An operation in the panel that manages a token (TokenManagePanel.tsx)   *)
(* looks the shown rows up again.                                          *)
Refresh ==
    /\ clicks < MaxClicks /\ LookFree
    /\ clicks' = clicks + 1
    /\ jobs' = Look(Rows(stored))
    /\ UNCHANGED <<chain, page, fails>>

(* The retry button of a scan that failed and left the list empty.         *)
Retry ==
    /\ clicks < MaxClicks
    /\ Rows(stored) = {} /\ scanError /\ jobs["wallet"] = Free
    /\ clicks' = clicks + 1
    /\ scanError' = FALSE
    /\ Become("wallet", Sent(Rows(stored)))
    /\ UNCHANGED <<chain, stored, live, failed, fails>>

(* Only a row of which nothing is known has the button.                    *)
Removable(t) == stored[t] # "none" /\ live[t] = "null"
Remove(t) ==
    /\ clicks < MaxClicks
    /\ Removable(t)
    /\ clicks' = clicks + 1
    /\ stored' = [stored EXCEPT ![t] = "none"]
    /\ live' = [live EXCEPT ![t] = "undefined"]
    /\ failed' = failed \ {t}
    /\ UNCHANGED <<chain, scanError, jobs, fails>>

(* removeToken filters the rows of the last render: a click between a      *)
(* scan's merge and the drawing of it takes back what the scan has merged. *)
RemoveUndrawn(s, t) ==
    /\ jobs[s].at = "details"
    /\ clicks < MaxClicks
    /\ Removable(t)
    /\ clicks' = clicks + 1
    /\ stored' = [stored EXCEPT ![t] = "none"]
    /\ live' = [LiveAfter(jobs[s]) EXCEPT ![t] = "undefined"]
    /\ failed' = failed \ {t}
    /\ Become(s, Free)
    /\ UNCHANGED <<chain, scanError, fails>>

Deliver(s) == \/ Read(s) \/ InfosAnswered(s) \/ PendingAnswered(s)
              \/ ScanAnswered(s) \/ DetailsAnswered(s)

Next ==
    \/ Chain
    \/ \E t \in Tokens : Issue(t) \/ Remove(t)
    \/ \E s \in Slots : Deliver(s)
    \/ \E s \in Slots, t \in Tokens : RemoveUndrawn(s, t)
    \/ ScanRefused
    \/ NewBlock \/ Resync \/ Refresh \/ Retry

(* Every fetch is answered or fails, and the timer keeps firing, whatever  *)
(* else is in flight.                                                      *)
Spec == Init /\ [][Next]_vars
             /\ SF_vars(Resync) /\ \A s \in Slots : WF_vars(Deliver(s))

-----------------------------------------------------------------------------
(* Properties.                                                             *)

(* A row goes only when the user removes it: two scans that overlap do not *)
(* drop what the other found (IssuedTokensPanel.tsx:216, :267), and no     *)
(* answer sweeps a row (:162).  What a scan has looked up is a row, unless  *)
(* the user removes another one before it is drawn.                        *)
RowsKept ==
    /\ \A t \in Tokens : stored[t] # "none" /\ stored'[t] = "none" =>
         /\ clicks' > clicks
         /\ live[t] = "null"
    /\ \A s \in Slots \cap {"wallet", "indexer"} :
         jobs[s].at = "details" /\ jobs'[s] = Free /\ clicks' = clicks =>
             jobs[s].found \subseteq {t \in Tokens : stored'[t] # "none"}

(* Whatever was removed in error, marked failed too early or overwritten   *)
(* by an old answer: a token that the node knows gets its row, its data    *)
(* and no "tx failed" (IssuedTokensPanel.tsx:151, :304).                   *)
Shown(t) == stored[t] # "none" /\ live[t] = "live" /\ t \notin failed
Indexed(t) == t \in indexed
IssuedIsShown == \A t \in Tokens : Indexed(t) ~> Shown(t)

-----------------------------------------------------------------------------
(* The inductive invariant behind RowsKept, which PageProofs proves.       *)
Jobs == [at : {"free", "sent", "read", "pending", "details"},
         rows : SUBSET Tokens, found : SUBSET Tokens]

TypeOK ==
    /\ stored \in [Tokens -> {"none", "issued", "scan"}]
    /\ clicks \in Nat
    /\ indexed \subseteq Tokens
    /\ jobs \in [Slots -> Jobs]
=============================================================================
