----------------------------- MODULE WalletFile -----------------------------
(***************************************************************************)
(* The one Mintlayer wallet file and its replacement from a seed phrase:   *)
(* recoverThenSwapWallet (wallet-recovery.ts) as management/wallet.astro   *)
(* calls it, against the other pages' requests to open and close the       *)
(* wallet (wallet-open.ts, ensureWalletOpen) and against crashes.          *)
(*                                                                         *)
(* External: the wallet daemon holds one open wallet and serves one call   *)
(* at a time, so a scan delays every other call.  Files are numbered in    *)
(* the order of their creation: a rename gives a file another name, and    *)
(* an open file survives the loss of its name.                             *)
(***************************************************************************)
EXTENDS Integers, FiniteSets

CONSTANTS
    Imports,    \* requests to import a seed phrase
    None,
    OneAtATime, \* whether an import waits for the end of another one
    MaxCrashes  \* bound

VARIABLES
    files,    \* file -> [seed, whole]: whole once its scan has ended
    canon,    \* the file at the wallet's path
    temp,     \* the file at the path with .recover, or None
    slot,     \* the file that the daemon has open, or None
    scanning, \* whether the daemon is scanning
    pc,       \* import -> its next step
    mine,     \* import -> the file it recovers to
    said,     \* import -> "none", "recovered", "error"
    crashes

vars == <<files, canon, temp, slot, scanning, pc, mine, said, crashes>>

Init ==
    /\ files = [n \in {0} |-> [seed |-> None, whole |-> TRUE]]
    /\ canon = 0
    /\ temp = None
    /\ slot \in {None, 0}
    /\ scanning = FALSE
    /\ pc = [i \in Imports |-> "idle"]
    /\ mine = [i \in Imports |-> None]
    /\ said = [i \in Imports |-> "none"]
    /\ crashes = 0

Goes(i, step) == pc' = [pc EXCEPT ![i] = step]

Fails(i) ==
    /\ Goes(i, "over")
    /\ said' = [said EXCEPT ![i] = "error"]

-----------------------------------------------------------------------------
(* import_seed has burnt its code.  Nothing keeps two imports apart; with  *)
(* OneAtATime the user does.                                               *)
Begin(i) ==
    /\ pc[i] = "idle"
    /\ OneAtATime => \A j \in Imports : pc[j] \in {"idle", "over"}
    /\ Goes(i, "close")
    /\ UNCHANGED <<files, canon, temp, slot, scanning, mine, said, crashes>>

(* walletClose, whose failure or time-out is ignored.                      *)
Close(i, from, to) ==
    /\ pc[i] = from
    /\ \/ ~scanning /\ slot' = None
       \/ UNCHANGED slot
    /\ Goes(i, to)
    /\ UNCHANGED <<files, canon, temp, scanning, mine, said, crashes>>

(* The stale temporary file of an earlier attempt.                         *)
ClearTemp(i) ==
    /\ pc[i] = "clear"
    /\ temp' = None
    /\ Goes(i, "recover")
    /\ UNCHANGED <<files, canon, slot, scanning, mine, said, crashes>>

(* The original flow: over the wallet's own path.                          *)
RecoverInPlace(i) ==
    LET n == Cardinality(DOMAIN files) IN
    /\ pc[i] = "recover"
    /\ ~scanning
    /\ slot = None
    /\ files' = [m \in DOMAIN files \cup {n} |->
                    IF m = n THEN [seed |-> i, whole |-> FALSE] ELSE files[m]]
    /\ canon' = n
    /\ slot' = n
    /\ scanning' = TRUE
    /\ mine' = [mine EXCEPT ![i] = n]
    /\ Goes(i, "scan")
    /\ UNCHANGED <<temp, said, crashes>>

(* wallet_recover, without a time-out: it refuses while a wallet is open   *)
(* or the file exists; else the new file is open from the start.           *)
Recover(i) ==
    LET n == Cardinality(DOMAIN files) IN
    /\ pc[i] = "recover"
    /\ ~scanning
    /\ IF slot # None \/ temp # None
       THEN Fails(i) /\ UNCHANGED <<files, temp, slot, scanning, mine>>
       ELSE /\ files' = [m \in DOMAIN files \cup {n} |->
                            IF m = n THEN [seed |-> i, whole |-> FALSE] ELSE files[m]]
            /\ temp' = n
            /\ slot' = n
            /\ scanning' = TRUE
            /\ mine' = [mine EXCEPT ![i] = n]
            /\ Goes(i, "scan")
            /\ UNCHANGED said
    /\ UNCHANGED <<canon, crashes>>

(* Whoever waits for the scan is told; its file stays open.                *)
ScanEnds ==
    /\ scanning
    /\ scanning' = FALSE
    /\ files' = [files EXCEPT ![slot].whole = TRUE]
    /\ pc' = [i \in Imports |-> IF pc[i] = "scan" THEN "closeAgain" ELSE pc[i]]
    /\ UNCHANGED <<canon, temp, slot, mine, said, crashes>>

ScanFails ==
    /\ scanning
    /\ scanning' = FALSE
    /\ slot' \in {slot, None}
    /\ pc' = [i \in Imports |-> IF pc[i] = "scan" THEN "over" ELSE pc[i]]
    /\ said' = [i \in Imports |-> IF pc[i] = "scan" THEN "error" ELSE said[i]]
    /\ UNCHANGED <<files, canon, temp, mine, crashes>>

(* rename(temp, path): one step, and the only one that changes canon.      *)
Swap(i) ==
    /\ pc[i] = "swap"
    /\ IF temp = None
       THEN Fails(i) /\ UNCHANGED <<canon, temp>>
       ELSE canon' = temp /\ temp' = None /\ Goes(i, "open") /\ UNCHANGED said
    /\ UNCHANGED <<files, slot, scanning, mine, crashes>>

(* openWallet; an error if another page has opened one meanwhile.          *)
Open(i) ==
    /\ pc[i] = "open"
    /\ ~scanning
    /\ IF slot # None
       THEN Fails(i) /\ UNCHANGED slot
       ELSE /\ slot' = canon
            /\ Goes(i, "over")
            /\ said' = [said EXCEPT ![i] = "recovered"]
    /\ UNCHANGED <<files, canon, temp, scanning, mine, crashes>>

-----------------------------------------------------------------------------
(* Another page: POST /api/wallet-open, or "reopen" on the wallet page.    *)
PageOpens ==
    /\ ~scanning
    /\ slot = None
    /\ slot' = canon
    /\ UNCHANGED <<files, canon, temp, scanning, pc, mine, said, crashes>>

PageCloses ==
    /\ ~scanning
    /\ slot # None
    /\ slot' = None
    /\ UNCHANGED <<files, canon, temp, scanning, pc, mine, said, crashes>>

(* web-gui dies with its handlers; the daemon goes on scanning.            *)
WebCrash ==
    /\ crashes < MaxCrashes
    /\ crashes' = crashes + 1
    /\ pc' = [i \in Imports |-> IF pc[i] = "idle" THEN "idle" ELSE "over"]
    /\ UNCHANGED <<files, canon, temp, slot, scanning, mine, said>>

(* The daemon dies, and with it the call that waits for the scan.          *)
DaemonCrash ==
    /\ crashes < MaxCrashes
    /\ crashes' = crashes + 1
    /\ slot' = None
    /\ scanning' = FALSE
    /\ pc' = [i \in Imports |-> IF pc[i] = "scan" THEN "over" ELSE pc[i]]
    /\ said' = [i \in Imports |-> IF pc[i] = "scan" THEN "error" ELSE said[i]]
    /\ UNCHANGED <<files, canon, temp, mine>>

Next ==
    \/ \E i \in Imports :
          \/ Begin(i)
          \/ Close(i, "close", "clear")
          \/ ClearTemp(i)
          \/ Recover(i)
          \/ Close(i, "closeAgain", "swap")
          \/ Swap(i)
          \/ Open(i)
    \/ ScanEnds \/ ScanFails
    \/ PageOpens \/ PageCloses
    \/ WebCrash \/ DaemonCrash

Spec == Init /\ [][Next]_vars

-----------------------------------------------------------------------------
(* The wallet's path always holds a complete wallet: the old one until the *)
(* scan of the new one has ended (wallet-recovery.ts, "without ever        *)
(* destroying the existing wallet file before the recovery has succeeded").*)
CanonWhole == files[canon].whole

(* "Wallet recovered" is said only of the wallet that is then in use: the  *)
(* daemon has it open, it is at the wallet's path, and it has that seed.   *)
RecoveredIsServed ==
    \A i \in Imports :
        said[i] = "none" /\ said'[i] = "recovered" =>
            slot' = canon' /\ files'[canon'].seed = i

-----------------------------------------------------------------------------
(* The inductive invariant behind them, which PageProofs proves from these *)
(* assumptions: the one import under way owns the temporary file.          *)
WalletFileConstants == OneAtATime /\ None \notin Nat

Steps == {"idle", "close", "clear", "recover", "scan", "closeAgain", "swap", "open", "over"}

TypeOK ==
    /\ Cardinality(DOMAIN files) \in Nat
    /\ DOMAIN files = 0..(Cardinality(DOMAIN files) - 1)
    /\ files \in [DOMAIN files -> [seed : Imports \cup {None}, whole : BOOLEAN]]
    /\ canon \in DOMAIN files
    /\ {temp, slot} \subseteq DOMAIN files \cup {None}
    /\ scanning \in BOOLEAN
    /\ pc \in [Imports -> Steps]
    /\ said \in [Imports -> {"none", "recovered", "error"}]

UnderWay(i) == pc[i] \notin {"idle", "over"}
OneUnderWay == \A i, j \in Imports : UnderWay(i) /\ UnderWay(j) => i = j

ScanHasFile == scanning => slot # None

(* The file an import waits for, has recovered and has put in place.       *)
OwnFile ==
    \A i \in Imports :
        /\ pc[i] = "scan" => scanning /\ temp = slot /\ files[temp].seed = i
        /\ pc[i] \in {"closeAgain", "swap"} =>
               temp # None /\ files[temp].whole /\ files[temp].seed = i
        /\ pc[i] = "open" => files[canon].seed = i

WalletFileInv == TypeOK /\ OneUnderWay /\ ScanHasFile /\ OwnFile /\ CanonWhole
=============================================================================
