----------------------------- MODULE IssueForms -----------------------------
(***************************************************************************)
(* The dialogs that issue an NFT (IssueNFTModal.tsx) and a token           *)
(* (IssueTokenModal.tsx): files go to IPFS, some when they are picked and  *)
(* some when the form is submitted, and what comes back is part of what is *)
(* issued for good.                                                        *)
(*                                                                         *)
(* A file stands for its digest and for its address on IPFS as well, Typed *)
(* for anything the user types.  Names, tickers, amounts and the checks on *)
(* them are OpForms', the answer to a submission is WalletSubmit's; an     *)
(* NFT's icon is left out.                                                 *)
(***************************************************************************)
EXTENDS Integers

CONSTANTS
    Files, None,
    Typed,
    MaxPicks,      \* bound: files picked
    MaxEdits,      \* bound: edits of the description
    MaxSubmits     \* bound: submissions

VARIABLES
    kind,    \* "nft" or "token"
    ipfs,    \* ipfsEnabled
    mode,    \* "easy" or "expert"
    media,   \* an NFT's media: file shown, mediaHash, mediaUri, file on its way
    logo,    \* a token's logo, uploaded by the submission
    meta,    \* additionalMetaUri or metadataUri, and a token's file on its way
    text,    \* version of the description
    sub,     \* the submission under way, with the form it was made of
    issued,  \* the last one that was carried out
    picks, submits

vars == <<kind, ipfs, mode, media, logo, meta, text, sub, issued, picks, submits>>

form == <<media, logo, meta, text>>

Easy == mode = "easy"

NoSub == [at |-> "idle"]

Done == [at |-> "done"]

Init ==
    /\ kind \in {"nft", "token"}
    /\ ipfs \in BOOLEAN
    /\ mode = "easy"
    /\ media = [file |-> None, hash |-> None, uri |-> None, up |-> None]
    /\ logo = None
    /\ meta = [uri |-> None, up |-> None]
    /\ text = 0
    /\ sub = NoSub
    /\ issued = None
    /\ picks = 0
    /\ submits = 0

-----------------------------------------------------------------------------
(* Once issued, the dialog shows the token's identifier and no form.  No   *)
(* field is disabled while the form is being submitted.                    *)
Open == sub # Done

(* What an upload ends with: the file's address, or an error.              *)
Upload(f) == {f, None}

(* handleMediaFile: what belonged to the last file goes first; the input   *)
(* is disabled while a file is on its way.                                 *)
CanPick == Open /\ kind = "nft" /\ media.up = None /\ picks < MaxPicks

PickMedia(f) ==
    /\ CanPick
    /\ media' = [file |-> f, hash |-> None, uri |-> None, up |-> f]
    /\ picks' = picks + 1
    /\ UNCHANGED <<kind, ipfs, mode, logo, meta, text, sub, issued, submits>>

(* Digest and upload are awaited together; without IPFS there is no URI.   *)
MediaAnswered ==
    /\ Open /\ media.up # None
    /\ \E u \in Upload(media.up) :
          media' = IF u = None THEN [media EXCEPT !.up = None]
                   ELSE [media EXCEPT !.up = None, !.hash = media.up,
                                      !.uri = IF ipfs THEN u ELSE @]
    /\ UNCHANGED <<kind, ipfs, mode, logo, meta, text, sub, issued, picks, submits>>

(* handleExpertUpload of a token: the old URI stays until the new one is   *)
(* there.                                                                  *)
PickMeta(f) ==
    /\ Open /\ kind = "token" /\ ipfs /\ ~Easy /\ meta.up = None /\ picks < MaxPicks
    /\ meta' = [meta EXCEPT !.up = f]
    /\ picks' = picks + 1
    /\ UNCHANGED <<kind, ipfs, mode, media, logo, text, sub, issued, submits>>

MetaAnswered ==
    /\ Open /\ meta.up # None
    /\ \E u \in Upload(meta.up) :
          meta' = [uri |-> IF u = None THEN meta.uri ELSE u, up |-> None]
    /\ UNCHANGED <<kind, ipfs, mode, media, logo, text, sub, issued, picks, submits>>

(* The logo of a token is only remembered.                                 *)
PickLogo(f) ==
    /\ Open /\ kind = "token" /\ Easy /\ ipfs /\ picks < MaxPicks
    /\ logo' = f
    /\ picks' = picks + 1
    /\ UNCHANGED <<kind, ipfs, mode, media, meta, text, sub, issued, submits>>

SwitchMode ==
    /\ Open
    /\ mode' = IF Easy THEN "expert" ELSE "easy"
    /\ UNCHANGED <<kind, ipfs, form, sub, issued, picks, submits>>

Describe ==
    /\ Open /\ text < MaxEdits
    /\ text' = text + 1
    /\ UNCHANGED <<kind, ipfs, mode, media, logo, meta, sub, issued, picks, submits>>

(* The fields that only the expert sees.                                   *)
TypeField ==
    /\ Open /\ ~Easy
    /\ \/ kind = "nft" /\ media' = [media EXCEPT !.hash = Typed] /\ UNCHANGED meta
       \/ kind = "nft" /\ media' = [media EXCEPT !.uri = Typed] /\ UNCHANGED meta
       \/ meta' = [meta EXCEPT !.uri = Typed] /\ UNCHANGED media
    /\ UNCHANGED <<kind, ipfs, mode, logo, text, sub, issued, picks, submits>>

-----------------------------------------------------------------------------
(* What the closure of handleSubmit has of the form.                       *)
Seen == [mode |-> mode, media |-> media, logo |-> logo, text |-> text]

(* With IPFS a picked file needs its URI.                                  *)
MediaMissing == ipfs /\ media.file # None /\ media.uri = None

(* handleSubmit.  An NFT needs its hash.  Both kinds then upload metadata  *)
(* in easy mode with IPFS.                                                 *)
Submit ==
    /\ sub = NoSub /\ submits < MaxSubmits
    /\ kind = "nft" => media.hash # None /\ ~MediaMissing
    /\ submits' = submits + 1
    /\ sub' = [at |-> IF ~(Easy /\ ipfs) THEN "issue"
                      ELSE IF kind = "token" /\ logo # None THEN "logo" ELSE "meta",
               of |-> Seen, image |-> None, meta |-> meta.uri]
    /\ UNCHANGED <<kind, ipfs, mode, form, issued, picks>>

(* The uploads of a submission, one after the other; one that fails ends   *)
(* it with the code unspent.                                               *)
LogoAnswered ==
    /\ sub.at = "logo"
    /\ \E u \in Upload(sub.of.logo) :
          sub' = IF u = None THEN NoSub ELSE [sub EXCEPT !.at = "meta", !.image = u]
    /\ UNCHANGED <<kind, ipfs, mode, form, issued, picks, submits>>

(* metadata.json: the description of the form as submitted, and the image. *)
MetadataAnswered ==
    /\ sub.at = "meta"
    /\ \E u \in Upload([text |-> sub.of.text, image |-> sub.image]) :
          sub' = IF u = None THEN NoSub ELSE [sub EXCEPT !.at = "issue", !.meta = u]
    /\ UNCHANGED <<kind, ipfs, mode, form, issued, picks, submits>>

(* token_nft_issue_new or token_issue_new, carried out and answered so or  *)
(* not; after an error the form is there again.                            *)
Issue ==
    /\ sub.at = "issue"
    /\ \/ issued' = [of |-> sub.of, text |-> sub.of.text, meta |-> sub.meta,
                     hash |-> sub.of.media.hash, uri |-> sub.of.media.uri]
          /\ sub' \in {Done, NoSub}
       \/ sub' = NoSub /\ UNCHANGED issued
    /\ UNCHANGED <<kind, ipfs, mode, form, picks, submits>>

Next ==
    \/ \E f \in Files : PickMedia(f) \/ PickMeta(f) \/ PickLogo(f)
    \/ MediaAnswered \/ MetaAnswered
    \/ SwitchMode \/ Describe \/ TypeField
    \/ Submit \/ LogoAnswered \/ MetadataAnswered \/ Issue

Spec == Init /\ [][Next]_vars

-----------------------------------------------------------------------------
(* What is issued is what the dialog showed: unless they were typed, hash  *)
(* and URI of the media are those of the file named, with IPFS there is no *)
(* hash without a URI, and metadata uploaded on the way has the            *)
(* description and the logo of the moment of submission                    *)
(* (IssueNFTModal.tsx:83, :136, IssueTokenModal.tsx:88).                   *)
IssuedAsShown ==
    issued # None =>
        /\ kind = "nft" =>
              /\ issued.hash \in {issued.of.media.file, Typed}
              /\ issued.uri \in {issued.of.media.file, Typed, None}
              /\ issued.hash # Typed /\ ipfs => issued.uri # None
        /\ ipfs /\ issued.of.mode = "easy" =>
              issued.meta = [text |-> issued.of.text,
                             image |-> IF kind = "token" THEN issued.of.logo ELSE None]

-----------------------------------------------------------------------------
(* The inductive invariant behind it, which PageProofs proves: hash and    *)
(* URI on the page are of the file shown, and a submission carries what    *)
(* the form held, whatever is edited and whatever answers meanwhile.       *)
OfTheFile(m) ==
    /\ m = [file |-> m.file, hash |-> m.hash, uri |-> m.uri, up |-> m.up]
    /\ {m.hash, m.uri} \subseteq {m.file, Typed, None}

MediaSound == OfTheFile(media) /\ media.up \in {media.file, None}

Stages == {"logo", "meta", "issue"}

Image == IF kind = "token" THEN sub.of.logo ELSE None

SubmissionSound ==
    /\ sub.at \in Stages \cup {"idle", "done"}
    /\ sub.at \in Stages =>
         /\ sub = [at |-> sub.at, of |-> sub.of, image |-> sub.image, meta |-> sub.meta]
         /\ kind = "nft" =>
              /\ OfTheFile(sub.of.media) /\ sub.of.media.hash # None
              /\ ipfs /\ sub.of.media.file # None => sub.of.media.uri # None
    /\ sub.at \in {"logo", "meta"} => ipfs /\ sub.of.mode = "easy"
    /\ sub.at = "logo" => kind = "token"
    /\ sub.at = "meta" => sub.image = Image
    /\ sub.at = "issue" /\ ipfs /\ sub.of.mode = "easy" =>
         sub.meta = [text |-> sub.of.text, image |-> Image]

IssueFormsInv == MediaSound /\ SubmissionSound /\ IssuedAsShown
=============================================================================
