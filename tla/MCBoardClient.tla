---------------------------- MODULE MCBoardClient ----------------------------
(***************************************************************************)
(* Instances of BoardClient for TLC.  A behaviour has one of four subjects: *)
(* everything the hook, its stream and the refreshes do together, on a     *)
(* page whose visitor only has panels open; drags and moves, on a page     *)
(* that is connected and stays so; these and later pages, on a page that   *)
(* hears of no event and whose refreshes do not fail; or drags, moves and  *)
(* later pages that are under way when the board is lost.                  *)
(***************************************************************************)
EXTENDS BoardClient

VARIABLE subject

Connected ==
    /\ revision = 0 /\ access = TRUE
    /\ stage = "open" /\ since = 0 /\ told = 0 /\ wire = <<>>
    /\ role = "PARTICIPANT" /\ paged \in BOOLEAN
    /\ shown = Snapshot
    /\ drag = None /\ move = None /\ more = None /\ load = NoLoad
    /\ accessLost = FALSE /\ error = FALSE /\ syncError = FALSE
    /\ requested = 0 /\ applied = 0 /\ rendered = 0
    /\ refresh = Idle /\ superseded = FALSE
    /\ connection = "online" /\ status = "online"

SubjectInit ==
    \/ subject = "stream" /\ Init /\ ~paged
    \/ subject = "drags" /\ Connected /\ ~paged
    \/ subject \in {"pages", "losses"} /\ Connected

Drags ==
    \/ SupersededAnswered \/ DragStart \/ DragOver \/ CancelDrag \/ DropFails \/ Drop
    \/ MoveAnswered \/ MoveUnreadable \/ MoveFails

Pages == ReadPage \/ LoadMore \/ PageFails \/ PageAnswered

\* Nobody else commits, the hook's timer is slow, and the stream goes on while the
\* board is the visitor's.
Losses ==
    /\ \/ ReadSnapshot \/ AskRefresh \/ LoadAnswered \/ RunEffect \/ SaveMove \/ Drags \/ Pages
       \/ LoseAccess \/ RegainAccess \/ LoadLost \/ HandshakeNotFound \/ MoveUnrefreshed
       \/ ~access /\ (Connect \/ Disconnected \/ (StreamStep /\ stage' \in {"ended", "notFound"}))
    /\ revision' <= 1

Subjects ==
    \/ subject = "losses" /\ Losses
    \/ /\ subject # "losses"
       /\ \/ ReadSnapshot \/ AskRefresh \/ LoadAnswered \/ RunEffect \/ Reconcile
          \/ Commit /\ (subject # "pages" => ~paged')
    \/ /\ subject = "stream"
       /\ \/ LoseAccess \/ RegainAccess \/ ClaimOwnership \/ StreamStep \/ ReadEvent
          \/ LoadLost \/ Connect \/ Disconnected \/ FallBackToPolling \/ HandshakeNotFound
    \/ subject \in {"stream", "drags"} /\ LoadFails
    \/ subject \in {"drags", "pages"} /\ (Drags \/ (SaveMove /\ (subject = "drags" => ~paged')))
    \/ subject = "drags" /\ ((StreamStep /\ stage' = "open") \/ ReadEvent)
    \/ subject = "pages" /\ Pages

SubjectSpec ==
    SubjectInit /\ [][Subjects /\ UNCHANGED subject]_<<vars, subject>> /\ Fairness
=============================================================================
