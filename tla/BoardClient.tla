----------------------------- MODULE BoardClient -----------------------------
(***************************************************************************)
(* One open page of a board: what it shows (BoardPageClient), the requests *)
(* it has under way, and the hook that keeps it current (useBoardRealtime) *)
(* on top of the stream of RevisionStream.  Code between two awaits is     *)
(* atomic.  The content of a board is abstracted to its revision, since    *)
(* the server's content is a function of it, and to what may set a shown   *)
(* board apart from it: a move the server has not confirmed, pages read    *)
(* later, and the viewer's role.                                           *)
(***************************************************************************)
EXTENDS Integers, Sequences

CONSTANTS
    None,               \* null
    MAX_SYNC_ATTEMPTS,  \* 3
    MAX_REVISION        \* bound on the commits of a run

\* A board the page has, what a drag keeps, a move under way, a later page asked for.
Board == [revision : Nat, tentative : BOOLEAN, pages : SUBSET Nat, nextCursor : BOOLEAN,
          role : {"PARTICIPANT", "OWNER"}]
Drag == [previous : Board, pending : Board \cup {None}]
Move == [stage : {"sent", "saved", "refreshing", "undone"}, previous : Board, saved : Nat]
Later == [requested : Nat, answer : Nat \cup {None}]

ASSUME ClientAssumption ==
    /\ None \notin Nat \cup Board \cup Drag \cup Move \cup Later
    /\ MAX_SYNC_ATTEMPTS \in Nat \ {0}
    /\ MAX_REVISION \in Nat

VARIABLES
    revision, access, stage, since, told, wire,  \* those of RevisionStream
    role,        \* of the viewer's membership
    paged,       \* whether a column of the board has a second page
    shown,       \* board, None when it is lost
    drag,        \* the drag under way, or None
    move,        \* the call of commitDndMove under way, or None
    more,        \* the request for a second page, or None
    load,        \* the refresh started last, or none
    accessLost,  \* accessLost.current
    error,       \* whether the page says that the board is unavailable
    syncError,   \* whether it says that its state may be stale
    requested,   \* requestedRevision
    applied,     \* appliedRevisionRef.current
    rendered,    \* the revision the effect that sets it saw last
    refresh,     \* the run of refreshAuthoritativeState under way
    superseded,  \* whether it awaits a refresh that is not the last one
    connection,  \* how far runConnection is; "over" once it is pollingOnly
    status       \* what the hook returns; "connecting" stands for reconnecting too

server == <<revision, access, role, paged>>
stream == <<stage, since, told, wire>>
page == <<shown, drag, move, more, accessLost, error, syncError>>
hook == <<requested, applied, refresh, superseded, status>>
vars == <<server, stream, page, load, rendered, hook, connection>>

Stream == INSTANCE RevisionStream

\* One repeatable-read transaction: a snapshot is of one revision, which all
\* its pages were read at; nextCursor says that there are items it lacks, and
\* tentative that it holds a move the server may not have.
Snapshot ==
    [revision |-> revision, tentative |-> FALSE, pages |-> {revision},
     nextCursor |-> paged, role |-> role]

\* The stages are none, asked and answered, a 404 with None; hook and move say
\* who awaits it beside the page.
NoLoad == [stage |-> "none", answer |-> None, hook |-> FALSE, move |-> FALSE]
Asked == [NoLoad EXCEPT !.stage = "asked"]

Idle == [attempt |-> 0, observed |-> 0, previous |-> 0]

Init ==
    /\ Stream!Init
    /\ role = "PARTICIPANT" /\ paged \in BOOLEAN
    /\ shown = Snapshot
    /\ drag = None /\ move = None /\ more = None /\ load = NoLoad
    /\ accessLost = FALSE /\ error = FALSE /\ syncError = FALSE
    /\ requested = 0 /\ applied = 0 /\ rendered = 0
    /\ refresh = Idle /\ superseded = FALSE
    /\ connection = "waiting" /\ status = "connecting"

-----------------------------------------------------------------------------
(* The server.                                                             *)

\* A mutation of anybody, this visitor's other ones included.
Commit ==
    /\ revision < MAX_REVISION /\ Stream!Commit
    /\ paged' \in BOOLEAN
    /\ UNCHANGED <<role, page, load, rendered, hook, connection>>

LoseAccess ==
    /\ Stream!LoseAccess
    /\ UNCHANGED <<role, paged, page, load, rendered, hook, connection>>

RegainAccess ==
    /\ Stream!RegainAccess
    /\ UNCHANGED <<role, paged, page, load, rendered, hook, connection>>

\* redeemBoardInvitation in another tab: it does not increment the revision.
ClaimOwnership ==
    /\ access /\ role = "PARTICIPANT" /\ role' = "OWNER"
    /\ UNCHANGED <<revision, access, paged, stream, page, load, rendered, hook, connection>>

\* The server's side of the stream: RevisionStream.
StreamStep ==
    /\ \/ \E r \in 0 .. revision : Stream!Open(r) \/ Stream!Tell(r)
       \/ stage = "opening" /\ \E why \in Stream!Refusal : Stream!Refuse(why)
       \/ Stream!End
    /\ UNCHANGED <<role, paged, page, load, rendered, hook, connection>>

\* getTargetBoardSnapshot, for the refresh under way.
ReadSnapshot ==
    /\ load.stage = "asked"
    /\ load' = [load EXCEPT !.stage = "answered", !.answer = IF access THEN Snapshot ELSE None]
    /\ UNCHANGED <<server, stream, page, rendered, hook, connection>>

\* The move is committed: requireExpectedRevision compares the revision the
\* client sent with the board's under its lock.  Mutant: it does not.
SaveMoveBlindly ==
    /\ move # None /\ move.stage = "sent"
    /\ access /\ revision < MAX_REVISION
    /\ Stream!Commit /\ paged' \in BOOLEAN
    /\ move' = [move EXCEPT !.stage = "saved", !.saved = revision']
    /\ UNCHANGED <<role, shown, drag, more, accessLost, error, syncError,
                   load, rendered, hook, connection>>

SaveMove ==
    /\ move # None /\ move.stage = "sent"
    /\ access /\ revision < MAX_REVISION
    /\ move.previous.revision = revision
    /\ Stream!Commit /\ paged' \in BOOLEAN
    /\ move' = [move EXCEPT !.stage = "saved", !.saved = revision']
    /\ UNCHANGED <<role, shown, drag, more, accessLost, error, syncError,
                   load, rendered, hook, connection>>

\* getTargetCardPage, for the page under way.
ReadPage ==
    /\ more # None /\ more.answer = None /\ access
    /\ more' = [more EXCEPT !.answer = revision]
    /\ UNCHANGED <<server, stream, shown, drag, move, accessLost, error, syncError,
                   load, rendered, hook, connection>>

-----------------------------------------------------------------------------
(* What the page and the hook share.                                       *)

\* mergeBoardRefresh.
Merge(current, incoming) ==
    IF current # None /\ current.revision = incoming.revision THEN current ELSE incoming

\* load: asks nothing once the board is lost, and joins the refresh under way unless
\* it is forced.
Joined == IF ~accessLost /\ load.stage = "none" THEN Asked ELSE load

\* load({ force: true }), by commitDndMove: what awaits the refresh under way
\* learns no more than that another one was started.
Forced(awaited) ==
    IF accessLost
    THEN UNCHANGED <<load, superseded>>
    ELSE /\ load' = [Asked EXCEPT !.move = awaited]
         /\ superseded' = (superseded \/ load.hook)

\* refreshAuthoritativeState calls refreshBoard, while `left` is under way.
BeginRefresh(attempt, observed, previous, left) ==
    /\ refresh' = [attempt |-> attempt, observed |-> observed, previous |-> previous]
    /\ load' = [(IF left.stage = "none" THEN Asked ELSE left) EXCEPT !.hook = TRUE]

\* The operation ends, and what was requested meanwhile begins another one.
EndRefresh(left, now) ==
    IF requested > refresh.observed /\ requested > now
    THEN BeginRefresh(1, requested, now, left)
    ELSE refresh' = Idle /\ load' = left

\* The loop of refreshAuthoritativeState, after a refresh that is at revision r.
\* Mutant: a refresh that did not get anywhere is taken for the last one.
TrustRefresh(left, r) ==
    /\ applied' = r
    /\ status' = IF connection = "online" THEN "online" ELSE status
    /\ EndRefresh(left, r)

ContinueRefresh(left, r) ==
    LET reached == r >= requested
        stuck == r <= refresh.previous \/ refresh.attempt = MAX_SYNC_ATTEMPTS
    IN  /\ applied' = r
        /\ status' = IF ~reached /\ stuck THEN "polling"
                     ELSE IF connection = "online" THEN "online" ELSE status
        /\ IF reached \/ stuck
           THEN EndRefresh(left, r)
           ELSE BeginRefresh(refresh.attempt + 1, requested, r, left)

\* The board is not the visitor's any more, as a refresh or the stream's handshake
\* has learnt: the page says so from then on, the hook is disabled, and no refresh
\* is used.  A drag, a move and a later page that are under way go on.
LosePage(left) ==
    /\ accessLost' = TRUE /\ error' = TRUE /\ shown' = None
    /\ load' = left
    /\ refresh' = Idle /\ superseded' = FALSE
    /\ connection' = "over" /\ status' = "polling"
    /\ IF stage \in Stream!Over
       THEN UNCHANGED <<revision, access, stream>>
       ELSE Stream!End /\ wire' = <<>>
    /\ UNCHANGED <<role, paged, drag, move, more, syncError, requested, applied, rendered>>

-----------------------------------------------------------------------------
(* Refreshes.                                                              *)

\* onChanged of a panel, after a mutation of this page's, or its outdated page.
AskRefresh ==
    /\ ~error /\ load' = Joined
    /\ UNCHANGED <<server, stream, page, rendered, hook, connection>>

\* During a drag the answer waits for its end.  Mutant: it does not.
DisplayAtOnce(answer) ==
    shown' = Merge(shown, answer) /\ UNCHANGED drag

Display(answer) ==
    IF drag # None
    THEN drag' = [drag EXCEPT !.pending = answer] /\ UNCHANGED shown
    ELSE shown' = Merge(shown, answer) /\ UNCHANGED drag

\* 200.  The continuation of commitDndMove comes before that of the hook, which may
\* have joined it.
LoadAnswered ==
    LET answer == load.answer
        behind == load.move /\ move.stage = "refreshing" /\ answer.revision < move.saved
        left == IF behind THEN Asked ELSE NoLoad
    IN  /\ load.stage = "answered" /\ answer # None
        /\ Display(answer)
        /\ move' = IF load.move THEN None ELSE move
        /\ error' = FALSE /\ syncError' = behind
        /\ IF load.hook
           THEN ContinueRefresh(left, answer.revision)
           ELSE load' = left /\ UNCHANGED <<refresh, applied, status>>
        /\ UNCHANGED <<server, stream, more, accessLost, requested, superseded,
                       rendered, connection>>

\* 404.
LoadLost ==
    /\ load.stage = "answered" /\ load.answer = None
    /\ LosePage(NoLoad)

\* Another error, or no answer at all: only commitDndMove, whose move is saved,
\* asks again at once.
LoadFails ==
    LET left == IF load.move /\ move.stage = "refreshing" THEN Asked ELSE NoLoad
    IN  /\ load.stage # "none"
        /\ syncError' = TRUE
        /\ move' = IF load.move THEN None ELSE move
        /\ IF load.hook
           THEN status' = "polling" /\ EndRefresh(left, applied)
           ELSE load' = left /\ UNCHANGED <<refresh, status>>
        /\ UNCHANGED <<server, stream, shown, drag, more, accessLost, error, requested,
                       applied, superseded, rendered, connection>>

\* The answer to a refresh that is not the last one is not looked at.
SupersededAnswered ==
    /\ superseded /\ superseded' = FALSE
    /\ status' = "polling" /\ EndRefresh(load, applied)
    /\ UNCHANGED <<server, stream, page, requested, applied, rendered, connection>>

\* The effect on appliedRevision, after a rendering.
RunEffect ==
    /\ ~error /\ rendered # shown.revision
    /\ rendered' = shown.revision /\ applied' = shown.revision
    /\ UNCHANGED <<server, stream, page, load, requested, refresh, superseded, status, connection>>

\* Every 30 seconds and when the page becomes visible again.  Mutant: only if an
\* event has told of a revision that is missing.
ReconcileIfBehind ==
    /\ ~error /\ refresh = Idle /\ requested > applied
    /\ BeginRefresh(1, requested, applied, load)
    /\ UNCHANGED <<server, stream, page, requested, applied, superseded, status,
                   rendered, connection>>

Reconcile ==
    /\ ~error /\ refresh = Idle
    /\ BeginRefresh(1, requested, applied, load)
    /\ UNCHANGED <<server, stream, page, requested, applied, superseded, status,
                   rendered, connection>>

-----------------------------------------------------------------------------
(* runConnection.                                                          *)

Connect ==
    /\ ~error /\ connection = "waiting" /\ connection' = "asked"
    /\ Stream!Request(applied) /\ status' = "connecting"
    /\ UNCHANGED <<role, paged, page, load, rendered, requested, applied, refresh, superseded>>

\* Lines of an event, whatever else they say: a revision.
ReadEvent ==
    LET r == Head(wire)
    IN  /\ connection \in {"asked", "online"} /\ Stream!Read
        /\ connection' = "online" /\ status' = "online"
        /\ IF r > applied
           THEN /\ requested' = IF r > requested THEN r ELSE requested
                /\ IF refresh = Idle
                   THEN BeginRefresh(1, requested', applied, load)
                   ELSE UNCHANGED <<refresh, load>>
           ELSE UNCHANGED <<requested, refresh, load>>
        /\ UNCHANGED <<role, paged, page, rendered, applied, superseded>>

\* Any other error, and the end of the stream: after a pause it connects again.
Disconnected ==
    /\ connection \in {"asked", "online"}
    /\ stage \in {"unavailable", "ended"} /\ wire = <<>>
    /\ connection' = "waiting" /\ status' = "connecting"
    /\ UNCHANGED <<server, stream, page, load, rendered, requested, applied, refresh, superseded>>

\* 400, 429, and an answer that does not keep to the protocol.
FallBackToPolling ==
    /\ connection \in {"asked", "online"}
    /\ connection' = "over" /\ status' = "polling"
    /\ \/ stage \in {"limited", "invalid"} /\ UNCHANGED <<revision, access, stream>>
       \/ stage = "open" /\ Stream!End /\ wire' = <<>>
    /\ UNCHANGED <<role, paged, page, load, rendered, requested, applied, refresh, superseded>>

\* 404: handleAccessLost increments loadSequence.  Mutant: it does not.
HandshakeKeepsLoad ==
    /\ connection = "asked" /\ stage = "notFound"
    /\ LosePage(load)

HandshakeNotFound ==
    /\ connection = "asked" /\ stage = "notFound"
    /\ LosePage(NoLoad)

-----------------------------------------------------------------------------
(* Drags and moves.                                                        *)

DragStart ==
    /\ ~error /\ drag = None /\ move = None
    /\ drag' = [previous |-> shown, pending |-> None]
    /\ UNCHANGED <<server, stream, shown, move, more, accessLost, error, syncError,
                   load, rendered, hook, connection>>

\* The preview is of the board at the start of the drag.
DragOver ==
    /\ ~error /\ drag # None /\ shown' = [drag.previous EXCEPT !.tentative = TRUE]
    /\ UNCHANGED <<server, stream, drag, move, more, accessLost, error, syncError,
                   load, rendered, hook, connection>>

\* Cancelled, not over a target, back where it was, or the board has changed
\* meanwhile.  A page that has lost its board takes the drag's elements away, which
\* the library may report as a drag cancelled, or not at all.
CancelDrag ==
    /\ drag # None /\ drag' = None
    /\ shown' = IF drag.pending = None THEN drag.previous
                ELSE Merge(drag.previous, drag.pending)
    /\ UNCHANGED <<server, stream, move, more, accessLost, error, syncError,
                   load, rendered, hook, connection>>

\* Whether the board dragged on is the last one read.
Undisturbed ==
    drag.pending # None => drag.pending.revision = drag.previous.revision

\* A column has pages that were not read, or the item is not there.
DropFails ==
    /\ ~error /\ drag # None /\ Undisturbed /\ drag' = None
    /\ shown' = drag.previous /\ load' = Joined
    /\ UNCHANGED <<server, stream, move, more, accessLost, error, syncError,
                   rendered, hook, connection>>

Drop ==
    /\ ~error /\ drag # None /\ Undisturbed /\ drag' = None
    /\ shown' = [drag.previous EXCEPT !.tentative = TRUE]
    /\ move' = [stage |-> "sent", previous |-> drag.previous, saved |-> 0]
    /\ UNCHANGED <<server, stream, more, accessLost, error, syncError,
                   load, rendered, hook, connection>>

MoveAnswered ==
    /\ move # None /\ move.stage = "saved"
    /\ move' = [move EXCEPT !.stage = "refreshing"]
    /\ Forced(TRUE)
    /\ UNCHANGED <<server, stream, shown, drag, more, accessLost, error, syncError,
                   rendered, requested, applied, refresh, status, connection>>

\* The answer does not say which revision the move has made.
MoveUnreadable ==
    /\ move # None /\ move.stage = "saved" /\ move' = None
    /\ syncError' = TRUE /\ Forced(FALSE)
    /\ UNCHANGED <<server, stream, shown, drag, more, accessLost, error,
                   rendered, requested, applied, refresh, status, connection>>

\* Refused, or unanswered: then it may be saved all the same.  It is taken back
\* whether or not the board was lost meanwhile.  Mutant: it is not taken back.
MoveKeepsShown ==
    /\ move # None /\ move.stage \in {"sent", "saved"}
    /\ move' = [move EXCEPT !.stage = "undone"]
    /\ Forced(TRUE)
    /\ UNCHANGED <<server, stream, shown, drag, more, accessLost, error, syncError,
                   rendered, requested, applied, refresh, status, connection>>

MoveFails ==
    /\ move # None /\ move.stage \in {"sent", "saved"}
    /\ move' = [move EXCEPT !.stage = "undone"]
    /\ shown' = move.previous
    /\ Forced(TRUE)
    /\ UNCHANGED <<server, stream, drag, more, accessLost, error, syncError,
                   rendered, requested, applied, refresh, status, connection>>

\* The refresh that the move awaits is not made, or overtaken, since the board is lost.
MoveUnrefreshed ==
    /\ accessLost /\ move # None /\ move.stage \in {"refreshing", "undone"}
    /\ move' = None /\ syncError' = (syncError \/ move.stage = "refreshing")
    /\ UNCHANGED <<server, stream, shown, drag, more, accessLost, error,
                   load, rendered, hook, connection>>

-----------------------------------------------------------------------------
(* Later pages: onLoadMore.                                                *)

LoadMore ==
    /\ ~error /\ more = None /\ shown.nextCursor
    /\ more' = [requested |-> shown.revision, answer |-> None]
    /\ UNCHANGED <<server, stream, shown, drag, move, accessLost, error, syncError,
                   load, rendered, hook, connection>>

PageFails ==
    /\ more # None /\ more' = None
    /\ UNCHANGED <<server, stream, shown, drag, move, accessLost, error, syncError,
                   load, rendered, hook, connection>>

\* mergeBoardItemsPage: into the board shown by now, if any.  A cursor is of one
\* revision.  Mutant: whatever its revision.
MergePageBlindly(current, r) ==
    IF current # None /\ current.nextCursor
    THEN [current EXCEPT !.pages = @ \cup {r}, !.nextCursor = FALSE]
    ELSE current

MergePage(current, r) ==
    IF current # None /\ current.revision = r /\ current.nextCursor
    THEN [current EXCEPT !.pages = @ \cup {r}, !.nextCursor = FALSE]
    ELSE current

PageAnswered ==
    /\ more # None /\ more.answer # None /\ more' = None
    /\ IF more.answer = more.requested
       THEN shown' = MergePage(shown, more.answer) /\ UNCHANGED load
       ELSE load' = Joined /\ UNCHANGED shown
    /\ UNCHANGED <<server, stream, drag, move, accessLost, error, syncError,
                   rendered, hook, connection>>

-----------------------------------------------------------------------------
Server == Commit \/ LoseAccess \/ RegainAccess \/ ClaimOwnership \/ StreamStep
          \/ ReadSnapshot \/ SaveMove \/ ReadPage

Hook == SupersededAnswered \/ RunEffect \/ Reconcile \/ Connect \/ ReadEvent
        \/ Disconnected \/ FallBackToPolling \/ HandshakeNotFound

Page == AskRefresh \/ LoadAnswered \/ LoadLost \/ LoadFails
        \/ DragStart \/ DragOver \/ CancelDrag \/ DropFails \/ Drop
        \/ MoveAnswered \/ MoveUnreadable \/ MoveFails \/ MoveUnrefreshed
        \/ LoadMore \/ PageFails \/ PageAnswered

Next == Server \/ Hook \/ Page

Spec == Init /\ [][Next]_vars

\* Every request is answered in the end or seen to fail, not every refresh fails,
\* the timer of the hook goes on, effects run, and a drag comes to an end unless the
\* board is lost before.
Fairness ==
    /\ SF_vars(ReadSnapshot) /\ SF_vars(LoadAnswered \/ LoadLost)
    /\ WF_vars(SupersededAnswered) /\ WF_vars(Reconcile) /\ WF_vars(RunEffect)
    /\ WF_vars(~error /\ (CancelDrag \/ DropFails \/ Drop))
    /\ WF_vars(MoveAnswered \/ MoveUnreadable \/ MoveFails)

FairSpec == Spec /\ Fairness

-----------------------------------------------------------------------------
(* Properties.                                                             *)

\* All items of a shown board are of the revision it names: no page read at another
\* one is merged into it, whatever arrives in which order.
OneRevision == shown # None => shown.pages = {shown.revision}

\* Once the board is lost the page says so for good, instead of showing it, and is
\* connected no more: neither a refresh nor a later page that was asked for before,
\* nor a move or a drag that is taken back after, though each of the last two has
\* it hold a board again, makes it show one.
LostStaysLost ==
    accessLost => error /\ connection = "over" /\ stage \in Stream!Over

\* A move that was not confirmed is shown only while it is dragged or under way,
\* or if it was saved: then the page is behind.  And a drag is computed from the
\* board shown, yet the server saves it only if that was the whole truth: the
\* last revision before it, all of its pages, without a move of its own.
MovesOnTruth ==
    /\ (~error /\ shown.tentative /\ drag = None /\ (move # None => move.stage # "sent"))
           => shown.revision < revision
    /\ (move # None /\ move.stage = "saved")
           => /\ move.previous.revision = move.saved - 1
              /\ ~move.previous.tentative
              /\ move.previous.pages = {move.previous.revision}

\* The open stream has a revision to tell that is no earlier than the one requested.
StillToCome ==
    stage = "open" => told < requested \/ \E i \in DOMAIN wire : wire[i] >= requested

\* When the page has heard of a revision it does not show, and nothing is under way
\* to get it, it does not claim to be up to date, unless it will hear of it again.
KnownStaleIsSaid ==
    (/\ ~error /\ requested > shown.revision /\ rendered = shown.revision
     /\ refresh = Idle /\ load = NoLoad /\ drag = None /\ move = None)
        => status # "online" \/ syncError \/ StillToCome

\* The shown board goes back to an earlier revision only to take back a move.
NeverBackwards ==
    [][(shown # None /\ shown' # None /\ shown'.revision < shown.revision)
          => move # None /\ move'.stage = "undone"]_vars

\* Once nothing is committed any more, the page comes to show the last revision,
\* without any move of its own that is not in it, or that the board is lost.
Converges ==
    (revision = MAX_REVISION)
        ~> (accessLost \/ (shown.revision = revision /\ ~shown.tentative))

\* board-state.ts: "With the same revision the product state is unchanged."
SameRevisionSameState ==
    (load.stage = "answered" /\ load.answer # None /\ shown # None
        /\ load.answer.revision = shown.revision)
        => load.answer.role = shown.role
=============================================================================
