---------------------------- MODULE BoardControls ----------------------------
(***************************************************************************)
(* The controls of a board's page: menus, dialogs, composers and panels    *)
(* that send one request each, wait for its answer and have the page       *)
(* refresh the board.  They differ in a handful of points, which Does      *)
(* records for each: whether the request carries the revision shown,       *)
(* whether a word must be typed, which refresh follows, what a conflict or *)
(* an answer without a readable body does.  They share the page's loads:   *)
(* one in flight is joined unless a control forces its own, which          *)
(* supersedes it.                                                          *)
(*                                                                         *)
(* Texts, drafts and permissions are left out; refusals for reasons other  *)
(* than the revision are a choice of the server's.  A card stands for what *)
(* a column's deletion takes away.                                         *)
(***************************************************************************)
EXTENDS Naturals, FiniteSets, Functions

CONSTANTS
    Column, Card,
    None,
    Together,                    \* the sets of controls a behaviour may use
    Watched,                     \* the controls whose waiting is followed
    MAX_TRANSACTION_ATTEMPTS,
    MAX_REVISION,                \* bound of the model: revisions
    MAX_REQUESTS                 \* bound of the model: requests in flight

VARIABLES
    board,          \* the server's: its revision and the cards of its columns
    shown,          \* the snapshot displayed
    access,         \* whether the visitor is a member of the board
    load,           \* the page's current load: what it has read, if anything
    waiting,        \* controls that wait for the current load
    superseded,     \* controls that wait for a load a forced one superseded
    page,           \* "shown", "leaving" once the router was told, "left"
    ctl,            \* each control's state
    requests        \* requests in flight and what the server did with them

vars == <<board, shown, access, load, waiting, superseded, page, ctl,
          requests>>

-----------------------------------------------------------------------------
(* What the controls do.                                                   *)

Plain == [surface    |-> "BoardPage",
          creates    |-> FALSE,       \* sent twice, it makes two things
          expects    |-> {FALSE},     \* whether it sends expectedRevision
          word       |-> FALSE,       \* a word must be typed to confirm
          refresh    |-> "joined",    \* "forced", "none", "leaves"
          onConflict |-> FALSE,       \* a conflict refreshes the board
          unreadable |-> "saved",     \* or "locked", "kept"
          yields     |-> FALSE]       \* disabled while the page submits

\* A menu and its dialogs share one `pending`: one of them is at work at a time.
CardMenu == [Plain EXCEPT !.surface = "CardMenu"]

updateCard == CardMenu

deleteCard == [CardMenu EXCEPT !.expects = {TRUE}]

createActionItemOfCard == [CardMenu EXCEPT !.creates = TRUE]

GroupMenu == [Plain EXCEPT !.surface = "GroupMenu"]

\* The revision goes along when another primary card was chosen.
updateGroup == [GroupMenu EXCEPT !.expects = BOOLEAN]

ungroup == [GroupMenu EXCEPT !.expects = {TRUE}]

createActionItemOfGroup == [GroupMenu EXCEPT !.creates = TRUE]

GroupCardsDialog == [Plain EXCEPT !.surface = "GroupCardsDialog"]

createGroup == [GroupCardsDialog EXCEPT !.creates = TRUE, !.expects = {TRUE}]

ActionItemMenu == [Plain EXCEPT !.surface = "ActionItemMenu"]

updateActionItem == ActionItemMenu

toggleFromMenu == [ActionItemMenu EXCEPT !.yields = TRUE]

deleteActionItem == [ActionItemMenu EXCEPT !.expects = {TRUE}]

toggleCompleted == [Plain EXCEPT !.surface = "CompletionControl", !.yields = TRUE]

createActionItem ==
    [Plain EXCEPT !.surface = "ActionItemComposer", !.creates = TRUE, !.yields = TRUE]

\* The page's own submissions, for which it disables what yields to it.
onCreateCard == [Plain EXCEPT !.creates = TRUE, !.yields = TRUE]

onToggleVote == [Plain EXCEPT !.yields = TRUE]

saveTitle == [Plain EXCEPT !.surface = "BoardToolbar"]

QuickColumnDialog == [Plain EXCEPT !.surface = "QuickColumnDialog"]

quickCreateColumn ==
    [QuickColumnDialog EXCEPT !.creates = TRUE, !.expects = {TRUE}, !.refresh = "forced",
                              !.onConflict = TRUE, !.unreadable = "locked"]

\* The settings panel's operations, through runMutation.
BoardSettingsContent ==
    [Plain EXCEPT !.surface = "BoardSettings", !.onConflict = TRUE, !.yields = TRUE]

saveBoardSettings == BoardSettingsContent

createColumn == [BoardSettingsContent EXCEPT !.creates = TRUE, !.expects = {TRUE},
                                             !.unreadable = "kept"]

\* The revision goes along when the vote limit was changed.
saveColumn == [BoardSettingsContent EXCEPT !.expects = BOOLEAN]

deleteColumn == [BoardSettingsContent EXCEPT !.expects = {TRUE}, !.word = TRUE,
                                             !.unreadable = "kept"]

resetVotes == [deleteColumn EXCEPT !.yields = FALSE]

\* The access panel's: only a new name concerns the board that is shown.
BoardAccessContent ==
    [Plain EXCEPT !.surface = "BoardAccess", !.refresh = "none", !.yields = TRUE]

createInvitation == [BoardAccessContent EXCEPT !.creates = TRUE, !.unreadable = "kept"]

revokeInvitation == BoardAccessContent

revokeParticipant == BoardAccessContent

saveDisplayName == [BoardAccessContent EXCEPT !.refresh = "joined"]

\* Whoever leaves is shown another page, whatever the page was doing.
Leaves(content) == [content EXCEPT !.refresh = "leaves", !.yields = FALSE]

leave == Leaves(BoardAccessContent)

BoardDangerContent == [BoardAccessContent EXCEPT !.surface = "BoardDanger", !.word = TRUE]

deleteBoard == Leaves(BoardDangerContent)

Does == [updateCard |-> updateCard, deleteCard |-> deleteCard,
         createActionItemOfCard |-> createActionItemOfCard,
         updateGroup |-> updateGroup, ungroup |-> ungroup,
         createActionItemOfGroup |-> createActionItemOfGroup,
         createGroup |-> createGroup,
         updateActionItem |-> updateActionItem, toggleFromMenu |-> toggleFromMenu,
         deleteActionItem |-> deleteActionItem, toggleCompleted |-> toggleCompleted,
         createActionItem |-> createActionItem, onCreateCard |-> onCreateCard,
         onToggleVote |-> onToggleVote,
         saveTitle |-> saveTitle, quickCreateColumn |-> quickCreateColumn,
         saveBoardSettings |-> saveBoardSettings, createColumn |-> createColumn,
         saveColumn |-> saveColumn, deleteColumn |-> deleteColumn,
         resetVotes |-> resetVotes,
         createInvitation |-> createInvitation, revokeInvitation |-> revokeInvitation,
         revokeParticipant |-> revokeParticipant, saveDisplayName |-> saveDisplayName,
         leave |-> leave, deleteBoard |-> deleteBoard]

Strategy == {"", "moveCards", "deleteCards"}

\* A request from its submission until its answer is looked at.
InFlight == [control : DOMAIN Does, expected : Nat \cup {None},
             column : Column \cup {None}, strategy : Strategy,
             target : Column \cup {None}, seen : SUBSET Card, confirmed : BOOLEAN,
             attempt : Nat, revision : Nat \cup {None},
             state : {"sent", "saved", "unreadable", "conflict", "refused", "lost"}]

ASSUME ControlsAssumption ==
    /\ \A C \in Together : C \subseteq DOMAIN Does
    /\ None \notin Nat \cup InFlight
    /\ MAX_TRANSACTION_ATTEMPTS \in Nat \ {0}
    /\ MAX_REVISION \in Nat /\ MAX_REQUESTS \in Nat \ {0}

-----------------------------------------------------------------------------

Closed == [phase |-> "closed", column |-> None, strategy |-> "", target |-> None,
           typed |-> FALSE, confirmed |-> FALSE, acknowledged |-> FALSE,
           saved |-> None, request |-> None]

NoLoad == [state |-> "none", board |-> None]

Asked == [state |-> "asked", board |-> None]

Init ==
    /\ board \in [revision : {0}, cards : [Column -> SUBSET Card]]
    /\ \A c, d \in Column : c # d => board.cards[c] \cap board.cards[d] = {}
    /\ shown = board
    /\ access = TRUE
    /\ load = NoLoad /\ waiting = {} /\ superseded = {}
    /\ page = "shown"
    /\ ctl \in UNION {[C -> {Closed}] : C \in Together}
    /\ requests = [i \in 1 .. MAX_REQUESTS |-> None]

Used == DOMAIN ctl

Phase(c, p) == page # "left" /\ ctl[c].phase = p

\* A component disables its controls while one of them is at work; the page's
\* own submissions disable what would be opened anywhere.
Busy(surface) ==
    \E c \in Used : Does[c].surface = surface /\ ctl[c].phase \in {"sent", "refreshing"}

Free(c) == ~Busy(Does[c].surface)

interactionsDisabled == Busy("BoardPage")

-----------------------------------------------------------------------------
(* Opening, filling in and leaving.                                        *)

OpenControl(c) ==
    /\ c # "deleteColumn" /\ Phase(c, "closed") /\ Free(c) /\ ~interactionsDisabled
    /\ ctl' = [ctl EXCEPT ![c] = [Closed EXCEPT !.phase = "open"]]
    /\ UNCHANGED <<board, shown, access, load, waiting, superseded, page, requests>>

\* Mutant: what was chosen for another column is still there.
BegunAsLeft(column) ==
    [ctl["deleteColumn"] EXCEPT !.phase = "open", !.column = column, !.confirmed = FALSE]

Begun(column) == [Closed EXCEPT !.phase = "open", !.column = column]

beginDeleteColumn(column) ==
    /\ "deleteColumn" \in Used
    /\ Phase("deleteColumn", "closed") /\ Free("deleteColumn") /\ ~interactionsDisabled
    /\ column \in DOMAIN shown.cards /\ Cardinality(DOMAIN shown.cards) > 1
    /\ ctl' = [ctl EXCEPT !["deleteColumn"] = Begun(column)]
    /\ UNCHANGED <<board, shown, access, load, waiting, superseded, page, requests>>

\* The dialog is there while its column is, and offers a strategy while the
\* column is not empty.
OffersStrategy ==
    /\ "deleteColumn" \in Used
    /\ Phase("deleteColumn", "open") /\ Free("deleteColumn") /\ ~interactionsDisabled
    /\ ctl["deleteColumn"].column \in DOMAIN shown.cards
    /\ shown.cards[ctl["deleteColumn"].column] # {}

ChooseStrategy(strategy) ==
    /\ OffersStrategy
    /\ ctl' = [ctl EXCEPT !["deleteColumn"] =
                  [@ EXCEPT !.strategy = strategy, !.target = None,
                            !.typed = FALSE, !.confirmed = FALSE]]
    /\ UNCHANGED <<board, shown, access, load, waiting, superseded, page, requests>>

ChooseTarget(column) ==
    /\ OffersStrategy /\ ctl["deleteColumn"].strategy = "moveCards"
    /\ column \in DOMAIN shown.cards \ {ctl["deleteColumn"].column}
    /\ ctl' = [ctl EXCEPT !["deleteColumn"].target = column]
    /\ UNCHANGED <<board, shown, access, load, waiting, superseded, page, requests>>

\* confirmed remembers that the word was typed for what the dialog is about.
TypeWord(c) ==
    /\ Does[c].word /\ Phase(c, "open")
    /\ c = "deleteColumn" => OffersStrategy /\ ctl[c].strategy = "deleteCards"
    /\ ctl' = [ctl EXCEPT ![c].typed = TRUE, ![c].confirmed = TRUE]
    /\ UNCHANGED <<board, shown, access, load, waiting, superseded, page, requests>>

Cancel(c) ==
    /\ Phase(c, "open") \/ Phase(c, "locked")
    /\ ctl' = [ctl EXCEPT ![c].phase = "closed", ![c].column = None]
    /\ UNCHANGED <<board, shown, access, load, waiting, superseded, page, requests>>

\* The panel is closed, or a refresh takes away the card, group or column the
\* control belongs to: its state is lost, its request goes on.
Unmount(c) ==
    /\ Does[c].surface \notin {"BoardPage", "BoardToolbar", "QuickColumnDialog"}
    /\ page # "left" /\ ctl[c].phase # "closed"
    /\ ctl' = [ctl EXCEPT ![c] = Closed]
    /\ waiting' = waiting \ {c} /\ superseded' = superseded \ {c}
    /\ UNCHANGED <<board, shown, access, load, page, requests>>

-----------------------------------------------------------------------------
(* Sending.                                                                *)

ShownEmpty(column) == shown.cards[column] = {}

MayDeleteColumn(d) ==
    /\ d.column \in DOMAIN shown.cards /\ Cardinality(DOMAIN shown.cards) > 1
    /\ ~ShownEmpty(d.column) => d.strategy # ""
    /\ d.strategy = "moveCards" => d.target \notin {None, d.column}
    /\ d.strategy = "deleteCards" => d.typed

MaySubmit(c) ==
    /\ Phase(c, "open") /\ Free(c)
    /\ Does[c].yields => ~interactionsDisabled
    /\ IF c = "deleteColumn" THEN MayDeleteColumn(ctl[c]) ELSE Does[c].word => ctl[c].typed

\* seen and confirmed are what the request rests on: the cards shown in the
\* column and whether the word was typed for it.
Request(c, expects) ==
    [control |-> c,
     expected |-> IF expects THEN shown.revision ELSE None,
     column |-> ctl[c].column,
     strategy |-> IF c = "deleteColumn" /\ ShownEmpty(ctl[c].column)
                  THEN "" ELSE ctl[c].strategy,
     target |-> ctl[c].target,
     seen |-> IF c = "deleteColumn" THEN shown.cards[ctl[c].column] ELSE {},
     confirmed |-> ctl[c].confirmed,
     attempt |-> 0, revision |-> None, state |-> "sent"]

Submit(c) ==
    /\ MaySubmit(c)
    /\ \E i \in DOMAIN requests, expects \in Does[c].expects :
          /\ requests[i] = None /\ \A j \in 1 .. i - 1 : requests[j] # None
          /\ requests' = [requests EXCEPT ![i] = Request(c, expects)]
          /\ ctl' = [ctl EXCEPT ![c].phase = "sent", ![c].request = i]
    /\ UNCHANGED <<board, shown, access, load, waiting, superseded, page>>

-----------------------------------------------------------------------------
(* The server, and the way to it.                                          *)

Received(i) == requests[i] # None /\ requests[i].state = "sent"

Becomes(i, state) == requests' = [requests EXCEPT ![i].state = state]

\* withContentTransaction: an attempt that fails is rolled back; the last one
\* that fails is an error.
AttemptFails(i) ==
    /\ Received(i)
    /\ IF requests[i].attempt + 1 < MAX_TRANSACTION_ATTEMPTS
       THEN requests' = [requests EXCEPT ![i].attempt = @ + 1]
       ELSE Becomes(i, "refused")
    /\ UNCHANGED <<board, shown, access, load, waiting, superseded, page, ctl>>

Conflicts(r) == r.expected \notin {None, board.revision}

Conflict(i) ==
    /\ Received(i) /\ access /\ Conflicts(requests[i]) /\ Becomes(i, "conflict")
    /\ UNCHANGED <<board, shown, access, load, waiting, superseded, page, ctl>>

Refuse(i) ==
    /\ Received(i) /\ Becomes(i, "refused")
    /\ UNCHANGED <<board, shown, access, load, waiting, superseded, page, ctl>>

\* deleteBoardColumn: a column that is not empty needs a strategy.
CardsWithout(column, strategy, target) ==
    [d \in DOMAIN board.cards \ {column} |->
        IF d = target /\ strategy = "moveCards"
        THEN board.cards[d] \cup board.cards[column] ELSE board.cards[d]]

Applicable(r) ==
    r.control = "deleteColumn" =>
        /\ r.column \in DOMAIN board.cards /\ Cardinality(DOMAIN board.cards) > 1
        /\ r.strategy = "" => board.cards[r.column] = {}
        /\ r.strategy = "moveCards" => r.target \in DOMAIN board.cards \ {r.column}

Apply(i) ==
    LET r == requests[i] IN
    /\ Received(i) /\ access /\ ~Conflicts(r) /\ Applicable(r)
    /\ board.revision < MAX_REVISION
    /\ board' = [revision |-> board.revision + 1,
                 cards |-> IF r.control = "deleteColumn"
                           THEN CardsWithout(r.column, r.strategy, r.target)
                           ELSE board.cards]
    /\ access' = (r.control \notin {"leave", "deleteBoard"})
    /\ requests' = [requests EXCEPT ![i].state = "saved", ![i].revision = board'.revision]
    /\ UNCHANGED <<shown, load, waiting, superseded, page, ctl>>

\* Other members add cards and move them to other columns; the owner removes
\* the visitor.
OthersChange ==
    /\ board.revision < MAX_REVISION
    /\ \E k \in Card, c \in DOMAIN board.cards :
          board' = [revision |-> board.revision + 1,
                    cards |-> [d \in DOMAIN board.cards |->
                                  IF d = c THEN board.cards[d] \cup {k}
                                  ELSE board.cards[d] \ {k}]]
    /\ UNCHANGED <<shown, access, load, waiting, superseded, page, ctl, requests>>

Removed ==
    /\ access /\ access' = FALSE
    /\ UNCHANGED <<board, shown, load, waiting, superseded, page, ctl, requests>>

\* The network fails before the server has the request or after it answered,
\* or the answer's body does not arrive.
NetworkFails(i) ==
    /\ requests[i] # None /\ requests[i].state # "lost" /\ Becomes(i, "lost")
    /\ UNCHANGED <<board, shown, access, load, waiting, superseded, page, ctl>>

BodyCut(i) ==
    /\ requests[i] # None /\ requests[i].state = "saved" /\ Becomes(i, "unreadable")
    /\ UNCHANGED <<board, shown, access, load, waiting, superseded, page, ctl>>

-----------------------------------------------------------------------------
(* The answer, and the refresh behind it.                                  *)

\* Mutant: a forced load forgets who waits for the one it supersedes.
LoadForgetting(c, forced) ==
    /\ load' = IF load = NoLoad \/ forced THEN Asked ELSE load
    /\ waiting' = IF load = NoLoad \/ forced THEN {c} ELSE waiting \cup {c}
    /\ UNCHANGED superseded

\* load: the one in flight is joined unless this is forced; the controls that
\* wait for one a forced load supersedes hear of it when theirs is answered.
Load(c, forced) ==
    IF load = NoLoad \/ forced
    THEN /\ load' = Asked /\ waiting' = {c} /\ superseded' = superseded \cup waiting
    ELSE /\ waiting' = waiting \cup {c} /\ UNCHANGED <<load, superseded>>

Refreshes(c, saved, forced) ==
    /\ ctl' = [ctl EXCEPT ![c].phase = "refreshing", ![c].saved = saved,
                          ![c].acknowledged = (saved # None), ![c].request = None]
    /\ Load(c, forced)
    /\ UNCHANGED page

Rests(c, state) ==
    /\ ctl' = [ctl EXCEPT ![c] = state]
    /\ UNCHANGED <<load, waiting, superseded, page>>

Again(c) == [ctl[c] EXCEPT !.phase = "open", !.request = None]

Answered(c, answers) ==
    /\ Phase(c, "sent") /\ requests[ctl[c].request].state \in answers
    /\ requests' = [requests EXCEPT ![ctl[c].request] = None]
    /\ UNCHANGED <<board, shown, access>>

\* Any failure leaves the control as it was, to be sent again; a conflict has
\* some of them refresh the board before.
RequestFailed(c) ==
    /\ Answered(c, {"lost", "refused", "conflict"})
    /\ IF requests[ctl[c].request].state = "conflict" /\ Does[c].onConflict
       THEN Refreshes(c, None, FALSE)
       ELSE Rests(c, Again(c))

Readable(c) == IF Does[c].unreadable = "saved" THEN {"saved", "unreadable"} ELSE {"saved"}

RequestSaved(c) ==
    /\ Answered(c, Readable(c))
    /\ \/ /\ Does[c].refresh \in {"joined", "forced"}
          /\ Refreshes(c, requests[ctl[c].request].revision, Does[c].refresh = "forced")
       \/ Does[c].refresh = "none" /\ Rests(c, Closed)
       \/ /\ Does[c].refresh = "leaves" /\ page' = "leaving"
          /\ ctl' = [ctl EXCEPT ![c] = [Again(c) EXCEPT !.acknowledged = TRUE]]
          /\ UNCHANGED <<load, waiting, superseded>>

\* What was saved without the control being able to read it.
SavedUnread(c) ==
    /\ Answered(c, {"unreadable"}) /\ Does[c].unreadable # "saved"
    /\ \/ /\ Does[c].unreadable = "locked"
          /\ Rests(c, [Again(c) EXCEPT !.phase = "locked", !.acknowledged = TRUE])
       \/ /\ Does[c].unreadable = "kept"
          /\ IF Does[c].refresh = "none" THEN Rests(c, Again(c)) ELSE Refreshes(c, None, FALSE)

\* Nobody waits for the answer of a control that is gone.
AnswerUnheard(i) ==
    /\ requests[i] # None /\ requests[i].state # "sent"
    /\ \A c \in Used : ctl[c].request # i
    /\ requests' = [requests EXCEPT ![i] = None]
    /\ UNCHANGED <<board, shown, access, load, waiting, superseded, page, ctl>>

\* Mutant: a refresh that failed lets the dialog be sent again.
RefreshedOpens(c, revision) ==
    IF revision = None \/ ctl[c].saved = None THEN Again(c) ELSE Closed

\* A refresh that did not show what was saved locks the quick dialog; every
\* other control trusts it, and is done.
Refreshed(c, revision) ==
    CASE ctl[c].saved = None -> Again(c)
      [] /\ ctl[c].saved # None /\ Does[c].unreadable = "locked"
         /\ revision = None \/ revision < ctl[c].saved
            -> [Again(c) EXCEPT !.phase = "locked"]
      [] OTHER -> Closed

Release(C, revision) == [c \in Used |-> IF c \in C THEN Refreshed(c, revision) ELSE ctl[c]]

-----------------------------------------------------------------------------
(* The page's loads.                                                       *)

\* The realtime hook, its polling and the refresh button.
PageRefreshes ==
    /\ page # "left" /\ load = NoLoad /\ load' = Asked
    /\ UNCHANGED <<board, shown, access, waiting, superseded, page, ctl, requests>>

ReadBoard ==
    /\ load = Asked
    /\ load' = IF access THEN [state |-> "read", board |-> board]
               ELSE [load EXCEPT !.state = "not found"]
    /\ UNCHANGED <<board, shown, access, waiting, superseded, page, ctl, requests>>

LoadAnswered ==
    /\ load.state = "read"
    /\ shown' = load.board
    /\ ctl' = Release(waiting, load.board.revision)
    /\ load' = NoLoad /\ waiting' = {}
    /\ UNCHANGED <<board, access, superseded, page, requests>>

LoadFails ==
    /\ load # NoLoad
    /\ ctl' = Release(waiting, None)
    /\ load' = NoLoad /\ waiting' = {}
    /\ UNCHANGED <<board, shown, access, superseded, page, requests>>

SupersededAnswered(c) ==
    /\ c \in superseded
    /\ ctl' = Release({c}, None)
    /\ superseded' = superseded \ {c}
    /\ UNCHANGED <<board, shown, access, load, waiting, page, requests>>

\* The board is gone for this visitor, or the router shows another page.
LeavePage ==
    /\ load.state = "not found" \/ page = "leaving"
    /\ page' = "left" /\ load' = NoLoad /\ waiting' = {} /\ superseded' = {}
    /\ ctl' = [c \in Used |-> Closed]
    /\ UNCHANGED <<board, shown, access, requests>>

-----------------------------------------------------------------------------

Person ==
    \/ \E c \in Used : OpenControl(c) \/ TypeWord(c) \/ Cancel(c) \/ Unmount(c) \/ Submit(c)
    \/ \E c \in Column : beginDeleteColumn(c) \/ ChooseTarget(c)
    \/ \E s \in Strategy : ChooseStrategy(s)

Server ==
    \/ \E i \in DOMAIN requests :
          \/ AttemptFails(i) \/ Conflict(i) \/ Refuse(i) \/ Apply(i)
          \/ NetworkFails(i) \/ BodyCut(i) \/ AnswerUnheard(i)
    \/ OthersChange \/ Removed

Answers(c) == RequestFailed(c) \/ RequestSaved(c) \/ SavedUnread(c)

Loads == ReadBoard \/ LoadAnswered \/ LoadFails

Next ==
    \/ Person \/ Server \/ Loads \/ PageRefreshes \/ LeavePage
    \/ \E c \in Used : Answers(c) \/ SupersededAnswered(c)

\* Requests and loads are answered or fail, and the page goes on; nobody is
\* bound to do anything.
Fairness ==
    /\ \A i \in 1 .. MAX_REQUESTS :
          WF_vars(Conflict(i) \/ Refuse(i) \/ Apply(i) \/ NetworkFails(i))
    /\ WF_vars(Loads) /\ WF_vars(LeavePage)
    /\ \A c \in UNION Together : WF_vars(c \in Used /\ (Answers(c) \/ SupersededAnswered(c)))

Spec == Init /\ [][Next]_vars /\ Fairness

-----------------------------------------------------------------------------

Present(b) == UNION {b.cards[c] : c \in DOMAIN b.cards}

TakesEffect == {i \in DOMAIN requests : Received(i) /\ requests'[i].state = "saved"}

\* What a person cannot take back was confirmed for the very thing it is done
\* to, and cards go with their column only if they were shown in it when it was
\* confirmed: whatever dialogs were opened before, however often the board was
\* refreshed meanwhile, whoever else changed it (deleteColumn, resetVotes,
\* deleteBoard).
DestroysAsConfirmed ==
    [][/\ \A k \in Present(board) \ Present(board') :
             \E i \in TakesEffect : k \in requests[i].seen /\ requests[i].confirmed
       /\ \A i \in TakesEffect :
             requests[i].control \in {"resetVotes", "deleteBoard"} => requests[i].confirmed]_vars

\* What a control was told is saved is not in it any more to be sent again, on
\* whatever refresh follows: one that fails, is superseded or shows an older board
\* (QuickColumnDialog and the other controls that create something).
OncePerInput ==
    \A c \in Used : Does[c].creates /\ ctl[c].phase = "open" => ~ctl[c].acknowledged

\* No control waits for ever: not for a load it joined that another control
\* superseded, not for one that failed.
ControlsSettle ==
    \A c \in Watched :
        (c \in Used /\ ctl[c].phase \in {"sent", "refreshing"})
            ~> (c \in Used /\ ctl[c].phase \notin {"sent", "refreshing"})
=============================================================================
