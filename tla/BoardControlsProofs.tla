------------------------- MODULE BoardControlsProofs -------------------------
(***************************************************************************)
(* The controls of a page do not offer to send again what they know is     *)
(* saved, and destroy what was confirmed and nothing else: for any sets of *)
(* controls that are used together, any columns and cards, any number of   *)
(* requests in flight and of attempts.                                     *)
(*                                                                         *)
(* A control that waits for a load is in no other phase (Waits), so the    *)
(* answer of a load, whichever it is, opens again only what was not told   *)
(* that it is saved (Held).  A request to delete a column carries the      *)
(* revision that its cards were seen at, and boards of one revision are    *)
(* the same board (Founded): the server, which compares revisions, compares  *)
(* the cards by it.                                                        *)
(***************************************************************************)
EXTENDS BoardControls, TLAPS

Board == [revision : Nat, cards : UNION {[C -> SUBSET Card] : C \in SUBSET Column}]

Control ==
    [phase : {"closed", "open", "sent", "refreshing", "locked"},
     column : Column \cup {None}, strategy : Strategy, target : Column \cup {None},
     typed : BOOLEAN, confirmed : BOOLEAN, acknowledged : BOOLEAN,
     saved : Nat \cup {None}, request : Nat \cup {None}]

TypeOK ==
    /\ board \in Board /\ shown \in Board /\ access \in BOOLEAN
    /\ load \in [state : {"none", "asked", "read", "not found"}, board : Board \cup {None}]
    /\ load.state = "read" => load.board \in Board
    /\ page \in {"shown", "leaving", "left"}
    /\ Used \subseteq DOMAIN Does /\ ctl \in [Used -> Control]
    /\ waiting \subseteq Used /\ superseded \subseteq Used
    /\ requests \in [1 .. MAX_REQUESTS -> InFlight \cup {None}]

\* A board that was read: as old as its revision says.
Read(b) ==
    /\ b.revision <= board.revision
    /\ b.revision = board.revision => b = board

BoardsRead == Read(shown) /\ (load.state = "read" => Read(load.board))

\* What a control in state s holds: a word typed is confirmed, and what is
\* saved already cannot be sent, nor will a refresh make it so.
Held(c, s) ==
    /\ s.typed => s.confirmed
    /\ Does[c].creates /\ s.phase \in {"open", "sent"} => ~s.acknowledged
    /\ s.phase = "refreshing" /\ s.saved = None => ~s.acknowledged

AllHeld == \A c \in Used : Held(c, ctl[c])

\* A control waits for one load, and does nothing else meanwhile.
Waits ==
    /\ waiting \cap superseded = {}
    /\ \A c \in waiting \cup superseded : ctl[c].phase = "refreshing"

\* The request a control awaits the answer of is under way, and its own.
Asks ==
    \A c \in Used : ctl[c].phase = "sent" =>
        /\ ctl[c].request \in DOMAIN requests
        /\ requests[ctl[c].request] # None /\ requests[ctl[c].request].control = c

\* What request r rests on when it takes effect.
Founded(r) ==
    /\ r.control # "deleteColumn" /\ Does[r.control].word => r.confirmed
    /\ r.control = "deleteColumn" =>
          /\ r.strategy = "deleteCards" => r.confirmed
          /\ r.expected \in Nat /\ r.expected <= board.revision
          /\ r.expected = board.revision => r.seen = board.cards[r.column]

AllFounded == \A i \in DOMAIN requests : requests[i] # None => Founded(requests[i])

IInv == TypeOK /\ BoardsRead /\ AllHeld /\ Waits /\ Asks /\ AllFounded

-----------------------------------------------------------------------------
(* What the proofs need of the table of the controls.                      *)

LEMMA DoesFacts ==
    /\ \A c \in DOMAIN Does : Does[c].creates => Does[c].refresh # "leaves"
    /\ Does["deleteColumn"].expects = {TRUE}
    /\ Does["resetVotes"].word /\ Does["deleteBoard"].word
  <1>1. /\ CardMenu.refresh = "joined" /\ GroupMenu.refresh = "joined"
        /\ GroupCardsDialog.refresh = "joined" /\ ActionItemMenu.refresh = "joined"
        /\ QuickColumnDialog.refresh = "joined" /\ BoardSettingsContent.refresh = "joined"
        /\ BoardAccessContent.refresh = "none" /\ ~BoardAccessContent.creates
        /\ BoardDangerContent.refresh = "none" /\ ~BoardDangerContent.creates
    BY DEF Plain, CardMenu, GroupMenu, GroupCardsDialog, ActionItemMenu, QuickColumnDialog,
           BoardSettingsContent, BoardAccessContent, BoardDangerContent
  <1>2. /\ updateCard.refresh = "joined" /\ deleteCard.refresh = "joined"
        /\ createActionItemOfCard.refresh = "joined" /\ updateGroup.refresh = "joined"
        /\ ungroup.refresh = "joined" /\ createActionItemOfGroup.refresh = "joined"
        /\ createGroup.refresh = "joined"
    BY DEF Plain, CardMenu, GroupMenu, GroupCardsDialog, updateCard, deleteCard,
           createActionItemOfCard, updateGroup, ungroup, createActionItemOfGroup, createGroup
  <1>3. /\ updateActionItem.refresh = "joined" /\ toggleFromMenu.refresh = "joined"
        /\ deleteActionItem.refresh = "joined" /\ toggleCompleted.refresh = "joined"
        /\ createActionItem.refresh = "joined" /\ onCreateCard.refresh = "joined"
        /\ onToggleVote.refresh = "joined" /\ saveTitle.refresh = "joined"
        /\ quickCreateColumn.refresh = "forced"
    BY DEF Plain, ActionItemMenu, QuickColumnDialog, updateActionItem, toggleFromMenu,
           deleteActionItem, toggleCompleted, createActionItem, onCreateCard, onToggleVote,
           saveTitle, quickCreateColumn
  <1>4. /\ saveBoardSettings.refresh = "joined" /\ createColumn.refresh = "joined"
        /\ saveColumn.refresh = "joined" /\ deleteColumn.refresh = "joined"
        /\ resetVotes.refresh = "joined"
        /\ deleteColumn.expects = {TRUE} /\ resetVotes.word
    BY DEF Plain, BoardSettingsContent, saveBoardSettings, createColumn, saveColumn,
           deleteColumn, resetVotes
  <1>5. /\ createInvitation.refresh = "none" /\ revokeInvitation.refresh = "none"
        /\ revokeParticipant.refresh = "none" /\ saveDisplayName.refresh = "joined"
        /\ ~leave.creates /\ ~deleteBoard.creates /\ deleteBoard.word
    BY DEF Plain, BoardAccessContent, BoardDangerContent, createInvitation, revokeInvitation,
           revokeParticipant, saveDisplayName, Leaves, leave, deleteBoard
  <1>6. /\ \A c \in DOMAIN Does : Does[c] \in
              {updateCard, deleteCard, createActionItemOfCard, updateGroup, ungroup,
               createActionItemOfGroup, createGroup, updateActionItem, toggleFromMenu,
               deleteActionItem, toggleCompleted, createActionItem, onCreateCard, onToggleVote,
               saveTitle, quickCreateColumn, saveBoardSettings, createColumn, saveColumn,
               deleteColumn, resetVotes, createInvitation, revokeInvitation,
               revokeParticipant, saveDisplayName, leave, deleteBoard}
        /\ Does["deleteColumn"] = deleteColumn
        /\ Does["resetVotes"] = resetVotes /\ Does["deleteBoard"] = deleteBoard
    BY DEF Does
  <1> QED
    BY <1>2, <1>3, <1>4, <1>5, <1>6

LEMMA NoneFacts == None \notin Nat /\ None \notin InFlight
  BY ControlsAssumption

LEMMA ClosedHeld == Closed \in Control /\ \A c \in Used : Held(c, Closed)
  BY DEF Closed, Control, Held, Strategy

-----------------------------------------------------------------------------
(* Steps by what they change.                                              *)

\* One control changes, and if it was sent its request may be gone with it.
LEMMA ControlStep ==
    ASSUME IInv, NEW c \in Used, NEW s \in Control, Held(c, s), s.phase # "sent",
           ctl' = [ctl EXCEPT ![c] = s],
           requests' \in [1 .. MAX_REQUESTS -> InFlight \cup {None}],
           \A i \in DOMAIN requests : requests'[i] \in {None, requests[i]},
           \A d \in Used \ {c} : ctl[d].phase = "sent" =>
               requests'[ctl[d].request] = requests[ctl[d].request],
           UNCHANGED <<board, shown, access>>, load' \in {load, Asked},
           page' \in {"shown", "leaving", "left"},
           waiting' \subseteq Used, superseded' \subseteq Used,
           waiting' \cap superseded' = {},
           \A d \in waiting' \cup superseded' :
               IF d = c THEN s.phase = "refreshing" ELSE d \in waiting \cup superseded
    PROVE  IInv'
  <1>1. Used' = Used /\ \A d \in Used : ctl'[d] = IF d = c THEN s ELSE ctl[d]
    BY DEF IInv, TypeOK, Used
  <1>2. TypeOK'
    <2>1. ctl' \in [Used' -> Control]
      BY <1>1 DEF IInv, TypeOK
    <2>2. load' \in [state : {"none", "asked", "read", "not found"}, board : Board \cup {None}]
          /\ (load'.state = "read" => load'.board \in Board)
      <3>1. CASE load' = load
        BY <3>1 DEF IInv, TypeOK
      <3>2. CASE load' = Asked
        BY <3>2 DEF Asked
      <3> QED
        BY <3>1, <3>2
    <2> QED
      BY <1>1, <2>1, <2>2 DEF IInv, TypeOK
  <1>3. BoardsRead'
    BY DEF IInv, BoardsRead, Read, Asked
  <1>4. AllHeld'
    BY <1>1 DEF IInv, AllHeld, Held
  <1>5. Waits'
    BY <1>1 DEF IInv, Waits
  <1>6. Asks'
    <2> SUFFICES ASSUME NEW d \in Used, d # c, ctl[d].phase = "sent"
                 PROVE  /\ ctl[d].request \in DOMAIN requests'
                        /\ requests'[ctl[d].request] # None
                        /\ requests'[ctl[d].request].control = d
      BY <1>1 DEF Asks
    <2>1. /\ ctl[d].request \in DOMAIN requests
          /\ requests[ctl[d].request] # None /\ requests[ctl[d].request].control = d
      BY DEF IInv, Asks
    <2>2. requests'[ctl[d].request] = requests[ctl[d].request]
      OBVIOUS
    <2> QED
      BY <2>1, <2>2 DEF IInv, TypeOK
  <1>7. AllFounded'
    <2> SUFFICES ASSUME NEW i \in DOMAIN requests, NEW q, q = requests'[i], q # None
                 PROVE  Founded(q)'
      BY DEF IInv, TypeOK, AllFounded, Founded
    <2>1. q = requests[i] /\ Founded(q)
      BY DEF IInv, AllFounded
    <2> QED
      BY <2>1 DEF Founded
  <1> QED
    BY <1>2, <1>3, <1>4, <1>5, <1>6, <1>7 DEF IInv

\* The same when nothing else changes.
LEMMA OnlyControl ==
    ASSUME IInv, NEW c \in Used, NEW s \in Control, Held(c, s), s.phase # "sent",
           c \notin waiting \cup superseded, ctl' = [ctl EXCEPT ![c] = s],
           UNCHANGED <<board, shown, access, load, waiting, superseded, page, requests>>
    PROVE  IInv'
  <1>1. /\ requests' \in [1 .. MAX_REQUESTS -> InFlight \cup {None}]
        /\ page' \in {"shown", "leaving", "left"}
        /\ waiting' \subseteq Used /\ superseded' \subseteq Used
        /\ waiting' \cap superseded' = {}
    BY DEF IInv, TypeOK, Waits
  <1> QED
    BY <1>1, ControlStep

\* A request changes, or is not looked at any more.
LEMMA RequestStep ==
    ASSUME IInv, NEW i \in DOMAIN requests, NEW r \in InFlight \cup {None},
           requests' = [requests EXCEPT ![i] = r],
           r = None => \A c \in Used : ctl[c].request # i,
           r # None => /\ requests[i] # None /\ r.control = requests[i].control
                       /\ Founded(r)',
           board' \in Board, access' \in BOOLEAN, BoardsRead',
           \A q \in InFlight : Founded(q) => Founded(q)',
           UNCHANGED <<shown, load, waiting, superseded, page, ctl>>
    PROVE  IInv'
  <1>1. TypeOK'
    BY DEF IInv, TypeOK, Used
  <1>2. AllHeld' /\ Waits'
    BY DEF IInv, AllHeld, Held, Waits, Used
  <1>3. Asks'
    BY DEF IInv, TypeOK, Asks, Used
  <1>4. AllFounded'
    <2>0. DOMAIN requests' = DOMAIN requests
      BY DEF IInv, TypeOK
    <2> SUFFICES ASSUME NEW j \in DOMAIN requests, NEW q, q = requests'[j], q # None
                 PROVE  Founded(q)'
      BY <2>0 DEF AllFounded, Founded
    <2>1. CASE j = i
      BY <2>1 DEF IInv, TypeOK
    <2>2. CASE j # i
      <3>1. q = requests[j] /\ q \in InFlight /\ Founded(q)
        BY <2>2 DEF IInv, TypeOK, AllFounded
      <3> QED
        BY <3>1
    <2> QED
      BY <2>1, <2>2
  <1> QED
    BY <1>1, <1>2, <1>3, <1>4 DEF IInv

\* What was read is older than a new revision, and so is what requests expect.
LEMMA NewRevision ==
    ASSUME IInv, board' \in Board, board'.revision = board.revision + 1,
           UNCHANGED <<shown, load>>
    PROVE  BoardsRead' /\ \A r \in InFlight : Founded(r) => Founded(r)'
  <1>1. board.revision \in Nat
    BY DEF IInv, TypeOK, Board
  <1>2. BoardsRead'
    <2>1. shown.revision \in Nat /\ shown.revision <= board.revision
      BY DEF IInv, TypeOK, BoardsRead, Read, Board
    <2>2. load.state = "read" =>
              load.board.revision \in Nat /\ load.board.revision <= board.revision
      BY DEF IInv, TypeOK, BoardsRead, Read, Board
    <2> QED
      BY <1>1, <2>1, <2>2 DEF BoardsRead, Read
  <1>3. ASSUME NEW r \in InFlight, Founded(r)
        PROVE  Founded(r)'
    BY <1>1, <1>3 DEF Founded
  <1> QED
    BY <1>2, <1>3

\* The controls that waited for a load are done with it.
LEMMA ReleaseStep ==
    ASSUME IInv, NEW C \in SUBSET (waiting \cup superseded), NEW revision \in Nat \cup {None},
           ctl' = Release(C, revision),
           waiting' \subseteq waiting \ C, superseded' \subseteq superseded \ C,
           shown' \in Board, Read(shown), Read(shown'), load' \in {load, NoLoad},
           UNCHANGED <<board, access, page, requests>>
    PROVE  IInv'
  <1>1. ASSUME NEW c \in C
        PROVE  /\ Refreshed(c, revision) \in Control
               /\ Refreshed(c, revision).phase \notin {"sent", "refreshing"}
               /\ Held(c, Refreshed(c, revision))
    <2>1. /\ ctl[c] \in Control /\ ctl[c].phase = "refreshing" /\ Held(c, ctl[c])
          /\ c \in Used
      BY DEF IInv, TypeOK, Waits, AllHeld
    <2>2. /\ Again(c) \in Control /\ Again(c).phase = "open"
          /\ Again(c).acknowledged = ctl[c].acknowledged
          /\ Again(c).typed = ctl[c].typed /\ Again(c).confirmed = ctl[c].confirmed
      BY <2>1 DEF Again, Control
    <2>3. CASE ctl[c].saved = None
      <3>1. Refreshed(c, revision) = Again(c)
        BY <2>3 DEF Refreshed
      <3> QED
        BY <2>1, <2>2, <2>3, <3>1 DEF Held
    <2>4. CASE /\ ctl[c].saved # None /\ Does[c].unreadable = "locked"
               /\ revision = None \/ revision < ctl[c].saved
      <3>1. Refreshed(c, revision) = [Again(c) EXCEPT !.phase = "locked"]
        BY <2>4 DEF Refreshed
      <3> QED
        BY <2>1, <2>2, <3>1 DEF Held, Control
    <2>5. CASE /\ ctl[c].saved # None
               /\ ~(/\ ctl[c].saved # None /\ Does[c].unreadable = "locked"
                    /\ revision = None \/ revision < ctl[c].saved)
      <3>1. Refreshed(c, revision) = Closed
        BY <2>5 DEF Refreshed
      <3>2. Closed.phase = "closed"
        BY DEF Closed
      <3> QED
        BY <2>1, <3>1, <3>2, ClosedHeld
    <2> QED
      BY <2>3, <2>4, <2>5
  <1>2. Used' = Used /\ \A c \in Used : ctl'[c] = IF c \in C THEN Refreshed(c, revision)
                                                  ELSE ctl[c]
    BY DEF Release, Used
  <1>3. TypeOK'
    <2>1. ctl' \in [Used' -> Control]
      BY <1>1, <1>2 DEF IInv, TypeOK, Release, Used
    <2>2. load' \in [state : {"none", "asked", "read", "not found"}, board : Board \cup {None}]
          /\ (load'.state = "read" => load'.board \in Board)
      <3>1. CASE load' = load
        BY <3>1 DEF IInv, TypeOK
      <3>2. CASE load' = NoLoad
        BY <3>2 DEF NoLoad
      <3> QED
        BY <3>1, <3>2
    <2> QED
      BY <1>2, <2>1, <2>2 DEF IInv, TypeOK
  <1>4. BoardsRead'
    BY DEF IInv, BoardsRead, Read, NoLoad
  <1>5. AllHeld'
    BY <1>1, <1>2 DEF IInv, AllHeld, Held
  <1>6. Waits'
    BY <1>2 DEF IInv, TypeOK, Waits
  <1>7. Asks'
    BY <1>1, <1>2 DEF IInv, Asks
  <1>8. AllFounded'
    BY DEF IInv, AllFounded, Founded
  <1> QED
    BY <1>3, <1>4, <1>5, <1>6, <1>7, <1>8 DEF IInv

-----------------------------------------------------------------------------
(* What a person does.                                                     *)

LEMMA OpenControlSound == ASSUME IInv, NEW c \in Used, OpenControl(c) PROVE IInv'
  <1> DEFINE s == [Closed EXCEPT !.phase = "open"]
  <1>1. s \in Control /\ s.phase = "open" /\ Held(c, s)
    BY DEF Closed, Control, Held, Strategy
  <1>2. c \notin waiting \cup superseded
    BY DEF OpenControl, Phase, IInv, Waits
  <1>3. ctl' = [ctl EXCEPT ![c] = s]
    BY DEF OpenControl
  <1> HIDE DEF s
  <1> QED
    BY <1>1, <1>2, <1>3, OnlyControl DEF OpenControl

LEMMA beginDeleteColumnSound ==
    ASSUME IInv, NEW column \in Column, beginDeleteColumn(column) PROVE IInv'
  <1> DEFINE c == "deleteColumn"
             s == Begun(column)
  <1>1. s \in Control /\ s.phase = "open" /\ Held(c, s)
    BY DEF Begun, Closed, Control, Held, Strategy
  <1>2. c \in Used /\ c \notin waiting \cup superseded
    BY DEF beginDeleteColumn, Phase, IInv, Waits
  <1>3. ctl' = [ctl EXCEPT ![c] = s]
    BY DEF beginDeleteColumn
  <1> HIDE DEF s, c
  <1> QED
    BY <1>1, <1>2, <1>3, OnlyControl DEF beginDeleteColumn

LEMMA ChooseStrategySound ==
    ASSUME IInv, NEW strategy \in Strategy, ChooseStrategy(strategy) PROVE IInv'
  <1> DEFINE c == "deleteColumn"
             s == [ctl[c] EXCEPT !.strategy = strategy, !.target = None,
                                 !.typed = FALSE, !.confirmed = FALSE]
  <1>1. c \in Used /\ ctl[c] \in Control /\ ctl[c].phase = "open" /\ Held(c, ctl[c])
    BY DEF ChooseStrategy, OffersStrategy, Phase, IInv, TypeOK, AllHeld
  <1>2. c \notin waiting \cup superseded
    BY <1>1 DEF IInv, Waits
  <1>3. s \in Control /\ s.phase = "open" /\ Held(c, s)
    BY <1>1 DEF Control, Held
  <1>4. ctl' = [ctl EXCEPT ![c] = s]
    BY DEF ChooseStrategy
  <1> HIDE DEF s, c
  <1> QED
    BY <1>1, <1>2, <1>3, <1>4, OnlyControl DEF ChooseStrategy

LEMMA ChooseTargetSound ==
    ASSUME IInv, NEW column \in Column, ChooseTarget(column) PROVE IInv'
  <1> DEFINE c == "deleteColumn"
             s == [ctl[c] EXCEPT !.target = column]
  <1>1. c \in Used /\ ctl[c] \in Control /\ ctl[c].phase = "open" /\ Held(c, ctl[c])
    BY DEF ChooseTarget, OffersStrategy, Phase, IInv, TypeOK, AllHeld
  <1>2. c \notin waiting \cup superseded
    BY <1>1 DEF IInv, Waits
  <1>3. s \in Control /\ s.phase = "open" /\ Held(c, s)
    BY <1>1 DEF Control, Held
  <1>4. ctl' = [ctl EXCEPT ![c] = s]
    BY DEF ChooseTarget
  <1> HIDE DEF s, c
  <1> QED
    BY <1>1, <1>2, <1>3, <1>4, OnlyControl DEF ChooseTarget

LEMMA TypeWordSound == ASSUME IInv, NEW c \in Used, TypeWord(c) PROVE IInv'
  <1> DEFINE s == [ctl[c] EXCEPT !.typed = TRUE, !.confirmed = TRUE]
  <1>1. ctl[c] \in Control /\ ctl[c].phase = "open" /\ Held(c, ctl[c])
    BY DEF TypeWord, Phase, IInv, TypeOK, AllHeld
  <1>2. c \notin waiting \cup superseded
    BY <1>1 DEF IInv, Waits
  <1>3. s \in Control /\ s.phase = "open" /\ Held(c, s)
    BY <1>1 DEF Control, Held
  <1>4. ctl' = [ctl EXCEPT ![c] = s]
    BY DEF TypeWord
  <1> HIDE DEF s
  <1> QED
    BY <1>2, <1>3, <1>4, OnlyControl DEF TypeWord

LEMMA CancelSound == ASSUME IInv, NEW c \in Used, Cancel(c) PROVE IInv'
  <1> DEFINE s == [ctl[c] EXCEPT !.phase = "closed", !.column = None]
  <1>1. ctl[c] \in Control /\ ctl[c].phase \in {"open", "locked"} /\ Held(c, ctl[c])
    BY DEF Cancel, Phase, IInv, TypeOK, AllHeld
  <1>2. c \notin waiting \cup superseded
    BY <1>1 DEF IInv, Waits
  <1>3. s \in Control /\ s.phase = "closed" /\ Held(c, s)
    BY <1>1 DEF Control, Held
  <1>4. ctl' = [ctl EXCEPT ![c] = s]
    BY DEF Cancel
  <1> HIDE DEF s
  <1> QED
    BY <1>2, <1>3, <1>4, OnlyControl DEF Cancel

LEMMA UnmountSound == ASSUME IInv, NEW c \in Used, Unmount(c) PROVE IInv'
  <1>1. Closed \in Control /\ Held(c, Closed) /\ Closed.phase = "closed"
    BY ClosedHeld DEF Closed
  <1>2. /\ requests' \in [1 .. MAX_REQUESTS -> InFlight \cup {None}]
        /\ page' \in {"shown", "leaving", "left"}
    BY DEF Unmount, IInv, TypeOK
  <1>3. /\ waiting' \subseteq Used /\ superseded' \subseteq Used
        /\ waiting' \cap superseded' = {}
        /\ \A d \in waiting' \cup superseded' : d # c /\ d \in waiting \cup superseded
    BY DEF Unmount, IInv, TypeOK, Waits
  <1> QED
    BY <1>1, <1>2, <1>3, ControlStep DEF Unmount

\* What is submitted rests on what is shown and on what was typed.
LEMMA RequestFounded ==
    ASSUME IInv, NEW c \in Used, MaySubmit(c), NEW expects \in Does[c].expects
    PROVE  Request(c, expects) \in InFlight /\ Founded(Request(c, expects))
  <1> DEFINE r == Request(c, expects)
  <1>1. /\ ctl[c] \in Control /\ Held(c, ctl[c]) /\ c \in DOMAIN Does
        /\ shown \in Board /\ Read(shown)
    BY DEF IInv, TypeOK, AllHeld, BoardsRead
  <1>2. c = "deleteColumn" => /\ ctl[c].column \in DOMAIN shown.cards
                              /\ shown.cards[ctl[c].column] \in SUBSET Card
    <2> SUFFICES ASSUME c = "deleteColumn"
                 PROVE  /\ ctl[c].column \in DOMAIN shown.cards
                        /\ shown.cards[ctl[c].column] \in SUBSET Card
      OBVIOUS
    <2>1. ctl[c].column \in DOMAIN shown.cards
      BY DEF MaySubmit, MayDeleteColumn
    <2>2. PICK C \in SUBSET Column : shown.cards \in [C -> SUBSET Card]
      BY <1>1 DEF Board
    <2> QED
      BY <2>1, <2>2
  <1>3. r \in InFlight
    <2>1. /\ r.expected \in Nat \cup {None} /\ r.strategy \in Strategy
          /\ r.seen \in SUBSET Card
      BY <1>1, <1>2 DEF Request, Board, Control, Strategy
    <2> QED
      BY <1>1, <2>1 DEF Request, Control, InFlight
  <1>4. Founded(r)
    <2>1. /\ r.control = c /\ r.confirmed = ctl[c].confirmed
          /\ r.column = ctl[c].column
      BY DEF Request
    <2>2. CASE c # "deleteColumn"
      BY <1>1, <2>1, <2>2 DEF Founded, MaySubmit, Held
    <2>3. CASE c = "deleteColumn"
      <3>1. expects = TRUE
        BY <2>3, DoesFacts
      <3>2. r.expected = shown.revision /\ r.seen = shown.cards[r.column]
        BY <2>1, <2>3, <3>1 DEF Request
      <3>3. shown.revision \in Nat
        BY <1>1 DEF Board
      <3>4. r.strategy = "deleteCards" => r.confirmed
        BY <1>1, <2>1, <2>3 DEF Request, MaySubmit, MayDeleteColumn, Held
      <3> QED
        BY <1>1, <2>1, <2>3, <3>2, <3>3, <3>4 DEF Founded, Read
    <2> QED
      BY <2>2, <2>3
  <1> QED
    BY <1>3, <1>4

LEMMA SubmitSound == ASSUME IInv, NEW c \in Used, Submit(c) PROVE IInv'
  <1>1. PICK i \in DOMAIN requests, expects \in Does[c].expects :
            /\ requests[i] = None
            /\ requests' = [requests EXCEPT ![i] = Request(c, expects)]
            /\ ctl' = [ctl EXCEPT ![c].phase = "sent", ![c].request = i]
    BY DEF Submit
  <1> DEFINE r == Request(c, expects)
             s == [ctl[c] EXCEPT !.phase = "sent", !.request = i]
  <1>2. /\ r \in InFlight /\ Founded(r) /\ r.control = c
    BY RequestFounded DEF Submit, Request
  <1>3. ctl[c] \in Control /\ ctl[c].phase = "open" /\ Held(c, ctl[c]) /\ i \in Nat
    <2>1. i \in Nat
      <3>1. MAX_REQUESTS \in Nat /\ i \in 1 .. MAX_REQUESTS
        BY ControlsAssumption DEF IInv, TypeOK
      <3> QED
        BY <3>1
    <2>2. ctl[c].phase = "open"
      BY DEF Submit, MaySubmit, Phase
    <2> QED
      BY <2>1, <2>2 DEF IInv, TypeOK, AllHeld
  <1>4. s \in Control /\ s.phase = "sent" /\ s.request = i /\ Held(c, s)
    BY <1>3 DEF Control, Held
  <1>5. ctl' = [ctl EXCEPT ![c] = s] /\ requests' = [requests EXCEPT ![i] = r]
    BY <1>1
  <1> HIDE DEF r, s
  <1>6. Used' = Used /\ \A d \in Used : ctl'[d] = IF d = c THEN s ELSE ctl[d]
    BY <1>5 DEF IInv, TypeOK, Used
  <1>7. /\ DOMAIN requests' = DOMAIN requests
        /\ \A j \in DOMAIN requests : requests'[j] = IF j = i THEN r ELSE requests[j]
    BY <1>5 DEF IInv, TypeOK
  <1>8. TypeOK'
    <2>1. ctl' \in [Used' -> Control]
      BY <1>4, <1>5, <1>6 DEF IInv, TypeOK
    <2> QED
      BY <1>2, <1>5, <1>6, <2>1 DEF IInv, TypeOK, Submit
  <1>9. BoardsRead' /\ AllHeld' /\ Waits'
    <2>1. BoardsRead'
      BY DEF IInv, BoardsRead, Read, Submit
    <2>2. AllHeld'
      BY <1>4, <1>6 DEF IInv, AllHeld, Held
    <2>3. Waits'
      BY <1>3, <1>6 DEF IInv, TypeOK, Waits, Submit
    <2> QED
      BY <2>1, <2>2, <2>3
  <1>10. Asks'
    <2> SUFFICES ASSUME NEW d \in Used, ctl'[d].phase = "sent"
                 PROVE  /\ ctl'[d].request \in DOMAIN requests
                        /\ requests'[ctl'[d].request] # None
                        /\ requests'[ctl'[d].request].control = d
      BY <1>6, <1>7 DEF Asks
    <2>1. CASE d = c
      BY <1>2, <1>4, <1>6, <1>7, <2>1, NoneFacts
    <2>2. CASE d # c
      <3>1. /\ ctl'[d] = ctl[d] /\ ctl[d].request \in DOMAIN requests
            /\ requests[ctl[d].request] # None /\ requests[ctl[d].request].control = d
        BY <1>6, <2>2 DEF IInv, Asks
      <3> QED
        BY <1>1, <1>7, <3>1
    <2> QED
      BY <2>1, <2>2
  <1>11. AllFounded'
    <2> SUFFICES ASSUME NEW j \in DOMAIN requests, NEW q, q = requests'[j], q # None
                 PROVE  Founded(q)'
      BY <1>7 DEF AllFounded, Founded
    <2>1. Founded(q)
      BY <1>2, <1>7 DEF IInv, AllFounded
    <2> QED
      BY <2>1 DEF Founded, Submit
  <1> QED
    BY <1>8, <1>9, <1>10, <1>11 DEF IInv

-----------------------------------------------------------------------------
(* What the server and the network do.                                     *)

\* The board stays, and so does all that rests on it.
LEMMA SameBoard ==
    ASSUME IInv, UNCHANGED <<board, access, shown, load>>
    PROVE  /\ board' \in Board /\ access' \in BOOLEAN /\ BoardsRead'
           /\ \A r \in InFlight : Founded(r) => Founded(r)'
  BY DEF IInv, TypeOK, BoardsRead, Read, Founded

LEMMA RequestFacts ==
    ASSUME IInv, NEW i \in DOMAIN requests, requests[i] # None
    PROVE  requests[i] \in InFlight /\ Founded(requests[i])
  BY DEF IInv, TypeOK, AllFounded

\* A request takes another state, for good.
LEMMA BecomesSound ==
    ASSUME IInv, NEW i \in DOMAIN requests, requests[i] # None,
           NEW state \in {"saved", "unreadable", "conflict", "refused", "lost"},
           Becomes(i, state),
           UNCHANGED <<board, shown, access, load, waiting, superseded, page, ctl>>
    PROVE  IInv'
  <1>0. PICK r : r = [requests[i] EXCEPT !.state = state]
    OBVIOUS
  <1>1. requests[i] \in InFlight /\ Founded(requests[i])
    BY RequestFacts
  <1>2. /\ r \in InFlight /\ r.control = requests[i].control /\ r.state # "sent"
        /\ r.confirmed = requests[i].confirmed /\ r.strategy = requests[i].strategy
        /\ r.expected = requests[i].expected /\ r.seen = requests[i].seen
        /\ r.column = requests[i].column
    BY <1>0, <1>1 DEF InFlight
  <1>3. requests' = [requests EXCEPT ![i] = r]
    BY <1>0 DEF Becomes
  <1>4. Founded(r)'
    BY <1>1, <1>2 DEF Founded
  <1> QED
    BY <1>2, <1>3, <1>4, NoneFacts, SameBoard, RequestStep

LEMMA AttemptFailsSound ==
    ASSUME IInv, NEW i \in DOMAIN requests, AttemptFails(i) PROVE IInv'
  <1>1. CASE requests[i].attempt + 1 < MAX_TRANSACTION_ATTEMPTS
    <2>0. PICK r : r = [requests[i] EXCEPT !.attempt = @ + 1]
      OBVIOUS
    <2>1. requests[i] # None /\ requests[i] \in InFlight /\ Founded(requests[i])
      BY RequestFacts DEF AttemptFails, Received
    <2>2. /\ r \in InFlight /\ r.control = requests[i].control
          /\ r.state = requests[i].state
          /\ r.confirmed = requests[i].confirmed /\ r.strategy = requests[i].strategy
          /\ r.expected = requests[i].expected /\ r.seen = requests[i].seen
          /\ r.column = requests[i].column
      BY <2>0, <2>1 DEF InFlight
    <2>3. requests' = [requests EXCEPT ![i] = r]
      BY <1>1, <2>0 DEF AttemptFails
    <2>4. UNCHANGED <<board, shown, access, load, waiting, superseded, page, ctl>>
      BY DEF AttemptFails
    <2>5. Founded(r)'
      BY <2>1, <2>2, <2>4 DEF Founded
    <2> QED
      BY <2>1, <2>2, <2>3, <2>4, <2>5, NoneFacts, SameBoard, RequestStep
  <1>2. CASE ~(requests[i].attempt + 1 < MAX_TRANSACTION_ATTEMPTS)
    BY <1>2, BecomesSound DEF AttemptFails, Received
  <1> QED
    BY <1>1, <1>2

\* What a board is.
LEMMA CardsTyped ==
    ASSUME IInv
    PROVE  /\ \E C \in SUBSET Column : board.cards \in [C -> SUBSET Card]
           /\ board.revision \in Nat
  BY DEF IInv, TypeOK, Board

LEMMA ApplySound == ASSUME IInv, NEW i \in DOMAIN requests, Apply(i) PROVE IInv'
  <1> PICK q : q = requests[i]
    OBVIOUS
  <1>1. q # None /\ q \in InFlight /\ Founded(q) /\ q.state = "sent"
    BY RequestFacts DEF Apply, Received
  <1>2. board' \in Board /\ board'.revision = board.revision + 1
    <2>1. PICK C \in SUBSET Column : board.cards \in [C -> SUBSET Card]
      BY CardsTyped
    <2>2. board.revision + 1 \in Nat
      BY CardsTyped
    <2>3. q.control = "deleteColumn" =>
              CardsWithout(q.column, q.strategy, q.target) \in [C \ {q.column} -> SUBSET Card]
      <3>1. q.control = "deleteColumn" => q.column \in C
        BY <2>1 DEF Apply, Applicable
      <3> QED
        BY <2>1, <3>1 DEF CardsWithout
    <2>4. board' = [revision |-> board.revision + 1,
                    cards |-> IF q.control = "deleteColumn"
                              THEN CardsWithout(q.column, q.strategy, q.target)
                              ELSE board.cards]
      BY DEF Apply
    <2>5. board'.cards \in UNION {[D -> SUBSET Card] : D \in SUBSET Column}
      <3>1. CASE q.control = "deleteColumn"
        BY <2>3, <2>4, <3>1
      <3>2. CASE q.control # "deleteColumn"
        BY <2>1, <2>4, <3>2
      <3> QED
        BY <3>1, <3>2
    <2> QED
      BY <2>2, <2>4, <2>5 DEF Board
  <1>3. board'.revision \in Nat
    BY <1>2 DEF Board
  <1>0. PICK r : r = [q EXCEPT !.state = "saved", !.revision = board'.revision]
    OBVIOUS
  <1>4. /\ r \in InFlight /\ r.control = q.control /\ r.state = "saved"
        /\ r.confirmed = q.confirmed /\ r.strategy = q.strategy
        /\ r.expected = q.expected /\ r.seen = q.seen /\ r.column = q.column
    <2>1. PICK n \in Nat : n = board'.revision
      BY <1>3
    <2>2. r = [q EXCEPT !.state = "saved", !.revision = n]
      BY <1>0, <2>1
    <2> QED
      BY <1>1, <2>2 DEF InFlight
  <1>5. requests' = [requests EXCEPT ![i] = r]
    BY <1>0 DEF Apply
  <1>6. BoardsRead' /\ \A p \in InFlight : Founded(p) => Founded(p)'
    BY <1>2, NewRevision DEF Apply
  <1>7. Founded(r)'
    <2>1. r.control = "deleteColumn" => /\ r.expected \in Nat
                                        /\ r.expected <= board.revision
      BY <1>1, <1>4 DEF Founded
    <2>2. r.control = "deleteColumn" => /\ r.expected <= board'.revision
                                        /\ r.expected # board'.revision
      BY <1>2, <2>1, CardsTyped
    <2> QED
      BY <1>1, <1>4, <2>1, <2>2 DEF Founded
  <1>8. access' \in BOOLEAN /\ UNCHANGED <<shown, load, waiting, superseded, page, ctl>>
    BY DEF Apply
  <1> QED
    BY <1>1, <1>2, <1>4, <1>5, <1>6, <1>7, <1>8, NoneFacts, RequestStep

LEMMA AnswerUnheardSound ==
    ASSUME IInv, NEW i \in DOMAIN requests, AnswerUnheard(i) PROVE IInv'
  BY SameBoard, RequestStep DEF AnswerUnheard

\* The board or the membership changes, and no request does.
LEMMA ServerStep ==
    ASSUME IInv, board' \in Board, access' \in BOOLEAN, BoardsRead',
           \A r \in InFlight : Founded(r) => Founded(r)',
           UNCHANGED <<shown, load, waiting, superseded, page, ctl, requests>>
    PROVE  IInv'
  <1>1. TypeOK' /\ AllHeld' /\ Waits' /\ Asks'
    BY DEF IInv, TypeOK, AllHeld, Held, Waits, Asks, Used
  <1>2. AllFounded'
    <2> SUFFICES ASSUME NEW j \in DOMAIN requests, NEW q, q = requests[j], q # None
                 PROVE  Founded(q)'
      BY DEF AllFounded, Founded
    <2> QED
      BY RequestFacts
  <1> QED
    BY <1>1, <1>2 DEF IInv

LEMMA OthersChangeSound == ASSUME IInv, OthersChange PROVE IInv'
  <1>1. PICK k \in Card, c \in DOMAIN board.cards :
            board' = [revision |-> board.revision + 1,
                      cards |-> [d \in DOMAIN board.cards |->
                                    IF d = c THEN board.cards[d] \cup {k}
                                    ELSE board.cards[d] \ {k}]]
    BY DEF OthersChange
  <1>2. PICK C \in SUBSET Column : board.cards \in [C -> SUBSET Card]
    BY CardsTyped
  <1>3. board'.cards \in [C -> SUBSET Card]
    BY <1>1, <1>2
  <1>4. board' \in Board /\ board'.revision = board.revision + 1
    BY <1>1, <1>2, <1>3, CardsTyped DEF Board
  <1>5. access' \in BOOLEAN
    BY DEF OthersChange, IInv, TypeOK
  <1> QED
    BY <1>4, <1>5, NewRevision, ServerStep DEF OthersChange

LEMMA RemovedSound == ASSUME IInv, Removed PROVE IInv'
  <1>1. /\ board' \in Board /\ BoardsRead' /\ access' \in BOOLEAN
        /\ \A r \in InFlight : Founded(r) => Founded(r)'
    BY DEF Removed, IInv, TypeOK, BoardsRead, Read, Founded
  <1> QED
    BY <1>1, ServerStep DEF Removed

-----------------------------------------------------------------------------
(* Answers.                                                                *)

\* The answer is the control's own, and nobody else awaits it.
LEMMA AnsweredFacts ==
    ASSUME IInv, NEW c \in Used, NEW answers, Answered(c, answers)
    PROVE  /\ ctl[c] \in Control /\ ctl[c].phase = "sent" /\ Held(c, ctl[c])
           /\ c \in DOMAIN Does /\ c \notin waiting \cup superseded
           /\ requests[ctl[c].request] \in InFlight
           /\ requests' \in [1 .. MAX_REQUESTS -> InFlight \cup {None}]
           /\ \A i \in DOMAIN requests : requests'[i] \in {None, requests[i]}
           /\ \A d \in Used \ {c} : ctl[d].phase = "sent" =>
                 requests'[ctl[d].request] = requests[ctl[d].request]
           /\ UNCHANGED <<board, shown, access>>
  <1>1. /\ ctl[c] \in Control /\ ctl[c].phase = "sent" /\ Held(c, ctl[c])
        /\ c \in DOMAIN Does
    BY DEF Answered, Phase, IInv, TypeOK, AllHeld
  <1>2. c \notin waiting \cup superseded
    BY <1>1 DEF IInv, Waits
  <1>3. /\ ctl[c].request \in DOMAIN requests /\ requests[ctl[c].request] # None
        /\ requests[ctl[c].request].control = c
    BY <1>1 DEF IInv, Asks
  <1>4. requests[ctl[c].request] \in InFlight
    BY <1>3, RequestFacts
  <1>5. requests' = [requests EXCEPT ![ctl[c].request] = None]
    BY DEF Answered
  <1>6. /\ requests' \in [1 .. MAX_REQUESTS -> InFlight \cup {None}]
        /\ \A i \in DOMAIN requests : requests'[i] \in {None, requests[i]}
    BY <1>5 DEF IInv, TypeOK
  <1>7. ASSUME NEW d \in Used \ {c}, ctl[d].phase = "sent"
        PROVE  requests'[ctl[d].request] = requests[ctl[d].request]
    <2>1. ctl[d].request \in DOMAIN requests /\ requests[ctl[d].request].control = d
      BY <1>7 DEF IInv, Asks
    <2>2. ctl[d].request # ctl[c].request
      BY <1>3, <2>1
    <2> QED
      BY <1>5, <2>1, <2>2 DEF IInv, TypeOK
  <1> QED
    BY <1>1, <1>2, <1>4, <1>6, <1>7 DEF Answered

\* The control is done with its answer.
LEMMA RestsSound ==
    ASSUME IInv, NEW c \in Used, NEW answers, Answered(c, answers),
           NEW s \in Control, Held(c, s), s.phase \notin {"sent", "refreshing"},
           ctl' = [ctl EXCEPT ![c] = s],
           UNCHANGED <<load, waiting, superseded>>, page' \in {page, "leaving"}
    PROVE  IInv'
  <1>1. /\ page' \in {"shown", "leaving", "left"}
        /\ waiting' \subseteq Used /\ superseded' \subseteq Used
        /\ waiting' \cap superseded' = {} /\ load' \in {load, Asked}
    BY DEF IInv, TypeOK, Waits
  <1>2. \A d \in waiting' \cup superseded' :
            IF d = c THEN s.phase = "refreshing" ELSE d \in waiting \cup superseded
    BY AnsweredFacts
  <1> QED
    BY <1>1, <1>2, AnsweredFacts, ControlStep

\* The control waits for a load, joined or its own; a load of its own has those
\* that waited hear of the one before.
LEMMA RefreshesSound ==
    ASSUME IInv, NEW c \in Used, NEW answers, Answered(c, answers),
           NEW saved \in Nat \cup {None}, NEW forced \in BOOLEAN,
           Refreshes(c, saved, forced)
    PROVE  IInv'
  <1> PICK s : s = [ctl[c] EXCEPT !.phase = "refreshing", !.saved = saved,
                                  !.acknowledged = (saved # None), !.request = None]
    OBVIOUS
  <1>1. ctl[c] \in Control /\ Held(c, ctl[c]) /\ c \notin waiting \cup superseded
    BY AnsweredFacts
  <1>2. s \in Control /\ s.phase = "refreshing" /\ Held(c, s)
    <2>1. (saved # None) \in BOOLEAN
      OBVIOUS
    <2> QED
      BY <1>1, <2>1 DEF Control, Held
  <1>3. ctl' = [ctl EXCEPT ![c] = s] /\ page' \in {"shown", "leaving", "left"}
    BY DEF Refreshes, IInv, TypeOK
  <1>4. /\ load' \in {load, Asked}
        /\ waiting' \subseteq Used /\ superseded' \subseteq Used
        /\ waiting' \cap superseded' = {}
        /\ \A d \in waiting' \cup superseded' : d # c => d \in waiting \cup superseded
    <2>1. CASE load = NoLoad \/ forced
      BY <1>1, <2>1 DEF Refreshes, Load, IInv, TypeOK, Waits
    <2>2. CASE ~(load = NoLoad \/ forced)
      BY <1>1, <2>2 DEF Refreshes, Load, IInv, TypeOK, Waits
    <2> QED
      BY <2>1, <2>2
  <1> QED
    BY <1>2, <1>3, <1>4, AnsweredFacts, ControlStep

LEMMA AgainHeld ==
    ASSUME IInv, NEW c \in Used, ctl[c].phase = "sent"
    PROVE  Again(c) \in Control /\ Again(c).phase = "open" /\ Held(c, Again(c))
  <1>1. ctl[c] \in Control /\ Held(c, ctl[c])
    BY DEF IInv, TypeOK, AllHeld
  <1> QED
    BY <1>1 DEF Again, Control, Held

LEMMA RequestFailedSound == ASSUME IInv, NEW c \in Used, RequestFailed(c) PROVE IInv'
  <1>1. Answered(c, {"lost", "refused", "conflict"}) /\ ctl[c].phase = "sent"
    BY AnsweredFacts DEF RequestFailed
  <1>2. CASE Refreshes(c, None, FALSE)
    BY <1>1, <1>2, RefreshesSound
  <1>3. CASE Rests(c, Again(c))
    <2>1. Again(c) \in Control /\ Again(c).phase = "open" /\ Held(c, Again(c))
      BY <1>1, AgainHeld
    <2>2. ctl' = [ctl EXCEPT ![c] = Again(c)] /\ UNCHANGED <<load, waiting, superseded, page>>
      BY <1>3 DEF Rests
    <2> QED
      BY <1>1, <2>1, <2>2, RestsSound
  <1> QED
    BY <1>2, <1>3 DEF RequestFailed

LEMMA RequestSavedSound == ASSUME IInv, NEW c \in Used, RequestSaved(c) PROVE IInv'
  <1>1. Answered(c, Readable(c)) /\ ctl[c].phase = "sent"
    BY AnsweredFacts DEF RequestSaved
  <1>2. CASE Refreshes(c, requests[ctl[c].request].revision, Does[c].refresh = "forced")
    <2>1. requests[ctl[c].request].revision \in Nat \cup {None}
      BY <1>1, AnsweredFacts DEF InFlight
    <2> QED
      BY <1>1, <1>2, <2>1, RefreshesSound
  <1>3. CASE Rests(c, Closed)
    <2>1. ctl' = [ctl EXCEPT ![c] = Closed] /\ UNCHANGED <<load, waiting, superseded, page>>
      BY <1>3 DEF Rests
    <2>2. Closed.phase = "closed"
      BY DEF Closed
    <2> QED
      BY <1>1, <2>1, <2>2, ClosedHeld, RestsSound
  <1>4. CASE /\ Does[c].refresh = "leaves" /\ page' = "leaving"
             /\ ctl' = [ctl EXCEPT ![c] = [Again(c) EXCEPT !.acknowledged = TRUE]]
             /\ UNCHANGED <<load, waiting, superseded>>
    <2> PICK s : s = [Again(c) EXCEPT !.acknowledged = TRUE]
      OBVIOUS
    <2>1. Again(c) \in Control /\ Again(c).phase = "open" /\ Held(c, Again(c))
      BY <1>1, AgainHeld
    <2>2. ~Does[c].creates
      BY <1>1, <1>4, AnsweredFacts, DoesFacts
    <2>3. s \in Control /\ s.phase = "open" /\ Held(c, s)
      BY <2>1, <2>2 DEF Control, Held
    <2> QED
      BY <1>1, <1>4, <2>3, RestsSound
  <1> QED
    BY <1>2, <1>3, <1>4 DEF RequestSaved

LEMMA SavedUnreadSound == ASSUME IInv, NEW c \in Used, SavedUnread(c) PROVE IInv'
  <1>1. Answered(c, {"unreadable"}) /\ ctl[c].phase = "sent"
    BY AnsweredFacts DEF SavedUnread
  <1>2. Again(c) \in Control /\ Again(c).phase = "open" /\ Held(c, Again(c))
    BY <1>1, AgainHeld
  <1>3. CASE Rests(c, [Again(c) EXCEPT !.phase = "locked", !.acknowledged = TRUE])
    <2> PICK s : s = [Again(c) EXCEPT !.phase = "locked", !.acknowledged = TRUE]
      OBVIOUS
    <2>1. s \in Control /\ s.phase = "locked" /\ Held(c, s)
      BY <1>2 DEF Control, Held
    <2>2. ctl' = [ctl EXCEPT ![c] = s] /\ UNCHANGED <<load, waiting, superseded, page>>
      BY <1>3 DEF Rests
    <2> QED
      BY <1>1, <2>1, <2>2, RestsSound
  <1>4. CASE Rests(c, Again(c))
    <2>1. ctl' = [ctl EXCEPT ![c] = Again(c)] /\ UNCHANGED <<load, waiting, superseded, page>>
      BY <1>4 DEF Rests
    <2> QED
      BY <1>1, <1>2, <2>1, RestsSound
  <1>5. CASE Refreshes(c, None, FALSE)
    BY <1>1, <1>5, RefreshesSound
  <1> QED
    BY <1>3, <1>4, <1>5 DEF SavedUnread

-----------------------------------------------------------------------------
(* Loads.                                                                  *)

\* What is read now is as old as it says.
LEMMA ReadNow == ASSUME IInv PROVE Read(board)
  <1>1. board.revision \in Nat
    BY CardsTyped
  <1>2. \A n \in Nat : n <= n
    OBVIOUS
  <1> QED
    BY <1>1, <1>2 DEF Read

\* The load goes on, and nobody hears of it yet.
LEMMA LoadStep ==
    ASSUME IInv, load' \in [state : {"asked", "read", "not found"}, board : Board \cup {None}],
           load'.state = "read" => load'.board = board,
           UNCHANGED <<board, shown, access, waiting, superseded, page, ctl, requests>>
    PROVE  IInv'
  <1>1. TypeOK'
    <2>1. load' \in [state : {"none", "asked", "read", "not found"}, board : Board \cup {None}]
          /\ (load'.state = "read" => load'.board \in Board)
      BY DEF IInv, TypeOK
    <2> QED
      BY <2>1 DEF IInv, TypeOK, Used
  <1>2. BoardsRead'
    BY ReadNow DEF IInv, BoardsRead, Read
  <1>3. AllHeld' /\ Waits' /\ Asks' /\ AllFounded'
    BY DEF IInv, AllHeld, Held, Waits, Asks, AllFounded, Founded, Used
  <1> QED
    BY <1>1, <1>2, <1>3 DEF IInv

LEMMA LoadsSound == ASSUME IInv, Loads \/ PageRefreshes PROVE IInv'
  <1>1. CASE PageRefreshes
    BY <1>1, LoadStep DEF PageRefreshes, Asked
  <1>2. CASE ReadBoard
    <2>1. load.state = "asked" /\ load.board = None
      BY <1>2 DEF ReadBoard, Asked
    <2>2. CASE access
      BY <1>2, <2>2, LoadStep DEF ReadBoard, IInv, TypeOK
    <2>3. CASE ~access
      <3>1. load' = [state |-> "not found", board |-> None]
        BY <1>2, <2>1, <2>3 DEF ReadBoard, Asked
      <3>2. /\ load' \in [state : {"asked", "read", "not found"}, board : Board \cup {None}]
            /\ load'.state # "read"
        BY <3>1
      <3>3. UNCHANGED <<board, shown, access, waiting, superseded, page, ctl, requests>>
        BY <1>2 DEF ReadBoard
      <3> QED
        BY <3>2, <3>3, LoadStep
    <2> QED
      BY <2>2, <2>3
  <1>3. CASE LoadAnswered
    <2>1. /\ load.board \in Board /\ Read(load.board) /\ Read(shown)
          /\ load.board.revision \in Nat
      BY <1>3 DEF LoadAnswered, IInv, TypeOK, BoardsRead, Board
    <2>2. /\ ctl' = Release(waiting, load.board.revision) /\ shown' = load.board
          /\ waiting' \subseteq waiting \ waiting /\ superseded' \subseteq superseded \ waiting
      BY <1>3 DEF LoadAnswered, IInv, Waits
    <2> QED
      BY <1>3, <2>1, <2>2, ReleaseStep DEF LoadAnswered
  <1>4. CASE LoadFails
    <2>1. shown' \in Board /\ Read(shown) /\ shown' = shown
      BY <1>4 DEF LoadFails, IInv, TypeOK, BoardsRead
    <2>2. /\ ctl' = Release(waiting, None)
          /\ waiting' \subseteq waiting \ waiting /\ superseded' \subseteq superseded \ waiting
      BY <1>4 DEF LoadFails, IInv, Waits
    <2> QED
      BY <1>4, <2>1, <2>2, ReleaseStep DEF LoadFails
  <1> QED
    BY <1>1, <1>2, <1>3, <1>4 DEF Loads

LEMMA SupersededAnsweredSound ==
    ASSUME IInv, NEW c \in Used, SupersededAnswered(c) PROVE IInv'
  <1>1. shown' \in Board /\ Read(shown) /\ shown' = shown
    BY DEF SupersededAnswered, IInv, TypeOK, BoardsRead
  <1>2. /\ ctl' = Release({c}, None) /\ {c} \subseteq waiting \cup superseded
        /\ waiting' \subseteq waiting \ {c} /\ superseded' \subseteq superseded \ {c}
    BY DEF SupersededAnswered, IInv, Waits
  <1> QED
    BY <1>1, <1>2, ReleaseStep DEF SupersededAnswered

LEMMA LeavePageSound == ASSUME IInv, LeavePage PROVE IInv'
  <1>1. Used' = Used /\ \A c \in Used : ctl'[c] = Closed
    BY DEF LeavePage, Used
  <1>2. Closed \in Control /\ Closed.phase = "closed" /\ \A c \in Used : Held(c, Closed)
    BY ClosedHeld DEF Closed
  <1>3. TypeOK'
    <2>1. ctl' \in [Used' -> Control]
      BY <1>1, <1>2 DEF LeavePage
    <2> QED
      BY <1>1, <2>1 DEF LeavePage, NoLoad, IInv, TypeOK
  <1>4. BoardsRead' /\ Waits'
    BY DEF LeavePage, NoLoad, IInv, BoardsRead, Read, Waits
  <1>5. AllHeld' /\ Asks'
    BY <1>1, <1>2 DEF AllHeld, Held, Asks
  <1>6. AllFounded'
    BY DEF LeavePage, IInv, AllFounded, Founded
  <1> QED
    BY <1>3, <1>4, <1>5, <1>6 DEF IInv

-----------------------------------------------------------------------------
(* The invariant.                                                          *)

LEMMA InitSound == ASSUME Init PROVE IInv
  <1>1. PICK C \in Together : ctl \in [C -> {Closed}]
    BY DEF Init
  <1>2. /\ C \subseteq DOMAIN Does /\ Used = C /\ \A c \in Used : ctl[c] = Closed
        /\ MAX_REQUESTS \in Nat
    BY <1>1, ControlsAssumption DEF Used
  <1>3. Closed \in Control /\ Closed.phase = "closed" /\ \A c \in Used : Held(c, Closed)
    BY ClosedHeld DEF Closed
  <1>4. board \in Board /\ shown = board
    BY DEF Init, Board
  <1>5. ctl \in [Used -> Control]
    BY <1>1, <1>2, <1>3
  <1>6. TypeOK
    BY <1>2, <1>4, <1>5 DEF Init, NoLoad, TypeOK
  <1>7. BoardsRead
    BY <1>4 DEF Init, NoLoad, BoardsRead, Read, Board
  <1>8. AllHeld /\ Waits /\ Asks
    BY <1>2, <1>3 DEF Init, AllHeld, Waits, Asks
  <1>9. AllFounded
    BY DEF Init, AllFounded
  <1> QED
    BY <1>6, <1>7, <1>8, <1>9 DEF IInv

LEMMA NextSound == ASSUME IInv, [Next]_vars PROVE IInv'
  <1>1. CASE Person
    BY <1>1, OpenControlSound, TypeWordSound, CancelSound, UnmountSound, SubmitSound,
       beginDeleteColumnSound, ChooseTargetSound, ChooseStrategySound DEF Person
  <1>2. CASE Server
    <2>1. ASSUME NEW i \in DOMAIN requests,
                 Conflict(i) \/ Refuse(i) \/ NetworkFails(i) \/ BodyCut(i)
          PROVE  IInv'
      BY <2>1, BecomesSound DEF Conflict, Refuse, NetworkFails, BodyCut, Received
    <2> QED
      BY <1>2, <2>1, AttemptFailsSound, ApplySound, AnswerUnheardSound, OthersChangeSound,
         RemovedSound DEF Server
  <1>3. CASE Loads \/ PageRefreshes
    BY <1>3, LoadsSound
  <1>4. CASE LeavePage
    BY <1>4, LeavePageSound
  <1>5. ASSUME NEW c \in Used, Answers(c) \/ SupersededAnswered(c)
        PROVE  IInv'
    BY <1>5, RequestFailedSound, RequestSavedSound, SavedUnreadSound, SupersededAnsweredSound
       DEF Answers
  <1>6. CASE UNCHANGED vars
    BY <1>6 DEF vars, IInv, TypeOK, BoardsRead, Read, AllHeld, Held, Waits, Asks, AllFounded,
                Founded, Used
  <1> QED
    BY <1>1, <1>2, <1>3, <1>4, <1>5, <1>6 DEF Next

\* What the controls, the loads and the requests know of each other and of the
\* board, whichever sets of controls are used together.
THEOREM ControlsSound == Spec => []IInv
  BY InitSound, NextSound, PTL DEF Spec

\* No control that creates something offers it again once it was told that it
\* is saved, whatever its refresh and those of the others come to.
THEOREM SentOncePerInput == Spec => []OncePerInput
  <1>1. IInv => OncePerInput
    BY DEF IInv, AllHeld, Held, OncePerInput
  <1> QED
    BY <1>1, ControlsSound, PTL

-----------------------------------------------------------------------------
(* What takes effect.                                                      *)

\* A request that takes effect deletes what was seen and confirmed.
LEMMA ApplyDestroys ==
    ASSUME IInv, NEW i \in DOMAIN requests, Apply(i)
    PROVE  /\ \A k \in Present(board) \ Present(board') :
                 k \in requests[i].seen /\ requests[i].confirmed
           /\ requests[i].control \in {"resetVotes", "deleteBoard"} => requests[i].confirmed
           /\ i \in TakesEffect /\ TakesEffect \subseteq {i}
  <1> PICK q : q = requests[i]
    OBVIOUS
  <1>1. q # None /\ q \in InFlight /\ Founded(q) /\ q.state = "sent"
    BY RequestFacts DEF Apply, Received
  <1>2. q.control \in {"resetVotes", "deleteBoard"} => q.confirmed
    BY <1>1, DoesFacts DEF Founded
  <1>3. i \in TakesEffect /\ TakesEffect \subseteq {i}
    <2>1. requests'[i].state = "saved"
      <3>1. requests' = [requests EXCEPT ![i] = [q EXCEPT !.state = "saved",
                                                          !.revision = board'.revision]]
        BY DEF Apply
      <3>2. requests'[i] = [q EXCEPT !.state = "saved", !.revision = board'.revision]
        BY <3>1
      <3> QED
        BY <1>1, <3>2 DEF InFlight
    <2>2. \A j \in DOMAIN requests \ {i} : requests'[j] = requests[j]
      BY DEF Apply
    <2> QED
      BY <2>1, <2>2 DEF TakesEffect, Received, Apply
  <1>4. ASSUME NEW k \in Present(board) \ Present(board')
        PROVE  k \in q.seen /\ q.confirmed
    <2>1. PICK c \in DOMAIN board.cards : k \in board.cards[c]
      BY DEF Present
    <2>2. \A d \in DOMAIN board'.cards : k \notin board'.cards[d]
      BY DEF Present
    <2>3. CASE q.control # "deleteColumn"
      <3>1. board'.cards = board.cards
        BY <2>3 DEF Apply
      <3> QED
        BY <2>1, <2>2, <3>1
    <2>4. CASE q.control = "deleteColumn"
      <3>1. board'.cards = CardsWithout(q.column, q.strategy, q.target)
        BY <2>4 DEF Apply
      <3>2. c = q.column
        <4> SUFFICES ASSUME c # q.column PROVE FALSE
          OBVIOUS
        <4>1. c \in DOMAIN board'.cards /\ k \in board'.cards[c]
          BY <2>1, <3>1 DEF CardsWithout
        <4> QED
          BY <2>2, <4>1
      <3>3. q.strategy # ""
        BY <2>1, <2>4, <3>2 DEF Apply, Applicable
      <3>4. q.strategy # "moveCards"
        <4> SUFFICES ASSUME q.strategy = "moveCards" PROVE FALSE
          OBVIOUS
        <4>1. q.target \in DOMAIN board.cards \ {q.column}
          BY <2>4 DEF Apply, Applicable
        <4>2. q.target \in DOMAIN board'.cards /\ k \in board'.cards[q.target]
          BY <2>1, <3>1, <3>2, <4>1 DEF CardsWithout
        <4> QED
          BY <2>2, <4>2
      <3>5. q.strategy = "deleteCards"
        BY <1>1, <3>3, <3>4 DEF InFlight, Strategy
      <3>6. q.expected = board.revision
        <4>1. q.expected \in {None, board.revision}
          BY DEF Apply, Conflicts
        <4>2. q.expected \in Nat
          BY <1>1, <2>4 DEF Founded
        <4> QED
          BY <4>1, <4>2, NoneFacts
      <3> QED
        BY <1>1, <2>1, <2>4, <3>2, <3>5, <3>6 DEF Founded
    <2> QED
      BY <2>3, <2>4
  <1> QED
    BY <1>2, <1>3, <1>4

\* Nothing else takes effect, and others take no cards away.
LEMMA NothingElseDestroys ==
    ASSUME IInv, [Next]_vars, \A i \in DOMAIN requests : ~Apply(i)
    PROVE  TakesEffect = {} /\ Present(board) \subseteq Present(board')
  <1>1. ASSUME NEW i \in DOMAIN requests, Received(i)
        PROVE  requests'[i].state # "saved"
    <2>1. requests[i] \in InFlight /\ requests[i].state = "sent" /\ requests[i] # None
      BY <1>1, RequestFacts DEF Received
    <2>2. CASE \E c \in Used : Submit(c)
      BY <2>1, <2>2 DEF Submit
    <2>3. ASSUME NEW j \in DOMAIN requests,
                 AttemptFails(j) \/ Conflict(j) \/ Refuse(j) \/ NetworkFails(j) \/ BodyCut(j)
          PROVE  requests'[i].state # "saved"
      BY <2>1, <2>3 DEF AttemptFails, Conflict, Refuse, NetworkFails, BodyCut, Received, Becomes,
                        InFlight
    <2>4. ASSUME NEW j \in DOMAIN requests, AnswerUnheard(j)
          PROVE  requests'[i].state # "saved"
      BY <2>1, <2>4 DEF AnswerUnheard
    <2>5. ASSUME NEW c \in Used, NEW answers, Answered(c, answers), "sent" \notin answers
          PROVE  requests'[i].state # "saved"
      BY <2>1, <2>5 DEF Answered
    <2>6. ASSUME NEW c \in Used, Answers(c)
          PROVE  requests'[i].state # "saved"
      BY <2>5, <2>6 DEF Answers, RequestFailed, RequestSaved, SavedUnread, Readable
    <2>7. CASE UNCHANGED requests
      BY <2>1, <2>7
    <2> QED
      BY <2>2, <2>3, <2>4, <2>6, <2>7
         DEF Next, vars, Person, OpenControl, TypeWord, Cancel, Unmount, beginDeleteColumn,
             ChooseTarget, ChooseStrategy, Server, OthersChange, Removed, Loads, ReadBoard,
             LoadAnswered, LoadFails, PageRefreshes, LeavePage, SupersededAnswered
  <1>2. Present(board) \subseteq Present(board')
    <2>1. CASE OthersChange
      <3>1. PICK k \in Card, c \in DOMAIN board.cards :
                board' = [revision |-> board.revision + 1,
                          cards |-> [d \in DOMAIN board.cards |->
                                        IF d = c THEN board.cards[d] \cup {k}
                                        ELSE board.cards[d] \ {k}]]
        BY <2>1 DEF OthersChange
      <3>2. /\ DOMAIN board'.cards = DOMAIN board.cards
            /\ \A d \in DOMAIN board.cards :
                  board'.cards[d] = IF d = c THEN board.cards[d] \cup {k}
                                    ELSE board.cards[d] \ {k}
        BY <3>1
      <3> QED
        BY <3>2 DEF Present
    <2>2. CASE UNCHANGED board
      BY <2>2 DEF Present
    <2> QED
      BY <2>1, <2>2
         DEF Next, vars, Person, OpenControl, TypeWord, Cancel, Unmount, Submit,
             beginDeleteColumn, ChooseTarget, ChooseStrategy, Server, AttemptFails, Conflict,
             Refuse, NetworkFails, BodyCut, AnswerUnheard, Removed, Loads, ReadBoard,
             LoadAnswered, LoadFails, PageRefreshes, LeavePage, SupersededAnswered, Answers,
             RequestFailed, RequestSaved, SavedUnread, Answered
  <1> QED
    BY <1>1, <1>2 DEF TakesEffect

\* Cards go with their column only if they were shown in it when that was asked
\* for and the word had been typed for that column; votes are reset and boards
\* deleted only when the word was typed: whatever is chosen before, refreshed or
\* changed by others meanwhile.
THEOREM DestroyedAsConfirmed == Spec => DestroysAsConfirmed
  <1>1. ASSUME IInv, [Next]_vars
        PROVE  [/\ \A k \in Present(board) \ Present(board') :
                     \E i \in TakesEffect : k \in requests[i].seen /\ requests[i].confirmed
                /\ \A i \in TakesEffect :
                     requests[i].control \in {"resetVotes", "deleteBoard"} =>
                         requests[i].confirmed]_vars
    <2>1. ASSUME NEW i \in DOMAIN requests, Apply(i)
          PROVE  /\ \A k \in Present(board) \ Present(board') :
                       \E j \in TakesEffect : k \in requests[j].seen /\ requests[j].confirmed
                 /\ \A j \in TakesEffect :
                       requests[j].control \in {"resetVotes", "deleteBoard"} =>
                           requests[j].confirmed
      BY <1>1, <2>1, ApplyDestroys
    <2>2. CASE \A i \in DOMAIN requests : ~Apply(i)
      BY <1>1, <2>2, NothingElseDestroys
    <2> QED
      BY <2>1, <2>2
  <1> QED
    BY <1>1, ControlsSound, PTL DEF Spec, DestroysAsConfirmed
=============================================================================
