----------------------------- MODULE BoardReads -----------------------------
(***************************************************************************)
(* What is read of a board, each time in one RepeatableRead transaction,   *)
(* which sees one state: its snapshot with the capabilities of the viewer, *)
(* the pages of its columns and its export; and what the client makes of   *)
(* it: the order it shows and the placement it asks for when an item is    *)
(* dropped.                                                                *)
(***************************************************************************)
EXTENDS BoardContent, Sequences

-----------------------------------------------------------------------------
(* Lists (board-query-service.ts, board-export-service.ts).                *)

ListOf(S, R) == [n \in 1 .. Cardinality(S) |-> CHOOSE i \in S : Rank(S, R, i) = n - 1]

\* listTopLevelItems.
Items(k) == ListOf(TopLevel(k), PositionOrder(TopLevel(k), position))

\* The item a page ends with and the position it had then.
NoCursor == <<None, 0>>
CursorOf(i) == <<i, position[i]>>

\* Where the page after a cursor starts; a cursor whose item is gone or has
\* moved is refused.
Anchor(all, cursor) ==
    IF cursor = NoCursor THEN {0}
    ELSE {n \in DOMAIN all : all[n] = cursor[1] /\ position[all[n]] = cursor[2]}

\* Mutant: the item read ahead is taken for the last one.
PageWithoutLast(k, cursor, limit) ==
    {[items |-> SubSeq(Items(k), n + 1, IF n + limit < Len(Items(k)) THEN n + limit ELSE Len(Items(k))),
      next |-> IF n + limit + 1 < Len(Items(k)) THEN CursorOf(Items(k)[n + limit]) ELSE NoCursor]
        : n \in Anchor(Items(k), cursor)}

\* getPageInTransaction: a page, none when the cursor is refused.
Page(k, cursor, limit) ==
    {[items |-> SubSeq(Items(k), n + 1, IF n + limit < Len(Items(k)) THEN n + limit ELSE Len(Items(k))),
      next |-> IF n + limit < Len(Items(k)) THEN CursorOf(Items(k)[n + limit]) ELSE NoCursor]
        : n \in Anchor(Items(k), cursor)}

\* What a client has that asks for page after page.
ReadAll(k, limit) ==
    LET readFrom[cursor \in {NoCursor} \cup {CursorOf(i) : i \in TopLevel(k)}] ==
            LET page == CHOOSE p \in Page(k, cursor, limit) : TRUE
            IN  page.items \o IF page.next = NoCursor THEN <<>> ELSE readFrom[page.next]
    IN  readFrom[NoCursor]

\* The cards of a group.
Originals(g) == ListOf(Members(g), MemberOrder(Members(g)))

\* Of an export: the cards and groups of a column by position, kind and id, and the
\* cards of each group.
ExportItems(k) ==
    LET ungrouped == Ungrouped(k)
        grouped == {g \in DOMAIN group : group[g].column = k}
        before(i, j) ==
            \/ position[i] < position[j]
            \/ position[i] = position[j] /\ i \in ungrouped /\ j \in grouped
            \/ position[i] = position[j] /\ (i \in ungrouped <=> j \in ungrouped) /\ i < j
        S == ungrouped \cup grouped
    IN  ListOf(S, {e \in S \X S : before(e[1], e[2])})

\* serializeTargetCsvExport: a row for each card, of a group all of its cards.
ExportRows(k) ==
    LET items == ExportItems(k)
        rowsFrom[n \in 1 .. Len(items) + 1] ==
            IF n > Len(items) THEN <<>>
            ELSE (IF items[n] \in Group THEN Originals(items[n]) ELSE <<items[n]>>) \o rowsFrom[n + 1]
    IN  rowsFrom[1]

-----------------------------------------------------------------------------
(* The view of member m.                                                   *)

\* capabilitiesFor.
Capabilities(m) ==
    [canManageSettings    |-> IsOwner(m),
     canManageAccess      |-> IsOwner(m),
     canManageColumns     |-> IsOwner(m) /\ ~settings.readOnly,
     canManageGroups      |-> IsOwner(m) /\ ~settings.readOnly /\ settings.cardsEnabled,
     canManageActionItems |-> IsOwner(m) /\ ~settings.readOnly,
     canResetVotes        |-> IsOwner(m) /\ ~settings.readOnly,
     canDeleteBoard       |-> IsOwner(m),
     canLeaveBoard        |-> ~IsOwner(m),
     canCreateCards       |-> ~settings.readOnly /\ settings.cardsEnabled,
     canVote              |-> ~settings.readOnly /\ settings.votingEnabled]

\* cardCapabilities.
CardCapabilities(m, c) ==
    LET canMutate == ~settings.readOnly /\ settings.cardsEnabled /\ MayChange(m, c)
    IN  [canEdit |-> canMutate, canDelete |-> canMutate, canMove |-> canMutate /\ card[c].group = None]

ViewerHasVoted(m, c) == <<c, m>> \in DOMAIN vote

\* Mutant: of the whole board.
RemainingOfBoard(m, k) ==
    LET used == Cardinality({u \in DOMAIN vote : u[2] = m})
    IN  IF used < voteLimit[k] THEN voteLimit[k] - used ELSE 0

\* remainingVotesByColumn.
RemainingVotes(m, k) ==
    LET used == Cardinality(VotesOf(vote, k, m))
    IN  IF used < voteLimit[k] THEN voteLimit[k] - used ELSE 0

-----------------------------------------------------------------------------
(* A drag (board-sort.ts, board-dnd.ts).                                   *)

\* sortBoardItemsByVotes, of a column sorted by votes; else the order read.
Shown(k, byVotes) ==
    IF ~byVotes THEN Items(k)
    ELSE ListOf(TopLevel(k),
                {e \in TopLevel(k) \X TopLevel(k) :
                    \/ VoteCount(e[1]) > VoteCount(e[2])
                    \/ VoteCount(e[1]) = VoteCount(e[2]) /\ e \in PositionOrder(TopLevel(k), position)})

IndexOf(s, x) == CHOOSE n \in DOMAIN s : s[n] = x

\* The items of a column but x, which it holds once at most.
Without(s, x) ==
    IF x \notin Range(s) THEN s
    ELSE LET n == IndexOf(s, x) IN SubSeq(s, 1, n - 1) \o SubSeq(s, n + 1, Len(s))

\* insertAt.
InsertAt(s, x, i) == SubSeq(s, 1, i) \o <<x>> \o SubSeq(s, i + 1, Len(s))

\* moveBoardSnapshot: item x is moved to the index i of column k.
Dropped(x, k, byVotes, i) == InsertAt(Without(Shown(k, byVotes), x), x, i)

BuildItemPlacement(final, x) ==
    LET n == IndexOf(final, x)
    IN  <<IF n = 1 THEN None ELSE final[n - 1], IF n = Len(final) THEN None ELSE final[n + 1]>>

-----------------------------------------------------------------------------
(* What the page offers member m (board-columns.tsx, board-settings-panel.tsx). *)

\* VoteButton, of a vote given or not.
CanToggle(m, k, hasVoted) ==
    Capabilities(m).canVote /\ voteLimit[k] > 0 /\ (hasVoted \/ RemainingVotes(m, k) > 0)

\* Mutant: a group's button shows a vote for any of its cards.
ItemVoteOfAny(m, i) ==
    IF i \in Group THEN <<group[i].primary, \E c \in Members(i) : ViewerHasVoted(m, c)>>
    ELSE <<i, ViewerHasVoted(m, i)>>

\* SortableBoardItem: a group's button is its primary card's.
ItemVote(m, i) ==
    LET c == IF i \in Group THEN group[i].primary ELSE i IN <<c, ViewerHasVoted(m, c)>>

\* GroupItemContent: what else the viewer voted for before it was grouped.
OriginalVotes(m, k) ==
    {<<c, TRUE>> : c \in {c \in CardsIn(k) : /\ card[c].group # None /\ ViewerHasVoted(m, c)
                                            /\ c # group[card[c].group].primary}}

VoteButtons(m, k) ==
    {v \in {ItemVote(m, i) : i \in TopLevel(k)} \cup OriginalVotes(m, k) : CanToggle(m, k, v[2])}

CardsOf(i) == IF i \in Group THEN Members(i) ELSE {i}

HasDragHandle(m, i) ==
    IF i \in Group THEN Capabilities(m).canManageGroups ELSE CardCapabilities(m, i).canMove

\* SortableColumn: its menu opens the dialog that groups its cards.
OpensGroupDialog(m, k) == Capabilities(m).canManageGroups /\ Cardinality(Ungrouped(k)) >= 2

\* BoardSettingsContent, once a strategy is chosen and confirmed.
OffersDeletion(m, k) ==
    /\ Capabilities(m).canManageColumns /\ Cardinality(LiveColumn) > 1
    /\ TopLevel(k) = {} \/ settings.cardsEnabled

-----------------------------------------------------------------------------
(* Properties.                                                             *)

\* At one revision every reader has the same list of a column, each item once,
\* whatever the size of its pages, and an export each card.  What a client shows
\* when it drops an item, in a column it shows by position or by votes, is what the
\* server makes of the placement the client asks for: never refused for the
\* revision it has, and never another order.
ReadersAgree ==
    \A k \in LiveColumn :
        /\ \A limit \in 1 .. 2 : ReadAll(k, limit) = Items(k)
        /\ ExportItems(k) = Items(k)
        /\ Range(ExportRows(k)) = CardsIn(k) /\ Len(ExportRows(k)) = Cardinality(CardsIn(k))
        /\ \A x \in DOMAIN position, byVotes \in BOOLEAN :
              (x \in Card => card[x].group = None) =>
              LET rest == TopLevel(k) \ {x}
              IN  \A i \in 0 .. Cardinality(rest) :
                     LET final == Dropped(x, k, byVotes, i)
                         placement == BuildItemPlacement(final, x)
                     IN  /\ Resolves(rest, ItemOrder(rest, byVotes), placement[1], placement[2])
                         /\ final = ListOf(rest \cup {x},
                                           InsertedOrder(rest, ItemOrder(rest, byVotes), x, placement[1]))

ColumnHolds(m, k) ==
    /\ (OpensGroupDialog(m, k) /\ Group # DOMAIN group)
          = \E c \in Ungrouped(k), g \in Group : ENABLED CreateCardGroup(m, k, Ungrouped(k), c, g)
    /\ OffersDeletion(m, k) = (ENABLED DeleteEmptyColumn(m, k) \/ ENABLED DeleteColumnAndCards(m, k))
    /\ Capabilities(m).canManageColumns = ENABLED UpdateBoardColumn(m, k, voteLimit[k])

BoardHolds(m) ==
    LET can == Capabilities(m) IN
    /\ \A g \in DOMAIN group : can.canManageGroups = ENABLED UngroupCardGroup(m, g)
    /\ (can.canCreateCards /\ Cardinality(DOMAIN card) < BOARD_CARD_LIMIT)
          = \E k \in LiveColumn, c \in Card : ENABLED CreateCard(m, k, c)
    /\ (can.canResetVotes /\ DOMAIN vote # {}) = ENABLED ResetBoardVotes(m)
    /\ \A i \in DOMAIN actionItem : can.canManageActionItems = ENABLED DeleteActionItem(m, i)
    /\ can.canManageSettings = ENABLED UpdateBoardSettings(m, settings)

\* What a page offers its viewer the server does, and what the snapshot's flags, roles
\* and remaining votes deny him the server refuses: they are computed from other rows
\* and by other code than the server's checks.  The server may do more than there are
\* buttons for: it takes a vote for any card of a group, which has one button, its
\* primary card's.  A drop is refused only for the votes it takes along, and every
\* vote can be taken back where it was given, whatever its card was grouped with since.
OffersHold ==
    \A m \in Member :
        /\ \A c \in DOMAIN card :
              /\ CardCapabilities(m, c).canEdit = ENABLED UpdateCard(m, c)
              /\ CardCapabilities(m, c).canDelete = ENABLED DeleteCard(m, c)
              /\ (CanToggle(m, card[c].column, FALSE) /\ ~ViewerHasVoted(m, c)) = ENABLED VoteForCard(m, c)
        /\ \A k \in LiveColumn :
              /\ \A v \in VoteButtons(m, k) :
                    IF v[2] THEN ENABLED RemoveVoteFromCard(m, v[1]) ELSE ENABLED VoteForCard(m, v[1])
              /\ \A c \in CardsIn(k) :
                    ENABLED RemoveVoteFromCard(m, c) => <<c, TRUE>> \in VoteButtons(m, k)
              /\ ColumnHolds(m, k)
              /\ \A i \in UNION {TopLevel(j) : j \in LiveColumn \ {k}} :
                    LET head == First(TopLevel(k), PositionOrder(TopLevel(k), position)) IN
                    (HasDragHandle(m, i) /\ WithinTargetLimit(CardsOf(i), k)) =
                       IF i \in Group THEN ENABLED MoveCardGroup(m, i, k, None, head, {})
                                      ELSE ENABLED MoveCard(m, i, k, None, head, {})
        /\ BoardHolds(m)
=============================================================================
