---------------------------- MODULE BoardContent ----------------------------
(***************************************************************************)
(* The content of one board: its columns, cards, card groups, votes,       *)
(* action items, settings and revision, and every operation of the content *)
(* services (src/src/lib/services) that writes them.                       *)
(*                                                                         *)
(* Each operation runs in one ReadCommitted transaction whose first        *)
(* statement locks the board row FOR UPDATE (lockBoardForMutation), so the *)
(* operations on a board are serial and each is one action.  An operation  *)
(* refused by a guard, and one that changes nothing, leaves the state      *)
(* alone and is no action here.  Requests that carry an expectedRevision   *)
(* are those that carry the current one: any other is refused before       *)
(* anything is read.  Texts, titles, authors and assignees are left out,   *)
(* so an edit of them alone only increments the revision.                  *)
(***************************************************************************)
EXTENDS Placement, Functions

CONSTANTS
    Member,                  \* the active memberships, one visitor each
    Owner,                   \* the one whose role is OWNER
    Card, Group, Column, ActionItem,   \* row ids
    DefaultColumn,           \* the columns a board is created with
    DEFAULT_VOTE_LIMIT,      \* their vote limit (3)
    MAX_VOTE_LIMIT,          \* 20
    MAX_BOARD_COLUMNS,       \* 10
    BOARD_CARD_LIMIT,        \* getBoardCardLimit()
    MAX_GROUP_CARDS,         \* 100
    MAX_BOARD_ACTION_ITEMS,  \* 200
    MAX_REVISION             \* greatest value of the BIGINT column

ASSUME ContentAssumption ==
    /\ IsFiniteSet(Member) /\ Owner \in Member
    /\ \A S \in {Card, Group, Column, ActionItem} :
          IsFiniteSet(S) /\ S \subseteq Nat \ {None}
    /\ \A c \in Card, g \in Group : c < g
    /\ DefaultColumn \subseteq Column /\ DefaultColumn # {}
    /\ MAX_VOTE_LIMIT \in Nat /\ DEFAULT_VOTE_LIMIT \in 0 .. MAX_VOTE_LIMIT
    /\ MAX_BOARD_COLUMNS \in Nat /\ Cardinality(DefaultColumn) <= MAX_BOARD_COLUMNS
    /\ BOARD_CARD_LIMIT \in Nat /\ MAX_BOARD_ACTION_ITEMS \in Nat
    /\ MAX_GROUP_CARDS \in Nat
    /\ MAX_REVISION \in Nat

\* A rebalance of every row there can be, and one more, stays in range.
ASSUME RoomAssumption ==
    \A S \in {Card \cup Group, Column, ActionItem} :
        (Cardinality(S) + 1) * POSITION_STEP <= MAX_POSITION

VARIABLES
    settings,        \* the flags of the board row
    revision,        \* its revision
    voteLimit,       \* the live columns' vote limits
    columnPosition,  \* and positions
    card,            \* the live cards, without their positions
    group,           \* the live groups, without their positions
    position,        \* the position column of both tables
    vote,            \* the votes, by card and visitor
    actionItem,      \* the live action items' source cards
    actionPosition   \* and positions

columnVars == <<voteLimit, columnPosition>>
itemVars   == <<card, group, position>>
actionVars == <<actionItem, actionPosition>>
vars == <<settings, revision, columnVars, itemVars, vote, actionVars>>

-----------------------------------------------------------------------------
(* The rows. *)

Settings == [cardsEnabled : BOOLEAN, votingEnabled : BOOLEAN, readOnly : BOOLEAN]
CardRow  == [column : Column, group : Group \cup {None}, groupPosition : Nat,
             createdBy : Member]
GroupRow == [column : Column, primary : Card]
VoteRow  == [column : Column, slot : Nat \ {0}]

TypeOK ==
    /\ settings \in Settings
    /\ revision \in 0 .. MAX_REVISION
    /\ DOMAIN voteLimit \subseteq Column
    /\ voteLimit \in [DOMAIN voteLimit -> 0 .. MAX_VOTE_LIMIT]
    /\ columnPosition \in [DOMAIN voteLimit -> Int]
    /\ DOMAIN card \subseteq Card
    /\ card \in [DOMAIN card -> CardRow]
    /\ DOMAIN group \subseteq Group
    /\ group \in [DOMAIN group -> GroupRow]
    /\ position \in [DOMAIN card \cup DOMAIN group -> Int]
    /\ DOMAIN vote \subseteq Card \X Member
    /\ vote \in [DOMAIN vote -> VoteRow]
    /\ DOMAIN actionItem \subseteq ActionItem
    /\ actionItem \in [DOMAIN actionItem -> Card \cup {None}]
    /\ actionPosition \in [DOMAIN actionItem -> Int]

\* createTargetBoard, once the board exists.
Init ==
    /\ settings = [cardsEnabled |-> TRUE, votingEnabled |-> TRUE, readOnly |-> FALSE]
    /\ revision = 0
    /\ voteLimit = [k \in DefaultColumn |-> DEFAULT_VOTE_LIMIT]
    /\ columnPosition = Renumbered(DefaultColumn, PositionOrder(DefaultColumn, [k \in DefaultColumn |-> k]))
    /\ card = <<>> /\ group = <<>> /\ position = <<>> /\ vote = <<>>
    /\ actionItem = <<>> /\ actionPosition = <<>>

LiveColumn == DOMAIN voteLimit
Ungrouped(k) == {c \in DOMAIN card : card[c].column = k /\ card[c].group = None}
Members(g) == {c \in DOMAIN card : card[c].group = g}
\* listTopLevelItems: what a column shows side by side.
TopLevel(k) == Ungrouped(k) \cup {g \in DOMAIN group : group[g].column = k}

\* requireWritableBoard and requireCardsEnabled.
Writable == ~settings.readOnly
CardsWritable == Writable /\ settings.cardsEnabled
\* requireOwner.
IsOwner(m) == m = Owner
\* assertCardOwner.
MayChange(m, c) == IsOwner(m) \/ card[c].createdBy = m

\* incrementBoardRevision, the last write of every operation.
IncrementRevision ==
    /\ revision < MAX_REVISION
    /\ revision' = revision + 1

-----------------------------------------------------------------------------
(* Votes (vote-move-service.ts).  A visitor's votes in a column hold       *)
(* different quota slots, numbered from 1.                                 *)

VotesOf(w, k, v) == {u \in DOMAIN w : w[u].column = k /\ u[2] = v}

\* The order of ROW_NUMBER() in compactVoteSlots: by slot, and for equal slots
\* by creation time, which is left out: those in `early' were created first.
SlotOrder(w, S, early) ==
    {e \in S \X S :
        \/ w[e[1]].slot < w[e[2]].slot
        \/ /\ w[e[1]].slot = w[e[2]].slot
           /\ \/ e[1] \in early /\ e[2] \notin early
              \/ (e[1] \in early <=> e[2] \in early) /\ e[1][1] < e[2][1]}

\* The place of vote u among its visitor's in its column.
SlotRank(w, u, early) ==
    LET S == VotesOf(w, w[u].column, u[2]) IN Rank(S, SlotOrder(w, S, early), u)

\* Mutants: slots are not compacted, and are counted from 0.
SlotsKept(w, columns, early) == w

\* compactVoteSlots.
Compacted(w, columns, early) ==
    [u \in DOMAIN w |->
        IF w[u].column \in columns THEN [w[u] EXCEPT !.slot = 1 + SlotRank(w, u, early)] ELSE w[u]]

\* The check of moveVotesBetweenColumns: no visitor would exceed the limit.
WithinTargetLimit(cards, target) ==
    \A v \in Member :
        Cardinality({u \in DOMAIN vote : u[1] \in cards /\ u[2] = v})
            + Cardinality(VotesOf(vote, target, v)) <= voteLimit[target]

\* Mutant: the votes of what moves to another column are dropped.
MoveWithoutVotes(cards, source, target) ==
    vote' = IF source = target THEN vote
            ELSE Restrict(vote, {u \in DOMAIN vote : u[1] \notin cards})

\* moveVotesBetweenColumns.
MoveVotes(cards, source, target) ==
    IF source = target \/ cards = {}
    THEN vote' = vote
    ELSE /\ WithinTargetLimit(cards, target)
         /\ \E early \in SUBSET {u \in DOMAIN vote : u[1] \in cards} :
               vote' = Compacted([u \in DOMAIN vote |->
                                    IF u[1] \in cards
                                    THEN [vote[u] EXCEPT !.column = target]
                                    ELSE vote[u]],
                                 {source, target}, early)

FreeSlots(c, v) ==
    (1 .. voteLimit[card[c].column])
        \ {vote[u].slot : u \in VotesOf(vote, card[c].column, v)}

\* voteForCard; likeCardLegacyAdapter differs in its answers only.
VoteForCard(m, c) ==
    /\ Writable /\ settings.votingEnabled
    /\ c \in DOMAIN card
    /\ voteLimit[card[c].column] # 0
    /\ <<c, m>> \notin DOMAIN vote
    /\ \E slot \in FreeSlots(c, m) :
          /\ \A s \in FreeSlots(c, m) : slot <= s
          /\ vote' = Written(vote, [u \in {<<c, m>>} |->
                                      [column |-> card[c].column, slot |-> slot]])
    /\ IncrementRevision
    /\ UNCHANGED <<settings, columnVars, itemVars, actionVars>>

RemoveVoteFromCard(m, c) ==
    /\ Writable /\ settings.votingEnabled
    /\ <<c, m>> \in DOMAIN vote
    /\ voteLimit[card[c].column] # 0
    /\ vote' = Restrict(vote, DOMAIN vote \ {<<c, m>>})
    /\ IncrementRevision
    /\ UNCHANGED <<settings, columnVars, itemVars, actionVars>>

\* Voting need not be enabled.
ResetBoardVotes(m) ==
    /\ Writable /\ IsOwner(m)
    /\ DOMAIN vote # {}
    /\ vote' = <<>>
    /\ IncrementRevision
    /\ UNCHANGED <<settings, columnVars, itemVars, actionVars>>

-----------------------------------------------------------------------------
(* The order of a column, by position or by votes. *)

VoteCount(i) ==
    Cardinality(IF i \in Card
                THEN {u \in DOMAIN vote : u[1] = i}
                ELSE {u[2] : u \in {w \in DOMAIN vote : w[1] \in Members(i)}})

\* listTopLevelItemsByVotes: most votes first, then by position.
VoteOrder(S) ==
    {e \in S \X S :
        \/ VoteCount(e[1]) > VoteCount(e[2])
        \/ VoteCount(e[1]) = VoteCount(e[2]) /\ e \in PositionOrder(S, position)}

ItemOrder(S, byVotes) == IF byVotes THEN VoteOrder(S) ELSE PositionOrder(S, position)

\* materializeTopLevelItemMove: the order the client shows, x moved after b, is
\* written out as positions, in the column x leaves too.
MaterializedMove(x, source, target, b, a, sorted) ==
    LET rest == TopLevel(target) \ {x}
        order == ItemOrder(rest, target \in sorted)
        left == TopLevel(source) \ {x}
    IN  /\ Resolves(rest, order, b, a)
        /\ position' =
              Written(IF source = target
                      THEN position
                      ELSE Written(position, Renumbered(left, ItemOrder(left, source \in sorted))),
                      Renumbered(rest \cup {x}, InsertedOrder(rest, order, x, b)))

\* The move without a vote-sorted column: allocateTopLevelPosition.  Within its
\* column a move to the index the item already has changes nothing.
PositionedMove(x, source, target, b, a) ==
    LET rest == TopLevel(target) \ {x}
        order == PositionOrder(rest, position)
    IN  /\ Resolves(rest, order, b, a)
        /\ source = target =>
              UpTo(rest, order, b) # {i \in rest : <<i, x>> \in PositionOrder(TopLevel(source), position)}
        /\ position' = Written(position, Inserted(rest, position, x, b, a))

MoveItem(x, source, target, b, a, sorted) ==
    IF sorted # {}
    THEN MaterializedMove(x, source, target, b, a, sorted)
    ELSE PositionedMove(x, source, target, b, a)

-----------------------------------------------------------------------------
(* Cards (cards-votes-service.ts). *)

\* The new card goes to the head of the column (allocateHeadPosition).
CreateCard(m, k, c) ==
    /\ CardsWritable
    /\ k \in LiveColumn
    /\ Cardinality(DOMAIN card) < BOARD_CARD_LIMIT
    /\ c \in Card \ DOMAIN card
    /\ card' = Written(card, [x \in {c} |->
                 [column |-> k, group |-> None, groupPosition |-> 0, createdBy |-> m]])
    /\ position' = Written(position,
          Inserted(TopLevel(k), position, c, None,
                   First(TopLevel(k), PositionOrder(TopLevel(k), position))))
    /\ IncrementRevision
    /\ UNCHANGED <<settings, columnVars, group, vote, actionVars>>

UpdateCard(m, c) ==
    /\ CardsWritable
    /\ c \in DOMAIN card /\ MayChange(m, c)
    /\ IncrementRevision
    /\ UNCHANGED <<settings, columnVars, itemVars, vote, actionVars>>

MoveCard(m, c, target, b, a, sorted) ==
    /\ CardsWritable
    /\ c \in DOMAIN card /\ MayChange(m, c)
    /\ card[c].group = None
    /\ target \in LiveColumn
    /\ sorted \subseteq {card[c].column, target}
    /\ MoveItem(c, card[c].column, target, b, a, sorted)
    /\ MoveVotes({c}, card[c].column, target)
    /\ card' = [card EXCEPT ![c].column = target]
    /\ IncrementRevision
    /\ UNCHANGED <<settings, columnVars, group, actionVars>>

\* The order of a group's cards, by groupPosition and id.
MemberOrder(S) == PositionOrder(S, [c \in S |-> card[c].groupPosition])

\* Mutant: a primary card that leaves is not replaced.
PrimaryKept(g, rest) == group[g].primary

\* A primary card that is not among those left is replaced by the first of them.
PrimaryAmong(g, rest) ==
    IF group[g].primary \in rest THEN group[g].primary ELSE First(rest, MemberOrder(rest))

\* What leaving a group does: the last card left takes the group's place and
\* the group goes.
LeaveGroup(c, g) ==
    LET rest == Members(g) \ {c}
    IN  IF Cardinality(rest) = 1
        THEN /\ card' = [x \in DOMAIN card \ {c} |->
                           IF x \in rest
                           THEN [card[x] EXCEPT !.group = None, !.groupPosition = 0]
                           ELSE card[x]]
             /\ group' = Restrict(group, DOMAIN group \ {g})
             /\ position' = [x \in DOMAIN position \ {c, g} |->
                               IF x \in rest THEN position[g] ELSE position[x]]
        ELSE /\ card' = Restrict(card, DOMAIN card \ {c})
             /\ group' = [group EXCEPT ![g].primary = PrimaryAmong(g, rest)]
             /\ position' = Restrict(position, DOMAIN position \ {c})

\* Mutant: sources are not cleared.
SourcesUntouched(kept) == actionItem

\* The action items once only the cards in kept are left: the database clears
\* the source of those whose card is deleted.
SourcesAmong(kept) ==
    [i \in DOMAIN actionItem |-> IF actionItem[i] \in kept THEN actionItem[i] ELSE None]

\* The database deletes the card's votes too.
DeleteCard(m, c) ==
    /\ CardsWritable
    /\ c \in DOMAIN card /\ MayChange(m, c)
    /\ IF card[c].group # None
       THEN LeaveGroup(c, card[c].group)
       ELSE /\ card' = Restrict(card, DOMAIN card \ {c})
            /\ position' = Restrict(position, DOMAIN position \ {c})
            /\ UNCHANGED group
    /\ vote' = Restrict(vote, {u \in DOMAIN vote : u[1] # c})
    /\ actionItem' = SourcesAmong(DOMAIN card \ {c})
    /\ IncrementRevision
    /\ UNCHANGED <<settings, columnVars, actionPosition>>

-----------------------------------------------------------------------------
(* Groups (groups-service.ts). *)

\* Mutant: the group stands where its primary card stood.
PrimaryPlace(cards, primary) == position[primary]

\* The group stands where the first of its cards stood.
GroupPlace(cards, primary) == position[First(cards, PositionOrder(cards, position))]

\* The cards keep their own positions, which nothing reads while they are grouped.
CreateCardGroup(m, k, cards, primary, g) ==
    LET order == PositionOrder(cards, position)
    IN  /\ CardsWritable /\ IsOwner(m)
        /\ k \in LiveColumn
        /\ Cardinality(cards) \in 2 .. MAX_GROUP_CARDS
        /\ primary \in cards
        /\ cards \subseteq Ungrouped(k)
        /\ g \in Group \ DOMAIN group
        /\ group' = Written(group, [x \in {g} |-> [column |-> k, primary |-> primary]])
        /\ card' = [c \in DOMAIN card |->
                      IF c \in cards
                      THEN [card[c] EXCEPT !.group = g, !.groupPosition = Renumbered(cards, order)[c]]
                      ELSE card[c]]
        /\ position' = Written(position, [x \in {g} |-> GroupPlace(cards, primary)])
        /\ IncrementRevision
        /\ UNCHANGED <<settings, columnVars, vote, actionVars>>

\* With the primary card it has, the edit is one of the title.
UpdateCardGroup(m, g, primary) ==
    /\ CardsWritable /\ IsOwner(m)
    /\ g \in DOMAIN group
    /\ primary \in Members(g) \cup {group[g].primary}
    /\ group' = [group EXCEPT ![g].primary = primary]
    /\ IncrementRevision
    /\ UNCHANGED <<settings, columnVars, card, position, vote, actionVars>>

MoveCardGroup(m, g, target, b, a, sorted) ==
    /\ CardsWritable /\ IsOwner(m)
    /\ g \in DOMAIN group
    /\ target \in LiveColumn
    /\ sorted \subseteq {group[g].column, target}
    /\ MoveItem(g, group[g].column, target, b, a, sorted)
    /\ MoveVotes(Members(g), group[g].column, target)
    /\ card' = [c \in DOMAIN card |->
                  IF c \in Members(g) THEN [card[c] EXCEPT !.column = target] ELSE card[c]]
    /\ group' = [group EXCEPT ![g].column = target]
    /\ IncrementRevision
    /\ UNCHANGED <<settings, columnVars, actionVars>>

\* allocateUngroupPositions: the members, n of them, spread over the gap up to
\* the next item, when it is wide enough, and otherwise a full renumbering with
\* the members where the group was.
UngroupPositions(g, members) ==
    LET items == TopLevel(group[g].column)
        order == PositionOrder(items, position)
        later == {i \in items : <<g, i>> \in order}
        next == First(later, PositionOrder(later, position))
        n == Cardinality(members)
        gap == position[next] - position[g]
        rank == [c \in members |-> Rank(members, MemberOrder(members), c)]
        others == items \ {g}
        split == PositionOrder(others, position) \cup MemberOrder(members)
                     \cup ((others \ later) \X members) \cup (members \X later)
    IN  IF later = {} /\ position[g] + (n - 1) * POSITION_STEP <= MAX_POSITION
        THEN [c \in members |-> position[g] + rank[c] * POSITION_STEP]
        ELSE IF later # {} /\ gap > n - 1
        THEN [c \in members |-> position[g] + ((gap * rank[c]) \div n)]
        ELSE Renumbered(others \cup members, split)

UngroupCardGroup(m, g) ==
    /\ CardsWritable /\ IsOwner(m)
    /\ g \in DOMAIN group
    /\ Cardinality(Members(g)) >= 2
    /\ position' = Restrict(Written(position, UngroupPositions(g, Members(g))), DOMAIN position \ {g})
    /\ card' = [c \in DOMAIN card |->
                  IF c \in Members(g)
                  THEN [card[c] EXCEPT !.group = None, !.groupPosition = 0]
                  ELSE card[c]]
    /\ group' = Restrict(group, DOMAIN group \ {g})
    /\ IncrementRevision
    /\ UNCHANGED <<settings, columnVars, vote, actionVars>>

-----------------------------------------------------------------------------
(* Columns (columns-service.ts). *)

ColumnOrder(S) == PositionOrder(S, columnPosition)

CreateBoardColumn(m, k, limit, b, a) ==
    /\ Writable /\ IsOwner(m)
    /\ Cardinality(LiveColumn) < MAX_BOARD_COLUMNS
    /\ k \in Column \ LiveColumn
    /\ limit \in 0 .. MAX_VOTE_LIMIT
    /\ Resolves(LiveColumn, ColumnOrder(LiveColumn), b, a)
    /\ columnPosition' = Inserted(LiveColumn, columnPosition, k, b, a)
    /\ voteLimit' = Written(voteLimit, [x \in {k} |-> limit])
    /\ IncrementRevision
    /\ UNCHANGED <<settings, itemVars, vote, actionVars>>

\* A lower limit is refused when a visitor has used more, and otherwise the
\* slots are compacted.  With the limit it has, the edit is one of the title.
UpdateBoardColumn(m, k, limit) ==
    /\ Writable /\ IsOwner(m)
    /\ k \in LiveColumn
    /\ limit \in 0 .. MAX_VOTE_LIMIT
    /\ IF limit < voteLimit[k]
       THEN /\ \A v \in Member : Cardinality(VotesOf(vote, k, v)) <= limit
            /\ vote' = Compacted(vote, {k}, {})
       ELSE vote' = vote
    /\ voteLimit' = [voteLimit EXCEPT ![k] = limit]
    /\ IncrementRevision
    /\ UNCHANGED <<settings, columnPosition, itemVars, actionVars>>

MoveBoardColumn(m, k, b, a) ==
    LET rest == LiveColumn \ {k}
    IN  /\ Writable /\ IsOwner(m)
        /\ k \in LiveColumn
        /\ Resolves(rest, ColumnOrder(rest), b, a)
        /\ UpTo(rest, ColumnOrder(rest), b) # {i \in rest : <<i, k>> \in ColumnOrder(LiveColumn)}
        /\ columnPosition' = Inserted(rest, columnPosition, k, b, a)
        /\ IncrementRevision
        /\ UNCHANGED <<settings, voteLimit, itemVars, vote, actionVars>>

\* appendMovedItems: the items of k after those of target, which are
\* renumbered too when there is no room behind the last.
Appended(k, target) ==
    LET moved == TopLevel(k)
        kept == TopLevel(target)
        last == IF kept = {} THEN 0
                ELSE position[CHOOSE i \in kept : \A j \in kept \ {i} : <<j, i>> \in PositionOrder(kept, position)]
        movedOrder == PositionOrder(moved, position)
    IN  IF last + Cardinality(moved) * POSITION_STEP <= MAX_POSITION
        THEN [i \in moved |-> last + Renumbered(moved, movedOrder)[i]]
        ELSE Renumbered(kept \cup moved,
                        PositionOrder(kept, position) \cup movedOrder \cup (kept \X moved))

ColumnGone(k) ==
    /\ voteLimit' = Restrict(voteLimit, LiveColumn \ {k})
    /\ columnPosition' = Restrict(columnPosition, LiveColumn \ {k})

CardsIn(k) == {c \in DOMAIN card : card[c].column = k}

\* Mutant: a column of cards goes whether or not cards are enabled.
MayDeleteAnyColumn(m, k) ==
    /\ Writable /\ IsOwner(m)
    /\ k \in LiveColumn
    /\ Cardinality(LiveColumn) > 1

MayDeleteColumn(m, k) ==
    /\ Writable /\ IsOwner(m)
    /\ k \in LiveColumn
    /\ Cardinality(LiveColumn) > 1
    /\ CardsIn(k) # {} => settings.cardsEnabled

\* Without a strategy only a column without cards is deleted.
DeleteEmptyColumn(m, k) ==
    /\ MayDeleteColumn(m, k)
    /\ CardsIn(k) = {}
    /\ ColumnGone(k)
    /\ IncrementRevision
    /\ UNCHANGED <<settings, itemVars, vote, actionVars>>

DeleteColumnMovingCards(m, k, target) ==
    /\ MayDeleteColumn(m, k)
    /\ target \in LiveColumn \ {k}
    /\ MoveVotes(CardsIn(k), k, target)
    /\ card' = [c \in DOMAIN card |->
                  IF c \in CardsIn(k) THEN [card[c] EXCEPT !.column = target] ELSE card[c]]
    /\ group' = [g \in DOMAIN group |->
                   IF group[g].column = k THEN [group[g] EXCEPT !.column = target] ELSE group[g]]
    /\ position' = Written(position, Appended(k, target))
    /\ ColumnGone(k)
    /\ IncrementRevision
    /\ UNCHANGED <<settings, actionVars>>

DeleteColumnAndCards(m, k) ==
    /\ MayDeleteColumn(m, k)
    /\ LET kept == {c \in DOMAIN card : card[c].column # k}
           keptGroups == {g \in DOMAIN group : group[g].column # k}
       IN  /\ card' = Restrict(card, kept)
           /\ group' = Restrict(group, keptGroups)
           /\ position' = Restrict(position, kept \cup keptGroups)
           /\ vote' = Restrict(vote, {u \in DOMAIN vote : vote[u].column # k /\ u[1] \in kept})
           /\ actionItem' = SourcesAmong(kept)
    /\ ColumnGone(k)
    /\ IncrementRevision
    /\ UNCHANGED <<settings, actionPosition>>

-----------------------------------------------------------------------------
(* Action items (action-items-service.ts) and settings. *)

ActionOrder(S) == PositionOrder(S, actionPosition)

\* From nothing, from a card, or from a group, whose primary card is the source.
ActionSources == {None} \cup DOMAIN card \cup {group[g].primary : g \in DOMAIN group}

CreateActionItem(m, i, source) ==
    /\ Writable /\ IsOwner(m)
    /\ Cardinality(DOMAIN actionItem) < MAX_BOARD_ACTION_ITEMS
    /\ i \in ActionItem \ DOMAIN actionItem
    /\ source \in ActionSources
    /\ actionItem' = Written(actionItem, [x \in {i} |-> source])
    /\ actionPosition' = Inserted(DOMAIN actionItem, actionPosition, i, None,
                                  First(DOMAIN actionItem, ActionOrder(DOMAIN actionItem)))
    /\ IncrementRevision
    /\ UNCHANGED <<settings, columnVars, itemVars, vote>>

UpdateActionItem(m, i) ==
    /\ Writable /\ IsOwner(m)
    /\ i \in DOMAIN actionItem
    /\ IncrementRevision
    /\ UNCHANGED <<settings, columnVars, itemVars, vote, actionVars>>

MoveActionItem(m, i, b, a) ==
    LET rest == DOMAIN actionItem \ {i}
    IN  /\ Writable /\ IsOwner(m)
        /\ i \in DOMAIN actionItem
        /\ Resolves(rest, ActionOrder(rest), b, a)
        /\ UpTo(rest, ActionOrder(rest), b) # {j \in rest : <<j, i>> \in ActionOrder(DOMAIN actionItem)}
        /\ actionPosition' = Inserted(rest, actionPosition, i, b, a)
        /\ IncrementRevision
        /\ UNCHANGED <<settings, columnVars, itemVars, vote, actionItem>>

DeleteActionItem(m, i) ==
    /\ Writable /\ IsOwner(m)
    /\ i \in DOMAIN actionItem
    /\ actionItem' = Restrict(actionItem, DOMAIN actionItem \ {i})
    /\ actionPosition' = Restrict(actionPosition, DOMAIN actionItem \ {i})
    /\ IncrementRevision
    /\ UNCHANGED <<settings, columnVars, itemVars, vote>>

\* The one operation a read-only board accepts.  With the settings it has, the
\* edit is one of the title.
UpdateBoardSettings(m, s) ==
    /\ IsOwner(m)
    /\ settings' = s
    /\ IncrementRevision
    /\ UNCHANGED <<columnVars, itemVars, vote, actionVars>>

-----------------------------------------------------------------------------
(* The operations, by service. *)

Item == Card \cup Group
Placements(S) == (S \cup {None}) \X (S \cup {None})

CardOperation(m) ==
    \/ \E c \in Card, k \in LiveColumn : CreateCard(m, k, c)
    \/ \E c \in DOMAIN card :
          \/ UpdateCard(m, c)
          \/ DeleteCard(m, c)
          \/ \E k \in LiveColumn, sorted \in SUBSET LiveColumn : \E ba \in Placements(TopLevel(k)) :
                MoveCard(m, c, k, ba[1], ba[2], sorted)

VoteOperation(m) ==
    \/ \E c \in Card : VoteForCard(m, c) \/ RemoveVoteFromCard(m, c)
    \/ ResetBoardVotes(m)

GroupOperation(m) ==
    \/ \E g \in Group, k \in LiveColumn : \E cards \in SUBSET Ungrouped(k) : \E c \in cards :
          CreateCardGroup(m, k, cards, c, g)
    \/ \E g \in DOMAIN group :
          \/ \E c \in DOMAIN card : UpdateCardGroup(m, g, c)
          \/ UngroupCardGroup(m, g)
          \/ \E k \in LiveColumn, sorted \in SUBSET LiveColumn : \E ba \in Placements(TopLevel(k)) :
                MoveCardGroup(m, g, k, ba[1], ba[2], sorted)

ColumnOperation(m) ==
    \E k \in Column :
        \/ \E limit \in 0 .. MAX_VOTE_LIMIT, ba \in Placements(Column) :
              CreateBoardColumn(m, k, limit, ba[1], ba[2])
        \/ \E limit \in 0 .. MAX_VOTE_LIMIT : UpdateBoardColumn(m, k, limit)
        \/ \E ba \in Placements(Column) : MoveBoardColumn(m, k, ba[1], ba[2])
        \/ DeleteEmptyColumn(m, k)
        \/ \E target \in Column : DeleteColumnMovingCards(m, k, target)
        \/ DeleteColumnAndCards(m, k)

ActionItemOperation(m) ==
    \E i \in ActionItem :
        \/ \E source \in Card \cup {None} : CreateActionItem(m, i, source)
        \/ UpdateActionItem(m, i)
        \/ \E ba \in Placements(ActionItem) : MoveActionItem(m, i, ba[1], ba[2])
        \/ DeleteActionItem(m, i)

SettingsOperation(m) == \E s \in Settings : UpdateBoardSettings(m, s)

Next ==
    \E m \in Member :
        \/ CardOperation(m)
        \/ VoteOperation(m)
        \/ GroupOperation(m)
        \/ ColumnOperation(m)
        \/ ActionItemOperation(m)
        \/ SettingsOperation(m)

Spec == Init /\ [][Next]_vars

-----------------------------------------------------------------------------
(* What the services promise. *)

\* A vote belongs to the column its card is in, and a visitor's votes in a
\* column hold different slots within the column's limit, so that the limit is
\* never exceeded and a visitor below it always finds a free slot, whatever
\* moves, column deletions and limit changes came before.  The database only
\* enforces that slots differ and are at most 20.
QuotaRespected ==
    /\ \A u \in DOMAIN vote :
          /\ u[1] \in DOMAIN card
          /\ vote[u].column = card[u[1]].column
          /\ vote[u].slot <= voteLimit[vote[u].column]
    /\ \A t, u \in DOMAIN vote :
          (t[2] = u[2] /\ vote[t] = vote[u]) => t = u

\* A group has at least two cards, all in its column, its primary card one of
\* them, and their order is strict.  deleteTargetCard reads the first remaining
\* card without looking, and ungroupCardGroup throws for fewer than two; the
\* database enforces neither the size nor that the primary card is a member.
GroupsIntact ==
    \A g \in DOMAIN group :
        /\ Cardinality(Members(g)) >= 2
        /\ group[g].primary \in Members(g)
        /\ \A c, d \in Members(g) :
              /\ card[c].column = group[g].column
              /\ card[c].groupPosition = card[d].groupPosition => c = d

\* Every card and group is in a live column, a grouped card in a live group,
\* and an action item's source is a live card: no operation leaves a row behind
\* that a foreign key would refuse at commit, losing the whole operation.
ReferencesResolve ==
    /\ LiveColumn # {}
    /\ \A c \in DOMAIN card :
          card[c].column \in LiveColumn /\ card[c].group \in DOMAIN group \cup {None}
    /\ \A g \in DOMAIN group : group[g].column \in LiveColumn
    /\ \A i \in DOMAIN actionItem : actionItem[i] \in DOMAIN card \cup {None}

\* No two top-level items of a column, no two columns and no two action items share
\* a position, and positions stay within the INTEGER column: the order every reader
\* sees is the order written, never decided by ids, through gap exhaustion,
\* rebalancing and ungrouping.
PlacesDistinct ==
    /\ \A k \in LiveColumn : WellPlaced(TopLevel(k), position)
    /\ WellPlaced(LiveColumn, columnPosition)
    /\ WellPlaced(DOMAIN actionItem, actionPosition)

\* p and q order S alike, strictly.
SameOrder(S, p, q) == \A i, j \in S : p[i] < p[j] <=> q[i] < q[j]

\* A step changes the relative order of at most one item with the others that
\* stay in its column, of at most one column and of at most one action item, except
\* that a move in a vote-sorted column writes out the vote order: a rebalance never
\* shuffles.
OrderKept ==
    [][/\ LET stay == [k \in LiveColumn \cap DOMAIN voteLimit' |-> TopLevel(k) \cap TopLevel(k)']
          IN  \E x \in (UNION Range(stay)) \cup {None} : \A k \in DOMAIN stay :
                 LET S == stay[k] \ {x}
                 IN  \/ SameOrder(S, position, position')
                     \/ VoteOrder(S) = PositionOrder(S, position')
       /\ LET S == LiveColumn \cap DOMAIN voteLimit'
          IN  \E x \in S \cup {None} : SameOrder(S \ {x}, columnPosition, columnPosition')
       /\ LET S == DOMAIN actionItem \cap DOMAIN actionItem'
          IN  \E x \in S \cup {None} : SameOrder(S \ {x}, actionPosition, actionPosition')]_vars

\* A group takes the place of the first of its cards, and when it goes its
\* surviving cards stand, in their order, where it stood.
PlaceInherited ==
    [][\A k \in LiveColumn \cap DOMAIN voteLimit' :
         LET stay == TopLevel(k) \cap TopLevel(k)'
             now == PositionOrder(TopLevel(k)', position')
         IN  /\ \A g \in DOMAIN group \ DOMAIN group', i \in stay :
                  \A c \in Members(g) \cap TopLevel(k)' :
                     <<i, g>> \in PositionOrder(TopLevel(k), position) <=> <<i, c>> \in now
             /\ \A g \in DOMAIN group \ DOMAIN group' :
                  MemberOrder(Members(g) \cap TopLevel(k)')
                      = PositionOrder(Members(g) \cap TopLevel(k)', position')
             /\ \A g \in DOMAIN group' \ DOMAIN group, i \in stay :
                  g \in TopLevel(k)' =>
                     (<<i, g>> \in now
                        <=> \A c \in Members(g)' : <<i, c>> \in PositionOrder(TopLevel(k), position))]_vars

\* What a step may change: a vote on a card that stays is lost only because its
\* visitor took it back, one at a time, or because all were reset, however cards,
\* groups and columns are moved and deleted; a read-only board's content stays as
\* it is; with cards disabled no card or group changes, not even by the deletion
\* of its column; with voting disabled no vote is cast.  Whatever changes is
\* counted by exactly one revision, which requests and refreshes compare.
ChangesAllowed ==
    [][/\ \A u \in DOMAIN vote \ DOMAIN vote' :
             u[1] \in DOMAIN card' =>
                 /\ card' = card
                 /\ vote' = <<>> \/ vote' = Restrict(vote, DOMAIN vote \ {u})
       /\ settings.readOnly => UNCHANGED <<columnVars, itemVars, vote, actionVars>>
       /\ ~settings.cardsEnabled => UNCHANGED itemVars
       /\ ~settings.votingEnabled => DOMAIN vote' \subseteq DOMAIN vote
       /\ revision' = revision + 1]_vars
=============================================================================
