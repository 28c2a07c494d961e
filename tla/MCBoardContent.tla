---------------------------- MODULE MCBoardContent ----------------------------
(***************************************************************************)
(* Instances of BoardContent and BoardReads for TLC.  The operations of    *)
(* one board touch loosely coupled rows, so a behaviour has a focus: the   *)
(* operations that interact for one question.  The theorems of             *)
(* BoardContentProofs cover all of them together.                          *)
(***************************************************************************)
EXTENDS BoardReads

VARIABLE focus

\* A configuration file has no negative numbers.
OneBelowZero == -1

\* In every view the revision is left out: it only ever grows by one and no guard
\* but its upper bound reads it.  So are the positions cards had before they were
\* grouped, which nothing reads.
ItemPositions ==
    Restrict(position, {i \in DOMAIN position : i \in DOMAIN card => card[i].group = None})

-----------------------------------------------------------------------------
(* Orders. *)

\* Cards and groups: their order within and across two columns.
ItemsNext(m) ==
    \/ CardOperation(m) \/ GroupOperation(m)
    \/ \E k \in {21, 22}, target \in LiveColumn :
          \/ DeleteColumnMovingCards(m, k, target)
          \/ CreateBoardColumn(m, k, 0, target, None)

\* In one column with votes, which a move in a vote-sorted column turns into
\* positions.  Two votes make a group and a card differ and tie.
SortedNext(m) ==
    /\ CardOperation(m) \/ GroupOperation(m) \/ VoteOperation(m)
    /\ Cardinality(DOMAIN vote') <= 2

\* The other two ordered lists, which nothing relates while there are no cards;
\* vote limits make no difference.
ColumnsNext(m) ==
    /\ ColumnOperation(m)
    /\ \A k \in DOMAIN voteLimit' : voteLimit'[k] = DEFAULT_VOTE_LIMIT

OrderInit == Init /\ focus \in {"items", "sorted", "columns", "action items"}

OrderSpec ==
    /\ OrderInit
    /\ [][/\ UNCHANGED focus
          /\ \E m \in Member :
                \/ focus = "items" /\ ItemsNext(m)
                \/ focus = "sorted" /\ SortedNext(m)
                \/ focus = "columns" /\ ColumnsNext(m)
                \/ focus = "action items" /\ ActionItemOperation(m)]_<<vars, focus>>

\* Of votes only their number matters, and of columns, whose places only one focus
\* is about, how they divide the items: one of two is like the other.
Division ==
    {<<{c \in DOMAIN card : card[c].column = k}, {g \in DOMAIN group : group[g].column = k}>>
        : k \in LiveColumn}

OrderView ==
    <<focus, IF focus = "columns" THEN columnPosition ELSE Cardinality(LiveColumn), Division,
      [c \in DOMAIN card |-> [card[c] EXCEPT !.column = None]],
      [g \in DOMAIN group |-> [group[g] EXCEPT !.column = None]],
      DOMAIN vote, ItemPositions, actionVars>>

-----------------------------------------------------------------------------
(* Rows. *)

\* Votes: the operations that give, take, move and delete votes or change a
\* column's limit.  The place of an item in its column has no bearing on votes,
\* so items are only moved to the head of a column.
HeadOf(k, x) == First(TopLevel(k) \ {x}, PositionOrder(TopLevel(k) \ {x}, position))

VotesNext(m) ==
    \/ VoteOperation(m)
    \/ \E c \in Card :
          \/ DeleteCard(m, c)
          \/ \E k \in Column :
                CreateCard(m, k, c) \/ MoveCard(m, c, k, None, HeadOf(k, c), {})
    \/ \E g \in Group :
          \/ UngroupCardGroup(m, g)
          \/ \E k \in Column :
                \/ MoveCardGroup(m, g, k, None, HeadOf(k, g), {})
                \/ \E cards \in SUBSET Ungrouped(k), c \in Card :
                      CreateCardGroup(m, k, cards, c, g)
    \/ \E k \in Column :
          \/ \E limit \in 0 .. MAX_VOTE_LIMIT :
                UpdateBoardColumn(m, k, limit) \/ CreateBoardColumn(m, k, limit, None, First(LiveColumn, ColumnOrder(LiveColumn)))
          \/ DeleteColumnAndCards(m, k)
          \/ \E target \in Column : DeleteColumnMovingCards(m, k, target)

\* All operations together, on fewer rows.
AllNext ==
    /\ Next
    /\ DOMAIN card' \subseteq {1, 2}
    /\ \A k \in DOMAIN voteLimit' : voteLimit'[k] <= 1

RowsInit == Init /\ focus \in {"votes", "all"}

RowsSpec ==
    /\ RowsInit
    /\ [][/\ UNCHANGED focus
          /\ \/ focus = "votes" /\ \E m \in Member : VotesNext(m)
             \/ focus = "all" /\ AllNext]_<<vars, focus>>

\* Which rows there are and what refers to what: no guard asks more of a position
\* than that some placement resolves.  With all operations a limit is at most 1, and
\* slots make no difference; among those on votes authors make none, since an owner
\* may do whatever an author may.
RowsView ==
    IF focus = "votes"
    THEN <<voteLimit, [c \in DOMAIN card |-> <<card[c].column, card[c].group>>],
           [g \in DOMAIN group |-> group[g].primary], vote>>
    ELSE <<settings, voteLimit, [c \in DOMAIN card |-> <<card[c].column, card[c].group, card[c].createdBy>>],
           [g \in DOMAIN group |-> group[g].primary], DOMAIN vote, actionItem>>
=============================================================================
