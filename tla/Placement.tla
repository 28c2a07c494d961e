----------------------------- MODULE Placement -----------------------------
(***************************************************************************)
(* Integer positions of an ordered list kept in database rows: the pure    *)
(* part of content-service-helpers.ts and top-level-order.ts.  The same    *)
(* allocation orders the top-level items of a column, the columns of a     *)
(* board and its action items.                                             *)
(*                                                                         *)
(* A list is a set S of row ids with a function p giving each id its       *)
(* position.  Ids are positive naturals (the source's string ids are only  *)
(* ever compared), and 0 stands for a null reference.                      *)
(***************************************************************************)
EXTENDS Integers, FiniteSets

CONSTANTS
    POSITION_STEP,   \* distance left between appended rows (1024)
    MIN_POSITION,    \* least value of the INTEGER column (-2^31)
    MAX_POSITION     \* greatest value of the INTEGER column (2^31 - 1)

ASSUME PositionAssumption ==
    /\ POSITION_STEP \in Nat /\ POSITION_STEP >= 2
    /\ MIN_POSITION \in Int /\ MIN_POSITION <= 0
    /\ MAX_POSITION \in Nat /\ MAX_POSITION >= POSITION_STEP

None == 0

-----------------------------------------------------------------------------
(* Orders are sets of pairs <<earlier, later>>. *)

\* comparePositionedItems: by position, then by kind and id.  A group's id is
\* greater than every card's, so the order of ids gives CARD before GROUP.
PositionOrder(S, p) ==
    {e \in S \X S : p[e[1]] < p[e[2]] \/ (p[e[1]] = p[e[2]] /\ e[1] < e[2])}

\* The elements of S up to and including b, none when b is null.
UpTo(S, R, b) == {i \in S : i = b \/ <<i, b>> \in R}

\* resolveItemPlacementIndex and resolveIdPlacementIndex return an index, not
\* null: the two references are neighbours in the list (a null one being its
\* end), so that every element is on one side of the gap they name.
Resolves(S, R, b, a) ==
    /\ b \in S \cup {None}
    /\ a \in S \cup {None}
    /\ b # None /\ a # None => <<b, a>> \in R
    /\ \A i \in S :
          \/ b # None /\ (i = b \/ <<i, b>> \in R)
          \/ a # None /\ (i = a \/ <<a, i>> \in R)

\* R with x inserted after b (at the head when b is null).
InsertedOrder(S, R, x, b) ==
    R \cup {<<i, x>> : i \in UpTo(S, R, b)}
      \cup {<<x, i>> : i \in S \ UpTo(S, R, b)}

\* The index of i in the list, counting from 0.
Rank(S, R, i) == Cardinality({j \in S : <<j, i>> \in R})

\* The rebalance loops.
Renumbered(S, R) == [i \in S |-> (1 + Rank(S, R, i)) * POSITION_STEP]

-----------------------------------------------------------------------------
\* Mutants: a gap of one counts as room, and the end of the range is not looked at.
RoomInAnyGap(p, b, a) ==
    /\ b = None /\ a # None => p[a] - POSITION_STEP >= MIN_POSITION
    /\ b # None /\ a = None => p[b] + POSITION_STEP <= MAX_POSITION
    /\ b # None /\ a # None => p[a] - p[b] >= 1

\* positionForInsertion does not return null between the neighbours b and a.
HasRoom(p, b, a) ==
    /\ b = None /\ a # None => p[a] - POSITION_STEP >= MIN_POSITION
    /\ b # None /\ a = None => p[b] + POSITION_STEP <= MAX_POSITION
    /\ b # None /\ a # None => p[a] - p[b] > 1

\* positionForInsertion, where it does not return null.
PositionForInsertion(p, b, a) ==
    CASE b = None /\ a = None -> POSITION_STEP
      [] b = None /\ a # None -> p[a] - POSITION_STEP
      [] b # None /\ a = None -> p[b] + POSITION_STEP
      [] OTHER                -> p[b] + ((p[a] - p[b]) \div 2)

\* Mutant: a rebalance numbers the rows by id.
InsertedById(S, p, x, b, a) ==
    LET q == IF HasRoom(p, b, a)
             THEN [i \in S |-> p[i]]
             ELSE Renumbered(S, PositionOrder(S, [i \in S |-> 0]))
    IN  [i \in S \cup {x} |-> IF i = x THEN PositionForInsertion(q, b, a) ELSE q[i]]

\* The positions of S and x once x is placed between b and a: the others keep
\* theirs when there is room, and are rebalanced first when there is none.
Inserted(S, p, x, b, a) ==
    LET q == IF HasRoom(p, b, a)
             THEN [i \in S |-> p[i]]
             ELSE Renumbered(S, PositionOrder(S, p))
    IN  [i \in S \cup {x} |-> IF i = x THEN PositionForInsertion(q, b, a) ELSE q[i]]

\* The first element of S, None when S is empty.
First(S, R) ==
    IF S = {} THEN None ELSE CHOOSE i \in S : \A j \in S \ {i} : <<i, j>> \in R

\* The rows of f once those of g are written over them or added to them.
Written(f, g) ==
    [x \in DOMAIN f \cup DOMAIN g |-> IF x \in DOMAIN g THEN g[x] ELSE f[x]]

\* Positions are distinct and are values of the INTEGER column.
WellPlaced(S, p) ==
    /\ \A i \in S : p[i] \in MIN_POSITION .. MAX_POSITION
    /\ \A i, j \in S : p[i] = p[j] => i = j
=============================================================================
