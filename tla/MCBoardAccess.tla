---------------------------- MODULE MCBoardAccess ----------------------------
(***************************************************************************)
(* BoardAccess for TLC: three sessions at one board, or two at two boards, *)
(* whichever the behaviour starts with.                                    *)
(***************************************************************************)
EXTENDS BoardAccess, TLC

CONSTANT MAX_ROWS_OF_TWO

VARIABLE twoBoards

Interchangeable == Permutations(Session) \cup Permutations(Board)

Boards == {b \in Board : board[b] # "none"}

Sessions == {s \in Session : session[s] # "none"}

Small ==
    IF twoBoards
    THEN /\ Cardinality(Sessions) <= 2
         /\ DOMAIN invitations \cup DOMAIN memberships \subseteq 1 .. MAX_ROWS_OF_TWO
    ELSE Cardinality(Boards) <= 1

AccessInit == Init /\ twoBoards \in BOOLEAN /\ Small

AccessSpec ==
    /\ AccessInit
    /\ [][Next /\ UNCHANGED twoBoards /\ Small']_<<vars, twoBoards>>
=============================================================================
