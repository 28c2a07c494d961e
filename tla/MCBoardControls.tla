--------------------------- MODULE MCBoardControls ---------------------------
(***************************************************************************)
(* Instances of BoardControls for TLC: by itself one control of each kind, *)
(* and two that wait for the same loads, one of which forces its own.      *)
(* Where no column can be deleted, cards stay where they are; nobody is    *)
(* removed from the board while two controls are at work.                  *)
(***************************************************************************)
EXTENDS BoardControls

Lasting == {"BoardPage", "BoardToolbar", "QuickColumnDialog"}

Kind(c) == [Does[c] EXCEPT !.surface = IF @ \in Lasting THEN "lasting" ELSE "closes"]

OneOfEachKind ==
    {{IF Kind("deleteColumn") = k THEN "deleteColumn"
      ELSE CHOOSE c \in DOMAIN Does : Kind(c) = k} : k \in {Kind(c) : c \in DOMAIN Does}}

Some == OneOfEachKind \cup {{"quickCreateColumn", "createActionItem"}}

CardsMatter == "deleteColumn" \in Used

ControlsInit ==
    /\ Init
    /\ ~CardsMatter => \A c \in Column : board.cards[c] = {}

Controls ==
    /\ Next
    /\ ~CardsMatter => board'.cards = [c \in Column |-> {}]
    /\ IF Cardinality(Used) = 1 THEN requests'[2] = None ELSE access'

ControlsSpec == ControlsInit /\ [][Controls]_vars /\ Fairness
=============================================================================
