----------------------------- MODULE MCRetention -----------------------------
(***************************************************************************)
(* An instance of Retention for TLC: a board with a group of two cards, a  *)
(* vote and a membership, and one with a column only.  A behaviour is of   *)
(* requests that are limited while buckets are cleaned and nothing         *)
(* expires, or of boards that expire and no requests.                      *)
(***************************************************************************)
EXTENDS Retention

CONSTANTS b1, b2, k1

\* Session, membership, column, cards, group, vote, action item.
MCKind ==
    1 :> "session" @@ 2 :> "membership" @@ 3 :> "column" @@ 4 :> "card" @@ 5 :> "card"
    @@ 6 :> "group" @@ 7 :> "vote" @@ 8 :> "column"
MCRow == DOMAIN MCKind
MCBoardOf == [r \in MCRow \ {1} |-> IF r = 8 THEN b2 ELSE b1]
MCRefers ==
    1 :> {} @@ 2 :> {1} @@ 3 :> {} @@ 4 :> {2, 3} @@ 5 :> {2, 3} @@ 6 :> {3, 4}
    @@ 7 :> {3, 4} @@ 8 :> {}
MCGroupOf == 4 :> 6 @@ 5 :> 6

VARIABLE subject

SubjectInit == Init /\ subject \in {"limits", "rows"}

SubjectNext ==
    /\ Next /\ UNCHANGED subject
    /\ IF subject = "limits"
       THEN expired' = <<>>
       ELSE IsPrefix(expired', <<b1, 1, b2>>) /\ bucket'[k1] = 0

SubjectSpec == SubjectInit /\ [][SubjectNext]_<<vars, subject>> /\ Fairness
=============================================================================
