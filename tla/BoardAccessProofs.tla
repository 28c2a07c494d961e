--------------------------- MODULE BoardAccessProofs ---------------------------
(***************************************************************************)
(* That memberships, claims and redemptions stay unique, that sessions are *)
(* never deleted from under a row, that no active owner is displaced, that *)
(* redemptions are remembered, and that rows and uses stay within their    *)
(* limits: for any sessions, boards and limits.                            *)
(***************************************************************************)
EXTENDS BoardAccess, FiniteSetTheorems, TLAPS

\* A board that is not there has no rows.
RowsOnBoards ==
    /\ \A m \in DOMAIN memberships : board[memberships[m].board] # "none"
    /\ \A i \in DOMAIN invitations : board[invitations[i].board] # "none"

UniqueMembers ==
    \A m, x \in DOMAIN memberships :
        /\ m # x
        /\ ~memberships[m].revoked /\ ~memberships[x].revoked
        /\ memberships[m].board = memberships[x].board
        => /\ memberships[m].session # memberships[x].session
           /\ "PARTICIPANT" \in {memberships[m].role, memberships[x].role}

UniqueClaims ==
    \A i, j \in DOMAIN invitations :
        /\ i # j
        /\ ~invitations[i].revoked /\ ~invitations[j].revoked
        /\ invitations[i].board = invitations[j].board
        => "PARTICIPANT" \in {invitations[i].role, invitations[j].role}

UniqueRedemptions ==
    \A r, x \in redemptions :
        r.invitation = x.invitation /\ r.session = x.session => r = x

\* An owner loses the membership with the session only.
OwnersRevoked ==
    \A m \in DOMAIN memberships :
        memberships[m].role = "OWNER" /\ memberships[m].revoked
            => session[memberships[m].session] = "revoked"

IInv ==
    /\ TypeOK
    /\ RowsOnBoards
    /\ UniqueMembers
    /\ UniqueClaims
    /\ UniqueRedemptions
    /\ SessionsReferenced
    /\ OwnersRevoked

LEMMA InitIInv == Init => IInv
  BY AccessAssumption
     DEF Init, IInv, TypeOK, RowsOnBoards, UniqueMembers, UniqueClaims,
         UniqueRedemptions, SessionsReferenced, OwnersRevoked, Named

-----------------------------------------------------------------------------
(* Rows *)

\* What an invitation consists of.
LEMMA InvitationRow ==
    ASSUME NEW row \in Invitation
    PROVE  /\ row.board \in Board
           /\ row.role \in Role
           /\ row.creator \in Session \cup {None}
           /\ row.revoked \in BOOLEAN
           /\ row.useCount \in Nat
           /\ row.maxUses \in Nat
  BY DEF Invitation, Role

\* An invitation that has expired, is revoked or is used is one for the rest.
LEMMA InvitationChanged ==
    ASSUME NEW row \in Invitation,
           NEW new,
           \/ new = [row EXCEPT !.expired = TRUE]
           \/ new = [row EXCEPT !.revoked = TRUE]
           \/ new = [row EXCEPT !.useCount = @ + 1]
    PROVE  /\ new \in Invitation
           /\ new.board = row.board
           /\ new.role = row.role
           /\ new.creator = row.creator
           /\ new.maxUses = row.maxUses
           /\ row.revoked => new.revoked
<1> DEFINE Row == [board : Board, role : Role, creator : Session \cup {None},
                   expired : BOOLEAN, revoked : BOOLEAN,
                   maxUses : 1 .. MAX_PARTICIPANT_INVITATION_USES, useCount : Nat]
<1>1. row \in Row
  BY DEF Invitation
<1>2. IF row.role = "OWNER" THEN row.creator = None /\ row.maxUses = 1
                            ELSE row.creator # None
  BY DEF Invitation
<1>3. /\ new \in Row
      /\ new.board = row.board
      /\ new.role = row.role
      /\ new.creator = row.creator
      /\ new.maxUses = row.maxUses
      /\ row.revoked => new.revoked
  <2>1. CASE new = [row EXCEPT !.expired = TRUE]
    BY <1>1, <2>1
  <2>2. CASE new = [row EXCEPT !.revoked = TRUE]
    BY <1>1, <2>2
  <2>3. CASE new = [row EXCEPT !.useCount = @ + 1]
    BY <1>1, <2>3
  <2> QED
    BY <2>1, <2>2, <2>3
<1>5. new \in Invitation
  <2>1. IF new.role = "OWNER" THEN new.creator = None /\ new.maxUses = 1
                              ELSE new.creator # None
    BY <1>2, <1>3
  <2> QED
    BY <1>3, <2>1 DEF Invitation
<1> QED
  BY <1>3, <1>5

-----------------------------------------------------------------------------
(* Parts of the invariant *)

TypedMembers ==
    /\ DOMAIN memberships \subseteq 1 .. MAX_MEMBERSHIPS
    /\ \A m \in DOMAIN memberships : memberships[m] \in Membership

TypedInvitations ==
    /\ DOMAIN invitations \subseteq 1 .. MAX_INVITATIONS
    /\ \A i \in DOMAIN invitations : invitations[i] \in Invitation

TypedRedemptions ==
    /\ redemptions \subseteq Redemption
    /\ \A r \in redemptions :
           /\ r.invitation \in DOMAIN invitations
           /\ r.membership \in DOMAIN memberships
           /\ memberships[r.membership].session = r.session
           /\ memberships[r.membership].board = invitations[r.invitation].board

TypedRest ==
    /\ session \in [Session -> {"none", "active", "revoked"}]
    /\ board \in [Board -> {"none", "active", "expired"}]

LEMMA TypeParts ==
    TypeOK <=> TypedMembers /\ TypedInvitations /\ TypedRedemptions /\ TypedRest
  BY DEF TypeOK, TypedMembers, TypedInvitations, TypedRedemptions, TypedRest

\* The rows of a table, fewer or revoked.
MembersFewer(ms) ==
    /\ DOMAIN ms \subseteq DOMAIN memberships
    /\ \A m \in DOMAIN ms :
           /\ ms[m] \in Membership
           /\ ms[m].board = memberships[m].board
           /\ ms[m].session = memberships[m].session
           /\ ms[m].role = memberships[m].role
           /\ memberships[m].revoked => ms[m].revoked

InvitationsFewer(is) ==
    /\ DOMAIN is \subseteq DOMAIN invitations
    /\ \A i \in DOMAIN is :
           /\ is[i] \in Invitation
           /\ is[i].board = invitations[i].board
           /\ is[i].creator = invitations[i].creator
           /\ is[i].role = invitations[i].role
           /\ invitations[i].revoked => is[i].revoked

LEMMA FewerMembers ==
    ASSUME TypedMembers, UniqueMembers, MembersFewer(memberships')
    PROVE  TypedMembers' /\ UniqueMembers'
  BY DEF TypedMembers, UniqueMembers, MembersFewer, Membership

LEMMA FewerInvitations ==
    ASSUME TypedInvitations, UniqueClaims, InvitationsFewer(invitations')
    PROVE  TypedInvitations' /\ UniqueClaims'
<1>1. TypedInvitations'
  BY DEF TypedInvitations, InvitationsFewer
<1>2. UniqueClaims'
  BY DEF UniqueClaims, InvitationsFewer
<1> QED
  BY <1>1, <1>2

LEMMA FewerRedemptions ==
    ASSUME TypedRedemptions, UniqueRedemptions,
           MembersFewer(memberships'), InvitationsFewer(invitations'),
           redemptions' \subseteq redemptions,
           \A r \in redemptions' : /\ r.invitation \in DOMAIN invitations'
                                   /\ r.membership \in DOMAIN memberships'
    PROVE  TypedRedemptions' /\ UniqueRedemptions'
  BY DEF TypedRedemptions, UniqueRedemptions, MembersFewer, InvitationsFewer

LEMMA RevokedMembers ==
    ASSUME TypedMembers, NEW those
    PROVE  LET ms == Revoked(memberships, those) IN
           /\ MembersFewer(ms)
           /\ DOMAIN ms = DOMAIN memberships
           /\ \A m \in DOMAIN ms :
                  ms[m].revoked => memberships[m].revoked \/ m \in those
           /\ \A m \in those \cap DOMAIN ms : ms[m].revoked
<1> DEFINE ms == Revoked(memberships, those)
<1>1. /\ DOMAIN ms = DOMAIN memberships
      /\ \A m \in DOMAIN memberships :
             ms[m] = IF m \in those THEN [memberships[m] EXCEPT !.revoked = TRUE]
                                    ELSE memberships[m]
  BY DEF Revoked
<1>2. SUFFICES ASSUME NEW m \in DOMAIN memberships
               PROVE  /\ ms[m] \in Membership
                      /\ ms[m].board = memberships[m].board
                      /\ ms[m].session = memberships[m].session
                      /\ ms[m].role = memberships[m].role
                      /\ memberships[m].revoked => ms[m].revoked
                      /\ ms[m].revoked => memberships[m].revoked \/ m \in those
                      /\ m \in those => ms[m].revoked
  BY <1>1 DEF MembersFewer
<1>3. memberships[m] \in Membership
  BY DEF TypedMembers
<1>4. CASE m \in those
  <2>1. ms[m] = [memberships[m] EXCEPT !.revoked = TRUE]
    BY <1>1, <1>4
  <2>2. /\ ms[m] \in Membership
        /\ ms[m].board = memberships[m].board
        /\ ms[m].session = memberships[m].session
        /\ ms[m].role = memberships[m].role
        /\ ms[m].revoked
    BY <1>3, <2>1 DEF Membership
  <2> QED
    BY <1>4, <2>2
<1>5. CASE m \notin those
  BY <1>1, <1>3, <1>5
<1> QED
  BY <1>4, <1>5

LEMMA RevokedInvitations ==
    ASSUME TypedInvitations, NEW those
    PROVE  LET is == Revoked(invitations, those) IN
           /\ InvitationsFewer(is)
           /\ DOMAIN is = DOMAIN invitations
           /\ \A i \in those \cap DOMAIN is : is[i].revoked
<1> DEFINE is == Revoked(invitations, those)
<1>1. /\ DOMAIN is = DOMAIN invitations
      /\ \A i \in DOMAIN invitations :
             is[i] = IF i \in those THEN [invitations[i] EXCEPT !.revoked = TRUE]
                                    ELSE invitations[i]
  BY DEF Revoked
<1>2. SUFFICES ASSUME NEW i \in DOMAIN invitations
               PROVE  /\ is[i] \in Invitation
                      /\ is[i].board = invitations[i].board
                      /\ is[i].creator = invitations[i].creator
                      /\ is[i].role = invitations[i].role
                      /\ invitations[i].revoked => is[i].revoked
                      /\ i \in those => is[i].revoked
  BY <1>1 DEF InvitationsFewer
<1>3. invitations[i] \in Invitation
  BY DEF TypedInvitations
<1>4. CASE i \in those
  <2>1. is[i] = [invitations[i] EXCEPT !.revoked = TRUE]
    BY <1>1, <1>4
  <2>2. is[i].revoked
    BY <1>3, <2>1 DEF Invitation
  <2> QED
    BY <1>3, <2>1, <2>2, InvitationChanged
<1>5. CASE i \notin those
  BY <1>1, <1>3, <1>5
<1> QED
  BY <1>4, <1>5

\* A new membership beside what is left of the others.
LEMMA OneMember ==
    ASSUME TypedMembers, UniqueMembers,
           NEW left, MembersFewer(left),
           NEW b \in Board, NEW s \in Session, NEW role \in Role,
           NEW m \in NextRow(memberships, MAX_MEMBERSHIPS),
           memberships' = Inserted(left, m, NewMembership(b, s, role)),
           \A x \in DOMAIN left :
               left[x].board = b /\ ~left[x].revoked
                   => left[x].session # s /\ "PARTICIPANT" \in {left[x].role, role}
    PROVE  /\ TypedMembers'
           /\ UniqueMembers'
           /\ m \notin DOMAIN memberships
           /\ DOMAIN memberships' = DOMAIN left \cup {m}
           /\ memberships'[m] = NewMembership(b, s, role)
           /\ \A x \in DOMAIN left : memberships'[x] = left[x]
<1>1. /\ m \in 1 .. MAX_MEMBERSHIPS
      /\ m \notin DOMAIN memberships
  BY AccessAssumption DEF NextRow, TypedMembers
<1>2. /\ DOMAIN memberships' = DOMAIN left \cup {m}
      /\ memberships'[m] = NewMembership(b, s, role)
      /\ \A x \in DOMAIN left : memberships'[x] = left[x]
  BY <1>1 DEF Inserted, MembersFewer
<1>3. NewMembership(b, s, role) \in Membership
  BY DEF NewMembership, Membership
<1>4. TypedMembers'
  BY <1>1, <1>2, <1>3 DEF TypedMembers, MembersFewer
<1>5. UniqueMembers'
  <2>1. \A x, y \in DOMAIN left :
            /\ x # y
            /\ ~left[x].revoked /\ ~left[y].revoked
            /\ left[x].board = left[y].board
            => /\ left[x].session # left[y].session
               /\ "PARTICIPANT" \in {left[x].role, left[y].role}
    BY DEF UniqueMembers, MembersFewer
  <2>2. \A x \in DOMAIN left :
            left[x].board = b /\ ~left[x].revoked
                => left[x].session # s /\ "PARTICIPANT" \in {left[x].role, role}
    OBVIOUS
  <2>3. SUFFICES ASSUME NEW x \in DOMAIN memberships', NEW y \in DOMAIN memberships',
                        x # y,
                        ~memberships'[x].revoked, ~memberships'[y].revoked,
                        memberships'[x].board = memberships'[y].board
                 PROVE  /\ memberships'[x].session # memberships'[y].session
                        /\ "PARTICIPANT" \in {memberships'[x].role, memberships'[y].role}
    BY DEF UniqueMembers
  <2>4. CASE x \in DOMAIN left /\ y \in DOMAIN left
    BY <1>2, <2>1, <2>3, <2>4
  <2>5. CASE x = m
    <3>1. /\ y \in DOMAIN left
          /\ memberships'[y] = left[y]
      BY <1>2, <2>3, <2>5
    <3>2. /\ memberships'[x].board = b
          /\ memberships'[x].session = s
          /\ memberships'[x].role = role
      BY <1>2, <2>5 DEF NewMembership
    <3>3. left[y].board = b /\ ~left[y].revoked
      BY <2>3, <3>1, <3>2
    <3>4. left[y].session # s /\ "PARTICIPANT" \in {left[y].role, role}
      BY <2>2, <3>1, <3>3
    <3> QED
      BY <3>1, <3>2, <3>4
  <2>6. CASE y = m
    <3>1. /\ x \in DOMAIN left
          /\ memberships'[x] = left[x]
      BY <1>2, <2>3, <2>6
    <3>2. /\ memberships'[y].board = b
          /\ memberships'[y].session = s
          /\ memberships'[y].role = role
      BY <1>2, <2>6 DEF NewMembership
    <3>3. left[x].board = b /\ ~left[x].revoked
      BY <2>3, <3>1, <3>2
    <3>4. left[x].session # s /\ "PARTICIPANT" \in {left[x].role, role}
      BY <2>2, <3>1, <3>3
    <3> QED
      BY <3>1, <3>2, <3>4
  <2> QED
    BY <1>2, <2>3, <2>4, <2>5, <2>6
<1> QED
  BY <1>1, <1>2, <1>4, <1>5

\* A new invitation beside what is left of the others.
LEMMA OneInvitation ==
    ASSUME TypedInvitations, UniqueClaims,
           NEW left, InvitationsFewer(left),
           NEW row \in Invitation, ~row.revoked,
           NEW i \in NextRow(invitations, MAX_INVITATIONS),
           invitations' = Inserted(left, i, row),
           \A x \in DOMAIN left :
               left[x].board = row.board /\ ~left[x].revoked
                   => "PARTICIPANT" \in {left[x].role, row.role}
    PROVE  /\ TypedInvitations'
           /\ UniqueClaims'
           /\ i \notin DOMAIN invitations
           /\ DOMAIN invitations' = DOMAIN left \cup {i}
           /\ invitations'[i] = row
           /\ \A x \in DOMAIN left : invitations'[x] = left[x]
<1>1. /\ i \in 1 .. MAX_INVITATIONS
      /\ i \notin DOMAIN invitations
  BY AccessAssumption DEF NextRow, TypedInvitations
<1>2. /\ DOMAIN invitations' = DOMAIN left \cup {i}
      /\ invitations'[i] = row
      /\ \A x \in DOMAIN left : invitations'[x] = left[x]
  BY <1>1 DEF Inserted, InvitationsFewer
<1>3. TypedInvitations'
  BY <1>1, <1>2 DEF TypedInvitations, InvitationsFewer
<1>4. UniqueClaims'
  <2>1. \A x, y \in DOMAIN left :
            /\ x # y
            /\ ~left[x].revoked /\ ~left[y].revoked
            /\ left[x].board = left[y].board
            => "PARTICIPANT" \in {left[x].role, left[y].role}
    BY DEF UniqueClaims, InvitationsFewer
  <2>2. SUFFICES ASSUME NEW x \in DOMAIN invitations', NEW y \in DOMAIN invitations',
                        x # y,
                        ~invitations'[x].revoked, ~invitations'[y].revoked,
                        invitations'[x].board = invitations'[y].board
                 PROVE  "PARTICIPANT" \in {invitations'[x].role, invitations'[y].role}
    BY DEF UniqueClaims
  <2>3. CASE x \in DOMAIN left /\ y \in DOMAIN left
    BY <1>2, <2>1, <2>2, <2>3
  <2>4. CASE x = i
    <3>1. y \in DOMAIN left /\ invitations'[y] = left[y] /\ invitations'[x] = row
      BY <1>2, <2>2, <2>4
    <3>2. left[y].board = row.board /\ ~left[y].revoked
      BY <2>2, <3>1
    <3> QED
      BY <3>1, <3>2
  <2>5. CASE y = i
    <3>1. x \in DOMAIN left /\ invitations'[x] = left[x] /\ invitations'[y] = row
      BY <1>2, <2>2, <2>5
    <3>2. left[x].board = row.board /\ ~left[x].revoked
      BY <2>2, <3>1
    <3> QED
      BY <3>1, <3>2
  <2> QED
    BY <1>2, <2>2, <2>3, <2>4, <2>5
<1> QED
  BY <1>1, <1>2, <1>3, <1>4

\* What a step without a new row must see to.
LEMMA FewerRows ==
    ASSUME IInv,
           MembersFewer(memberships'),
           InvitationsFewer(invitations'),
           redemptions' \subseteq redemptions,
           \A r \in redemptions' : /\ r.invitation \in DOMAIN invitations'
                                   /\ r.membership \in DOMAIN memberships',
           TypedRest', RowsOnBoards', SessionsReferenced', OwnersRevoked'
    PROVE  IInv'
<1>1. /\ TypedMembers /\ TypedInvitations /\ TypedRedemptions
      /\ UniqueMembers /\ UniqueClaims /\ UniqueRedemptions
  BY TypeParts DEF IInv
<1>2. TypedMembers' /\ UniqueMembers'
  BY <1>1, FewerMembers
<1>3. TypedInvitations' /\ UniqueClaims'
  BY <1>1, FewerInvitations
<1>4. TypedRedemptions' /\ UniqueRedemptions'
  BY <1>1, FewerRedemptions
<1>5. TypeOK'
  BY <1>2, <1>3, <1>4
     DEF TypeOK, TypedMembers, TypedInvitations, TypedRedemptions, TypedRest
<1> QED
  BY <1>2, <1>3, <1>4, <1>5 DEF IInv

\* Tables that are left alone.
LEMMA SameTables ==
    ASSUME TypedMembers, TypedInvitations
    PROVE  MembersFewer(memberships) /\ InvitationsFewer(invitations)
  BY DEF TypedMembers, TypedInvitations, MembersFewer, InvitationsFewer

LEMMA SameRows ==
    ASSUME TypedMembers, TypedInvitations
    PROVE  /\ memberships' = memberships => MembersFewer(memberships')
           /\ invitations' = invitations => InvitationsFewer(invitations')
  BY DEF TypedMembers, TypedInvitations, MembersFewer, InvitationsFewer

-----------------------------------------------------------------------------
(* Steps that make no row *)

\* What every step may assume.
LEMMA Parts ==
    ASSUME IInv
    PROVE  /\ TypedMembers /\ TypedInvitations /\ TypedRedemptions /\ TypedRest
           /\ UniqueMembers /\ UniqueClaims /\ UniqueRedemptions
           /\ RowsOnBoards /\ SessionsReferenced /\ OwnersRevoked
           /\ \A m \in DOMAIN memberships :
                  /\ memberships[m].board \in Board
                  /\ memberships[m].session \in Session
                  /\ memberships[m].role \in Role
                  /\ memberships[m].revoked \in BOOLEAN
                  /\ session[memberships[m].session] # "none"
           /\ \A i \in DOMAIN invitations :
                  /\ invitations[i].board \in Board
                  /\ invitations[i].role \in Role
                  /\ invitations[i].creator \in Session \cup {None}
                  /\ invitations[i].creator \in Session
                         => session[invitations[i].creator] # "none"
<1>1. /\ TypedMembers /\ TypedInvitations /\ TypedRedemptions /\ TypedRest
      /\ UniqueMembers /\ UniqueClaims /\ UniqueRedemptions
      /\ RowsOnBoards /\ SessionsReferenced /\ OwnersRevoked
  BY TypeParts DEF IInv
<1>2. \A m \in DOMAIN memberships :
          /\ memberships[m].board \in Board
          /\ memberships[m].session \in Session
          /\ memberships[m].role \in Role
          /\ memberships[m].revoked \in BOOLEAN
  BY <1>1 DEF TypedMembers, Membership
<1>3. \A m \in DOMAIN memberships : session[memberships[m].session] # "none"
  BY <1>1, <1>2 DEF SessionsReferenced, Named
<1>4. \A i \in DOMAIN invitations :
          /\ invitations[i].board \in Board
          /\ invitations[i].role \in Role
          /\ invitations[i].creator \in Session \cup {None}
  BY <1>1, InvitationRow DEF TypedInvitations
<1>5. \A i \in DOMAIN invitations :
          invitations[i].creator \in Session => session[invitations[i].creator] # "none"
  BY <1>1 DEF SessionsReferenced, Named
<1> QED
  BY <1>1, <1>2, <1>3, <1>4, <1>5

\* While no board and no session goes, the rows that stay have theirs.
LEMMA FewerBacked ==
    ASSUME IInv, MembersFewer(memberships'), InvitationsFewer(invitations'),
           \A b \in Board : board[b] # "none" => board'[b] # "none",
           \A s \in Session : session[s] # "none" => session'[s] # "none"
    PROVE  RowsOnBoards' /\ SessionsReferenced'
<1>1. \A m \in DOMAIN memberships' :
          /\ m \in DOMAIN memberships
          /\ memberships'[m].board = memberships[m].board
          /\ memberships'[m].session = memberships[m].session
  BY DEF MembersFewer
<1>2. \A i \in DOMAIN invitations' :
          /\ i \in DOMAIN invitations
          /\ invitations'[i].board = invitations[i].board
          /\ invitations'[i].creator = invitations[i].creator
  BY DEF InvitationsFewer
<1>3. RowsOnBoards'
  BY <1>1, <1>2, Parts DEF RowsOnBoards
<1>4. SessionsReferenced'
  BY <1>1, <1>2, Parts DEF SessionsReferenced, Named
<1> QED
  BY <1>3, <1>4

LEMMA RevokeSessionIInv ==
    ASSUME NEW s \in Session, IInv, RevokeSession(s)
    PROVE  IInv'
<1>1. /\ session[s] = "active"
      /\ session' = [session EXCEPT ![s] = "revoked"]
      /\ UNCHANGED <<board, memberships, invitations, redemptions>>
  BY DEF RevokeSession
<1>2. TypedRest' /\ RowsOnBoards'
  BY <1>1, Parts DEF TypedRest, RowsOnBoards
<1>3. SessionsReferenced' /\ OwnersRevoked'
  BY <1>1, Parts DEF TypedRest, SessionsReferenced, OwnersRevoked, Named
<1> QED
  BY <1>1, <1>2, <1>3, Parts, SameRows, FewerRows DEF TypedRedemptions

LEMMA CleanupSessionIInv ==
    ASSUME NEW s \in Session, IInv, CleanupSession(s)
    PROVE  IInv'
<1>1. /\ ~Named(s, memberships, invitations)
      /\ session' = [session EXCEPT ![s] = "none"]
      /\ UNCHANGED <<board, memberships, invitations, redemptions>>
  BY DEF CleanupSession
<1>2. TypedRest' /\ RowsOnBoards'
  BY <1>1, Parts DEF TypedRest, RowsOnBoards
<1>3. SessionsReferenced' /\ OwnersRevoked'
  BY <1>1, Parts DEF TypedRest, SessionsReferenced, OwnersRevoked, Named
<1> QED
  BY <1>1, <1>2, <1>3, Parts, SameRows, FewerRows DEF TypedRedemptions

LEMMA BoardExpiresIInv ==
    ASSUME NEW b \in Board, IInv, BoardExpires(b)
    PROVE  IInv'
<1>1. /\ board[b] = "active"
      /\ board' = [board EXCEPT ![b] = "expired"]
      /\ DOMAIN invitations' = DOMAIN invitations
      /\ \A i \in DOMAIN invitations :
             invitations'[i] = IF invitations[i].board = b
                               THEN [invitations[i] EXCEPT !.expired = TRUE]
                               ELSE invitations[i]
      /\ UNCHANGED <<session, memberships, redemptions>>
  BY DEF BoardExpires
<1>2. InvitationsFewer(invitations')
  BY <1>1, Parts, InvitationChanged DEF TypedInvitations, InvitationsFewer
<1>3. TypedRest' /\ OwnersRevoked'
  BY <1>1, Parts DEF TypedRest, OwnersRevoked
<1>4. RowsOnBoards' /\ SessionsReferenced'
  BY <1>1, <1>2, Parts, SameRows, FewerBacked DEF TypedRest
<1> QED
  BY <1>1, <1>2, <1>3, <1>4, Parts, SameRows, FewerRows DEF TypedRedemptions

LEMMA InvitationExpiresIInv ==
    ASSUME NEW i \in DOMAIN invitations, IInv, InvitationExpires(i)
    PROVE  IInv'
<1>1. /\ DOMAIN invitations' = DOMAIN invitations
      /\ \A j \in DOMAIN invitations :
             invitations'[j] = IF j = i THEN [invitations[i] EXCEPT !.expired = TRUE]
                                        ELSE invitations[j]
      /\ UNCHANGED <<session, board, memberships, redemptions>>
  BY DEF InvitationExpires
<1>2. InvitationsFewer(invitations')
  BY <1>1, Parts, InvitationChanged DEF TypedInvitations, InvitationsFewer
<1>3. TypedRest' /\ OwnersRevoked'
  BY <1>1, Parts DEF TypedRest, OwnersRevoked
<1>4. RowsOnBoards' /\ SessionsReferenced'
  BY <1>1, <1>2, Parts, SameRows, FewerBacked DEF TypedRest
<1> QED
  BY <1>1, <1>2, <1>3, <1>4, Parts, SameRows, FewerRows DEF TypedRedemptions

LEMMA RevokeInvitationIInv ==
    ASSUME NEW s \in Session, NEW i \in DOMAIN invitations, IInv,
           revokeBoardInvitation(s, i)
    PROVE  IInv'
<1>1. /\ invitations' = Revoked(invitations, {i})
      /\ UNCHANGED <<session, board, memberships, redemptions>>
  BY DEF revokeBoardInvitation
<1>2. /\ InvitationsFewer(invitations')
      /\ DOMAIN invitations' = DOMAIN invitations
  BY <1>1, Parts, RevokedInvitations
<1>3. TypedRest' /\ OwnersRevoked'
  BY <1>1, Parts DEF TypedRest, OwnersRevoked
<1>4. RowsOnBoards' /\ SessionsReferenced'
  BY <1>1, <1>2, Parts, SameRows, FewerBacked DEF TypedRest
<1> QED
  BY <1>1, <1>2, <1>3, <1>4, Parts, SameRows, FewerRows DEF TypedRedemptions

\* Whoever is removed or leaves is a participant.
LEMMA ParticipantRevoked ==
    ASSUME IInv, NEW m \in DOMAIN memberships, memberships[m].role = "PARTICIPANT",
           memberships' = Revoked(memberships, {m}),
           UNCHANGED <<session, board, invitations, redemptions>>
    PROVE  IInv'
<1>1. /\ MembersFewer(memberships')
      /\ DOMAIN memberships' = DOMAIN memberships
      /\ \A x \in DOMAIN memberships' :
             memberships'[x].revoked => memberships[x].revoked \/ x = m
  BY Parts, RevokedMembers
<1>2. TypedRest' /\ OwnersRevoked'
  <2>1. \A x \in DOMAIN memberships' :
            /\ x \in DOMAIN memberships
            /\ memberships'[x].session = memberships[x].session
            /\ memberships'[x].role = "OWNER" /\ memberships'[x].revoked
                   => memberships[x].role = "OWNER" /\ memberships[x].revoked
    BY <1>1 DEF MembersFewer
  <2>2. OwnersRevoked'
    BY <2>1, Parts DEF OwnersRevoked
  <2>3. TypedRest'
    BY Parts DEF TypedRest
  <2> QED
    BY <2>2, <2>3
<1>3. RowsOnBoards' /\ SessionsReferenced'
  BY <1>1, Parts, SameRows, FewerBacked
<1> QED
  BY <1>1, <1>2, <1>3, Parts, SameRows, FewerRows DEF TypedRedemptions

LEMMA RevokeParticipantIInv ==
    ASSUME NEW s \in Session, NEW m \in DOMAIN memberships, IInv,
           revokeBoardParticipant(s, m)
    PROVE  IInv'
  BY ParticipantRevoked DEF revokeBoardParticipant

LEMMA LeaveBoardIInv ==
    ASSUME NEW s \in Session, NEW b \in Board, IInv, leaveBoard(s, b)
    PROVE  IInv'
  BY ParticipantRevoked DEF leaveBoard, Participants, Members

\* Rows that are deleted leave the others as they are.
LEMMA DeletedMembers ==
    ASSUME TypedMembers, NEW gone
    PROVE  LET ms == Deleted(memberships, gone) IN
           /\ MembersFewer(ms)
           /\ DOMAIN ms = DOMAIN memberships \ gone
           /\ \A m \in DOMAIN ms : ms[m] = memberships[m]
  BY DEF TypedMembers, MembersFewer, Deleted

LEMMA DeletedInvitations ==
    ASSUME TypedInvitations, NEW gone
    PROVE  LET is == Deleted(invitations, gone) IN
           /\ InvitationsFewer(is)
           /\ DOMAIN is = DOMAIN invitations \ gone
           /\ \A i \in DOMAIN is : is[i] = invitations[i]
  BY DEF TypedInvitations, InvitationsFewer, Deleted

LEMMA DeleteBoardIInv ==
    ASSUME NEW s \in Session, NEW b \in Board, IInv, DeleteBoard(s, b)
    PROVE  IInv'
<1> DEFINE ms == {m \in DOMAIN memberships : memberships[m].board = b}
           is == {i \in DOMAIN invitations : invitations[i].board = b}
<1>1. /\ board' = [board EXCEPT ![b] = "none"]
      /\ memberships' = Deleted(memberships, ms)
      /\ invitations' = Deleted(invitations, is)
      /\ redemptions' = {r \in redemptions : r.invitation \in DOMAIN invitations'}
  BY DEF DeleteBoard
<1>2. \A u \in Session :
          \/ session'[u] = session[u]
          \/ /\ session'[u] = "none"
             /\ session[u] = "active"
             /\ ~Named(u, memberships', invitations')
  BY DEF DeleteBoard
<1>3. DOMAIN session' = Session /\ session' = [u \in Session |-> session'[u]]
  BY DEF DeleteBoard
<1>4. /\ MembersFewer(memberships')
      /\ DOMAIN memberships' = DOMAIN memberships \ ms
      /\ \A m \in DOMAIN memberships' : memberships'[m] = memberships[m]
  <2> HIDE DEF ms
  <2> QED
    BY <1>1, Parts, DeletedMembers
<1>5. /\ InvitationsFewer(invitations')
      /\ DOMAIN invitations' = DOMAIN invitations \ is
      /\ \A i \in DOMAIN invitations' : invitations'[i] = invitations[i]
  <2> HIDE DEF is
  <2> QED
    BY <1>1, Parts, DeletedInvitations
<1>6. \A r \in redemptions' : /\ r.invitation \in DOMAIN invitations'
                              /\ r.membership \in DOMAIN memberships'
  BY <1>1, <1>4, <1>5, Parts DEF TypedRedemptions
<1>7. TypedRest'
  <2>1. \A u \in Session : session'[u] \in {"none", "active", "revoked"}
    BY <1>2, Parts DEF TypedRest
  <2>2. session' \in [Session -> {"none", "active", "revoked"}]
    BY <1>3, <2>1
  <2> QED
    BY <1>1, <2>2, Parts DEF TypedRest
<1>8. RowsOnBoards'
  <2>1. \A m \in DOMAIN memberships' :
            /\ memberships'[m].board \in Board \ {b}
            /\ board[memberships'[m].board] # "none"
    BY <1>4, Parts DEF RowsOnBoards
  <2>2. \A i \in DOMAIN invitations' :
            /\ invitations'[i].board \in Board \ {b}
            /\ board[invitations'[i].board] # "none"
    BY <1>5, Parts DEF RowsOnBoards
  <2>3. \A c \in Board \ {b} : board'[c] = board[c]
    BY <1>1, Parts DEF TypedRest
  <2> QED
    BY <2>1, <2>2, <2>3 DEF RowsOnBoards
<1>9. SessionsReferenced'
  <2>1. SUFFICES ASSUME NEW u \in Session, Named(u, memberships', invitations')
                 PROVE  session'[u] # "none"
    BY DEF SessionsReferenced
  <2>2. Named(u, memberships, invitations)
    BY <1>4, <1>5, <2>1 DEF Named
  <2> QED
    BY <1>2, <2>1, <2>2, Parts DEF SessionsReferenced
<1>10. OwnersRevoked'
  <2>1. SUFFICES ASSUME NEW m \in DOMAIN memberships',
                        memberships'[m].role = "OWNER", memberships'[m].revoked
                 PROVE  session'[memberships'[m].session] = "revoked"
    BY DEF OwnersRevoked
  <2>2. /\ session[memberships[m].session] = "revoked"
        /\ memberships[m].session \in Session
        /\ memberships'[m] = memberships[m]
    BY <1>4, <2>1, Parts DEF OwnersRevoked
  <2> QED
    BY <1>2, <2>2
<1> QED
  BY <1>1, <1>4, <1>5, <1>6, <1>7, <1>8, <1>9, <1>10, FewerRows

LEMMA CleanupChunkIInv ==
    ASSUME NEW b \in Board, IInv, CleanupChunk(b)
    PROVE  IInv'
<1>1. PICK rs \in Batches({r \in redemptions : invitations[r.invitation].board = b}) :
          redemptions' = redemptions \ rs
  BY DEF CleanupChunk
<1>2. PICK is \in Batches({i \in DOMAIN invitations :
                              /\ invitations[i].board = b
                              /\ \A r \in redemptions' : r.invitation # i}) :
          invitations' = Deleted(invitations, is)
  BY DEF CleanupChunk
<1>3. PICK ms \in Batches({m \in DOMAIN memberships :
                              /\ memberships[m].board = b
                              /\ \A r \in redemptions' : r.membership # m}) :
          memberships' = Deleted(memberships, ms)
  BY DEF CleanupChunk
<1>4. /\ MembersFewer(memberships')
      /\ DOMAIN memberships' = DOMAIN memberships \ ms
      /\ \A m \in DOMAIN memberships' : memberships'[m] = memberships[m]
  BY <1>3, Parts, DeletedMembers
<1>5. /\ InvitationsFewer(invitations')
      /\ DOMAIN invitations' = DOMAIN invitations \ is
      /\ \A i \in DOMAIN invitations' : invitations'[i] = invitations[i]
  BY <1>2, Parts, DeletedInvitations
<1>6. \A r \in redemptions' : /\ r.invitation \in DOMAIN invitations'
                              /\ r.membership \in DOMAIN memberships'
  <2>1. \A r \in redemptions' : r \in redemptions /\ r.invitation \notin is /\ r.membership \notin ms
    BY <1>1, <1>2, <1>3 DEF Batches
  <2> QED
    BY <1>4, <1>5, <2>1, Parts DEF TypedRedemptions
<1>7. /\ session' = session
      /\ \/ board' = board
         \/ /\ \A i \in DOMAIN invitations' : invitations'[i].board # b
            /\ \A m \in DOMAIN memberships' : memberships'[m].board # b
            /\ board' = [board EXCEPT ![b] = "none"]
  BY DEF CleanupChunk
<1>8. TypedRest' /\ OwnersRevoked'
  BY <1>4, <1>7, Parts DEF TypedRest, OwnersRevoked
<1>9. RowsOnBoards'
  BY <1>4, <1>5, <1>7, Parts DEF RowsOnBoards, TypedRest
<1>10. SessionsReferenced'
  <2>1. SUFFICES ASSUME NEW u \in Session, Named(u, memberships', invitations')
                 PROVE  session'[u] # "none"
    BY DEF SessionsReferenced
  <2>2. Named(u, memberships, invitations)
    BY <1>4, <1>5, <2>1 DEF Named
  <2> QED
    BY <1>7, <2>2, Parts DEF SessionsReferenced
<1> QED
  BY <1>1, <1>4, <1>5, <1>6, <1>8, <1>9, <1>10, FewerRows

-----------------------------------------------------------------------------
(* Steps that make rows *)

\* Making a session active leaves it there, and gives no revoked owner another.
LEMMA ActiveSession ==
    ASSUME IInv, NEW s \in Session, session[s] # "revoked",
           session' = [session EXCEPT ![s] = "active"]
    PROVE  /\ session' \in [Session -> {"none", "active", "revoked"}]
           /\ session'[s] = "active"
           /\ \A u \in Session : /\ session[u] # "none" => session'[u] # "none"
                                 /\ session[u] = "revoked" => session'[u] = "revoked"
  BY Parts DEF TypedRest

LEMMA CreateBoardIInv ==
    ASSUME NEW s \in Session, NEW b \in Board, IInv, CreateBoard(s, b)
    PROVE  IInv'
<1>1. PICK m \in NextRow(memberships, MAX_MEMBERSHIPS) :
          memberships' = Inserted(memberships, m, NewMembership(b, s, "OWNER"))
  BY DEF CreateBoard
<1>2. /\ board[b] = "none"
      /\ session[s] # "revoked"
      /\ session' = [session EXCEPT ![s] = "active"]
      /\ board' = [board EXCEPT ![b] = "active"]
      /\ UNCHANGED <<invitations, redemptions>>
  BY DEF CreateBoard
<1>3. \A x \in DOMAIN memberships : memberships[x].board # b
  BY <1>2, Parts DEF RowsOnBoards
<1>4. /\ TypedMembers'
      /\ UniqueMembers'
      /\ DOMAIN memberships' = DOMAIN memberships \cup {m}
      /\ memberships'[m] = NewMembership(b, s, "OWNER")
      /\ \A x \in DOMAIN memberships : memberships'[x] = memberships[x]
  <2>1. "OWNER" \in Role
    BY DEF Role
  <2>2. \A x \in DOMAIN memberships :
            memberships[x].board = b /\ ~memberships[x].revoked
                => /\ memberships[x].session # s
                   /\ "PARTICIPANT" \in {memberships[x].role, "OWNER"}
    BY <1>3
  <2>3. TypedMembers /\ UniqueMembers /\ MembersFewer(memberships)
    BY Parts, SameTables
  <2> QED
    BY <1>1, <2>1, <2>2, <2>3, OneMember
<1>5. TypedInvitations' /\ UniqueClaims' /\ UniqueRedemptions'
  BY <1>2, Parts DEF TypedInvitations, UniqueClaims, UniqueRedemptions
<1>6. TypedRedemptions'
  BY <1>2, <1>4, Parts DEF TypedRedemptions
<1>7. TypedRest'
  BY <1>2, ActiveSession, Parts DEF TypedRest
<1>8. /\ memberships'[m].board = b
      /\ memberships'[m].session = s
      /\ ~memberships'[m].revoked
  BY <1>4 DEF NewMembership
<1>9. RowsOnBoards'
  <2>1. \A c \in Board : board[c] # "none" => board'[c] # "none"
    BY <1>2, Parts DEF TypedRest
  <2>2. board'[b] # "none"
    BY <1>2, Parts DEF TypedRest
  <2> QED
    BY <1>2, <1>4, <1>8, <2>1, <2>2, Parts DEF RowsOnBoards
<1>10. SessionsReferenced'
  <2>1. SUFFICES ASSUME NEW u \in Session, Named(u, memberships', invitations'), u # s
                 PROVE  session'[u] # "none"
    BY <1>2, ActiveSession DEF SessionsReferenced
  <2>2. Named(u, memberships, invitations)
    BY <1>2, <1>4, <1>8, <2>1 DEF Named
  <2> QED
    BY <1>2, <2>2, ActiveSession, Parts DEF SessionsReferenced
<1>11. OwnersRevoked'
  BY <1>2, <1>4, <1>8, ActiveSession, Parts DEF OwnersRevoked
<1> QED
  BY <1>4, <1>5, <1>6, <1>7, <1>9, <1>10, <1>11
     DEF IInv, TypeOK, TypedMembers, TypedInvitations, TypedRedemptions, TypedRest

LEMMA ParticipantInvitationIInv ==
    ASSUME NEW s \in Session, NEW b \in Board,
           NEW uses \in 1 .. MAX_PARTICIPANT_INVITATION_USES,
           IInv, CreateParticipantInvitation(s, b, uses)
    PROVE  IInv'
<1> DEFINE row == NewInvitation(b, "PARTICIPANT", s, uses)
<1>1. PICK i \in NextRow(invitations, MAX_INVITATIONS) :
          invitations' = Inserted(invitations, i, row)
  BY DEF CreateParticipantInvitation
<1>2. /\ session[s] = "active"
      /\ board[b] = "active"
      /\ UNCHANGED <<session, board, memberships, redemptions>>
  BY DEF CreateParticipantInvitation, ActiveOwner, ActiveMember
<1>3. /\ row \in Invitation
      /\ ~row.revoked
      /\ row.board = b
      /\ row.creator = s
      /\ row.role = "PARTICIPANT"
  BY AccessAssumption DEF NewInvitation, Invitation, Role
<1>4. /\ TypedInvitations'
      /\ UniqueClaims'
      /\ DOMAIN invitations' = DOMAIN invitations \cup {i}
      /\ invitations'[i] = row
      /\ \A x \in DOMAIN invitations : invitations'[x] = invitations[x]
  <2> HIDE DEF row
  <2>1. TypedInvitations /\ UniqueClaims /\ InvitationsFewer(invitations)
    BY Parts, SameTables
  <2>2. \A x \in DOMAIN invitations :
            invitations[x].board = row.board /\ ~invitations[x].revoked
                => "PARTICIPANT" \in {invitations[x].role, row.role}
    BY <1>3
  <2> QED
    BY <1>1, <1>3, <2>1, <2>2, OneInvitation
<1> HIDE DEF row
<1>5. TypedMembers' /\ UniqueMembers' /\ UniqueRedemptions' /\ TypedRest' /\ OwnersRevoked'
  BY <1>2, Parts
     DEF TypedMembers, UniqueMembers, UniqueRedemptions, TypedRest, OwnersRevoked
<1>6. TypedRedemptions'
  BY <1>2, <1>4, Parts DEF TypedRedemptions
<1>7. RowsOnBoards'
  BY <1>2, <1>3, <1>4, Parts DEF RowsOnBoards
<1>8. SessionsReferenced'
  BY <1>2, <1>3, <1>4, Parts DEF SessionsReferenced, Named
<1> QED
  BY <1>4, <1>5, <1>6, <1>7, <1>8
     DEF IInv, TypeOK, TypedMembers, TypedInvitations, TypedRedemptions, TypedRest

\* Owners that are revoked are those whose session was.
LEMMA InactiveRevoked ==
    ASSUME IInv, NEW b \in Board, NEW those \in SUBSET InactiveOwners(b)
    PROVE  LET ms == Revoked(memberships, those) IN
           /\ MembersFewer(ms)
           /\ DOMAIN ms = DOMAIN memberships
           /\ \A m \in those : m \in DOMAIN ms /\ ms[m].revoked
           /\ \A m \in DOMAIN ms :
                  ms[m].role = "OWNER" /\ ms[m].revoked
                      => session[memberships[m].session] = "revoked"
<1> DEFINE ms == Revoked(memberships, those)
<1>1. those \subseteq DOMAIN memberships
  BY DEF InactiveOwners, Owners, Members
<1>2. /\ MembersFewer(ms)
      /\ DOMAIN ms = DOMAIN memberships
      /\ \A m \in DOMAIN ms : ms[m].revoked => memberships[m].revoked \/ m \in those
      /\ \A m \in those \cap DOMAIN ms : ms[m].revoked
  BY Parts, RevokedMembers
<1>3. \A m \in those : session[memberships[m].session] = "revoked"
  BY <1>1, Parts DEF InactiveOwners, TypedRest
<1>4. \A m \in DOMAIN ms : ms[m].role = memberships[m].role
  BY <1>2 DEF MembersFewer
<1> HIDE DEF ms
<1>5. \A m \in DOMAIN ms :
          ms[m].role = "OWNER" /\ ms[m].revoked
              => session[memberships[m].session] = "revoked"
  BY <1>2, <1>3, <1>4, Parts DEF OwnersRevoked
<1> QED
  BY <1>1, <1>2, <1>5 DEF ms

LEMMA OwnerClaimIInv ==
    ASSUME NEW b \in Board, IInv, createLegacyOwnerClaimInvitation(b)
    PROVE  IInv'
<1> DEFINE left == Revoked(invitations, OwnerClaims(b))
           kept == pruneOwnerHistory(left, b)
           row == NewInvitation(b, "OWNER", None, 1)
<1>1. /\ board[b] = "active"
      /\ memberships' = Revoked(memberships, InactiveOwners(b))
      /\ redemptions' = {r \in redemptions : r.invitation \in DOMAIN kept}
      /\ UNCHANGED <<session, board>>
  BY DEF createLegacyOwnerClaimInvitation
<1>2. PICK i \in NextRow(invitations, MAX_INVITATIONS) :
          invitations' = Inserted(kept, i, row)
  BY DEF createLegacyOwnerClaimInvitation
<1>3. /\ InvitationsFewer(left)
      /\ DOMAIN left = DOMAIN invitations
      /\ \A x \in OwnerClaims(b) \cap DOMAIN left : left[x].revoked
  BY Parts, RevokedInvitations
<1>4. /\ InvitationsFewer(kept)
      /\ DOMAIN kept \subseteq DOMAIN left
      /\ \A x \in DOMAIN kept : kept[x] = left[x]
  <2> HIDE DEF left
  <2> QED
    BY <1>3 DEF pruneOwnerHistory, Deleted, InvitationsFewer
<1>5. /\ row \in Invitation
      /\ ~row.revoked
      /\ row.board = b
      /\ row.creator = None
      /\ row.role = "OWNER"
  BY AccessAssumption DEF NewInvitation, Invitation, Role
<1> HIDE DEF left, kept, row
<1>6. \A x \in DOMAIN kept :
          kept[x].board = b /\ ~kept[x].revoked => kept[x].role = "PARTICIPANT"
  <2>1. SUFFICES ASSUME NEW x \in DOMAIN kept, kept[x].board = b, ~kept[x].revoked,
                        kept[x].role # "PARTICIPANT"
                 PROVE  FALSE
    OBVIOUS
  <2>2. /\ x \in DOMAIN invitations
        /\ invitations[x].board = b
        /\ invitations[x].role = "OWNER"
        /\ ~invitations[x].revoked
    BY <1>3, <1>4, <2>1, Parts DEF InvitationsFewer, Role
  <2>3. x \in OwnerClaims(b)
    BY <2>2 DEF OwnerClaims, RowsOf
  <2> QED
    BY <1>3, <1>4, <2>1, <2>3
<1>7. /\ TypedInvitations'
      /\ UniqueClaims'
      /\ DOMAIN invitations' = DOMAIN kept \cup {i}
      /\ invitations'[i] = row
      /\ \A x \in DOMAIN kept : invitations'[x] = kept[x]
  <2>1. \A x \in DOMAIN kept :
            kept[x].board = row.board /\ ~kept[x].revoked
                => "PARTICIPANT" \in {kept[x].role, row.role}
    BY <1>5, <1>6
  <2> QED
    BY <1>2, <1>4, <1>5, <2>1, Parts, OneInvitation
<1>8. /\ MembersFewer(memberships')
      /\ DOMAIN memberships' = DOMAIN memberships
      /\ \A m \in DOMAIN memberships' :
             memberships'[m].role = "OWNER" /\ memberships'[m].revoked
                 => session[memberships[m].session] = "revoked"
  BY <1>1, InactiveRevoked
<1>9. TypedMembers' /\ UniqueMembers'
  BY <1>8, Parts, FewerMembers
<1>10. TypedRedemptions' /\ UniqueRedemptions'
  BY <1>1, <1>4, <1>7, <1>8, Parts
     DEF TypedRedemptions, UniqueRedemptions, MembersFewer, InvitationsFewer
<1>11. TypedRest' /\ OwnersRevoked'
  BY <1>1, <1>8, Parts DEF TypedRest, OwnersRevoked, MembersFewer
<1>12. RowsOnBoards'
  BY <1>1, <1>4, <1>5, <1>7, <1>8, Parts
     DEF RowsOnBoards, MembersFewer, InvitationsFewer
<1>13. SessionsReferenced'
  <2>1. SUFFICES ASSUME NEW u \in Session, Named(u, memberships', invitations')
                 PROVE  session'[u] # "none"
    BY DEF SessionsReferenced
  <2>2. u # None
    BY AccessAssumption
  <2>3. Named(u, memberships, invitations)
    BY <1>4, <1>5, <1>7, <1>8, <2>1, <2>2 DEF Named, MembersFewer, InvitationsFewer
  <2> QED
    BY <1>1, <2>3, Parts DEF SessionsReferenced
<1> QED
  BY <1>7, <1>9, <1>10, <1>11, <1>12, <1>13
     DEF IInv, TypeOK, TypedMembers, TypedInvitations, TypedRedemptions, TypedRest

-----------------------------------------------------------------------------
(* Redemptions *)

\* A use keeps the invitations there are.
LEMMA UsedInvitations ==
    ASSUME TypedInvitations, NEW i \in DOMAIN invitations, Used(i)
    PROVE  InvitationsFewer(invitations') /\ DOMAIN invitations' = DOMAIN invitations
<1>1. PICK those : invitations' =
          [Revoked(invitations, those) EXCEPT ![i].useCount = @ + 1]
  BY DEF Used
<1> DEFINE is == Revoked(invitations, those)
<1>2. InvitationsFewer(is) /\ DOMAIN is = DOMAIN invitations
  BY RevokedInvitations
<1>3. /\ DOMAIN invitations' = DOMAIN is
      /\ \A j \in DOMAIN is :
             invitations'[j] = IF j = i THEN [is[i] EXCEPT !.useCount = @ + 1] ELSE is[j]
  BY <1>1 DEF Revoked
<1> HIDE DEF is
<1>4. /\ is[i] \in Invitation
      /\ invitations'[i] = [is[i] EXCEPT !.useCount = @ + 1]
  BY <1>2, <1>3 DEF InvitationsFewer
<1>5. /\ invitations'[i] \in Invitation
      /\ invitations'[i].board = is[i].board
      /\ invitations'[i].creator = is[i].creator
      /\ invitations'[i].role = is[i].role
      /\ is[i].revoked => invitations'[i].revoked
  BY <1>4, InvitationChanged
<1> QED
  BY <1>2, <1>3, <1>5 DEF InvitationsFewer

\* What a redemption must see to: its own membership, and what it leaves.
LEMMA RedeemedIInv ==
    ASSUME IInv, NEW s \in Session, NEW i \in DOMAIN invitations, Redeemable(s, i),
           NEW m, NEW left, Redeemed(s, i, m, left),
           TypedMembers', UniqueMembers',
           m \in DOMAIN memberships',
           memberships'[m].board = invitations[i].board,
           memberships'[m].session = s,
           left \subseteq DOMAIN memberships',
           \A x \in left \cup (DOMAIN memberships' \ {m}) :
               /\ x \in DOMAIN memberships
               /\ memberships'[x].board = memberships[x].board
               /\ memberships'[x].session = memberships[x].session,
           \A x \in DOMAIN memberships' :
               memberships'[x].role = "OWNER" /\ memberships'[x].revoked
                   => session[memberships'[x].session] = "revoked"
    PROVE  IInv'
<1> DEFINE new == [invitation |-> i, membership |-> m, session |-> s]
<1>1. /\ board[invitations[i].board] = "active"
      /\ session[s] # "revoked"
      /\ \A r \in redemptions : ~(r.invitation = i /\ r.session = s)
  BY DEF Redeemable
<1>2. /\ redemptions' = {r \in redemptions : r.membership \in left} \cup {new}
      /\ Used(i)
      /\ session' = [session EXCEPT ![s] = "active"]
      /\ board' = board
  BY DEF Redeemed
<1>3. /\ InvitationsFewer(invitations')
      /\ DOMAIN invitations' = DOMAIN invitations
  BY <1>2, Parts, UsedInvitations
<1>4. TypedInvitations' /\ UniqueClaims'
  BY <1>3, Parts, FewerInvitations
<1>5. /\ session' \in [Session -> {"none", "active", "revoked"}]
      /\ session'[s] = "active"
      /\ \A u \in Session : /\ session[u] # "none" => session'[u] # "none"
                            /\ session[u] = "revoked" => session'[u] = "revoked"
  BY <1>1, <1>2, ActiveSession
<1>6. TypedRest'
  BY <1>2, <1>5, Parts DEF TypedRest
<1>7. /\ new \in Redemption
      /\ new.invitation = i /\ new.membership = m /\ new.session = s
  <2>1. i \in 1 .. MAX_INVITATIONS /\ m \in 1 .. MAX_MEMBERSHIPS
    BY Parts DEF TypedInvitations, TypedMembers
  <2> QED
    BY <2>1 DEF Redemption
<1> HIDE DEF new
<1>8. TypedRedemptions'
  <2>1. \A r \in redemptions' :
            \/ r = new
            \/ r \in redemptions /\ r.membership \in left
    BY <1>2
  <2>2. redemptions' \subseteq Redemption
    BY <1>7, <2>1, Parts DEF TypedRedemptions
  <2>3. \A r \in redemptions' : r # new =>
            /\ r.invitation \in DOMAIN invitations'
            /\ r.membership \in DOMAIN memberships'
            /\ memberships'[r.membership].session = r.session
            /\ memberships'[r.membership].board = invitations'[r.invitation].board
    BY <1>3, <2>1, Parts DEF TypedRedemptions, InvitationsFewer
  <2>4. /\ i \in DOMAIN invitations'
        /\ invitations'[i].board = invitations[i].board
    BY <1>3 DEF InvitationsFewer
  <2> QED
    BY <1>7, <2>2, <2>3, <2>4 DEF TypedRedemptions
<1>9. UniqueRedemptions'
  <2>1. \A r \in redemptions' :
            \/ r = new
            \/ r \in redemptions /\ ~(r.invitation = i /\ r.session = s)
    BY <1>1, <1>2
  <2> QED
    BY <1>7, <2>1, Parts DEF UniqueRedemptions
<1>10. RowsOnBoards'
  BY <1>1, <1>2, <1>3, Parts DEF RowsOnBoards, InvitationsFewer
<1>11. SessionsReferenced'
  <2>1. SUFFICES ASSUME NEW u \in Session, Named(u, memberships', invitations'), u # s
                 PROVE  session'[u] # "none"
    BY <1>5 DEF SessionsReferenced
  <2>2. Named(u, memberships, invitations)
    BY <1>3, <2>1 DEF Named, InvitationsFewer
  <2> QED
    BY <1>5, <2>2, Parts DEF SessionsReferenced
<1>12. OwnersRevoked'
  <2>1. \A x \in DOMAIN memberships' : memberships'[x].session \in Session
    BY DEF TypedMembers, Membership
  <2> QED
    BY <1>5, <2>1 DEF OwnersRevoked
<1> QED
  BY <1>4, <1>6, <1>8, <1>9, <1>10, <1>11, <1>12
     DEF IInv, TypeOK, TypedMembers, TypedInvitations, TypedRedemptions, TypedRest

\* Whom a redemption displaces: owners of the board, whose sessions are revoked.
LEMMA DisplacedMembers ==
    ASSUME IInv, NEW i \in DOMAIN invitations
    PROVE  LET ms == Revoked(memberships, Displaced(i)) IN
           /\ MembersFewer(ms)
           /\ DOMAIN ms = DOMAIN memberships
           /\ \A m \in Displaced(i) : m \in DOMAIN ms /\ ms[m].revoked
           /\ \A m \in DOMAIN ms :
                  ms[m].role = "OWNER" /\ ms[m].revoked
                      => session[memberships[m].session] = "revoked"
<1>1. invitations[i].board \in Board
  BY Parts
<1>2. Displaced(i) \in SUBSET InactiveOwners(invitations[i].board)
  BY DEF Displaced
<1> QED
  BY <1>1, <1>2, InactiveRevoked

LEMMA RedeemAgainIInv ==
    ASSUME NEW s \in Session, NEW i \in DOMAIN invitations, IInv, RedeemAgain(s, i)
    PROVE  IInv'
<1>1. PICK m \in MembershipsOf(invitations[i].board, s) :
          Redeemed(s, i, m, DOMAIN memberships)
  BY DEF RedeemAgain
<1>2. Redeemable(s, i) /\ memberships' = Revoked(memberships, Displaced(i))
  BY DEF RedeemAgain
<1>3. /\ MembersFewer(memberships')
      /\ DOMAIN memberships' = DOMAIN memberships
      /\ \A x \in DOMAIN memberships' :
             memberships'[x].role = "OWNER" /\ memberships'[x].revoked
                 => session[memberships[x].session] = "revoked"
  BY <1>2, DisplacedMembers
<1>4. TypedMembers' /\ UniqueMembers'
  BY <1>3, Parts, FewerMembers
<1>5. \A x \in DOMAIN memberships' :
          /\ memberships'[x].board = memberships[x].board
          /\ memberships'[x].session = memberships[x].session
  BY <1>3 DEF MembersFewer
<1>6. /\ m \in DOMAIN memberships
      /\ memberships[m].board = invitations[i].board
      /\ memberships[m].session = s
  BY <1>1 DEF MembershipsOf, Members
<1> QED
  BY <1>1, <1>2, <1>3, <1>4, <1>5, <1>6, RedeemedIInv

LEMMA JoinAsParticipantIInv ==
    ASSUME NEW s \in Session, NEW i \in DOMAIN invitations, IInv,
           JoinAsParticipant(s, i)
    PROVE  IInv'
<1> DEFINE b == invitations[i].board
<1>1. PICK m \in NextRow(memberships, MAX_MEMBERSHIPS) :
          /\ memberships' = Inserted(memberships, m, NewMembership(b, s, "PARTICIPANT"))
          /\ Redeemed(s, i, m, DOMAIN memberships)
  BY DEF JoinAsParticipant
<1>2. Redeemable(s, i) /\ MembershipsOf(b, s) = {}
  BY DEF JoinAsParticipant
<1>3. b \in Board /\ TypedMembers /\ UniqueMembers /\ MembersFewer(memberships)
  BY Parts, SameTables
<1> HIDE DEF b
<1>4. /\ TypedMembers'
      /\ UniqueMembers'
      /\ DOMAIN memberships' = DOMAIN memberships \cup {m}
      /\ memberships'[m] = NewMembership(b, s, "PARTICIPANT")
      /\ \A x \in DOMAIN memberships : memberships'[x] = memberships[x]
  <2>1. "PARTICIPANT" \in Role
    BY DEF Role
  <2>2. \A x \in DOMAIN memberships :
            memberships[x].board = b /\ ~memberships[x].revoked
                => /\ memberships[x].session # s
                   /\ "PARTICIPANT" \in {memberships[x].role, "PARTICIPANT"}
    BY <1>2 DEF MembershipsOf, Members
  <2> QED
    BY <1>1, <1>3, <2>1, <2>2, OneMember
<1>5. /\ memberships'[m].board = b
      /\ memberships'[m].session = s
      /\ ~memberships'[m].revoked
  BY <1>4 DEF NewMembership
<1>6. \A x \in DOMAIN memberships' :
          memberships'[x].role = "OWNER" /\ memberships'[x].revoked
              => session[memberships'[x].session] = "revoked"
  BY <1>4, <1>5, Parts DEF OwnersRevoked
<1>7. \A x \in DOMAIN memberships \cup (DOMAIN memberships' \ {m}) :
          /\ x \in DOMAIN memberships
          /\ memberships'[x].board = memberships[x].board
          /\ memberships'[x].session = memberships[x].session
  BY <1>4
<1> QED
  BY <1>1, <1>2, <1>4, <1>5, <1>6, <1>7, RedeemedIInv DEF b

LEMMA ClaimOwnershipIInv ==
    ASSUME NEW s \in Session, NEW i \in DOMAIN invitations, IInv, ClaimOwnership(s, i)
    PROVE  IInv'
<1> DEFINE b == invitations[i].board
           left == Revoked(memberships, Displaced(i))
           kept == pruneOwnerHistory(left, b)
           own == MembershipsOf(b, s)
           rest == Revoked(kept, own)
<1>1. PICK m \in NextRow(memberships, MAX_MEMBERSHIPS) :
          /\ memberships' = Inserted(rest, m, NewMembership(b, s, "OWNER"))
          /\ Redeemed(s, i, m, DOMAIN kept)
  BY DEF ClaimOwnership
<1>2. /\ Redeemable(s, i)
      /\ invitations[i].role = "OWNER"
      /\ \A x \in own : memberships[x].role = "PARTICIPANT"
  BY DEF ClaimOwnership
<1>3. /\ Displaced(i) = InactiveOwners(b)
      /\ \A x \in Owners(b) \ InactiveOwners(b) : memberships[x].session = s
  BY <1>2 DEF Displaced, Redeemable
<1>4. /\ MembersFewer(left)
      /\ DOMAIN left = DOMAIN memberships
      /\ \A x \in Displaced(i) : x \in DOMAIN left /\ left[x].revoked
      /\ \A x \in DOMAIN left :
             left[x].role = "OWNER" /\ left[x].revoked
                 => session[memberships[x].session] = "revoked"
  BY DisplacedMembers
<1>5. /\ DOMAIN kept \subseteq DOMAIN left
      /\ \A x \in DOMAIN kept : kept[x] = left[x]
  BY DEF pruneOwnerHistory, Deleted
<1>6. /\ DOMAIN rest = DOMAIN kept
      /\ \A x \in DOMAIN kept :
             rest[x] = IF x \in own THEN [left[x] EXCEPT !.revoked = TRUE] ELSE left[x]
  BY <1>5 DEF Revoked
<1>7. /\ b \in Board /\ TypedMembers /\ UniqueMembers
  BY Parts
<1>8. \A x \in own : /\ x \in DOMAIN memberships
                     /\ memberships[x].board = b
                     /\ memberships[x].session = s
  BY DEF MembershipsOf, Members
<1>9. \A x \in DOMAIN memberships :
          memberships[x].board = b /\ ~memberships[x].revoked
              => /\ memberships[x].session = s => x \in own
                 /\ memberships[x].role = "OWNER" => x \in Owners(b)
  BY DEF MembershipsOf, Members, Owners
<1> HIDE DEF b, left, kept, own, rest
<1>10. /\ MembersFewer(rest)
       /\ \A x \in DOMAIN rest :
              /\ x \in own => rest[x].revoked
              /\ x \notin own => rest[x] = left[x]
  <2>1. SUFFICES ASSUME NEW x \in DOMAIN rest
                 PROVE  /\ x \in DOMAIN memberships
                        /\ rest[x] \in Membership
                        /\ rest[x].board = memberships[x].board
                        /\ rest[x].session = memberships[x].session
                        /\ rest[x].role = memberships[x].role
                        /\ memberships[x].revoked => rest[x].revoked
                        /\ x \in own => rest[x].revoked
                        /\ x \notin own => rest[x] = left[x]
    BY DEF MembersFewer
  <2>2. /\ x \in DOMAIN memberships
        /\ left[x] \in Membership
        /\ left[x].board = memberships[x].board
        /\ left[x].session = memberships[x].session
        /\ left[x].role = memberships[x].role
        /\ memberships[x].revoked => left[x].revoked
    BY <1>4, <1>5, <1>6 DEF MembersFewer
  <2>3. CASE x \notin own
    BY <1>6, <2>2, <2>3
  <2>4. CASE x \in own
    <3>1. rest[x] = [left[x] EXCEPT !.revoked = TRUE]
      BY <1>6, <2>4
    <3>2. /\ rest[x] \in Membership
          /\ rest[x].board = left[x].board
          /\ rest[x].session = left[x].session
          /\ rest[x].role = left[x].role
          /\ rest[x].revoked
      BY <2>2, <3>1 DEF Membership
    <3> QED
      BY <2>2, <2>4, <3>2
  <2> QED
    BY <2>3, <2>4
<1>11. \A x \in DOMAIN rest :
           rest[x].board = b /\ ~rest[x].revoked
               => /\ rest[x].session # s
                  /\ "PARTICIPANT" \in {rest[x].role, "OWNER"}
  <2>1. SUFFICES ASSUME NEW x \in DOMAIN rest, rest[x].board = b, ~rest[x].revoked
                 PROVE  /\ rest[x].session # s
                        /\ rest[x].role # "OWNER"
    BY <1>10 DEF MembersFewer, Membership, Role
  <2>2. /\ x \in DOMAIN memberships
        /\ memberships[x].board = b
        /\ ~memberships[x].revoked
        /\ rest[x].session = memberships[x].session
        /\ rest[x].role = memberships[x].role
        /\ x \notin own
        /\ ~left[x].revoked
    BY <1>10, <2>1 DEF MembersFewer
  <2>3. memberships[x].session # s
    BY <1>9, <2>2
  <2>4. x \notin InactiveOwners(b)
    BY <1>3, <1>4, <2>2
  <2>5. x \notin Owners(b)
    BY <1>3, <2>3, <2>4
  <2> QED
    BY <1>9, <2>2, <2>3, <2>5
<1>12. /\ TypedMembers'
       /\ UniqueMembers'
       /\ m \notin DOMAIN memberships
       /\ DOMAIN memberships' = DOMAIN rest \cup {m}
       /\ memberships'[m] = NewMembership(b, s, "OWNER")
       /\ \A x \in DOMAIN rest : memberships'[x] = rest[x]
  <2>1. "OWNER" \in Role
    BY DEF Role
  <2> QED
    BY <1>1, <1>7, <1>10, <1>11, <2>1, OneMember
<1>13. /\ memberships'[m].board = b
       /\ memberships'[m].session = s
       /\ ~memberships'[m].revoked
  BY <1>12 DEF NewMembership
<1>14. \A x \in DOMAIN kept \cup (DOMAIN memberships' \ {m}) :
           /\ x \in DOMAIN memberships
           /\ memberships'[x].board = memberships[x].board
           /\ memberships'[x].session = memberships[x].session
  BY <1>6, <1>10, <1>12 DEF MembersFewer
<1>15. \A x \in DOMAIN rest :
           rest[x].role = "OWNER" /\ rest[x].revoked
               => session[rest[x].session] = "revoked"
  <2>1. SUFFICES ASSUME NEW x \in DOMAIN rest,
                        rest[x].role = "OWNER", rest[x].revoked
                 PROVE  session[rest[x].session] = "revoked"
    OBVIOUS
  <2>2. /\ rest[x].role = memberships[x].role
        /\ rest[x].session = memberships[x].session
    BY <1>10 DEF MembersFewer
  <2>3. x \notin own
    BY <1>2, <2>1, <2>2
  <2> QED
    BY <1>4, <1>5, <1>6, <1>10, <2>1, <2>2, <2>3
<1>16. \A x \in DOMAIN memberships' :
           memberships'[x].role = "OWNER" /\ memberships'[x].revoked
               => session[memberships'[x].session] = "revoked"
  BY <1>12, <1>13, <1>15
<1>17. DOMAIN kept \subseteq DOMAIN memberships'
  BY <1>6, <1>12
<1> QED
  BY <1>1, <1>2, <1>12, <1>13, <1>14, <1>16, <1>17, RedeemedIInv DEF b

-----------------------------------------------------------------------------
(* Every step *)

LEMMA NextIInv == IInv /\ [Next]_vars => IInv'
<1>1. SUFFICES ASSUME IInv, [Next]_vars PROVE IInv'
  OBVIOUS
<1>2. CASE UNCHANGED vars
  BY <1>1, <1>2
     DEF vars, IInv, TypeOK, RowsOnBoards, UniqueMembers, UniqueClaims,
         UniqueRedemptions, SessionsReferenced, OwnersRevoked, Named
<1>3. ASSUME NEW s \in Session, RevokeSession(s) \/ CleanupSession(s)
      PROVE  IInv'
  BY <1>1, <1>3, RevokeSessionIInv, CleanupSessionIInv
<1>4. ASSUME NEW s \in Session, NEW b \in Board,
             CreateBoard(s, b) \/ DeleteBoard(s, b) \/ leaveBoard(s, b)
      PROVE  IInv'
  BY <1>1, <1>4, CreateBoardIInv, DeleteBoardIInv, LeaveBoardIInv
<1>5. ASSUME NEW s \in Session, NEW b \in Board,
             NEW uses \in 1 .. MAX_PARTICIPANT_INVITATION_USES,
             CreateParticipantInvitation(s, b, uses)
      PROVE  IInv'
  BY <1>1, <1>5, ParticipantInvitationIInv
<1>6. ASSUME NEW s \in Session, NEW i \in DOMAIN invitations,
             \/ revokeBoardInvitation(s, i)
             \/ RedeemAgain(s, i)
             \/ JoinAsParticipant(s, i)
             \/ ClaimOwnership(s, i)
      PROVE  IInv'
  BY <1>1, <1>6, RevokeInvitationIInv, RedeemAgainIInv, JoinAsParticipantIInv,
     ClaimOwnershipIInv
<1>7. ASSUME NEW s \in Session, NEW m \in DOMAIN memberships,
             revokeBoardParticipant(s, m)
      PROVE  IInv'
  BY <1>1, <1>7, RevokeParticipantIInv
<1>8. ASSUME NEW b \in Board,
             \/ BoardExpires(b)
             \/ CleanupChunk(b)
             \/ createLegacyOwnerClaimInvitation(b)
      PROVE  IInv'
  BY <1>1, <1>8, BoardExpiresIInv, CleanupChunkIInv, OwnerClaimIInv
<1>9. ASSUME NEW i \in DOMAIN invitations, InvitationExpires(i)
      PROVE  IInv'
  BY <1>1, <1>9, InvitationExpiresIInv
<1> QED
  BY <1>1, <1>2, <1>3, <1>4, <1>5, <1>6, <1>7, <1>8, <1>9 DEF Next

\* The rows stay well typed, unique and backed by boards and sessions that are
\* there, and an owner loses the place with the session only.
THEOREM AccessSound == Spec => []IInv
<1>1. Init => IInv
  BY InitIInv
<1>2. IInv /\ [Next]_vars => IInv'
  BY NextIInv
<1> QED
  BY <1>1, <1>2, PTL DEF Spec

\* Every row has its type, and every redemption its invitation and membership
\* (acl-service's tables).
THEOREM AccessTypeCorrect == Spec => []TypeOK
<1>1. IInv => TypeOK
  BY DEF IInv
<1> QED
  BY <1>1, AccessSound, PTL

\* Without the unique indexes too: one active owner of a board, one active
\* membership of a session on it, one outstanding claim, one redemption of an
\* invitation by a session (redeemBoardInvitation, createLegacyOwnerClaimInvitation).
THEOREM RowsStayUnique == Spec => []UniqueRows
<1>1. IInv => UniqueRows
  BY DEF IInv, UniqueMembers, UniqueClaims, UniqueRedemptions, UniqueRows
<1> QED
  BY <1>1, AccessSound, PTL

\* No session is deleted from under a membership or an invitation
\* (deleteBoardAsOwner, the retention cleanup).
THEOREM SessionsStayReferenced == Spec => []SessionsReferenced
<1>1. IInv => SessionsReferenced
  BY DEF IInv
<1> QED
  BY <1>1, AccessSound, PTL

-----------------------------------------------------------------------------
(* What a step may not do *)

\* A row of an active board stays unless it is an owner's whose session was
\* revoked.
RowsStay ==
    \A m \in DOMAIN memberships :
        \/ /\ m \in DOMAIN memberships'
           /\ memberships'[m].board = memberships[m].board
           /\ memberships'[m].session = memberships[m].session
           /\ memberships'[m].role = memberships[m].role
        \/ board'[memberships[m].board] # "active"
        \/ session[memberships[m].session] = "revoked"

LEMMA FewerStay ==
    ASSUME MembersFewer(memberships'), DOMAIN memberships' = DOMAIN memberships
    PROVE  RowsStay
  BY DEF MembersFewer, RowsStay

\* Pruning takes owners' revoked rows.
LEMMA PrunedRows ==
    ASSUME NEW table, NEW b,
           NEW r \in DOMAIN table, r \notin DOMAIN pruneOwnerHistory(table, b)
    PROVE  table[r].role = "OWNER" /\ table[r].revoked
  BY DEF pruneOwnerHistory, Deleted, StaleOwnerRows, Oldest, RowsOf

LEMMA ClaimOwnershipStays ==
    ASSUME IInv, NEW s \in Session, NEW i \in DOMAIN invitations, ClaimOwnership(s, i)
    PROVE  LET kept == pruneOwnerHistory(Revoked(memberships, Displaced(i)),
                                         invitations[i].board)
           IN  \A m \in DOMAIN memberships :
                   \/ /\ m \in DOMAIN kept
                      /\ m \in DOMAIN memberships'
                      /\ memberships'[m].board = memberships[m].board
                      /\ memberships'[m].session = memberships[m].session
                      /\ memberships'[m].role = memberships[m].role
                   \/ session[memberships[m].session] = "revoked"
<1> DEFINE b == invitations[i].board
           left == Revoked(memberships, Displaced(i))
           kept == pruneOwnerHistory(left, b)
           own == MembershipsOf(b, s)
<1>1. PICK n \in NextRow(memberships, MAX_MEMBERSHIPS) :
          memberships' = Inserted(Revoked(kept, own), n, NewMembership(b, s, "OWNER"))
  BY DEF ClaimOwnership
<1>2. SUFFICES ASSUME NEW m \in DOMAIN memberships,
                      session[memberships[m].session] # "revoked"
               PROVE  /\ m \in DOMAIN kept
                      /\ m \in DOMAIN memberships'
                      /\ memberships'[m].board = memberships[m].board
                      /\ memberships'[m].session = memberships[m].session
                      /\ memberships'[m].role = memberships[m].role
  OBVIOUS
<1>3. /\ MembersFewer(left)
      /\ DOMAIN left = DOMAIN memberships
      /\ \A x \in DOMAIN left :
             left[x].role = "OWNER" /\ left[x].revoked
                 => session[memberships[x].session] = "revoked"
  BY DisplacedMembers
<1>4. n \notin DOMAIN memberships
  BY AccessAssumption, Parts DEF NextRow, TypedMembers
<1>5. \A x \in DOMAIN kept : x \in DOMAIN left /\ kept[x] = left[x]
  BY DEF pruneOwnerHistory, Deleted
<1> HIDE DEF b, left, own
<1>6. m \in DOMAIN kept
  BY <1>2, <1>3, PrunedRows
<1> HIDE DEF kept
<1>7. /\ m \in DOMAIN memberships'
      /\ memberships'[m] = IF m \in own THEN [left[m] EXCEPT !.revoked = TRUE]
                                        ELSE left[m]
  BY <1>1, <1>4, <1>5, <1>6 DEF Inserted, Revoked
<1>8. /\ left[m] \in Membership
      /\ left[m].board = memberships[m].board
      /\ left[m].session = memberships[m].session
      /\ left[m].role = memberships[m].role
  BY <1>3 DEF MembersFewer
<1>9. /\ memberships'[m].board = left[m].board
      /\ memberships'[m].session = left[m].session
      /\ memberships'[m].role = left[m].role
  <2>1. CASE m \in own
    BY <1>7, <1>8, <2>1 DEF Membership
  <2>2. CASE m \notin own
    BY <1>7, <2>2
  <2> QED
    BY <2>1, <2>2
<1> QED
  BY <1>6, <1>7, <1>8, <1>9

\* Deleting a board takes its own rows, and the board.
LEMMA DeleteBoardStays ==
    ASSUME IInv, NEW s \in Session, NEW b \in Board, DeleteBoard(s, b)
    PROVE  /\ RowsStay
           /\ board'[b] # "active"
           /\ \A r \in redemptions :
                  invitations[r.invitation].board # b => r \in redemptions'
<1>1. /\ board' = [board EXCEPT ![b] = "none"]
      /\ memberships' = Deleted(memberships,
                            {m \in DOMAIN memberships : memberships[m].board = b})
      /\ invitations' = Deleted(invitations,
                            {i \in DOMAIN invitations : invitations[i].board = b})
      /\ redemptions' = {r \in redemptions : r.invitation \in DOMAIN invitations'}
  BY DEF DeleteBoard
<1>2. board'[b] = "none"
  BY <1>1, Parts DEF TypedRest
<1>3. RowsStay
  BY <1>1, <1>2 DEF RowsStay, Deleted
<1>4. \A r \in redemptions :
          invitations[r.invitation].board # b => r \in redemptions'
  BY <1>1, Parts DEF Deleted, TypedRedemptions
<1> QED
  BY <1>2, <1>3, <1>4

LEMMA CleanupChunkStays ==
    ASSUME IInv, NEW b \in Board, CleanupChunk(b)
    PROVE  /\ RowsStay
           /\ board[b] # "active"
           /\ \A r \in redemptions :
                  invitations[r.invitation].board # b => r \in redemptions'
<1>1. PICK rs \in Batches({r \in redemptions : invitations[r.invitation].board = b}) :
          redemptions' = redemptions \ rs
  BY DEF CleanupChunk
<1>2. PICK ms \in Batches({m \in DOMAIN memberships :
                              /\ memberships[m].board = b
                              /\ \A r \in redemptions' : r.membership # m}) :
          memberships' = Deleted(memberships, ms)
  BY DEF CleanupChunk
<1>3. /\ board[b] = "expired"
      /\ board' = board \/ board' = [board EXCEPT ![b] = "none"]
  BY DEF CleanupChunk
<1>4. board'[b] # "active"
  BY <1>3, Parts DEF TypedRest
<1>5. RowsStay
  BY <1>2, <1>4 DEF RowsStay, Deleted, Batches
<1> QED
  BY <1>1, <1>3, <1>5 DEF Batches

\* A new row leaves the others.
LEMMA InsertedStay ==
    ASSUME TypedMembers, NEW row,
           NEW m \in NextRow(memberships, MAX_MEMBERSHIPS),
           memberships' = Inserted(memberships, m, row)
    PROVE  RowsStay
<1>1. m \notin DOMAIN memberships
  BY AccessAssumption DEF NextRow, TypedMembers
<1> QED
  BY <1>1 DEF Inserted, RowsStay

\* What was redeemed of a participants' invitation by a session that is active
\* is remembered while the board is.
RedemptionsStay ==
    \A r \in redemptions :
        \/ r \in redemptions'
        \/ invitations[r.invitation].role = "OWNER"
        \/ session[r.session] # "active"
        \/ board[invitations[r.invitation].board] # "active"
        \/ board'[invitations[r.invitation].board] # "active"

LEMMA RedeemedStay ==
    ASSUME IInv, NEW s, NEW i, NEW m, Redeemed(s, i, m, DOMAIN memberships)
    PROVE  RedemptionsStay
  BY Parts DEF Redeemed, TypedRedemptions, RedemptionsStay

LEMMA ClaimOwnershipRows ==
    ASSUME IInv, NEW s \in Session, NEW i \in DOMAIN invitations, ClaimOwnership(s, i)
    PROVE  RowsStay /\ RedemptionsStay
<1> DEFINE kept == pruneOwnerHistory(Revoked(memberships, Displaced(i)),
                                     invitations[i].board)
<1>1. \A m \in DOMAIN memberships :
          \/ /\ m \in DOMAIN kept
             /\ m \in DOMAIN memberships'
             /\ memberships'[m].board = memberships[m].board
             /\ memberships'[m].session = memberships[m].session
             /\ memberships'[m].role = memberships[m].role
          \/ session[memberships[m].session] = "revoked"
  BY ClaimOwnershipStays
<1>2. \A r \in redemptions : r.membership \in DOMAIN kept => r \in redemptions'
  BY DEF ClaimOwnership, Redeemed
<1> HIDE DEF kept
<1>3. RowsStay
  BY <1>1 DEF RowsStay
<1>4. RedemptionsStay
  BY <1>1, <1>2, Parts DEF TypedRedemptions, RedemptionsStay
<1> QED
  BY <1>3, <1>4

LEMMA OwnerClaimRows ==
    ASSUME IInv, NEW b \in Board, createLegacyOwnerClaimInvitation(b)
    PROVE  RowsStay /\ RedemptionsStay
<1> DEFINE left == Revoked(invitations, OwnerClaims(b))
           kept == pruneOwnerHistory(left, b)
<1>1. /\ memberships' = Revoked(memberships, InactiveOwners(b))
      /\ redemptions' = {r \in redemptions : r.invitation \in DOMAIN kept}
  BY DEF createLegacyOwnerClaimInvitation
<1>2. RowsStay
  BY <1>1, InactiveRevoked, FewerStay
<1>3. InvitationsFewer(left) /\ DOMAIN left = DOMAIN invitations
  BY Parts, RevokedInvitations
<1>4. \A i \in DOMAIN left : i \in DOMAIN kept \/ left[i].role = "OWNER"
  <2> HIDE DEF left
  <2> QED
    BY PrunedRows
<1> HIDE DEF left, kept
<1>5. RedemptionsStay
  BY <1>1, <1>3, <1>4, Parts
     DEF InvitationsFewer, TypedRedemptions, RedemptionsStay
<1> QED
  BY <1>2, <1>5

LEMMA StepStays ==
    ASSUME IInv, [Next]_vars
    PROVE  RowsStay /\ RedemptionsStay
<1>1. CASE UNCHANGED <<memberships, redemptions>>
  BY <1>1 DEF RowsStay, RedemptionsStay
<1>2. ASSUME NEW s \in Session, NEW b \in Board, CreateBoard(s, b)
      PROVE  RowsStay /\ RedemptionsStay
  <2>1. PICK m \in NextRow(memberships, MAX_MEMBERSHIPS) :
            memberships' = Inserted(memberships, m, NewMembership(b, s, "OWNER"))
    BY <1>2 DEF CreateBoard
  <2>2. redemptions' = redemptions
    BY <1>2 DEF CreateBoard
  <2> QED
    BY <2>1, <2>2, Parts, InsertedStay DEF RedemptionsStay
<1>3. ASSUME NEW s \in Session, NEW b \in Board, DeleteBoard(s, b)
      PROVE  RowsStay /\ RedemptionsStay
  BY <1>3, DeleteBoardStays DEF RedemptionsStay
<1>4. ASSUME NEW b \in Board, CleanupChunk(b)
      PROVE  RowsStay /\ RedemptionsStay
  BY <1>4, CleanupChunkStays DEF RedemptionsStay
<1>5. ASSUME NEW m, memberships' = Revoked(memberships, {m}), redemptions' = redemptions
      PROVE  RowsStay /\ RedemptionsStay
  BY <1>5, Parts, RevokedMembers, FewerStay DEF RedemptionsStay
<1>6. ASSUME NEW s \in Session, NEW i \in DOMAIN invitations, RedeemAgain(s, i)
      PROVE  RowsStay /\ RedemptionsStay
  <2>1. memberships' = Revoked(memberships, Displaced(i))
    BY <1>6 DEF RedeemAgain
  <2>2. PICK m : Redeemed(s, i, m, DOMAIN memberships)
    BY <1>6 DEF RedeemAgain
  <2> QED
    BY <2>1, <2>2, DisplacedMembers, FewerStay, RedeemedStay
<1>7. ASSUME NEW s \in Session, NEW i \in DOMAIN invitations, JoinAsParticipant(s, i)
      PROVE  RowsStay /\ RedemptionsStay
  <2>1. PICK m \in NextRow(memberships, MAX_MEMBERSHIPS) :
            /\ memberships' =
                   Inserted(memberships, m,
                            NewMembership(invitations[i].board, s, "PARTICIPANT"))
            /\ Redeemed(s, i, m, DOMAIN memberships)
    BY <1>7 DEF JoinAsParticipant
  <2> QED
    BY <2>1, Parts, InsertedStay, RedeemedStay
<1>8. CASE UNCHANGED vars
  BY <1>1, <1>8 DEF vars
<1>9. ASSUME NEW s \in Session, RevokeSession(s) \/ CleanupSession(s)
      PROVE  UNCHANGED <<memberships, redemptions>>
  BY <1>9 DEF RevokeSession, CleanupSession
<1>10. ASSUME NEW s \in Session, NEW b \in Board, leaveBoard(s, b)
       PROVE  RowsStay /\ RedemptionsStay
  BY <1>5, <1>10 DEF leaveBoard
<1>11. ASSUME NEW s \in Session, NEW m \in DOMAIN memberships,
              revokeBoardParticipant(s, m)
       PROVE  RowsStay /\ RedemptionsStay
  BY <1>5, <1>11 DEF revokeBoardParticipant
<1>12. ASSUME NEW s \in Session, NEW b \in Board,
              NEW uses \in 1 .. MAX_PARTICIPANT_INVITATION_USES,
              CreateParticipantInvitation(s, b, uses)
       PROVE  UNCHANGED <<memberships, redemptions>>
  BY <1>12 DEF CreateParticipantInvitation
<1>13. ASSUME NEW s \in Session, NEW i \in DOMAIN invitations,
              revokeBoardInvitation(s, i) \/ InvitationExpires(i)
       PROVE  UNCHANGED <<memberships, redemptions>>
  BY <1>13 DEF revokeBoardInvitation, InvitationExpires
<1>14. ASSUME NEW b \in Board, BoardExpires(b)
       PROVE  UNCHANGED <<memberships, redemptions>>
  BY <1>14 DEF BoardExpires
<1>15. ASSUME NEW i \in DOMAIN invitations, InvitationExpires(i)
       PROVE  UNCHANGED <<memberships, redemptions>>
  BY <1>15 DEF InvitationExpires
<1> QED
  BY <1>1, <1>2, <1>3, <1>4, <1>6, <1>7, <1>8, <1>9, <1>10, <1>11, <1>12, <1>13,
     <1>14, <1>15, ClaimOwnershipRows, OwnerClaimRows DEF Next

\* An owner stays the owner while the session and the board are active:
\* whoever redeems an owners' claim, and whenever it was issued.
THEOREM OwnersStay == Spec => OwnerKept
<1>1. IInv /\ IInv' /\ [Next]_vars =>
          [\A s \in Session, b \in Board :
               ActiveOwner(s, b) /\ session'[s] = "active" /\ board'[b] = "active"
                   => ActiveOwner(s, b)']_vars
  <2>1. SUFFICES ASSUME IInv, IInv', [Next]_vars,
                        NEW s \in Session, NEW b \in Board,
                        ActiveOwner(s, b), session'[s] = "active", board'[b] = "active"
                 PROVE  ActiveOwner(s, b)'
    OBVIOUS
  <2>2. PICK m \in Owners(b) : ActiveMember(s, b, m)
    BY <2>1 DEF ActiveOwner
  <2>3. /\ session[s] = "active"
        /\ m \in DOMAIN memberships
        /\ memberships[m].board = b
        /\ memberships[m].session = s
        /\ memberships[m].role = "OWNER"
    BY <2>2 DEF ActiveMember, Owners, MembershipsOf, Members
  <2>4. /\ m \in DOMAIN memberships'
        /\ memberships'[m].board = b
        /\ memberships'[m].session = s
        /\ memberships'[m].role = "OWNER"
    BY <2>1, <2>3, StepStays DEF RowsStay
  <2>5. ~memberships'[m].revoked
    BY <2>1, <2>4 DEF IInv, OwnersRevoked
  <2>6. m \in Owners(b)' /\ ActiveMember(s, b, m)'
    BY <2>1, <2>4, <2>5 DEF ActiveMember, Owners, MembershipsOf, Members
  <2> QED
    BY <2>6 DEF ActiveOwner
<1> QED
  BY <1>1, AccessSound, PTL DEF Spec, OwnerKept

\* What an active session redeemed of a link for participants is remembered as
\* long as the board is active: pruneOwnerHistory does not forget it.
THEOREM RedemptionsStayRemembered == Spec => RedemptionsRemembered
<1>1. IInv /\ [Next]_vars =>
          [\A r \in redemptions :
               LET i == invitations[r.invitation] IN
               /\ i.role = "PARTICIPANT"
               /\ session[r.session] = "active"
               /\ board[i.board] = "active" /\ board'[i.board] = "active"
               => r \in redemptions']_vars
  BY StepStays DEF RedemptionsStay
<1> QED
  BY <1>1, AccessSound, PTL DEF Spec, RedemptionsRemembered

-----------------------------------------------------------------------------
(* Limits *)

\* The parts of LimitsKept: of memberships,
MembersWithin ==
    \A b \in Board :
        /\ Cardinality(Participants(b)) <= MAX_ACTIVE_PARTICIPANTS
        /\ Cardinality(RowsOf(memberships, b, "PARTICIPANT"))
               <= MAX_BOARD_PARTICIPANT_MEMBERSHIP_RECORDS
        /\ Cardinality(RowsOf(memberships, b, "OWNER")) <= MAX_BOARD_OWNER_HISTORY_RECORDS

\* of invitations
InvitationsWithin ==
    \A b \in Board :
        /\ Cardinality(ActiveInvitations(b)) <= MAX_ACTIVE_INVITATIONS
        /\ Cardinality(RowsOf(invitations, b, "PARTICIPANT"))
               <= MAX_BOARD_PARTICIPANT_INVITATION_RECORDS
        /\ Cardinality(RowsOf(invitations, b, "OWNER")) <= MAX_BOARD_OWNER_HISTORY_RECORDS

\* and of their uses.
UsesWithin ==
    \A i \in DOMAIN invitations :
        /\ Cardinality({r \in redemptions : r.invitation = i}) <= invitations[i].useCount
        /\ invitations[i].useCount <= invitations[i].maxUses

\* Redemptions are counted, so there must be finitely many.
Limited == MembersWithin /\ InvitationsWithin /\ UsesWithin /\ IsFiniteSet(redemptions)

LEMMA LimitsNat ==
    /\ MAX_ACTIVE_PARTICIPANTS \in Nat \ {0}
    /\ MAX_BOARD_PARTICIPANT_MEMBERSHIP_RECORDS \in Nat \ {0}
    /\ MAX_BOARD_OWNER_HISTORY_RECORDS \in Nat \ {0}
    /\ MAX_ACTIVE_INVITATIONS \in Nat \ {0}
    /\ MAX_BOARD_PARTICIPANT_INVITATION_RECORDS \in Nat \ {0}
  BY AccessAssumption

\* A limited set with fewer elements stays within the limit.
LEMMA NoMore ==
    ASSUME NEW S, IsFiniteSet(S), NEW n \in Nat, Cardinality(S) <= n, NEW T \in SUBSET S
    PROVE  IsFiniteSet(T) /\ Cardinality(T) <= n
<1>1. IsFiniteSet(T) /\ Cardinality(T) <= Cardinality(S)
  BY FS_Subset
<1> QED
  BY <1>1, FS_CardinalityType

\* So does one with another element, if there was room for it.
LEMMA OneMore ==
    ASSUME NEW S, IsFiniteSet(S), NEW n \in Nat, Cardinality(S) < n, NEW x,
           NEW T \in SUBSET (S \cup {x})
    PROVE  IsFiniteSet(T) /\ Cardinality(T) <= n
<1>1. /\ IsFiniteSet(S \cup {x}) /\ Cardinality(S) \in Nat
      /\ Cardinality(S \cup {x}) = IF x \in S THEN Cardinality(S) ELSE Cardinality(S) + 1
  BY FS_AddElement, FS_CardinalityType
<1>2. Cardinality(S \cup {x}) <= n
  BY <1>1
<1> QED
  BY <1>1, <1>2, NoMore

\* All rows are among finitely many numbers.
LEMMA FiniteRows ==
    ASSUME TypedMembers, TypedInvitations
    PROVE  /\ \A S \in SUBSET DOMAIN memberships : IsFiniteSet(S)
           /\ \A S \in SUBSET DOMAIN invitations : IsFiniteSet(S)
<1>1. IsFiniteSet(1 .. MAX_MEMBERSHIPS) /\ IsFiniteSet(1 .. MAX_INVITATIONS)
  BY AccessAssumption, FS_Interval
<1> QED
  BY <1>1, FS_Subset DEF TypedMembers, TypedInvitations

\* What is counted of the memberships are rows of theirs.
LEMMA CountedMembers ==
    ASSUME TypedMembers, TypedInvitations, NEW b
    PROVE  /\ IsFiniteSet(Participants(b))
           /\ \A role : IsFiniteSet(RowsOf(memberships, b, role))
  BY FiniteRows DEF Participants, Members, RowsOf

LEMMA CountedInvitations ==
    ASSUME TypedMembers, TypedInvitations, NEW b
    PROVE  /\ IsFiniteSet(ActiveInvitations(b))
           /\ \A role : IsFiniteSet(RowsOf(invitations, b, role))
  BY FiniteRows DEF ActiveInvitations, RowsOf

\* Fewer members, or more of them revoked.
LEMMA MembersNoMore ==
    ASSUME TypedMembers, TypedInvitations, MembersWithin, MembersFewer(memberships')
    PROVE  MembersWithin'
<1>1. SUFFICES ASSUME NEW b \in Board
               PROVE  /\ Cardinality(Participants(b)') <= MAX_ACTIVE_PARTICIPANTS
                      /\ Cardinality(RowsOf(memberships', b, "PARTICIPANT"))
                             <= MAX_BOARD_PARTICIPANT_MEMBERSHIP_RECORDS
                      /\ Cardinality(RowsOf(memberships', b, "OWNER"))
                             <= MAX_BOARD_OWNER_HISTORY_RECORDS
  BY DEF MembersWithin
<1>2. Participants(b)' \subseteq Participants(b)
  BY DEF Participants, Members, MembersFewer, Membership
<1>3. \A role : RowsOf(memberships', b, role) \subseteq RowsOf(memberships, b, role)
  BY DEF RowsOf, MembersFewer
<1> QED
  BY <1>2, <1>3, CountedMembers, LimitsNat, NoMore DEF MembersWithin

\* One more, if there was room for it.
LEMMA MembersOneMore ==
    ASSUME TypedMembers, TypedInvitations, MembersWithin,
           NEW left, MembersFewer(left), NEW m, NEW b \in Board, NEW s, NEW role,
           memberships' = Inserted(left, m, NewMembership(b, s, role)),
           role = "PARTICIPANT" =>
               /\ Cardinality(Participants(b)) < MAX_ACTIVE_PARTICIPANTS
               /\ Cardinality(RowsOf(memberships, b, "PARTICIPANT"))
                      < MAX_BOARD_PARTICIPANT_MEMBERSHIP_RECORDS,
           role = "OWNER" =>
               Cardinality(RowsOf(left, b, "OWNER")) < MAX_BOARD_OWNER_HISTORY_RECORDS
    PROVE  MembersWithin'
<1>1. /\ DOMAIN memberships' = DOMAIN left \cup {m}
      /\ memberships'[m] = NewMembership(b, s, role)
      /\ \A x \in DOMAIN left : x # m => memberships'[x] = left[x]
  BY DEF Inserted
<1>2. /\ memberships'[m].board = b
      /\ memberships'[m].role = role
  BY <1>1 DEF NewMembership
<1>3. SUFFICES ASSUME NEW c \in Board
               PROVE  /\ Cardinality(Participants(c)') <= MAX_ACTIVE_PARTICIPANTS
                      /\ Cardinality(RowsOf(memberships', c, "PARTICIPANT"))
                             <= MAX_BOARD_PARTICIPANT_MEMBERSHIP_RECORDS
                      /\ Cardinality(RowsOf(memberships', c, "OWNER"))
                             <= MAX_BOARD_OWNER_HISTORY_RECORDS
  BY DEF MembersWithin
<1>4. \A x \in Participants(c)' :
          x \in Participants(c) \/ (x = m /\ c = b /\ role = "PARTICIPANT")
  BY <1>1, <1>2 DEF Participants, Members, MembersFewer, Membership
<1>5. \A other : \A x \in RowsOf(memberships', c, other) :
          x \in RowsOf(left, c, other) \/ (x = m /\ c = b /\ role = other)
  BY <1>1, <1>2 DEF RowsOf
<1>6. \A other : RowsOf(left, c, other) \subseteq RowsOf(memberships, c, other)
  BY DEF RowsOf, MembersFewer
<1>7. Cardinality(Participants(c)') <= MAX_ACTIVE_PARTICIPANTS
  <2>1. CASE c = b /\ role = "PARTICIPANT"
    <3>1. Participants(c)' \in SUBSET (Participants(c) \cup {m})
      BY <1>4
    <3> QED
      BY <2>1, <3>1, CountedMembers, LimitsNat, OneMore
  <2>2. CASE ~(c = b /\ role = "PARTICIPANT")
    <3>1. Participants(c)' \in SUBSET Participants(c)
      BY <1>4, <2>2
    <3> QED
      BY <3>1, CountedMembers, LimitsNat, NoMore DEF MembersWithin
  <2> QED
    BY <2>1, <2>2
<1>8. Cardinality(RowsOf(memberships', c, "PARTICIPANT"))
          <= MAX_BOARD_PARTICIPANT_MEMBERSHIP_RECORDS
  <2>1. CASE c = b /\ role = "PARTICIPANT"
    <3>1. RowsOf(memberships', c, "PARTICIPANT")
              \in SUBSET (RowsOf(memberships, c, "PARTICIPANT") \cup {m})
      BY <1>5, <1>6
    <3> QED
      BY <2>1, <3>1, CountedMembers, LimitsNat, OneMore
  <2>2. CASE ~(c = b /\ role = "PARTICIPANT")
    <3>1. RowsOf(memberships', c, "PARTICIPANT") \in SUBSET RowsOf(memberships, c, "PARTICIPANT")
      BY <1>5, <1>6, <2>2
    <3> QED
      BY <3>1, CountedMembers, LimitsNat, NoMore DEF MembersWithin
  <2> QED
    BY <2>1, <2>2
<1>9. Cardinality(RowsOf(memberships', c, "OWNER")) <= MAX_BOARD_OWNER_HISTORY_RECORDS
  <2>1. CASE c = b /\ role = "OWNER"
    <3>1. RowsOf(memberships', c, "OWNER") \in SUBSET (RowsOf(left, c, "OWNER") \cup {m})
      BY <1>5
    <3>2. IsFiniteSet(RowsOf(left, c, "OWNER"))
      BY <1>6, CountedMembers, FS_Subset
    <3> QED
      BY <2>1, <3>1, <3>2, LimitsNat, OneMore
  <2>2. CASE ~(c = b /\ role = "OWNER")
    <3>1. RowsOf(memberships', c, "OWNER") \in SUBSET RowsOf(memberships, c, "OWNER")
      BY <1>5, <1>6, <2>2
    <3> QED
      BY <3>1, CountedMembers, LimitsNat, NoMore DEF MembersWithin
  <2> QED
    BY <2>1, <2>2
<1> QED
  BY <1>7, <1>8, <1>9

\* Invitations are no more usable than they were.
Spent(is) ==
    \A i \in DOMAIN is :
        /\ i \in DOMAIN invitations
        /\ is[i].maxUses = invitations[i].maxUses
        /\ is[i].useCount >= invitations[i].useCount
        /\ invitations[i].expired => is[i].expired

\* Nor were they used again.
Unused(is) == Spent(is) /\ \A i \in DOMAIN is : is[i].useCount = invitations[i].useCount

\* Fewer invitations, or less usable ones.
LEMMA InvitationsNoMore ==
    ASSUME TypedMembers, TypedInvitations, InvitationsWithin,
           InvitationsFewer(invitations'), Spent(invitations')
    PROVE  InvitationsWithin'
<1>1. SUFFICES ASSUME NEW b \in Board
               PROVE  /\ Cardinality(ActiveInvitations(b)') <= MAX_ACTIVE_INVITATIONS
                      /\ Cardinality(RowsOf(invitations', b, "PARTICIPANT"))
                             <= MAX_BOARD_PARTICIPANT_INVITATION_RECORDS
                      /\ Cardinality(RowsOf(invitations', b, "OWNER"))
                             <= MAX_BOARD_OWNER_HISTORY_RECORDS
  BY DEF InvitationsWithin
<1>2. \A role : RowsOf(invitations', b, role) \subseteq RowsOf(invitations, b, role)
  BY DEF RowsOf, InvitationsFewer
<1>3. \A i \in DOMAIN invitations' : Usable(i)' => Usable(i)
  <2>1. SUFFICES ASSUME NEW i \in DOMAIN invitations', Usable(i)'
                 PROVE  Usable(i)
    OBVIOUS
  <2>2. /\ i \in DOMAIN invitations
        /\ invitations[i].useCount \in Nat /\ invitations[i].maxUses \in Nat
        /\ invitations'[i].useCount \in Nat
    BY InvitationRow DEF InvitationsFewer, TypedInvitations
  <2>3. /\ ~invitations'[i].revoked /\ ~invitations'[i].expired
        /\ invitations'[i].useCount < invitations'[i].maxUses
    BY <2>1 DEF Usable
  <2>4. ~invitations[i].revoked /\ ~invitations[i].expired
    BY <2>3 DEF InvitationsFewer, Spent
  <2>5. invitations[i].useCount < invitations[i].maxUses
    BY <2>2, <2>3 DEF Spent
  <2> QED
    BY <2>4, <2>5 DEF Usable
<1>4. ActiveInvitations(b)' \subseteq ActiveInvitations(b)
  BY <1>2, <1>3 DEF ActiveInvitations, RowsOf
<1> QED
  BY <1>2, <1>4, CountedInvitations, LimitsNat, NoMore DEF InvitationsWithin

\* Uses that are forgotten, or whose invitations are gone.
LEMMA UsesNoMore ==
    ASSUME UsesWithin, IsFiniteSet(redemptions), TypedInvitations,
           redemptions' \subseteq redemptions, Unused(invitations')
    PROVE  UsesWithin' /\ IsFiniteSet(redemptions)'
<1>1. IsFiniteSet(redemptions')
  BY FS_Subset
<1>2. SUFFICES ASSUME NEW i \in DOMAIN invitations'
               PROVE  /\ Cardinality({r \in redemptions' : r.invitation = i})
                             <= invitations'[i].useCount
                      /\ invitations'[i].useCount <= invitations'[i].maxUses
  BY <1>1 DEF UsesWithin
<1> DEFINE U == {r \in redemptions : r.invitation = i}
           V == {r \in redemptions' : r.invitation = i}
<1>3. /\ i \in DOMAIN invitations
      /\ invitations'[i].useCount = invitations[i].useCount
      /\ invitations'[i].maxUses = invitations[i].maxUses
  BY DEF Unused, Spent
<1>4. invitations[i].useCount \in Nat
  BY <1>3, InvitationRow DEF TypedInvitations
<1>5. /\ Cardinality(U) <= invitations[i].useCount
      /\ invitations[i].useCount <= invitations[i].maxUses
  BY <1>3 DEF UsesWithin
<1>6. IsFiniteSet(U) /\ V \in SUBSET U
  BY FS_Subset
<1> HIDE DEF U, V
<1>7. Cardinality(V) <= invitations[i].useCount
  BY <1>4, <1>5, <1>6, NoMore
<1> QED
  BY <1>3, <1>5, <1>7 DEF V

\* A step that makes no row and uses no invitation.
LEMMA NothingMore ==
    ASSUME IInv, Limited, MembersFewer(memberships'), InvitationsFewer(invitations'),
           Unused(invitations'), redemptions' \subseteq redemptions
    PROVE  Limited'
  BY Parts, MembersNoMore, InvitationsNoMore, UsesNoMore DEF Limited, Unused

\* Rows that are deleted or revoked are not used.
LEMMA FewerUnused ==
    ASSUME TypedInvitations, NEW those
    PROVE  Unused(Deleted(invitations, those)) /\ Unused(Revoked(invitations, those))
<1>1. \A i \in DOMAIN invitations :
          /\ invitations[i] \in Invitation
          /\ invitations[i].useCount \in Nat
  BY InvitationRow DEF TypedInvitations
<1>2. Unused(Deleted(invitations, those))
  BY <1>1 DEF Deleted, Unused, Spent
<1>3. \A row \in Invitation :
          LET new == [row EXCEPT !.revoked = TRUE] IN
          /\ new.maxUses = row.maxUses /\ new.useCount = row.useCount
          /\ new.expired = row.expired
  BY DEF Invitation
<1>4. Unused(Revoked(invitations, those))
  <2>1. SUFFICES ASSUME NEW i \in DOMAIN invitations, NEW new,
                        new = IF i \in those THEN [invitations[i] EXCEPT !.revoked = TRUE]
                                             ELSE invitations[i]
                 PROVE  /\ new.maxUses = invitations[i].maxUses
                        /\ new.useCount >= invitations[i].useCount
                        /\ invitations[i].expired => new.expired
                        /\ new.useCount = invitations[i].useCount
    BY DEF Revoked, Unused, Spent
  <2> QED
    BY <1>1, <1>3, <2>1
<1> QED
  BY <1>2, <1>4

\* One more invitation, if there was room for it.
LEMMA InvitationsOneMore ==
    ASSUME TypedMembers, TypedInvitations, InvitationsWithin,
           NEW left, InvitationsFewer(left), Unused(left),
           NEW i, i \notin DOMAIN invitations, NEW row \in Invitation,
           invitations' = Inserted(left, i, row),
           row.role = "PARTICIPANT" =>
               /\ Cardinality(ActiveInvitations(row.board)) < MAX_ACTIVE_INVITATIONS
               /\ Cardinality(RowsOf(invitations, row.board, "PARTICIPANT"))
                      < MAX_BOARD_PARTICIPANT_INVITATION_RECORDS,
           row.role = "OWNER" =>
               Cardinality(RowsOf(left, row.board, "OWNER")) < MAX_BOARD_OWNER_HISTORY_RECORDS
    PROVE  InvitationsWithin'
<1>1. /\ DOMAIN invitations' = DOMAIN left \cup {i}
      /\ invitations'[i] = row
      /\ \A x \in DOMAIN left : x # i => invitations'[x] = left[x]
  BY DEF Inserted
<1>2. SUFFICES ASSUME NEW c \in Board
               PROVE  /\ Cardinality(ActiveInvitations(c)') <= MAX_ACTIVE_INVITATIONS
                      /\ Cardinality(RowsOf(invitations', c, "PARTICIPANT"))
                             <= MAX_BOARD_PARTICIPANT_INVITATION_RECORDS
                      /\ Cardinality(RowsOf(invitations', c, "OWNER"))
                             <= MAX_BOARD_OWNER_HISTORY_RECORDS
  BY DEF InvitationsWithin
<1>3. \A other : \A x \in RowsOf(invitations', c, other) :
          x \in RowsOf(left, c, other) \/ (x = i /\ c = row.board /\ row.role = other)
  BY <1>1 DEF RowsOf
<1>4. \A other : RowsOf(left, c, other) \subseteq RowsOf(invitations, c, other)
  BY DEF RowsOf, InvitationsFewer
<1>5. \A x \in ActiveInvitations(c)' :
          x \in ActiveInvitations(c) \/ (x = i /\ c = row.board /\ row.role = "PARTICIPANT")
  <2>1. SUFFICES ASSUME NEW x \in ActiveInvitations(c)', x # i
                 PROVE  x \in ActiveInvitations(c)
    <3>1. i \in ActiveInvitations(c)' => c = row.board /\ row.role = "PARTICIPANT"
      BY <1>1 DEF ActiveInvitations, RowsOf
    <3> QED
      BY <3>1
  <2>2. /\ x \in RowsOf(invitations', c, "PARTICIPANT")
        /\ ~invitations'[x].revoked /\ ~invitations'[x].expired
        /\ invitations'[x].useCount < invitations'[x].maxUses
    BY <2>1 DEF ActiveInvitations, Usable
  <2>3. /\ x \in RowsOf(invitations, c, "PARTICIPANT")
        /\ x \in DOMAIN left /\ x \in DOMAIN invitations /\ invitations'[x] = left[x]
    BY <1>1, <1>3, <1>4, <2>1, <2>2 DEF RowsOf
  <2>4. ~invitations[x].revoked /\ ~invitations[x].expired
    BY <2>2, <2>3 DEF InvitationsFewer, Unused, Spent
  <2>5. invitations[x].useCount < invitations[x].maxUses
    BY <2>2, <2>3 DEF Unused, Spent
  <2> QED
    BY <2>3, <2>4, <2>5 DEF ActiveInvitations, Usable
<1>6. Cardinality(ActiveInvitations(c)') <= MAX_ACTIVE_INVITATIONS
  <2>1. CASE c = row.board /\ row.role = "PARTICIPANT"
    <3>1. ActiveInvitations(c)' \in SUBSET (ActiveInvitations(c) \cup {i})
      BY <1>5
    <3> QED
      BY <2>1, <3>1, CountedInvitations, LimitsNat, OneMore
  <2>2. CASE ~(c = row.board /\ row.role = "PARTICIPANT")
    <3>1. ActiveInvitations(c)' \in SUBSET ActiveInvitations(c)
      BY <1>5, <2>2
    <3> QED
      BY <3>1, CountedInvitations, LimitsNat, NoMore DEF InvitationsWithin
  <2> QED
    BY <2>1, <2>2
<1>7. Cardinality(RowsOf(invitations', c, "PARTICIPANT"))
          <= MAX_BOARD_PARTICIPANT_INVITATION_RECORDS
  <2>1. CASE c = row.board /\ row.role = "PARTICIPANT"
    <3>1. RowsOf(invitations', c, "PARTICIPANT")
              \in SUBSET (RowsOf(invitations, c, "PARTICIPANT") \cup {i})
      BY <1>3, <1>4
    <3> QED
      BY <2>1, <3>1, CountedInvitations, LimitsNat, OneMore
  <2>2. CASE ~(c = row.board /\ row.role = "PARTICIPANT")
    <3>1. RowsOf(invitations', c, "PARTICIPANT") \in SUBSET RowsOf(invitations, c, "PARTICIPANT")
      BY <1>3, <1>4, <2>2
    <3> QED
      BY <3>1, CountedInvitations, LimitsNat, NoMore DEF InvitationsWithin
  <2> QED
    BY <2>1, <2>2
<1>8. Cardinality(RowsOf(invitations', c, "OWNER")) <= MAX_BOARD_OWNER_HISTORY_RECORDS
  <2>1. CASE c = row.board /\ row.role = "OWNER"
    <3>1. RowsOf(invitations', c, "OWNER") \in SUBSET (RowsOf(left, c, "OWNER") \cup {i})
      BY <1>3
    <3>2. IsFiniteSet(RowsOf(left, c, "OWNER"))
      BY <1>4, CountedInvitations, FS_Subset
    <3> QED
      BY <2>1, <3>1, <3>2, LimitsNat, OneMore
  <2>2. CASE ~(c = row.board /\ row.role = "OWNER")
    <3>1. RowsOf(invitations', c, "OWNER") \in SUBSET RowsOf(invitations, c, "OWNER")
      BY <1>3, <1>4, <2>2
    <3> QED
      BY <3>1, CountedInvitations, LimitsNat, NoMore DEF InvitationsWithin
  <2> QED
    BY <2>1, <2>2
<1> QED
  BY <1>6, <1>7, <1>8

\* A new invitation has not been used, even if its number was another's once.
LEMMA UsesOfNew ==
    ASSUME UsesWithin, IsFiniteSet(redemptions), TypedInvitations, TypedRedemptions,
           NEW left, Unused(left), NEW i, i \notin DOMAIN invitations,
           NEW row \in Invitation, row.useCount = 0,
           invitations' = Inserted(left, i, row), redemptions' \subseteq redemptions
    PROVE  UsesWithin' /\ IsFiniteSet(redemptions)'
<1>1. IsFiniteSet(redemptions')
  BY FS_Subset
<1>2. SUFFICES ASSUME NEW x \in DOMAIN invitations'
               PROVE  /\ Cardinality({r \in redemptions' : r.invitation = x})
                             <= invitations'[x].useCount
                      /\ invitations'[x].useCount <= invitations'[x].maxUses
  BY <1>1 DEF UsesWithin
<1>3. CASE x = i
  <2>1. {r \in redemptions' : r.invitation = x} = {}
    BY <1>3 DEF TypedRedemptions
  <2>2. invitations'[x] = row
    BY <1>3 DEF Inserted
  <2>3. row.maxUses \in Nat
    BY InvitationRow
  <2> QED
    BY <2>1, <2>2, <2>3, FS_EmptySet
<1>4. CASE x # i
  <2> DEFINE U == {r \in redemptions : r.invitation = x}
             V == {r \in redemptions' : r.invitation = x}
  <2>1. x \in DOMAIN left /\ invitations'[x] = left[x]
    BY <1>4 DEF Inserted
  <2>2. /\ x \in DOMAIN invitations
        /\ invitations'[x].useCount = invitations[x].useCount
        /\ invitations'[x].maxUses = invitations[x].maxUses
    BY <2>1 DEF Unused, Spent
  <2>3. invitations[x].useCount \in Nat
    BY <2>2, InvitationRow DEF TypedInvitations
  <2>4. /\ Cardinality(U) <= invitations[x].useCount
        /\ invitations[x].useCount <= invitations[x].maxUses
    BY <2>2 DEF UsesWithin
  <2>5. IsFiniteSet(U) /\ V \in SUBSET U
    BY FS_Subset
  <2> HIDE DEF U, V
  <2>6. Cardinality(V) <= invitations[x].useCount
    BY <2>3, <2>4, <2>5, NoMore
  <2> QED
    BY <2>2, <2>4, <2>6 DEF V
<1> QED
  BY <1>3, <1>4

\* Pruning makes room for one more row of an owner.
LEMMA PrunedRoom ==
    ASSUME NEW table, NEW b, IsFiniteSet(RowsOf(table, b, "OWNER")), CanPrune(table, b)
    PROVE  Cardinality(RowsOf(pruneOwnerHistory(table, b), b, "OWNER"))
               < MAX_BOARD_OWNER_HISTORY_RECORDS
<1> DEFINE S == RowsOf(table, b, "OWNER")
           T == StaleOwnerRows(table, b)
           R == RowsOf(pruneOwnerHistory(table, b), b, "OWNER")
<1>1. T \subseteq S /\ S \cap T = T
  BY DEF StaleOwnerRows, Oldest, RowsOf
<1>2. R = S \ T
  BY DEF pruneOwnerHistory, Deleted, RowsOf
<1>3. /\ Excess(table, b) = Cardinality(S) - MAX_BOARD_OWNER_HISTORY_RECORDS + 1
      /\ Excess(table, b) > 0 => Cardinality(T) = Excess(table, b)
  BY DEF Excess, CanPrune
<1> HIDE DEF S, T, R
<1>4. /\ Cardinality(S) \in Nat /\ IsFiniteSet(T) /\ Cardinality(T) \in Nat
      /\ Cardinality(R) = Cardinality(S) - Cardinality(T)
  <2>1. IsFiniteSet(S)
    BY DEF S
  <2>2. Cardinality(S \ T) = Cardinality(S) - Cardinality(S \cap T)
    BY <2>1, FS_Difference
  <2>3. IsFiniteSet(T)
    BY <1>1, <2>1, FS_Subset
  <2> QED
    BY <1>1, <1>2, <2>1, <2>2, <2>3, FS_CardinalityType
<1>5. CASE Excess(table, b) > 0
  BY <1>3, <1>4, <1>5, LimitsNat DEF R
<1>6. CASE ~(Excess(table, b) > 0)
  BY <1>3, <1>4, <1>6, LimitsNat DEF R
<1> QED
  BY <1>3, <1>4, <1>5, <1>6, LimitsNat

\* A use is counted once, and no other invitation is used.
LEMMA UsedOnce ==
    ASSUME TypedInvitations, NEW i \in DOMAIN invitations, Used(i)
    PROVE  /\ Spent(invitations')
           /\ \A x \in DOMAIN invitations' :
                  invitations'[x].useCount =
                      invitations[x].useCount + (IF x = i THEN 1 ELSE 0)
<1>1. PICK those : invitations' =
          [Revoked(invitations, those) EXCEPT ![i].useCount = @ + 1]
  BY DEF Used
<1> DEFINE is == Revoked(invitations, those)
<1>2. Unused(is) /\ InvitationsFewer(is) /\ DOMAIN is = DOMAIN invitations
  BY FewerUnused, RevokedInvitations
<1>3. /\ DOMAIN invitations' = DOMAIN is
      /\ \A x \in DOMAIN is :
             invitations'[x] = IF x = i THEN [is[i] EXCEPT !.useCount = @ + 1] ELSE is[x]
  BY <1>1 DEF Revoked
<1> HIDE DEF is
<1>4. SUFFICES ASSUME NEW x \in DOMAIN is
               PROVE  /\ x \in DOMAIN invitations
                      /\ invitations'[x].maxUses = invitations[x].maxUses
                      /\ invitations'[x].useCount >= invitations[x].useCount
                      /\ invitations[x].expired => invitations'[x].expired
                      /\ invitations'[x].useCount =
                             invitations[x].useCount + (IF x = i THEN 1 ELSE 0)
  BY <1>3 DEF Spent
<1>5. /\ x \in DOMAIN invitations /\ is[x] \in Invitation
      /\ is[x].maxUses = invitations[x].maxUses
      /\ is[x].useCount = invitations[x].useCount
      /\ invitations[x].expired => is[x].expired
      /\ invitations[x].useCount \in Nat
  BY <1>2, InvitationRow DEF Unused, Spent, InvitationsFewer, TypedInvitations
<1>6. CASE x = i
  <2> DEFINE new == [is[x] EXCEPT !.useCount = @ + 1]
  <2>1. /\ new.maxUses = is[x].maxUses /\ new.expired = is[x].expired
        /\ new.useCount = is[x].useCount + 1
    BY <1>5 DEF Invitation
  <2>2. invitations'[x] = new
    BY <1>3, <1>6
  <2> HIDE DEF new
  <2> QED
    BY <1>5, <1>6, <2>1, <2>2
<1>7. CASE x # i
  BY <1>3, <1>5, <1>7
<1> QED
  BY <1>6, <1>7

\* A use that is remembered was counted, and there was one left.
LEMMA UsesOneMore ==
    ASSUME UsesWithin, IsFiniteSet(redemptions), TypedInvitations,
           NEW i \in DOMAIN invitations, Usable(i), Used(i),
           NEW new, new.invitation = i, redemptions' \subseteq redemptions \cup {new}
    PROVE  UsesWithin' /\ IsFiniteSet(redemptions)'
<1>1. IsFiniteSet(redemptions')
  BY FS_AddElement, FS_Subset
<1>2. SUFFICES ASSUME NEW x \in DOMAIN invitations'
               PROVE  /\ Cardinality({r \in redemptions' : r.invitation = x})
                             <= invitations'[x].useCount
                      /\ invitations'[x].useCount <= invitations'[x].maxUses
  BY <1>1 DEF UsesWithin
<1> DEFINE U == {r \in redemptions : r.invitation = x}
           V == {r \in redemptions' : r.invitation = x}
<1>3. /\ x \in DOMAIN invitations
      /\ invitations'[x].maxUses = invitations[x].maxUses
      /\ invitations'[x].useCount = invitations[x].useCount + (IF x = i THEN 1 ELSE 0)
  BY UsedOnce DEF Spent
<1>4. invitations[x].useCount \in Nat /\ invitations[x].maxUses \in Nat
  BY <1>3, InvitationRow DEF TypedInvitations
<1>5. /\ Cardinality(U) <= invitations[x].useCount
      /\ invitations[x].useCount <= invitations[x].maxUses
  BY <1>3 DEF UsesWithin
<1>6. IsFiniteSet(U) /\ Cardinality(U) \in Nat
  BY FS_Subset, FS_CardinalityType
<1>7. V \subseteq U \cup {new} /\ (x # i => V \subseteq U)
  OBVIOUS
<1> HIDE DEF U, V
<1>8. CASE x = i
  <2>1. Cardinality(U) < invitations'[x].useCount /\ invitations'[x].useCount \in Nat
    BY <1>3, <1>4, <1>5, <1>6, <1>8
  <2>2. Cardinality(V) <= invitations'[x].useCount
    BY <1>6, <1>7, <2>1, OneMore
  <2>3. invitations'[x].useCount <= invitations'[x].maxUses
    BY <1>3, <1>4, <1>8 DEF Usable
  <2> QED
    BY <2>2, <2>3 DEF V
<1>9. CASE x # i
  <2>1. Cardinality(V) <= invitations[x].useCount
    BY <1>4, <1>5, <1>6, <1>7, <1>9, NoMore
  <2> QED
    BY <1>3, <1>4, <1>5, <1>9, <2>1 DEF V
<1> QED
  BY <1>8, <1>9

\* What a redemption does beside its membership.
LEMMA RedeemedLimited ==
    ASSUME IInv, Limited, NEW s \in Session, NEW i \in DOMAIN invitations,
           Redeemable(s, i), NEW m, NEW left, Redeemed(s, i, m, left)
    PROVE  InvitationsWithin' /\ UsesWithin' /\ IsFiniteSet(redemptions)'
<1>1. /\ Used(i) /\ Usable(i)
      /\ redemptions' \subseteq
             redemptions \cup {[invitation |-> i, membership |-> m, session |-> s]}
  BY DEF Redeemed, Redeemable
<1>2. [invitation |-> i, membership |-> m, session |-> s].invitation = i
  OBVIOUS
<1>3. InvitationsWithin'
  BY <1>1, Parts, UsedInvitations, UsedOnce, InvitationsNoMore DEF Limited
<1>4. UsesWithin' /\ IsFiniteSet(redemptions)'
  BY <1>1, <1>2, Parts, UsesOneMore DEF Limited
<1> QED
  BY <1>3, <1>4

LEMMA InitLimited == Init => Limited
<1> SUFFICES ASSUME Init PROVE Limited
  OBVIOUS
<1>1. DOMAIN memberships = {} /\ DOMAIN invitations = {} /\ redemptions = {}
  BY DEF Init
<1>2. /\ \A b : Participants(b) = {} /\ ActiveInvitations(b) = {}
      /\ \A b, role : RowsOf(memberships, b, role) = {} /\ RowsOf(invitations, b, role) = {}
  BY <1>1 DEF Participants, Members, ActiveInvitations, RowsOf
<1>3. IsFiniteSet({}) /\ Cardinality({}) = 0
  BY FS_EmptySet
<1>4. \A n \in Nat \ {0} : 0 <= n
  OBVIOUS
<1>5. MembersWithin /\ InvitationsWithin
  BY <1>2, <1>3, <1>4, LimitsNat DEF MembersWithin, InvitationsWithin
<1> QED
  BY <1>1, <1>3, <1>5 DEF Limited, UsesWithin

-----------------------------------------------------------------------------
(* Steps within the limits *)

\* Steps that delete, revoke or let expire.
LEMMA FewerLimited ==
    ASSUME IInv, Limited,
           \/ memberships' = memberships
           \/ \E those : memberships' = Deleted(memberships, those)
           \/ \E those : memberships' = Revoked(memberships, those),
           \/ invitations' = invitations
           \/ \E those : invitations' = Deleted(invitations, those)
           \/ \E those : invitations' = Revoked(invitations, those),
           redemptions' \subseteq redemptions
    PROVE  Limited'
<1>1. MembersFewer(memberships')
  <2>1. CASE memberships' = memberships
    BY <2>1, Parts, SameRows
  <2>2. ASSUME NEW those, memberships' = Deleted(memberships, those)
        PROVE  MembersFewer(memberships')
    BY <2>2, Parts, DeletedMembers
  <2>3. ASSUME NEW those, memberships' = Revoked(memberships, those)
        PROVE  MembersFewer(memberships')
    BY <2>3, Parts, RevokedMembers
  <2> QED
    BY <2>1, <2>2, <2>3
<1>2. InvitationsFewer(invitations') /\ Unused(invitations')
  <2>1. CASE invitations' = invitations
    <3>1. Unused(invitations)
      BY Parts, InvitationRow DEF Unused, Spent, TypedInvitations
    <3> QED
      BY <2>1, <3>1, Parts, SameRows
  <2>2. ASSUME NEW those, invitations' = Deleted(invitations, those)
        PROVE  InvitationsFewer(invitations') /\ Unused(invitations')
    BY <2>2, Parts, DeletedInvitations, FewerUnused
  <2>3. ASSUME NEW those, invitations' = Revoked(invitations, those)
        PROVE  InvitationsFewer(invitations') /\ Unused(invitations')
    BY <2>3, Parts, RevokedInvitations, FewerUnused
  <2> QED
    BY <2>1, <2>2, <2>3
<1> QED
  BY <1>1, <1>2, NothingMore

\* Invitations that expire.
LEMMA ExpiredLimited ==
    ASSUME IInv, Limited, NEW those,
           DOMAIN invitations' = DOMAIN invitations,
           \A i \in DOMAIN invitations :
               invitations'[i] = IF i \in those THEN [invitations[i] EXCEPT !.expired = TRUE]
                                                ELSE invitations[i],
           UNCHANGED <<memberships, redemptions>>
    PROVE  Limited'
<1>1. SUFFICES ASSUME NEW i \in DOMAIN invitations
               PROVE  /\ invitations'[i] \in Invitation
                      /\ invitations'[i].board = invitations[i].board
                      /\ invitations'[i].creator = invitations[i].creator
                      /\ invitations'[i].role = invitations[i].role
                      /\ invitations[i].revoked => invitations'[i].revoked
                      /\ invitations'[i].maxUses = invitations[i].maxUses
                      /\ invitations'[i].useCount >= invitations[i].useCount
                      /\ invitations[i].expired => invitations'[i].expired
                      /\ invitations'[i].useCount = invitations[i].useCount
  BY Parts, SameRows, NothingMore DEF InvitationsFewer, Unused, Spent
<1>2. invitations[i] \in Invitation /\ invitations[i].useCount \in Nat
  BY Parts, InvitationRow DEF TypedInvitations
<1>3. CASE i \in those
  <2> DEFINE new == [invitations[i] EXCEPT !.expired = TRUE]
  <2>1. /\ new.maxUses = invitations[i].maxUses /\ new.useCount = invitations[i].useCount
        /\ new.expired
    BY <1>2 DEF Invitation
  <2>2. /\ new \in Invitation /\ new.board = invitations[i].board
        /\ new.creator = invitations[i].creator /\ new.role = invitations[i].role
        /\ invitations[i].revoked => new.revoked
    BY <1>2, InvitationChanged
  <2>3. invitations'[i] = new
    BY <1>3
  <2> HIDE DEF new
  <2> QED
    BY <1>2, <2>1, <2>2, <2>3
<1>4. CASE i \notin those
  BY <1>2, <1>4
<1> QED
  BY <1>3, <1>4

\* A new board has no rows but its owner's.
LEMMA CreateBoardLimited ==
    ASSUME IInv, Limited, NEW s \in Session, NEW b \in Board, CreateBoard(s, b)
    PROVE  Limited'
<1>1. PICK m \in NextRow(memberships, MAX_MEMBERSHIPS) :
          memberships' = Inserted(memberships, m, NewMembership(b, s, "OWNER"))
  BY DEF CreateBoard
<1>2. /\ board[b] = "none"
      /\ UNCHANGED <<invitations, redemptions>>
  BY DEF CreateBoard
<1>3. Cardinality(RowsOf(memberships, b, "OWNER")) < MAX_BOARD_OWNER_HISTORY_RECORDS
  <2>1. RowsOf(memberships, b, "OWNER") = {}
    BY <1>2, Parts DEF RowsOf, RowsOnBoards
  <2> QED
    BY <2>1, FS_EmptySet, LimitsNat
<1>4. MembersFewer(memberships)
  BY Parts, SameTables
<1>5. MembersWithin'
  BY <1>1, <1>3, <1>4, Parts, MembersOneMore DEF Limited
<1>6. InvitationsWithin' /\ UsesWithin' /\ IsFiniteSet(redemptions)'
  BY <1>2 DEF Limited, InvitationsWithin, ActiveInvitations, Usable, UsesWithin
<1> QED
  BY <1>5, <1>6 DEF Limited

LEMMA ParticipantInvitationLimited ==
    ASSUME IInv, Limited, NEW s \in Session, NEW b \in Board,
           NEW uses \in 1 .. MAX_PARTICIPANT_INVITATION_USES,
           CreateParticipantInvitation(s, b, uses)
    PROVE  Limited'
<1> DEFINE row == NewInvitation(b, "PARTICIPANT", s, uses)
<1>1. PICK i \in NextRow(invitations, MAX_INVITATIONS) :
          invitations' = Inserted(invitations, i, row)
  BY DEF CreateParticipantInvitation
<1>2. /\ Cardinality(RowsOf(invitations, b, "PARTICIPANT"))
             < MAX_BOARD_PARTICIPANT_INVITATION_RECORDS
      /\ Cardinality(ActiveInvitations(b)) < MAX_ACTIVE_INVITATIONS
      /\ UNCHANGED <<memberships, redemptions>>
  BY DEF CreateParticipantInvitation
<1>3. /\ row \in Invitation /\ row.useCount = 0
      /\ row.board = b /\ row.role = "PARTICIPANT"
  BY AccessAssumption DEF NewInvitation, Invitation, Role
<1> HIDE DEF row
<1>4. i \notin DOMAIN invitations
  BY AccessAssumption, Parts DEF NextRow, TypedInvitations
<1>5. Unused(invitations) /\ InvitationsFewer(invitations)
  BY Parts, SameTables, InvitationRow DEF Unused, Spent, TypedInvitations
<1>6. InvitationsWithin'
  BY <1>1, <1>2, <1>3, <1>4, <1>5, Parts, InvitationsOneMore DEF Limited
<1>7. UsesWithin' /\ IsFiniteSet(redemptions)'
  BY <1>1, <1>2, <1>3, <1>4, <1>5, Parts, UsesOfNew DEF Limited
<1>8. MembersWithin'
  BY <1>2 DEF Limited, MembersWithin, Participants, Members
<1> QED
  BY <1>6, <1>7, <1>8 DEF Limited

\* A claim is issued where the history of claims has room, or is given it.
LEMMA OwnerClaimLimited ==
    ASSUME IInv, Limited, NEW b \in Board, createLegacyOwnerClaimInvitation(b)
    PROVE  Limited'
<1> DEFINE left == Revoked(invitations, OwnerClaims(b))
           kept == pruneOwnerHistory(left, b)
           row == NewInvitation(b, "OWNER", None, 1)
<1>1. /\ memberships' = Revoked(memberships, InactiveOwners(b))
      /\ redemptions' \subseteq redemptions
      /\ CanPrune(left, b)
  BY DEF createLegacyOwnerClaimInvitation
<1>2. PICK i \in NextRow(invitations, MAX_INVITATIONS) :
          invitations' = Inserted(kept, i, row)
  BY DEF createLegacyOwnerClaimInvitation
<1>3. /\ row \in Invitation /\ row.useCount = 0
      /\ row.board = b /\ row.role = "OWNER"
  BY AccessAssumption DEF NewInvitation, Invitation, Role
<1>4. InvitationsFewer(left) /\ Unused(left)
  BY Parts, RevokedInvitations, FewerUnused
<1>5. \A x \in DOMAIN kept : x \in DOMAIN left /\ kept[x] = left[x]
  BY DEF pruneOwnerHistory, Deleted
<1>6. Cardinality(RowsOf(kept, b, "OWNER")) < MAX_BOARD_OWNER_HISTORY_RECORDS
  <2>1. RowsOf(left, b, "OWNER") \subseteq DOMAIN invitations
    BY <1>4 DEF RowsOf, InvitationsFewer
  <2> HIDE DEF left
  <2> QED
    BY <1>1, <2>1, Parts, FiniteRows, PrunedRoom
<1> HIDE DEF left, kept, row
<1>7. InvitationsFewer(kept) /\ Unused(kept)
  BY <1>4, <1>5 DEF InvitationsFewer, Unused, Spent
<1>8. i \notin DOMAIN invitations
  BY AccessAssumption, Parts DEF NextRow, TypedInvitations
<1>9. InvitationsWithin'
  BY <1>2, <1>3, <1>6, <1>7, <1>8, Parts, InvitationsOneMore DEF Limited
<1>10. UsesWithin' /\ IsFiniteSet(redemptions)'
  BY <1>1, <1>2, <1>3, <1>7, <1>8, Parts, UsesOfNew DEF Limited
<1>11. MembersWithin'
  BY <1>1, Parts, RevokedMembers, MembersNoMore DEF Limited
<1> QED
  BY <1>9, <1>10, <1>11 DEF Limited

LEMMA RedeemAgainLimited ==
    ASSUME IInv, Limited, NEW s \in Session, NEW i \in DOMAIN invitations, RedeemAgain(s, i)
    PROVE  Limited'
<1>1. PICK m \in MembershipsOf(invitations[i].board, s) :
          Redeemed(s, i, m, DOMAIN memberships)
  BY DEF RedeemAgain
<1>2. Redeemable(s, i) /\ memberships' = Revoked(memberships, Displaced(i))
  BY DEF RedeemAgain
<1>3. MembersWithin'
  BY <1>2, Parts, DisplacedMembers, MembersNoMore DEF Limited
<1> QED
  BY <1>1, <1>2, <1>3, RedeemedLimited DEF Limited

LEMMA JoinAsParticipantLimited ==
    ASSUME IInv, Limited, NEW s \in Session, NEW i \in DOMAIN invitations,
           JoinAsParticipant(s, i)
    PROVE  Limited'
<1> DEFINE b == invitations[i].board
<1>1. PICK m \in NextRow(memberships, MAX_MEMBERSHIPS) :
          /\ memberships' = Inserted(memberships, m, NewMembership(b, s, "PARTICIPANT"))
          /\ Redeemed(s, i, m, DOMAIN memberships)
  BY DEF JoinAsParticipant
<1>2. /\ Redeemable(s, i)
      /\ Cardinality(Participants(b)) < MAX_ACTIVE_PARTICIPANTS
      /\ Cardinality(RowsOf(memberships, b, "PARTICIPANT"))
             < MAX_BOARD_PARTICIPANT_MEMBERSHIP_RECORDS
  BY DEF JoinAsParticipant
<1>3. b \in Board /\ MembersFewer(memberships)
  BY Parts, SameTables
<1> HIDE DEF b
<1>4. MembersWithin'
  BY <1>1, <1>2, <1>3, Parts, MembersOneMore DEF Limited
<1> QED
  BY <1>1, <1>2, <1>4, RedeemedLimited DEF Limited

\* A claim is redeemed where the history of owners has room, or is given it.
LEMMA ClaimOwnershipLimited ==
    ASSUME IInv, Limited, NEW s \in Session, NEW i \in DOMAIN invitations,
           ClaimOwnership(s, i)
    PROVE  Limited'
<1> DEFINE b == invitations[i].board
           left == Revoked(memberships, Displaced(i))
           kept == pruneOwnerHistory(left, b)
           rest == Revoked(kept, MembershipsOf(b, s))
<1>1. PICK m \in NextRow(memberships, MAX_MEMBERSHIPS) :
          /\ memberships' = Inserted(rest, m, NewMembership(b, s, "OWNER"))
          /\ Redeemed(s, i, m, DOMAIN kept)
  BY DEF ClaimOwnership
<1>2. Redeemable(s, i) /\ CanPrune(left, b)
  BY DEF ClaimOwnership
<1>3. b \in Board /\ MembersFewer(left)
  BY Parts, DisplacedMembers
<1>4. \A x \in DOMAIN kept : x \in DOMAIN left /\ kept[x] = left[x]
  BY DEF pruneOwnerHistory, Deleted
<1>5. /\ DOMAIN rest = DOMAIN kept
      /\ \A x \in DOMAIN kept :
             rest[x] \in {kept[x], [kept[x] EXCEPT !.revoked = TRUE]}
  BY DEF Revoked
<1>6. Cardinality(RowsOf(kept, b, "OWNER")) < MAX_BOARD_OWNER_HISTORY_RECORDS
  <2>1. RowsOf(left, b, "OWNER") \subseteq DOMAIN memberships
    BY <1>3 DEF RowsOf, MembersFewer
  <2> HIDE DEF b, left
  <2> QED
    BY <1>2, <2>1, Parts, FiniteRows, PrunedRoom
<1> HIDE DEF b, left, kept, rest
<1>7. \A x \in DOMAIN rest :
          /\ x \in DOMAIN memberships
          /\ left[x] \in Membership
          /\ left[x].board = memberships[x].board
          /\ left[x].session = memberships[x].session
          /\ left[x].role = memberships[x].role
          /\ memberships[x].revoked => left[x].revoked
          /\ rest[x] \in {left[x], [left[x] EXCEPT !.revoked = TRUE]}
  BY <1>3, <1>4, <1>5 DEF MembersFewer
<1>8. \A x \in DOMAIN rest :
          /\ rest[x] \in Membership
          /\ rest[x].board = left[x].board
          /\ rest[x].session = left[x].session
          /\ rest[x].role = left[x].role
          /\ left[x].revoked => rest[x].revoked
  <2>1. SUFFICES ASSUME NEW row \in Membership, NEW new,
                        new = [row EXCEPT !.revoked = TRUE]
                 PROVE  /\ new \in Membership /\ new.board = row.board
                        /\ new.session = row.session /\ new.role = row.role
                        /\ new.revoked
    BY <1>7
  <2> QED
    BY <2>1 DEF Membership
<1>9. MembersFewer(rest)
  BY <1>7, <1>8 DEF MembersFewer
<1>10. RowsOf(rest, b, "OWNER") = RowsOf(kept, b, "OWNER")
  BY <1>4, <1>5, <1>8 DEF RowsOf
<1>11. MembersWithin'
  BY <1>1, <1>3, <1>6, <1>9, <1>10, Parts, MembersOneMore DEF Limited
<1> QED
  BY <1>1, <1>2, <1>11, RedeemedLimited DEF Limited

LEMMA NextLimited == IInv /\ Limited /\ [Next]_vars => Limited'
<1>1. SUFFICES ASSUME IInv, Limited, [Next]_vars PROVE Limited'
  OBVIOUS
<1>2. CASE UNCHANGED <<memberships, invitations, redemptions>>
  BY <1>1, <1>2, FewerLimited
<1>3. CASE UNCHANGED vars
  BY <1>2, <1>3 DEF vars
<1>4. ASSUME NEW s \in Session, RevokeSession(s) \/ CleanupSession(s)
      PROVE  Limited'
  BY <1>2, <1>4 DEF RevokeSession, CleanupSession
<1>5. ASSUME NEW s \in Session, NEW b \in Board, DeleteBoard(s, b)
      PROVE  Limited'
  <2>1. redemptions' \subseteq redemptions
    BY <1>5 DEF DeleteBoard
  <2>2. /\ \E those : memberships' = Deleted(memberships, those)
        /\ \E those : invitations' = Deleted(invitations, those)
    BY <1>5 DEF DeleteBoard
  <2> QED
    BY <1>1, <2>1, <2>2, FewerLimited
<1>6. ASSUME NEW b \in Board, CleanupChunk(b)
      PROVE  Limited'
  <2>1. redemptions' \subseteq redemptions
    BY <1>6 DEF CleanupChunk
  <2>2. \E those : memberships' = Deleted(memberships, those)
    BY <1>6 DEF CleanupChunk
  <2>3. \E those : invitations' = Deleted(invitations, those)
    BY <1>6 DEF CleanupChunk
  <2> QED
    BY <1>1, <2>1, <2>2, <2>3, FewerLimited
<1>7. ASSUME NEW s \in Session, NEW b \in Board, leaveBoard(s, b)
      PROVE  Limited'
  BY <1>1, <1>7, FewerLimited DEF leaveBoard
<1>8. ASSUME NEW s \in Session, NEW m \in DOMAIN memberships, revokeBoardParticipant(s, m)
      PROVE  Limited'
  BY <1>1, <1>8, FewerLimited DEF revokeBoardParticipant
<1>9. ASSUME NEW s \in Session, NEW i \in DOMAIN invitations, revokeBoardInvitation(s, i)
      PROVE  Limited'
  BY <1>1, <1>9, FewerLimited DEF revokeBoardInvitation
<1>10. ASSUME NEW b \in Board, BoardExpires(b)
       PROVE  Limited'
  <2> DEFINE those == {i \in DOMAIN invitations : invitations[i].board = b}
  <2>1. /\ DOMAIN invitations' = DOMAIN invitations
        /\ UNCHANGED <<memberships, redemptions>>
        /\ \A i \in DOMAIN invitations :
               invitations'[i] = IF i \in those THEN [invitations[i] EXCEPT !.expired = TRUE]
                                                ELSE invitations[i]
    BY <1>10 DEF BoardExpires
  <2> HIDE DEF those
  <2> QED
    BY <1>1, <2>1, ExpiredLimited
<1>11. ASSUME NEW i \in DOMAIN invitations, InvitationExpires(i)
       PROVE  Limited'
  <2>1. /\ DOMAIN invitations' = DOMAIN invitations
        /\ UNCHANGED <<memberships, redemptions>>
        /\ \A x \in DOMAIN invitations :
               invitations'[x] = IF x \in {i} THEN [invitations[x] EXCEPT !.expired = TRUE]
                                              ELSE invitations[x]
    BY <1>11 DEF InvitationExpires
  <2> QED
    BY <1>1, <2>1, ExpiredLimited
<1> QED
  BY <1>1, <1>3, <1>4, <1>5, <1>6, <1>7, <1>8, <1>9, <1>10, <1>11, CreateBoardLimited,
     ParticipantInvitationLimited, OwnerClaimLimited, RedeemAgainLimited,
     JoinAsParticipantLimited, ClaimOwnershipLimited DEF Next

\* The limits of a board and of an invitation's uses always hold, the history of its
\* owners never fills up for good (acl-service's guards, pruneOwnerHistory), and no
\* invitation is used by more sessions than it was counted and made for.
THEOREM LimitsAlwaysKept == Spec => []LimitsKept
<1>1. IInv /\ Limited => LimitsKept
  BY DEF Limited, MembersWithin, InvitationsWithin, UsesWithin, LimitsKept
<1>2. Spec => [](IInv /\ Limited)
  BY InitIInv, NextIInv, InitLimited, NextLimited, PTL DEF Spec
<1> QED
  BY <1>1, <1>2, PTL
=============================================================================
