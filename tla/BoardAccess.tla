----------------------------- MODULE BoardAccess -----------------------------
(***************************************************************************)
(* Who may do what on a board: memberships, the invitations that give      *)
(* them, and the sessions that hold them (acl-service).                    *)
(*                                                                         *)
(* An action is a committed transaction: they are serializable, lock the   *)
(* board's row first, and are run again when they conflict; creating a     *)
(* board locks the session's row.  One that fails changes nothing and is   *)
(* no action.  Rows are numbered in the order of their creation.  Of time  *)
(* it is kept what has expired: a session does not before the boards it    *)
(* opens (VisitorSession, CredentialsOutliveBoards).                       *)
(***************************************************************************)
EXTENDS Integers, FiniteSets

CONSTANTS
    Session,                                   \* visitors' sessions
    Board,
    None,                                      \* null
    MAX_ACTIVE_OWNED_BOARDS_PER_SESSION,       \* 20
    MAX_ACTIVE_INVITATIONS,                    \* 20
    MAX_ACTIVE_PARTICIPANTS,                   \* 100
    MAX_BOARD_PARTICIPANT_INVITATION_RECORDS,  \* 500
    MAX_BOARD_PARTICIPANT_MEMBERSHIP_RECORDS,  \* 500
    MAX_BOARD_OWNER_HISTORY_RECORDS,           \* 20
    MAX_PARTICIPANT_INVITATION_USES,           \* 100
    BOARD_CHILD_DELETE_BATCH_SIZE,             \* 2500
    MAX_MEMBERSHIPS,                           \* bounds on the numbers of rows
    MAX_INVITATIONS

ASSUME AccessAssumption ==
    /\ IsFiniteSet(Session) /\ IsFiniteSet(Board)
    /\ None \notin Session
    /\ {MAX_ACTIVE_OWNED_BOARDS_PER_SESSION, MAX_ACTIVE_INVITATIONS,
        MAX_ACTIVE_PARTICIPANTS, MAX_BOARD_PARTICIPANT_INVITATION_RECORDS,
        MAX_BOARD_PARTICIPANT_MEMBERSHIP_RECORDS,
        MAX_BOARD_OWNER_HISTORY_RECORDS, MAX_PARTICIPANT_INVITATION_USES,
        BOARD_CHILD_DELETE_BATCH_SIZE} \subseteq Nat \ {0}
    /\ MAX_MEMBERSHIPS \in Nat
    /\ MAX_INVITATIONS \in Nat

VARIABLES
    session,      \* what became of each session
    board,        \* what became of each board
    memberships,  \* rows of board_memberships, by number
    invitations,  \* rows of board_invitations, by number
    redemptions   \* rows of invitation_redemptions

vars == <<session, board, memberships, invitations, redemptions>>

Role == {"OWNER", "PARTICIPANT"}

Membership ==
    [board : Board, session : Session, role : Role, revoked : BOOLEAN]

\* A claim has no creator and a single use (board_invitations' constraints).
Invitation ==
    {i \in [board : Board, role : Role, creator : Session \cup {None},
            expired : BOOLEAN, revoked : BOOLEAN,
            maxUses : 1 .. MAX_PARTICIPANT_INVITATION_USES, useCount : Nat] :
        IF i.role = "OWNER" THEN i.creator = None /\ i.maxUses = 1
                            ELSE i.creator # None}

Redemption ==
    [invitation : 1 .. MAX_INVITATIONS, membership : 1 .. MAX_MEMBERSHIPS,
     session : Session]

TypeOK ==
    /\ session \in [Session -> {"none", "active", "revoked"}]
    /\ board \in [Board -> {"none", "active", "expired"}]
    /\ DOMAIN memberships \subseteq 1 .. MAX_MEMBERSHIPS
    /\ \A m \in DOMAIN memberships : memberships[m] \in Membership
    /\ DOMAIN invitations \subseteq 1 .. MAX_INVITATIONS
    /\ \A i \in DOMAIN invitations : invitations[i] \in Invitation
    /\ redemptions \subseteq Redemption
    /\ \A r \in redemptions :
           /\ r.invitation \in DOMAIN invitations
           /\ r.membership \in DOMAIN memberships
           /\ memberships[r.membership].session = r.session
           /\ memberships[r.membership].board = invitations[r.invitation].board

\* Boards from before there were sessions have no owner.
Init ==
    /\ session = [s \in Session |-> "none"]
    /\ board \in [Board -> {"none", "active"}]
    /\ memberships = [m \in {} |-> None]
    /\ invitations = [i \in {} |-> None]
    /\ redemptions = {}

-----------------------------------------------------------------------------
(* Rows *)

\* The number of the next row, if there may be one.
NextRow(table, bound) ==
    {n \in 1 .. bound :
        /\ \A r \in DOMAIN table : r < n
        /\ n = 1 \/ n - 1 \in DOMAIN table}

Inserted(table, n, row) ==
    [r \in DOMAIN table \cup {n} |-> IF r = n THEN row ELSE table[r]]

Deleted(table, gone) == [r \in DOMAIN table \ gone |-> table[r]]

\* Mutant: of owners' rows only.
RevokedOwners(table, those) ==
    [r \in DOMAIN table |->
        IF r \in those /\ table[r].role = "OWNER"
        THEN [table[r] EXCEPT !.revoked = TRUE]
        ELSE table[r]]

Revoked(table, those) ==
    [r \in DOMAIN table |->
        IF r \in those THEN [table[r] EXCEPT !.revoked = TRUE] ELSE table[r]]

\* Mutant: of any role.
RowsOfAnyRole(table, b, role) == {r \in DOMAIN table : table[r].board = b}

RowsOf(table, b, role) ==
    {r \in DOMAIN table : table[r].board = b /\ table[r].role = role}

\* The n first of a set of rows.
Oldest(those, n) == {r \in those : Cardinality({x \in those : x < r}) < n}

Members(b) ==
    {m \in DOMAIN memberships :
        memberships[m].board = b /\ ~memberships[m].revoked}

MembershipsOf(b, s) == {m \in Members(b) : memberships[m].session = s}

Owners(b) == {m \in Members(b) : memberships[m].role = "OWNER"}
Participants(b) == {m \in Members(b) : memberships[m].role = "PARTICIPANT"}

\* Mutant: once more than it may be.
UsableOnceMore(i) ==
    /\ ~invitations[i].revoked
    /\ ~invitations[i].expired
    /\ invitations[i].useCount <= invitations[i].maxUses

Usable(i) ==
    /\ ~invitations[i].revoked
    /\ ~invitations[i].expired
    /\ invitations[i].useCount < invitations[i].maxUses

ActiveInvitations(b) ==
    {i \in RowsOf(invitations, b, "PARTICIPANT") : Usable(i)}

Excess(table, b) ==
    Cardinality(RowsOf(table, b, "OWNER")) - MAX_BOARD_OWNER_HISTORY_RECORDS + 1

StaleOwnerRows(table, b) ==
    Oldest({r \in RowsOf(table, b, "OWNER") : table[r].revoked}, Excess(table, b))

CanPrune(table, b) ==
    Excess(table, b) > 0
        => Cardinality(StaleOwnerRows(table, b)) = Excess(table, b)

pruneOwnerHistory(table, b) == Deleted(table, StaleOwnerRows(table, b))

-----------------------------------------------------------------------------
(* Sessions *)

\* requireActiveBoardMember, requireActiveBoardOwner, on an active board
ActiveMember(s, b, m) ==
    /\ session[s] = "active"
    /\ board[b] = "active"
    /\ m \in MembershipsOf(b, s)

ActiveOwner(s, b) ==
    \E m \in Owners(b) : ActiveMember(s, b, m)

\* An operator revokes a session; nothing in the application does.
RevokeSession(s) ==
    /\ session[s] = "active"
    /\ session' = [session EXCEPT ![s] = "revoked"]
    /\ UNCHANGED <<board, memberships, invitations, redemptions>>

\* Whether a row names the session.
Named(s, ms, is) ==
    \/ \E m \in DOMAIN ms : ms[m].session = s
    \/ \E i \in DOMAIN is : is[i].creator = s

\* The cleanup deletes a session that has expired, if no row names it.
\* Mutant: if it is no member's.
CleanupSessionOfNoMember(s) ==
    /\ session[s] # "none"
    /\ ~Named(s, memberships, <<>>)
    /\ session' = [session EXCEPT ![s] = "none"]
    /\ UNCHANGED <<board, memberships, invitations, redemptions>>

CleanupSession(s) ==
    /\ session[s] # "none"
    /\ ~Named(s, memberships, invitations)
    /\ session' = [session EXCEPT ![s] = "none"]
    /\ UNCHANGED <<board, memberships, invitations, redemptions>>

-----------------------------------------------------------------------------
(* Boards *)

NewMembership(b, s, role) ==
    [board |-> b, session |-> s, role |-> role, revoked |-> FALSE]

OwnedBoards(s) ==
    {b \in Board : board[b] = "active" /\ Owners(b) \cap MembershipsOf(b, s) # {}}

CreateBoard(s, b) ==
    /\ board[b] = "none"
    /\ session[s] # "revoked"
    /\ Cardinality(OwnedBoards(s)) < MAX_ACTIVE_OWNED_BOARDS_PER_SESSION
    /\ session' = [session EXCEPT ![s] = "active"]
    /\ board' = [board EXCEPT ![b] = "active"]
    /\ \E m \in NextRow(memberships, MAX_MEMBERSHIPS) :
           memberships' = Inserted(memberships, m, NewMembership(b, s, "OWNER"))
    /\ UNCHANGED <<invitations, redemptions>>

\* Its invitations expire with it, or before.
BoardExpires(b) ==
    /\ board[b] = "active"
    /\ board' = [board EXCEPT ![b] = "expired"]
    /\ invitations' = [i \in DOMAIN invitations |->
           IF invitations[i].board = b THEN [invitations[i] EXCEPT !.expired = TRUE]
                                       ELSE invitations[i]]
    /\ UNCHANGED <<session, memberships, redemptions>>

\* The rows of the board go with it.  A session it leaves without a row goes
\* too, unless it is revoked.
DeleteBoard(s, b) ==
    LET gone == {u \in Session :
                    /\ session[u] = "active"
                    /\ \E m \in DOMAIN memberships :
                           /\ memberships[m].board = b
                           /\ memberships[m].session = u
                    /\ ~Named(u, memberships', invitations')}
    IN
    /\ ActiveOwner(s, b)
    /\ board' = [board EXCEPT ![b] = "none"]
    /\ memberships' = Deleted(memberships,
                          {m \in DOMAIN memberships : memberships[m].board = b})
    /\ invitations' = Deleted(invitations,
                          {i \in DOMAIN invitations : invitations[i].board = b})
    /\ redemptions' = {r \in redemptions : r.invitation \in DOMAIN invitations'}
    /\ session' = [u \in Session |-> IF u \in gone THEN "none" ELSE session[u]]

\* A batch of a set of rows: some may be locked, or still be referred to.
Batches(those) ==
    {batch \in SUBSET those :
        Cardinality(batch) <= BOARD_CHILD_DELETE_BATCH_SIZE}

\* One transaction of the retention cleanup on an expired board: a batch of
\* redemptions, of invitations and of memberships without any, and the board
\* when neither they nor any of its content is left.
CleanupChunk(b) ==
    /\ board[b] = "expired"
    /\ \E batch \in Batches({r \in redemptions : invitations[r.invitation].board = b}) :
           redemptions' = redemptions \ batch
    /\ \E batch \in Batches({i \in DOMAIN invitations :
                                /\ invitations[i].board = b
                                /\ \A r \in redemptions' : r.invitation # i}) :
           invitations' = Deleted(invitations, batch)
    /\ \E batch \in Batches({m \in DOMAIN memberships :
                                /\ memberships[m].board = b
                                /\ \A r \in redemptions' : r.membership # m}) :
           memberships' = Deleted(memberships, batch)
    /\ \/ UNCHANGED board
       \/ /\ \A i \in DOMAIN invitations' : invitations'[i].board # b
          /\ \A m \in DOMAIN memberships' : memberships'[m].board # b
          /\ board' = [board EXCEPT ![b] = "none"]
    /\ UNCHANGED session

-----------------------------------------------------------------------------
(* Invitations *)

NewInvitation(b, role, creator, maxUses) ==
    [board |-> b, role |-> role, creator |-> creator, expired |-> FALSE,
     revoked |-> FALSE, maxUses |-> maxUses, useCount |-> 0]

CreateParticipantInvitation(s, b, maxUses) ==
    /\ ActiveOwner(s, b)
    /\ Cardinality(RowsOf(invitations, b, "PARTICIPANT"))
           < MAX_BOARD_PARTICIPANT_INVITATION_RECORDS
    /\ Cardinality(ActiveInvitations(b)) < MAX_ACTIVE_INVITATIONS
    /\ \E i \in NextRow(invitations, MAX_INVITATIONS) :
           invitations' = Inserted(invitations, i,
                              NewInvitation(b, "PARTICIPANT", s, maxUses))
    /\ UNCHANGED <<session, board, memberships, redemptions>>

InvitationExpires(i) ==
    /\ ~invitations[i].expired
    /\ invitations' = [invitations EXCEPT ![i].expired = TRUE]
    /\ UNCHANGED <<session, board, memberships, redemptions>>

revokeBoardInvitation(s, i) ==
    /\ ActiveOwner(s, invitations[i].board)
    /\ invitations[i].role = "PARTICIPANT"
    /\ ~invitations[i].revoked
    /\ invitations' = Revoked(invitations, {i})
    /\ UNCHANGED <<session, board, memberships, redemptions>>

\* Owners whose session has been revoked; none has expired.
\* Mutant: whatever became of their sessions.
AllOwners(b) == Owners(b)

InactiveOwners(b) == {m \in Owners(b) : session[memberships[m].session] # "active"}

OwnerClaims(b) ==
    {i \in RowsOf(invitations, b, "OWNER") : ~invitations[i].revoked}

\* An operator issues a claim for a board nobody owns.
createLegacyOwnerClaimInvitation(b) ==
    LET left == Revoked(invitations, OwnerClaims(b))
        kept == pruneOwnerHistory(left, b)
    IN
    /\ board[b] = "active"
    /\ Owners(b) \subseteq InactiveOwners(b)
    /\ CanPrune(left, b)
    /\ memberships' = Revoked(memberships, InactiveOwners(b))
    /\ \E i \in NextRow(invitations, MAX_INVITATIONS) :
           invitations' = Inserted(kept, i, NewInvitation(b, "OWNER", None, 1))
    /\ redemptions' = {r \in redemptions : r.invitation \in DOMAIN kept}
    /\ UNCHANGED <<session, board>>

-----------------------------------------------------------------------------
(* Members *)

\* redeemBoardInvitation accepts the token: the session has not redeemed it,
\* and an owner's place is free or its own.
Redeemable(s, i) ==
    LET b == invitations[i].board IN
    /\ board[b] = "active"
    /\ session[s] # "revoked"
    /\ \A r \in redemptions : ~(r.invitation = i /\ r.session = s)
    /\ Usable(i)
    /\ invitations[i].role = "OWNER"
           => \A m \in Owners(b) \ InactiveOwners(b) : memberships[m].session = s

\* The owners it revokes on the way.
Displaced(i) ==
    IF invitations[i].role = "OWNER" THEN InactiveOwners(invitations[i].board)
                                     ELSE {}

\* A use is counted, and a claim leaves no other.
Used(i) ==
    LET others == IF invitations[i].role = "OWNER"
                  THEN OwnerClaims(invitations[i].board) \ {i}
                  ELSE {}
    IN  invitations' =
            [Revoked(invitations, others) EXCEPT ![i].useCount = @ + 1]

Redeemed(s, i, m, left) ==
    /\ redemptions' = {r \in redemptions : r.membership \in left}
           \cup {[invitation |-> i, membership |-> m, session |-> s]}
    /\ Used(i)
    /\ session' = [session EXCEPT ![s] = "active"]
    /\ UNCHANGED board

\* A member with the invitation's role, or the owner, keeps the membership.
RedeemAgain(s, i) ==
    /\ Redeemable(s, i)
    /\ \E m \in MembershipsOf(invitations[i].board, s) :
           /\ memberships[m].role \in {invitations[i].role, "OWNER"}
           /\ Redeemed(s, i, m, DOMAIN memberships)
    /\ memberships' = Revoked(memberships, Displaced(i))

JoinAsParticipant(s, i) ==
    LET b == invitations[i].board IN
    /\ Redeemable(s, i)
    /\ invitations[i].role = "PARTICIPANT"
    /\ MembershipsOf(b, s) = {}
    /\ Cardinality(Participants(b)) < MAX_ACTIVE_PARTICIPANTS
    /\ Cardinality(RowsOf(memberships, b, "PARTICIPANT"))
           < MAX_BOARD_PARTICIPANT_MEMBERSHIP_RECORDS
    /\ \E m \in NextRow(memberships, MAX_MEMBERSHIPS) :
           /\ memberships' =
                  Inserted(memberships, m, NewMembership(b, s, "PARTICIPANT"))
           /\ Redeemed(s, i, m, DOMAIN memberships)

\* A participant's membership makes way for the owner's.
ClaimOwnership(s, i) ==
    LET b == invitations[i].board
        left == Revoked(memberships, Displaced(i))
        kept == pruneOwnerHistory(left, b)
    IN
    /\ Redeemable(s, i)
    /\ invitations[i].role = "OWNER"
    /\ \A x \in MembershipsOf(b, s) : memberships[x].role = "PARTICIPANT"
    /\ CanPrune(left, b)
    /\ \E m \in NextRow(memberships, MAX_MEMBERSHIPS) :
           /\ memberships' = Inserted(Revoked(kept, MembershipsOf(b, s)), m,
                                      NewMembership(b, s, "OWNER"))
           /\ Redeemed(s, i, m, DOMAIN kept)

revokeBoardParticipant(s, m) ==
    /\ ActiveOwner(s, memberships[m].board)
    /\ memberships[m].role = "PARTICIPANT"
    /\ ~memberships[m].revoked
    /\ memberships' = Revoked(memberships, {m})
    /\ UNCHANGED <<session, board, invitations, redemptions>>

\* The owner cannot leave.
leaveBoard(s, b) ==
    /\ \E m \in Participants(b) :
           /\ ActiveMember(s, b, m)
           /\ memberships' = Revoked(memberships, {m})
    /\ UNCHANGED <<session, board, invitations, redemptions>>

-----------------------------------------------------------------------------
Next ==
    \/ \E s \in Session :
           \/ RevokeSession(s)
           \/ CleanupSession(s)
           \/ \E b \in Board :
                  \/ CreateBoard(s, b)
                  \/ DeleteBoard(s, b)
                  \/ leaveBoard(s, b)
                  \/ \E uses \in 1 .. MAX_PARTICIPANT_INVITATION_USES :
                         CreateParticipantInvitation(s, b, uses)
           \/ \E i \in DOMAIN invitations :
                  \/ revokeBoardInvitation(s, i)
                  \/ RedeemAgain(s, i)
                  \/ JoinAsParticipant(s, i)
                  \/ ClaimOwnership(s, i)
           \/ \E m \in DOMAIN memberships : revokeBoardParticipant(s, m)
    \/ \E b \in Board :
           \/ BoardExpires(b)
           \/ CleanupChunk(b)
           \/ createLegacyOwnerClaimInvitation(b)
    \/ \E i \in DOMAIN invitations : InvitationExpires(i)

Spec == Init /\ [][Next]_vars

-----------------------------------------------------------------------------
(* Properties *)

\* The code alone keeps what the unique indexes would otherwise refuse: one
\* active owner of a board, one active membership of a session, one outstanding
\* owner claim, one redemption of an invitation by a session.
UniqueRows ==
    /\ \A m, x \in DOMAIN memberships :
           /\ m # x
           /\ ~memberships[m].revoked /\ ~memberships[x].revoked
           /\ memberships[m].board = memberships[x].board
           => /\ memberships[m].session # memberships[x].session
              /\ "PARTICIPANT" \in {memberships[m].role, memberships[x].role}
    /\ \A i, j \in DOMAIN invitations :
           /\ i # j
           /\ ~invitations[i].revoked /\ ~invitations[j].revoked
           /\ invitations[i].board = invitations[j].board
           => "PARTICIPANT" \in {invitations[i].role, invitations[j].role}
    /\ \A r, x \in redemptions :
           r.invitation = x.invitation /\ r.session = x.session => r = x

\* The limits of docs/api.md:170 for a board, of an owners' history that is
\* rotated and never in the way, and of an invitation, which is used by no more
\* sessions than it admits, each use that is remembered having been counted.
LimitsKept ==
    /\ \A b \in Board :
        /\ Cardinality(ActiveInvitations(b)) <= MAX_ACTIVE_INVITATIONS
        /\ Cardinality(Participants(b)) <= MAX_ACTIVE_PARTICIPANTS
        /\ Cardinality(RowsOf(invitations, b, "PARTICIPANT"))
               <= MAX_BOARD_PARTICIPANT_INVITATION_RECORDS
        /\ Cardinality(RowsOf(memberships, b, "PARTICIPANT"))
               <= MAX_BOARD_PARTICIPANT_MEMBERSHIP_RECORDS
        /\ \A table \in {memberships, invitations} :
               Cardinality(RowsOf(table, b, "OWNER"))
                   <= MAX_BOARD_OWNER_HISTORY_RECORDS
    /\ \A i \in DOMAIN invitations :
        /\ Cardinality({r \in redemptions : r.invitation = i})
               <= invitations[i].useCount
        /\ invitations[i].useCount <= invitations[i].maxUses

\* Rows name sessions that are there: a session is never deleted from under a
\* membership or an invitation (deleteBoardAsOwner, the retention cleanup).
SessionsReferenced ==
    \A s \in Session : Named(s, memberships, invitations) => session[s] # "none"

\* Nobody takes a board from an owner whose session is active: not by a claim
\* issued when there was none, not by two of them, not by a participant's.
OwnerKept ==
    [][\A s \in Session, b \in Board :
           ActiveOwner(s, b) /\ session'[s] = "active" /\ board'[b] = "active"
               => ActiveOwner(s, b)']_vars

\* What a session redeemed is remembered, so that whoever left or was removed
\* does not return by the same link: pruning an owners' history forgets only
\* what sessions redeemed that are revoked.
RedemptionsRemembered ==
    [][\A r \in redemptions :
           LET i == invitations[r.invitation] IN
           /\ i.role = "PARTICIPANT"
           /\ session[r.session] = "active"
           /\ board[i.board] = "active" /\ board'[i.board] = "active"
           => r \in redemptions']_vars

\* "One session can own at most 20 active boards" (docs/api.md:170).
OwnedLimitKept ==
    \A s \in Session :
        Cardinality(OwnedBoards(s)) <= MAX_ACTIVE_OWNED_BOARDS_PER_SESSION
=============================================================================
