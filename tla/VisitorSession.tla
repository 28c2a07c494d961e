---------------------------- MODULE VisitorSession ----------------------------
(***************************************************************************)
(* How long an anonymous visitor stays who they are: the signed            *)
(* visitor_token cookie, which is signed anew now and then, the row of     *)
(* anonymous_sessions its payload selects, and the boards whose rows name  *)
(* that session.  Time is counted in days.                                 *)
(*                                                                         *)
(* A request takes less than a day.  It is a step, with two exceptions:    *)
(* preserveAnonymousSessionForCredentialRefresh commits before the handler *)
(* runs, and a session that is about to expire is refreshed in a statement *)
(* of its own, after the one that read it.                                 *)
(***************************************************************************)
EXTENDS Integers, FiniteSets

CONSTANTS
    Visitor,                             \* payloads of visitor tokens
    Board,
    None,                                \* null, or no such row
    ANONYMOUS_CREDENTIAL_LIFETIME_DAYS,  \* 400
    VISITOR_TOKEN_REFRESH_INTERVAL,      \* 30
    MAX_BOARD_RETENTION_DAYS,            \* 365
    MAX_TIME                             \* bound on the days of a run

ASSUME LifetimeAssumption ==
    /\ None \notin Int
    /\ None \notin [expiresAt : Nat, revoked : BOOLEAN]
    /\ ANONYMOUS_CREDENTIAL_LIFETIME_DAYS \in Nat
    /\ VISITOR_TOKEN_REFRESH_INTERVAL \in Nat \ {0}
    /\ MAX_BOARD_RETENTION_DAYS \in Nat \ {0}
    /\ VISITOR_TOKEN_REFRESH_INTERVAL + MAX_BOARD_RETENTION_DAYS
           <= ANONYMOUS_CREDENTIAL_LIFETIME_DAYS
    /\ MAX_TIME \in Nat

VARIABLES
    now,
    cookie,      \* when the visitor's newest cookie was signed
    session,     \* the visitor's row of anonymous_sessions
    refreshing,  \* "now" of a request that will refresh the session it read
    board,       \* when the board expires
    rows,        \* whose session the board's rows name
    answered     \* those of them whose browser was told, its cookie with it

vars == <<now, cookie, session, refreshing, board, rows, answered>>

Session == [expiresAt : Nat, revoked : BOOLEAN]

TypeOK ==
    /\ now \in Nat
    /\ cookie \in [Visitor -> Nat \cup {None}]
    /\ session \in [Visitor -> Session \cup {None}]
    /\ refreshing \in [Visitor -> Nat \cup {None}]
    /\ board \in [Board -> Nat \cup {None}]
    /\ rows \in SUBSET (Board \X Visitor)
    /\ answered \in SUBSET rows

\* A session lasts a day longer than a cookie.  Mutant: it does not.
LifetimeOfTheCookie == ANONYMOUS_CREDENTIAL_LIFETIME_DAYS
ANONYMOUS_SESSION_LIFETIME == ANONYMOUS_CREDENTIAL_LIFETIME_DAYS + 1
SESSION_REFRESH_THRESHOLD == MAX_BOARD_RETENTION_DAYS

Init ==
    /\ now = 0
    /\ cookie = [v \in Visitor |-> None]
    /\ session = [v \in Visitor |-> None]
    /\ refreshing = [v \in Visitor |-> None]
    /\ board = [b \in Board |-> None]
    /\ rows = {}
    /\ answered = {}

-----------------------------------------------------------------------------
(* The visitor's cookie *)

Verified(v) ==
    /\ cookie[v] # None
    /\ now - cookie[v] < ANONYMOUS_CREDENTIAL_LIFETIME_DAYS

\* Mutant: a day later.
shouldRefreshLater(v) ==
    Verified(v) /\ now - cookie[v] > VISITOR_TOKEN_REFRESH_INTERVAL

shouldRefresh(v) ==
    Verified(v) /\ now - cookie[v] >= VISITOR_TOKEN_REFRESH_INTERVAL

\* The row is kept for as long as the new cookie, even if it is revoked.
\* Mutant: only if it is not.
PreservedUnlessRevoked(v) ==
    IF /\ session[v] # None
       /\ ~session[v].revoked
       /\ session[v].expiresAt < now + ANONYMOUS_CREDENTIAL_LIFETIME_DAYS
    THEN [session[v] EXCEPT !.expiresAt = now + ANONYMOUS_SESSION_LIFETIME]
    ELSE session[v]

Preserved(v) ==
    IF /\ session[v] # None
       /\ session[v].expiresAt < now + ANONYMOUS_CREDENTIAL_LIFETIME_DAYS
    THEN [session[v] EXCEPT !.expiresAt = now + ANONYMOUS_SESSION_LIFETIME]
    ELSE session[v]

\* The first answer to a browser carries a cookie.
FirstVisit(v) ==
    /\ cookie[v] = None
    /\ cookie' = [cookie EXCEPT ![v] = now]
    /\ UNCHANGED <<now, session, refreshing, board, rows, answered>>

\* The session is preserved, then the cookie signed; the answer may be lost.
RefreshCredential(v) ==
    /\ shouldRefresh(v)
    /\ session' = [session EXCEPT ![v] = Preserved(v)]
    /\ cookie' \in {cookie, [cookie EXCEPT ![v] = now]}
    /\ UNCHANGED <<now, refreshing, board, rows, answered>>

\* A handler runs: the cookie was recent, or its refresh has been prepared.
Admitted(v) ==
    /\ Verified(v)
    /\ shouldRefresh(v) => session[v] = Preserved(v)

-----------------------------------------------------------------------------
(* The session it selects *)

Active(s) == s # None /\ ~s.revoked /\ s.expiresAt > now

Threatened(s) == s.expiresAt - now <= SESSION_REFRESH_THRESHOLD

Fresh == [expiresAt |-> now + ANONYMOUS_SESSION_LIFETIME, revoked |-> FALSE]

assertAndRefreshSession(s) == IF Threatened(s) THEN Fresh ELSE s

resolveOrCreateAnonymousSession(s) ==
    IF s = None THEN Fresh ELSE assertAndRefreshSession(s)

\* requireActiveAnonymousSession reads a session that is about to expire ...
RequireSession(v) ==
    /\ Verified(v)
    /\ refreshing[v] = None
    /\ Active(session[v])
    /\ Threatened(session[v])
    /\ refreshing' = [refreshing EXCEPT ![v] = now]
    /\ UNCHANGED <<now, cookie, session, board, rows, answered>>

\* ... and updates it, if it is still there, not revoked and not expired.
FinishRefresh(v) ==
    /\ refreshing[v] # None
    /\ refreshing' = [refreshing EXCEPT ![v] = None]
    /\ session' =
           IF /\ session[v] # None
              /\ ~session[v].revoked
              /\ session[v].expiresAt > refreshing[v]
           THEN [session EXCEPT ![v].expiresAt =
                     refreshing[v] + ANONYMOUS_SESSION_LIFETIME]
           ELSE session
    /\ UNCHANGED <<now, cookie, board, rows, answered>>

\* An operator revokes a session; nothing in the application does.
RevokeSession(v) ==
    /\ session[v] # None
    /\ session' = [session EXCEPT ![v].revoked = TRUE]
    /\ UNCHANGED <<now, cookie, refreshing, board, rows, answered>>

\* A day passes.  No request outlasts it by another.
Tick ==
    /\ now < MAX_TIME
    /\ \A v \in Visitor : refreshing[v] \in {None, now}
    /\ now' = now + 1
    /\ UNCHANGED <<cookie, session, refreshing, board, rows, answered>>

-----------------------------------------------------------------------------
(* The boards that rely on it *)

Enter(v, b) ==
    /\ Admitted(v)
    /\ session[v] # None => Active(session[v])
    /\ session' =
           [session EXCEPT ![v] = resolveOrCreateAnonymousSession(session[v])]
    /\ rows' = rows \cup {<<b, v>>}
    /\ answered' = IF shouldRefresh(v) THEN answered
                   ELSE answered \cup {<<b, v>>}
    /\ UNCHANGED <<now, cookie, refreshing>>

CreateBoard(v, b) ==
    /\ board[b] = None
    /\ \E days \in 1 .. MAX_BOARD_RETENTION_DAYS :
           board' = [board EXCEPT ![b] = now + days]
    /\ Enter(v, b)

JoinBoard(v, b) ==
    /\ board[b] # None
    /\ board[b] > now
    /\ Enter(v, b)
    /\ UNCHANGED board

\* The board and the rows that hang from it.
Removed(b) ==
    /\ board' = [board EXCEPT ![b] = None]
    /\ rows' = {r \in rows : r[1] # b}
    /\ answered' = {r \in answered : r[1] # b}

\* Visitors the board's rows name, and no other row does.
OnlyOn(b) ==
    {v \in Visitor : {c \in Board : <<c, v>> \in rows} = {b}}

\* deleteBoardAsOwner also deletes the sessions that have no row left, unless
\* they are revoked.  A refresh of a deleted row will find nothing.
DeleteBoard(v, b) ==
    LET refreshed == [session EXCEPT ![v] = assertAndRefreshSession(session[v])]
        gone == {u \in OnlyOn(b) : session[u] # None /\ ~session[u].revoked}
    IN
    /\ Admitted(v)
    /\ Active(session[v])
    /\ <<b, v>> \in rows
    /\ board[b] # None
    /\ board[b] > now
    /\ Removed(b)
    /\ session' = [u \in Visitor |-> IF u \in gone THEN None ELSE refreshed[u]]
    /\ refreshing' = [u \in Visitor |-> IF u \in gone THEN None ELSE refreshing[u]]
    /\ UNCHANGED <<now, cookie>>

\* The retention cleanup has deleted all of an expired board.
CleanupBoard(b) ==
    /\ board[b] # None
    /\ board[b] <= now
    /\ Removed(b)
    /\ UNCHANGED <<now, cookie, session, refreshing>>

\* It deletes the expired sessions no row names, a batch of them.
CleanupSession(v) ==
    /\ session[v] # None
    /\ session[v].expiresAt <= now
    /\ \A b \in Board : <<b, v>> \notin rows
    /\ session' = [session EXCEPT ![v] = None]
    /\ refreshing' = [refreshing EXCEPT ![v] = None]
    /\ UNCHANGED <<now, cookie, board, rows, answered>>

-----------------------------------------------------------------------------
Next ==
    \/ Tick
    \/ \E v \in Visitor :
           \/ FirstVisit(v)
           \/ RefreshCredential(v)
           \/ RequireSession(v)
           \/ FinishRefresh(v)
           \/ RevokeSession(v)
           \/ CleanupSession(v)
           \/ \E b \in Board :
                  CreateBoard(v, b) \/ JoinBoard(v, b) \/ DeleteBoard(v, b)
    \/ \E b \in Board : CleanupBoard(b)

Spec == Init /\ [][Next]_vars

-----------------------------------------------------------------------------
(* Properties *)

IsRevoked(v) == session[v] # None /\ session[v].revoked

\* While a browser holds a cookie that verifies, its session, once there, has
\* not expired: ANONYMOUS_SESSION_INACTIVE always means that it was revoked.
\* A refresh that writes late, over the refresh of the cookie, takes the spare
\* day of ANONYMOUS_SESSION_LIFETIME (session-service.ts:12-17).
NeverTimesOut ==
    \A v \in Visitor :
        session[v] # None /\ Verified(v) => session[v].expiresAt > now

\* Boards expire first (constants/access.ts:1-2): the session outlives every
\* board whose rows name it, and so does the cookie, once its browser has been
\* answered.
CredentialsOutliveBoards ==
    /\ \A r \in rows :
           session[r[2]] # None /\ session[r[2]].expiresAt > board[r[1]]
    /\ \A r \in answered :
           cookie[r[2]] + ANONYMOUS_CREDENTIAL_LIFETIME_DAYS > board[r[1]]

\* A revoked session stays behind as a tombstone for as long as a cookie could
\* select it: neither a cleanup nor the deletion of a board makes room for a
\* new one (docs/security-and-privacy.md:62).
TombstonesKept ==
    [][\A v \in Visitor : IsRevoked(v) /\ Verified(v) => IsRevoked(v)']_vars
=============================================================================
