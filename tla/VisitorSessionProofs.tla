------------------------- MODULE VisitorSessionProofs -------------------------
(***************************************************************************)
(* That a credential that is used never times out, that it outlives the    *)
(* boards it opens, and that a revoked session is not replaced: for every  *)
(* choice of lifetimes in which a board's retention and the interval after *)
(* which a cookie is signed anew fit into the lifetime of a cookie.        *)
(***************************************************************************)
EXTENDS VisitorSession, TLAPS

\* Nothing was signed or read in the future, nor a refresh read long ago.
TimesPast ==
    \A v \in Visitor :
        /\ cookie[v] # None => cookie[v] <= now
        /\ refreshing[v] # None => refreshing[v] <= now /\ now <= refreshing[v] + 1

\* A session lasts as long as the newest cookie that selects it.
SessionsLast ==
    \A v \in Visitor :
        session[v] # None =>
            /\ cookie[v] # None
            /\ session[v].expiresAt >= cookie[v] + ANONYMOUS_CREDENTIAL_LIFETIME_DAYS

BoardsEnd ==
    \A b \in Board : board[b] # None => board[b] <= now + MAX_BOARD_RETENTION_DAYS

RowsBacked ==
    \A b \in Board, v \in Visitor :
        <<b, v>> \in rows =>
            /\ board[b] # None
            /\ session[v] # None
            /\ session[v].expiresAt > board[b]

AnswersBacked ==
    \A b \in Board, v \in Visitor :
        <<b, v>> \in answered =>
            /\ cookie[v] # None
            /\ cookie[v] + ANONYMOUS_CREDENTIAL_LIFETIME_DAYS > board[b]

IInv ==
    /\ TypeOK
    /\ TimesPast
    /\ SessionsLast
    /\ BoardsEnd
    /\ RowsBacked
    /\ AnswersBacked

LEMMA InitIInv == Init => IInv
  BY LifetimeAssumption
     DEF Init, IInv, TypeOK, TimesPast, SessionsLast, BoardsEnd, RowsBacked,
         AnswersBacked

\* Resolving a session leaves one that lasts for any board and any cookie.
LEMMA ResolvedLasts ==
    ASSUME now \in Nat,
           NEW s \in Session \cup {None},
           s # None => Active(s)
    PROVE  LET r == resolveOrCreateAnonymousSession(s) IN
           /\ r \in Session
           /\ r # None
           /\ ~r.revoked
           /\ r.expiresAt > now + MAX_BOARD_RETENTION_DAYS
           /\ \/ r.expiresAt = now + ANONYMOUS_CREDENTIAL_LIFETIME_DAYS + 1
              \/ r = s
<1> DEFINE r == resolveOrCreateAnonymousSession(s)
<1>1. /\ Fresh \in Session
      /\ ~Fresh.revoked
      /\ Fresh.expiresAt = now + ANONYMOUS_CREDENTIAL_LIFETIME_DAYS + 1
  BY LifetimeAssumption DEF Fresh, Session, ANONYMOUS_SESSION_LIFETIME
<1>2. None \notin Session
  BY LifetimeAssumption DEF Session
<1>3. r = Fresh \/ (r = s /\ s # None /\ ~Threatened(s))
  BY DEF resolveOrCreateAnonymousSession, assertAndRefreshSession
<1>4. CASE r = Fresh
  <2>1. Fresh.expiresAt > now + MAX_BOARD_RETENTION_DAYS
    BY <1>1, LifetimeAssumption
  <2> QED
    BY <1>1, <1>2, <1>4, <2>1
<1>5. CASE r = s /\ s # None /\ ~Threatened(s)
  <2>1. s \in Session /\ ~s.revoked /\ s.expiresAt \in Nat
    BY <1>5 DEF Active, Session
  <2>2. s.expiresAt > now + MAX_BOARD_RETENTION_DAYS
    BY <1>5, <2>1, LifetimeAssumption DEF Threatened, SESSION_REFRESH_THRESHOLD
  <2> QED
    BY <1>5, <2>1, <2>2
<1> QED
  BY <1>3, <1>4, <1>5

LEMMA TickIInv == IInv /\ Tick => IInv'
  BY LifetimeAssumption
     DEF IInv, TypeOK, TimesPast, SessionsLast, BoardsEnd, RowsBacked,
         AnswersBacked, Tick, Session

LEMMA FirstVisitIInv ==
    ASSUME NEW v \in Visitor, IInv, FirstVisit(v)
    PROVE  IInv'
  BY LifetimeAssumption
     DEF IInv, TypeOK, TimesPast, SessionsLast, BoardsEnd, RowsBacked,
         AnswersBacked, FirstVisit, Session

\* Preserving never shortens, and makes a session last for a new cookie.
LEMMA PreservedLasts ==
    ASSUME IInv, NEW v \in Visitor
    PROVE  /\ Preserved(v) \in Session \cup {None}
           /\ (Preserved(v) = None) <=> (session[v] = None)
           /\ session[v] # None =>
                  /\ Preserved(v).expiresAt >= session[v].expiresAt
                  /\ Preserved(v).expiresAt
                         >= now + ANONYMOUS_CREDENTIAL_LIFETIME_DAYS
                  /\ Preserved(v).revoked = session[v].revoked
  BY LifetimeAssumption
     DEF Preserved, IInv, TypeOK, Session, ANONYMOUS_SESSION_LIFETIME

LEMMA RefreshCredentialIInv ==
    ASSUME NEW v \in Visitor, IInv, RefreshCredential(v)
    PROVE  IInv'
<1>1. /\ session' = [session EXCEPT ![v] = Preserved(v)]
      /\ cookie' = cookie \/ cookie' = [cookie EXCEPT ![v] = now]
      /\ UNCHANGED <<now, refreshing, board, rows, answered>>
      /\ cookie[v] # None
  BY DEF RefreshCredential, shouldRefresh, Verified
<1>2. TypeOK' /\ TimesPast' /\ BoardsEnd'
  BY <1>1, PreservedLasts, LifetimeAssumption
     DEF IInv, TypeOK, TimesPast, BoardsEnd
<1>3. SessionsLast'
  <2>1. CASE cookie' = cookie
    BY <1>1, <2>1, PreservedLasts, LifetimeAssumption
       DEF IInv, TypeOK, SessionsLast, TimesPast, Session
  <2>2. CASE cookie' = [cookie EXCEPT ![v] = now]
    BY <1>1, <2>2, PreservedLasts, LifetimeAssumption
       DEF IInv, TypeOK, SessionsLast, TimesPast, Session
  <2> QED
    BY <1>1, <2>1, <2>2
<1>4. RowsBacked'
  BY <1>1, PreservedLasts, LifetimeAssumption
     DEF IInv, TypeOK, RowsBacked, Session
<1>5. AnswersBacked'
  BY <1>1, LifetimeAssumption
     DEF IInv, TypeOK, AnswersBacked, RowsBacked, TimesPast
<1> QED
  BY <1>2, <1>3, <1>4, <1>5 DEF IInv

LEMMA RequireSessionIInv ==
    ASSUME NEW v \in Visitor, IInv, RequireSession(v)
    PROVE  IInv'
  BY LifetimeAssumption
     DEF IInv, TypeOK, TimesPast, SessionsLast, BoardsEnd, RowsBacked,
         AnswersBacked, RequireSession

\* The spare day of a session covers the day the refresh is late.
LEMMA FinishRefreshIInv ==
    ASSUME NEW v \in Visitor, IInv, FinishRefresh(v)
    PROVE  IInv'
<1>1. /\ refreshing[v] \in Nat
      /\ refreshing[v] <= now
      /\ now <= refreshing[v] + 1
      /\ refreshing' = [refreshing EXCEPT ![v] = None]
      /\ UNCHANGED <<now, cookie, board, rows, answered>>
  BY DEF FinishRefresh, IInv, TypeOK, TimesPast
<1>2. CASE session' = session
  BY <1>1, <1>2, LifetimeAssumption
     DEF IInv, TypeOK, TimesPast, SessionsLast, BoardsEnd, RowsBacked,
         AnswersBacked
<1>3. CASE /\ session[v] # None
           /\ session' = [session EXCEPT ![v].expiresAt =
                              refreshing[v] + ANONYMOUS_SESSION_LIFETIME]
  <2> DEFINE e == refreshing[v] + ANONYMOUS_SESSION_LIFETIME
  <2>1. e \in Nat /\ e >= now + ANONYMOUS_CREDENTIAL_LIFETIME_DAYS
    BY <1>1, LifetimeAssumption DEF ANONYMOUS_SESSION_LIFETIME, IInv, TypeOK
  <2>2. session[v] \in Session /\ session'[v] \in Session /\ session'[v].expiresAt = e
    BY <1>3, <2>1 DEF IInv, TypeOK, Session
  <2>3. \A u \in Visitor : u # v => session'[u] = session[u]
    BY <1>3 DEF IInv, TypeOK
  <2>4. None \notin Session
    BY LifetimeAssumption DEF Session
  <2>5. session' \in [Visitor -> Session \cup {None}]
    BY <1>3, <2>2 DEF IInv, TypeOK
  <2> HIDE DEF e
  <2>6. TypeOK' /\ TimesPast' /\ BoardsEnd' /\ AnswersBacked'
    BY <1>1, <2>5, LifetimeAssumption
       DEF IInv, TypeOK, TimesPast, BoardsEnd, AnswersBacked
  <2>7. SessionsLast'
    BY <1>1, <1>3, <2>1, <2>2, <2>3, LifetimeAssumption
       DEF IInv, TypeOK, TimesPast, SessionsLast
  <2>8. RowsBacked'
    <3> SUFFICES ASSUME NEW b \in Board, NEW u \in Visitor, <<b, u>> \in rows
                 PROVE  /\ board[b] # None
                        /\ session'[u] # None
                        /\ session'[u].expiresAt > board[b]
      BY <1>1 DEF RowsBacked
    <3>1. /\ board[b] # None /\ board[b] \in Nat
          /\ session[u] # None /\ session[u].expiresAt > board[b]
      BY DEF IInv, RowsBacked, TypeOK
    <3>2. now + ANONYMOUS_CREDENTIAL_LIFETIME_DAYS > board[b]
      BY <3>1, LifetimeAssumption DEF IInv, BoardsEnd, TypeOK
    <3> QED
      BY <2>1, <2>2, <2>3, <2>4, <3>1, <3>2, LifetimeAssumption DEF IInv, TypeOK
  <2> QED
    BY <2>6, <2>7, <2>8 DEF IInv
<1> QED
  BY <1>2, <1>3 DEF FinishRefresh

LEMMA RevokeSessionIInv ==
    ASSUME NEW v \in Visitor, IInv, RevokeSession(v)
    PROVE  IInv'
<1>1. /\ session[v] # None /\ session[v] \in Session
      /\ session' = [session EXCEPT ![v].revoked = TRUE]
      /\ UNCHANGED <<now, cookie, refreshing, board, rows, answered>>
  BY DEF RevokeSession, IInv, TypeOK
<1>2. /\ session' \in [Visitor -> Session \cup {None}]
      /\ \A u \in Visitor :
             /\ session'[u] = None <=> session[u] = None
             /\ session[u] # None => session'[u].expiresAt = session[u].expiresAt
  BY <1>1, LifetimeAssumption DEF IInv, TypeOK, Session
<1> QED
  BY <1>1, <1>2
     DEF IInv, TypeOK, TimesPast, SessionsLast, BoardsEnd, RowsBacked,
         AnswersBacked

\* What createBoard and redeemBoardInvitation do to a session and its rows, on
\* a board that expires in time.
LEMMA EnterIInv ==
    ASSUME NEW v \in Visitor, NEW b \in Board, IInv, Enter(v, b),
           TypeOK', BoardsEnd',
           board'[b] # None,
           \A c \in Board : c # b => board'[c] = board[c],
           board[b] # None => board'[b] = board[b]
    PROVE  IInv'
<1> DEFINE r == resolveOrCreateAnonymousSession(session[v])
<1>1. /\ now \in Nat
      /\ session' = [session EXCEPT ![v] = r]
      /\ rows' = rows \cup {<<b, v>>}
      /\ answered' \in {answered, answered \cup {<<b, v>>}}
      /\ UNCHANGED <<now, cookie, refreshing>>
  BY DEF Enter, IInv, TypeOK
<1>2. /\ r \in Session /\ r # None /\ r.expiresAt \in Nat
      /\ r.expiresAt > now + MAX_BOARD_RETENTION_DAYS
      /\ \/ r.expiresAt = now + ANONYMOUS_CREDENTIAL_LIFETIME_DAYS + 1
         \/ r = session[v]
  <2>1. session[v] \in Session \cup {None}
    BY DEF IInv, TypeOK
  <2>2. session[v] # None => Active(session[v])
    BY DEF Enter
  <2> QED
    BY <1>1, <2>1, <2>2, ResolvedLasts DEF Session
<1>3. /\ session'[v] = r
      /\ \A u \in Visitor : u # v => session'[u] = session[u]
  BY <1>1 DEF IInv, TypeOK
<1>4. cookie[v] # None /\ cookie[v] \in Nat /\ cookie[v] <= now
  BY DEF Enter, Admitted, Verified, IInv, TypeOK, TimesPast
<1> HIDE DEF r
<1>5. TimesPast'
  BY <1>1 DEF IInv, TimesPast
<1>6. SessionsLast'
  <2>1. r.expiresAt >= cookie[v] + ANONYMOUS_CREDENTIAL_LIFETIME_DAYS
    BY <1>1, <1>2, <1>4, LifetimeAssumption DEF IInv, SessionsLast
  <2> QED
    BY <1>1, <1>3, <1>4, <2>1 DEF IInv, SessionsLast
<1>7. board'[b] \in Nat /\ board'[b] <= now + MAX_BOARD_RETENTION_DAYS
  BY <1>1 DEF BoardsEnd, TypeOK
<1>8. RowsBacked'
  <2> SUFFICES ASSUME NEW c \in Board, NEW u \in Visitor, <<c, u>> \in rows'
               PROVE  /\ board'[c] # None
                      /\ session'[u] # None
                      /\ session'[u].expiresAt > board'[c]
    BY DEF RowsBacked
  <2>1. CASE <<c, u>> = <<b, v>>
    BY <1>2, <1>3, <1>7, <2>1, <1>1, LifetimeAssumption
  <2>2. CASE <<c, u>> \in rows
    <3>1. /\ board[c] # None /\ session[u] # None
          /\ session[u].expiresAt > board[c]
          /\ board'[c] = board[c]
          /\ board[c] \in Nat
          /\ board[c] <= now + MAX_BOARD_RETENTION_DAYS
      BY <2>2 DEF IInv, RowsBacked, BoardsEnd, TypeOK
    <3>2. CASE u = v
      BY <1>1, <1>2, <1>3, <3>1, <3>2, LifetimeAssumption
    <3>3. CASE u # v
      BY <1>3, <3>1, <3>3
    <3> QED
      BY <3>2, <3>3
  <2> QED
    BY <1>1, <2>1, <2>2
<1>9. AnswersBacked'
  <2> SUFFICES ASSUME NEW c \in Board, NEW u \in Visitor, <<c, u>> \in answered'
               PROVE  /\ cookie[u] # None
                      /\ cookie[u] + ANONYMOUS_CREDENTIAL_LIFETIME_DAYS > board'[c]
    BY <1>1 DEF AnswersBacked
  <2>1. CASE <<c, u>> \in answered
    <3>1. <<c, u>> \in rows
      BY <2>1 DEF IInv, TypeOK
    <3> QED
      BY <2>1, <3>1 DEF IInv, AnswersBacked, RowsBacked
  <2>2. CASE <<c, u>> \notin answered
    <3>1. u = v /\ c = b /\ ~shouldRefresh(v)
      BY <2>2 DEF Enter
    <3>2. now - cookie[v] < VISITOR_TOKEN_REFRESH_INTERVAL
      BY <1>1, <1>4, <3>1, LifetimeAssumption
         DEF shouldRefresh, Enter, Admitted
    <3> QED
      BY <1>1, <1>4, <1>7, <3>1, <3>2, LifetimeAssumption
  <2> QED
    BY <2>1, <2>2
<1> QED
  BY <1>5, <1>6, <1>8, <1>9 DEF IInv

\* The types after it.
LEMMA EnterTyped ==
    ASSUME NEW v \in Visitor, NEW b \in Board, IInv, Enter(v, b),
           board' \in [Board -> Nat \cup {None}]
    PROVE  TypeOK'
<1>1. session[v] \in Session \cup {None} /\ now \in Nat
  BY DEF IInv, TypeOK
<1>2. resolveOrCreateAnonymousSession(session[v]) \in Session
  BY <1>1, ResolvedLasts DEF Enter
<1> QED
  BY <1>2 DEF IInv, TypeOK, Enter

LEMMA CreateBoardIInv ==
    ASSUME NEW v \in Visitor, NEW b \in Board, IInv, CreateBoard(v, b)
    PROVE  IInv'
<1> PICK days \in 1 .. MAX_BOARD_RETENTION_DAYS :
        board' = [board EXCEPT ![b] = now + days]
  BY DEF CreateBoard
<1>1. /\ now + days \in Nat /\ now + days <= now + MAX_BOARD_RETENTION_DAYS
      /\ now + days # None
  BY LifetimeAssumption DEF IInv, TypeOK
<1>2. Enter(v, b) /\ now' = now /\ board[b] = None
  BY DEF CreateBoard, Enter
<1>3. board' \in [Board -> Nat \cup {None}]
  BY <1>1 DEF IInv, TypeOK
<1>4. TypeOK'
  BY <1>2, <1>3, EnterTyped
<1>5. BoardsEnd'
  BY <1>1, <1>2 DEF IInv, TypeOK, BoardsEnd
<1>6. board'[b] # None /\ \A c \in Board : c # b => board'[c] = board[c]
  BY <1>1 DEF IInv, TypeOK
<1> QED
  BY <1>2, <1>4, <1>5, <1>6, EnterIInv

LEMMA JoinBoardIInv ==
    ASSUME NEW v \in Visitor, NEW b \in Board, IInv, JoinBoard(v, b)
    PROVE  IInv'
<1>1. Enter(v, b) /\ now' = now /\ board' = board /\ board[b] # None
  BY DEF JoinBoard, Enter
<1>2. TypeOK'
  BY <1>1, EnterTyped DEF IInv, TypeOK
<1>3. BoardsEnd'
  BY <1>1 DEF IInv, BoardsEnd
<1> QED
  BY <1>1, <1>2, <1>3, EnterIInv

\* The rows of the other boards name none of the sessions that go.
LEMMA DeleteBoardIInv ==
    ASSUME NEW v \in Visitor, NEW b \in Board, IInv, DeleteBoard(v, b)
    PROVE  IInv'
<1> DEFINE r == assertAndRefreshSession(session[v])
           refreshed == [session EXCEPT ![v] = r]
           gone == {u \in OnlyOn(b) : session[u] # None /\ ~session[u].revoked}
<1>1. /\ now \in Nat /\ Active(session[v]) /\ session[v] \in Session
      /\ session' = [u \in Visitor |-> IF u \in gone THEN None ELSE refreshed[u]]
      /\ refreshing' = [u \in Visitor |-> IF u \in gone THEN None ELSE refreshing[u]]
      /\ board' = [board EXCEPT ![b] = None]
      /\ rows' = {x \in rows : x[1] # b}
      /\ answered' = {x \in answered : x[1] # b}
      /\ UNCHANGED <<now, cookie>>
  BY DEF DeleteBoard, Removed, IInv, TypeOK, Active
<1>2. /\ r \in Session /\ r # None
      /\ r.expiresAt > now + MAX_BOARD_RETENTION_DAYS
      /\ \/ r.expiresAt = now + ANONYMOUS_CREDENTIAL_LIFETIME_DAYS + 1
         \/ r = session[v]
  <2>1. session[v] # None
    BY <1>1 DEF Active
  <2>2. r = resolveOrCreateAnonymousSession(session[v])
    BY <2>1 DEF resolveOrCreateAnonymousSession
  <2> QED
    BY <1>1, <2>2, ResolvedLasts
<1>3. /\ refreshed[v] = r
      /\ \A u \in Visitor : u # v => refreshed[u] = session[u]
      /\ refreshed \in [Visitor -> Session \cup {None}]
  BY <1>2 DEF IInv, TypeOK
<1> HIDE DEF r, refreshed
<1>4. /\ cookie[v] # None /\ cookie[v] \in Nat /\ cookie[v] <= now
  BY DEF DeleteBoard, Admitted, Verified, IInv, TypeOK, TimesPast
<1>5. \A u \in gone : \A c \in Board : <<c, u>> \in rows => c = b
  BY DEF OnlyOn
<1> HIDE DEF gone
<1>6. TypeOK'
  BY <1>1, <1>3 DEF IInv, TypeOK
<1>7. TimesPast' /\ BoardsEnd' /\ AnswersBacked'
  BY <1>1 DEF IInv, TypeOK, TimesPast, BoardsEnd, AnswersBacked
<1>8. SessionsLast'
  <2> SUFFICES ASSUME NEW u \in Visitor, session'[u] # None
               PROVE  /\ cookie[u] # None
                      /\ session'[u].expiresAt
                             >= cookie[u] + ANONYMOUS_CREDENTIAL_LIFETIME_DAYS
    BY <1>1 DEF SessionsLast
  <2>1. session'[u] = refreshed[u]
    BY <1>1
  <2>2. CASE u = v
    BY <1>1, <1>2, <1>3, <1>4, <2>1, <2>2, LifetimeAssumption
       DEF IInv, SessionsLast, Active
  <2>3. CASE u # v
    BY <1>3, <2>1, <2>3 DEF IInv, SessionsLast
  <2> QED
    BY <2>2, <2>3
<1>9. RowsBacked'
  <2> SUFFICES ASSUME NEW c \in Board, NEW u \in Visitor, <<c, u>> \in rows'
               PROVE  /\ board'[c] # None
                      /\ session'[u] # None
                      /\ session'[u].expiresAt > board'[c]
    BY DEF RowsBacked
  <2>1. <<c, u>> \in rows /\ c # b
    BY <1>1
  <2>2. /\ board'[c] = board[c] /\ board[c] # None /\ board[c] \in Nat
        /\ board[c] <= now + MAX_BOARD_RETENTION_DAYS
        /\ session[u] # None /\ session[u].expiresAt > board[c]
    BY <1>1, <2>1 DEF IInv, RowsBacked, BoardsEnd, TypeOK
  <2>3. session'[u] = refreshed[u]
    BY <1>1, <1>5, <2>1
  <2>4. CASE u = v
    BY <1>1, <1>2, <1>3, <2>2, <2>3, <2>4, LifetimeAssumption DEF Session
  <2>5. CASE u # v
    BY <1>3, <2>2, <2>3, <2>5
  <2> QED
    BY <2>4, <2>5
<1> QED
  BY <1>6, <1>7, <1>8, <1>9 DEF IInv

LEMMA CleanupBoardIInv ==
    ASSUME NEW b \in Board, IInv, CleanupBoard(b)
    PROVE  IInv'
  BY LifetimeAssumption
     DEF IInv, TypeOK, TimesPast, SessionsLast, BoardsEnd, RowsBacked,
         AnswersBacked, CleanupBoard, Removed

LEMMA CleanupSessionIInv ==
    ASSUME NEW v \in Visitor, IInv, CleanupSession(v)
    PROVE  IInv'
  BY LifetimeAssumption
     DEF IInv, TypeOK, TimesPast, SessionsLast, BoardsEnd, RowsBacked,
         AnswersBacked, CleanupSession

LEMMA NextIInv == IInv /\ [Next]_vars => IInv'
<1> SUFFICES ASSUME IInv, [Next]_vars
             PROVE  IInv'
  OBVIOUS
<1>1. CASE Tick
  BY <1>1, TickIInv
<1>2. ASSUME NEW v \in Visitor,
             \/ FirstVisit(v) \/ RefreshCredential(v) \/ RequireSession(v)
             \/ FinishRefresh(v) \/ RevokeSession(v) \/ CleanupSession(v)
      PROVE  IInv'
  BY <1>2, FirstVisitIInv, RefreshCredentialIInv, RequireSessionIInv,
     FinishRefreshIInv, RevokeSessionIInv, CleanupSessionIInv
<1>3. ASSUME NEW v \in Visitor, NEW b \in Board,
             CreateBoard(v, b) \/ JoinBoard(v, b) \/ DeleteBoard(v, b)
      PROVE  IInv'
  BY <1>3, CreateBoardIInv, JoinBoardIInv, DeleteBoardIInv
<1>4. ASSUME NEW b \in Board, CleanupBoard(b)
      PROVE  IInv'
  BY <1>4, CleanupBoardIInv
<1>5. CASE UNCHANGED vars
  BY <1>5 DEF vars, IInv, TypeOK, TimesPast, SessionsLast, BoardsEnd,
              RowsBacked, AnswersBacked
<1> QED
  BY <1>1, <1>2, <1>3, <1>4, <1>5 DEF Next

-----------------------------------------------------------------------------
(* The theorems *)

\* The variables keep their types.
THEOREM SessionsTyped == Spec => []TypeOK
<1>1. IInv => TypeOK
  BY DEF IInv
<1> QED
  BY <1>1, InitIInv, NextIInv, PTL DEF Spec

\* What makes the properties inductive (requireActiveAnonymousSession,
\* preserveAnonymousSessionForCredentialRefresh): times past, a session as long
\* as its newest cookie, boards that end in time, and rows that are backed.
THEOREM SessionsSound == Spec => []IInv
  BY InitIInv, NextIInv, PTL DEF Spec

\* A visitor whose cookie verifies is never turned away because the session
\* has expired (assertAndRefreshSession, session-service.ts:59-61).
THEOREM CookieNeverTimesOut == Spec => []NeverTimesOut
<1>1. IInv => NeverTimesOut
  BY LifetimeAssumption
     DEF IInv, TypeOK, TimesPast, SessionsLast, NeverTimesOut, Verified, Session
<1> QED
  BY <1>1, SessionsSound, PTL

\* Sessions, and the cookies of those who were answered, outlive the boards
\* they open (constants/access.ts:1-2).
THEOREM BoardsExpireFirst == Spec => []CredentialsOutliveBoards
<1>1. IInv => CredentialsOutliveBoards
  BY DEF IInv, TypeOK, RowsBacked, AnswersBacked, CredentialsOutliveBoards
<1> QED
  BY <1>1, SessionsSound, PTL

\* No step removes or revives a revoked session that a cookie can still select
\* (docs/security-and-privacy.md:62).
THEOREM TombstonesStay == Spec => TombstonesKept
<1>1. IInv /\ [Next]_vars
          => [\A v \in Visitor : IsRevoked(v) /\ Verified(v) => IsRevoked(v)']_vars
  <2> SUFFICES ASSUME IInv, [Next]_vars,
                      NEW v \in Visitor, IsRevoked(v), Verified(v)
               PROVE  IsRevoked(v)'
    OBVIOUS
  <2>1. session[v] # None /\ session[v].revoked /\ session[v] \in Session
    BY DEF IsRevoked, IInv, TypeOK
  <2>2. session[v].expiresAt > now
    BY <2>1, LifetimeAssumption
       DEF IInv, TypeOK, TimesPast, SessionsLast, Verified, Session
  <2>3. CASE session' = session
    BY <2>1, <2>3 DEF IsRevoked
  <2>4. ASSUME NEW u \in Visitor, RefreshCredential(u)
        PROVE  IsRevoked(v)'
    BY <2>1, <2>4, PreservedLasts
       DEF IsRevoked, RefreshCredential, IInv, TypeOK
  <2>5. ASSUME NEW u \in Visitor, FinishRefresh(u)
        PROVE  IsRevoked(v)'
    BY <2>1, <2>5 DEF IsRevoked, FinishRefresh, IInv, TypeOK
  <2>6. ASSUME NEW u \in Visitor, RevokeSession(u)
        PROVE  IsRevoked(v)'
    BY <2>1, <2>6, LifetimeAssumption
       DEF IsRevoked, RevokeSession, IInv, TypeOK, Session
  <2>7. ASSUME NEW u \in Visitor, CleanupSession(u)
        PROVE  IsRevoked(v)'
    BY <2>1, <2>2, <2>7 DEF IsRevoked, CleanupSession, IInv, TypeOK, Session
  <2>8. ASSUME NEW u \in Visitor, NEW b \in Board, Enter(u, b)
        PROVE  IsRevoked(v)'
    BY <2>1, <2>8 DEF IsRevoked, Enter, Active, IInv, TypeOK
  <2>9. ASSUME NEW u \in Visitor, NEW b \in Board, DeleteBoard(u, b)
        PROVE  IsRevoked(v)'
    BY <2>1, <2>9 DEF IsRevoked, DeleteBoard, Active, IInv, TypeOK
  <2> QED
    BY <2>3, <2>4, <2>5, <2>6, <2>7, <2>8, <2>9
       DEF Next, Tick, FirstVisit, RequireSession, CreateBoard, JoinBoard,
           CleanupBoard, vars
<1> QED
  BY <1>1, SessionsSound, PTL DEF Spec, TombstonesKept
=============================================================================
