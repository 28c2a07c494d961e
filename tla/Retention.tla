------------------------------ MODULE Retention ------------------------------
(***************************************************************************)
(* The deletion of expired data (cleanupExpiredData) by the servers that   *)
(* schedule it and by the script cleanup-expired, next to the rate limits, *)
(* whose rows it deletes and one of which keeps its schedule.  A row is    *)
(* what refers to it and what it refers to; the statements of one          *)
(* transaction are taken together when it begins, which locks their rows,  *)
(* and take effect when it commits.                                        *)
(***************************************************************************)
EXTENDS Integers, FiniteSets, Sequences, SequencesExt

CONSTANTS
    Process,   \* servers and scripts
    Board,
    Row,       \* rows of boards, and anonymous sessions, by their ids
    Kind,      \* Kind[r]: the table r is in
    BoardOf,   \* BoardOf[r]: the board r is of
    Refers,    \* Refers[r]: the rows r refers to, its group excepted
    GroupOf,   \* GroupOf[c]: the group card c is in
    Key,       \* of the rate limits
    Schedule,  \* RETENTION_CLEANUP_SCHEDULE_KEY
    LIMIT,     \* of every key but the schedule's
    BATCH,     \* RETENTION_CLEANUP_BATCH_SIZE
    CHUNK,     \* BOARD_CHILD_DELETE_BATCH_SIZE
    MAX_FAILURES,  \* bound on what goes wrong in a run
    None

\* The order of the statements of one chunk; "unlink" takes cards out of groups.
Statements ==
    <<"redemption", "vote", "actionItem", "unlink", "group", "card",
      "invitation", "membership", "column">>

Session == {r \in Row : Kind[r] = "session"}

ASSUME RetentionAssumption ==
    /\ Row \subseteq Nat /\ IsFiniteSet(Row) /\ IsFiniteSet(Board)
    /\ Kind \in [Row -> (Range(Statements) \ {"unlink"}) \cup {"session"}]
    /\ BoardOf \in [Row \ Session -> Board]
    /\ Refers \in [Row -> SUBSET Row]
    /\ DOMAIN GroupOf \subseteq {r \in Row : Kind[r] = "card"}
    /\ Schedule \notin Key /\ None \notin Process
    /\ LIMIT \in Nat \ {0} /\ BATCH \in Nat \ {0} /\ CHUNK \in Nat \ {0}
    /\ MAX_FAILURES \in Nat

VARIABLES
    board,     \* the boards there are
    row,       \* the rows there are
    grouped,   \* the cards that are in their group
    expired,   \* the boards and sessions whose expires_at has passed, in its order
    holder,    \* the process whose connection holds the advisory lock, or None
    process,   \* what each process is doing
    bucket,    \* count of the rate limit row of a key, 0 without a row
    live,      \* the keys whose window has not passed: reset_at > now
    admitted,  \* history: what was admitted in that window
    failures   \* history: how many times something went wrong

data == <<board, row, grouped>>
limits == <<bucket, live, admitted>>
vars == <<data, expired, holder, process, limits, failures>>

Off == [pc |-> "off", scheduled |-> FALSE, stopping |-> FALSE, lost |-> FALSE,
        noticed |-> FALSE, queue |-> <<>>, chunk |-> None]

Chunk == [board : Board, row : SUBSET Row, ungroup : SUBSET Row, last : BOOLEAN]

\* Between connecting and the end of the lock's connection.
Locked == {"claiming", "buckets", "candidates", "boards", "sessions", "closing"}

State == [pc : {"off", "waiting", "connecting"} \cup Locked, scheduled : BOOLEAN,
          stopping : BOOLEAN, lost : BOOLEAN, noticed : BOOLEAN,
          queue : Seq(Board), chunk : Chunk \cup {None}]

TypeOK ==
    /\ board \subseteq Board /\ row \subseteq Row /\ grouped \subseteq DOMAIN GroupOf
    /\ expired \in Seq(Board \cup Session)
    /\ holder \in Process \cup {None}
    /\ process \in [Process -> State]
    /\ bucket \in [Key \cup {Schedule} -> 0 .. LIMIT + 1]
    /\ live \subseteq Key \cup {Schedule}
    /\ admitted \in [Key \cup {Schedule} -> Nat]
    /\ failures \in 0 .. MAX_FAILURES

Init ==
    /\ board = Board /\ row = Row /\ grouped = DOMAIN GroupOf /\ expired = <<>>
    /\ holder = None /\ process = [p \in Process |-> Off]
    /\ bucket = [k \in Key \cup {Schedule} |-> 0] /\ live = {}
    /\ admitted = [k \in Key \cup {Schedule} |-> 0]
    /\ failures = 0

At(p, pc) == process[p].pc = pc
Aborted(p) == process[p].stopping \/ process[p].noticed

Go(p, pc) == process' = [process EXCEPT ![p].pc = pc]

-----------------------------------------------------------------------------
(* Time.                                                                   *)

Expire(x) ==
    /\ x \notin Range(expired) /\ expired' = Append(expired, x)
    /\ UNCHANGED <<data, holder, process, limits>>

WindowEnds(k) ==
    /\ k \in live /\ live' = live \ {k}
    /\ admitted' = [admitted EXCEPT ![k] = 0]
    /\ UNCHANGED <<data, expired, holder, process, bucket>>

-----------------------------------------------------------------------------
(* Rate limits.                                                            *)

\* What a deletion of expired buckets other than `except` may find unlocked.
\* Mutant: of any buckets.
AnyStale(except) == {k \in DOMAIN bucket : bucket[k] > 0} \ {except}

Stale(except) == {k \in DOMAIN bucket : bucket[k] > 0 /\ k \notin live} \ {except}

\* assertRateLimit: one statement that also deletes a few expired buckets.
AssertRateLimit(k) ==
    \E cleaned \in SUBSET Stale(k) :
        LET count == IF bucket[k] = 0 \/ k \notin live THEN 1
                     ELSE IF bucket[k] < LIMIT + 1 THEN bucket[k] + 1 ELSE LIMIT + 1
        IN  /\ bucket' = [x \in DOMAIN bucket |->
                             IF x = k THEN count ELSE IF x \in cleaned THEN 0 ELSE bucket[x]]
            /\ live' = live \cup {k}
            /\ admitted' = [admitted EXCEPT ![k] = IF count <= LIMIT THEN @ + 1 ELSE @]
            /\ UNCHANGED <<data, expired, holder, process>>

-----------------------------------------------------------------------------
(* The scheduler and the lock.                                             *)

\* start launches a cleanup at once; the script runs one.
Boot(p, scheduled) ==
    /\ At(p, "off")
    /\ process' = [process EXCEPT ![p] =
                      [Off EXCEPT !.pc = "connecting", !.scheduled = scheduled]]
    /\ UNCHANGED <<data, expired, holder, limits>>

Launch(p) ==
    /\ At(p, "waiting") /\ Go(p, "connecting")
    /\ UNCHANGED <<data, expired, holder, limits>>

\* After a cleanup the scheduler sets its timer, unless it is shutting down.
Ended(p) ==
    process' = [process EXCEPT ![p] =
        IF process[p].scheduled /\ ~process[p].stopping
        THEN [Off EXCEPT !.pc = "waiting", !.scheduled = TRUE]
        ELSE Off]

\* Mutant: the answer of pg_try_advisory_lock is not looked at.
TryLockBlindly(p) ==
    /\ At(p, "connecting")
    /\ holder' = p
    /\ Go(p, IF process[p].scheduled THEN "claiming" ELSE "buckets")
    /\ UNCHANGED <<data, expired, limits>>

TryLock(p) ==
    /\ At(p, "connecting") /\ holder = None
    /\ holder' = p
    /\ Go(p, IF process[p].scheduled THEN "claiming" ELSE "buckets")
    /\ UNCHANGED <<data, expired, limits>>

Skip(p) ==
    /\ At(p, "connecting") /\ holder # None /\ Ended(p)
    /\ UNCHANGED <<data, expired, holder, limits>>

ConnectFails(p) ==
    /\ At(p, "connecting") /\ Ended(p)
    /\ UNCHANGED <<data, expired, holder, limits>>

Claim(p) ==
    /\ At(p, "claiming") /\ ~process[p].lost
    /\ bucket[Schedule] = 0 \/ Schedule \notin live
    /\ bucket' = [bucket EXCEPT ![Schedule] = 1] /\ live' = live \cup {Schedule}
    /\ admitted' = [admitted EXCEPT ![Schedule] = @ + 1]
    /\ Go(p, "buckets")
    /\ UNCHANGED <<data, expired, holder>>

\* Too early, or the connection fails.
NoClaim(p) ==
    /\ At(p, "claiming")
    /\ process[p].lost \/ (bucket[Schedule] > 0 /\ Schedule \in live)
    /\ Go(p, "closing")
    /\ UNCHANGED <<data, expired, holder, limits>>

\* The database ends the session of the lock's connection, and with it the lock...
LoseConnection(p) ==
    /\ holder = p /\ holder' = None
    /\ process' = [process EXCEPT ![p].lost = TRUE]
    /\ UNCHANGED <<data, expired, limits>>

\* ...which its process learns of later: handleLockError.
NoticeLoss(p) ==
    /\ process[p].lost /\ ~process[p].noticed
    /\ process' = [process EXCEPT ![p].noticed = TRUE]
    /\ UNCHANGED <<data, expired, holder, limits>>

\* The end of cleanupExpiredData unlocks and closes the connection.
Close(p) ==
    /\ At(p, "closing") /\ Ended(p)
    /\ holder' = IF holder = p THEN None ELSE holder
    /\ UNCHANGED <<data, expired, limits>>

\* shutdown of the scheduler aborts the cleanup, which ends by itself.
Shutdown(p) ==
    /\ process[p].scheduled /\ ~process[p].stopping
    /\ process' = [process EXCEPT ![p] =
                      IF At(p, "waiting") THEN Off ELSE [@ EXCEPT !.stopping = TRUE]]
    /\ UNCHANGED <<data, expired, holder, limits>>

\* What was not committed is rolled back and the session of the lock ends.
Crash(p) ==
    /\ ~At(p, "off")
    /\ process' = [process EXCEPT ![p] = Off]
    /\ holder' = IF holder = p THEN None ELSE holder
    /\ UNCHANGED <<data, expired, limits>>

-----------------------------------------------------------------------------
(* runCleanupWithoutLock.                                                  *)

\* Steps are left out once the signal is aborted, and a step that fails is counted
\* and otherwise of no consequence.
DeleteBuckets(p) ==
    /\ At(p, "buckets") /\ Go(p, "candidates")
    /\ \E cleaned \in IF Aborted(p) THEN {{}} ELSE SUBSET Stale(Schedule) :
          /\ Cardinality(cleaned) <= BATCH
          /\ bucket' = [k \in DOMAIN bucket |-> IF k \in cleaned THEN 0 ELSE bucket[k]]
    /\ UNCHANGED <<data, expired, holder, live, admitted>>

\* ORDER BY expires_at LIMIT batchSize.  Mutant: any boards, expired or not.
AnyBoards == [1 .. BATCH -> board]

Candidates ==
    LET there == board \cap Range(expired)
        place(x) == CHOOSE i \in DOMAIN expired : expired[i] = x
    IN  {queue \in UNION {[1 .. n -> there] : n \in 0 .. BATCH} :
            /\ Len(queue) < BATCH => Range(queue) = there
            /\ \A i, j \in DOMAIN queue : i < j => place(queue[i]) < place(queue[j])
            /\ \A x \in there \ Range(queue), i \in DOMAIN queue : place(queue[i]) < place(x)}

SelectCandidates(p) ==
    /\ At(p, "candidates") /\ ~Aborted(p)
    /\ \E queue \in Candidates :
          process' = [process EXCEPT ![p].pc = "boards", ![p].queue = queue]
    /\ UNCHANGED <<data, expired, holder, limits>>

SkipCandidates(p) ==
    /\ At(p, "candidates") /\ Aborted(p) /\ Go(p, "boards")
    /\ UNCHANGED <<data, expired, holder, limits>>

CandidatesFail(p) ==
    /\ At(p, "candidates") /\ Go(p, "boards")
    /\ UNCHANGED <<data, expired, holder, limits>>

\* ORDER BY id LIMIT n.
FirstOf(rows, n) == {r \in rows : Cardinality({q \in rows : q < r}) < n}

\* What may not be deleted yet: each statement asks this of the tables that refer
\* to its own, and of a card that it is in no group.  A deleted card is cleared from
\* action items.  Mutant: cards may be deleted though a group shows them.
ReferredButByGroups(r, s) ==
    \/ \E q \in s.row : r \in Refers[q] /\ Kind[q] \notin {"actionItem", "group"}
    \/ r \in s.grouped \/ \E c \in s.grouped : GroupOf[c] = r

Referred(r, s) ==
    \/ \E q \in s.row : r \in Refers[q] /\ Kind[q] # "actionItem"
    \/ r \in s.grouped \/ \E c \in s.grouped : GroupOf[c] = r

\* FOR UPDATE SKIP LOCKED.
LockedByOthers(p) ==
    UNION {process[q].chunk.row \cup process[q].chunk.ungroup :
              q \in {q \in Process \ {p} : process[q].chunk # None}}

\* What the statements see of board b, and what process p's leave of it.
Of(b) == [row |-> {r \in row \ Session : BoardOf[r] = b},
          grouped |-> {c \in grouped : BoardOf[c] = b}]

After(p, b) ==
    LET free(rows) == rows \ LockedByOthers(p)
        Execute(s, kind) ==
            IF kind = "unlink"
            THEN [s EXCEPT !.grouped = @ \ FirstOf(free(@), CHUNK)]
            ELSE [s EXCEPT !.row = @ \ FirstOf({r \in free(@) : Kind[r] = kind /\ ~Referred(r, s)}, CHUNK)]
        \* Singletons, so that TLC evaluates each statement once.
        through[i \in 0 .. Len(Statements)] ==
            IF i = 0 THEN {Of(b)} ELSE {Execute(s, Statements[i]) : s \in through[i - 1]}
    IN  CHOOSE s \in through[Len(Statements)] : TRUE

\* The transaction of process p for board b.
ChunkFor(p, b) ==
    LET after == After(p, b)
    IN  [board |-> b, row |-> Of(b).row \ after.row, ungroup |-> Of(b).grouped \ after.grouped,
         last |-> b \in Range(expired) /\ after.row = {}]

BeginChunk(p) ==
    /\ At(p, "boards") /\ process[p].chunk = None
    /\ process[p].queue # <<>> /\ ~Aborted(p)
    /\ process' = [process EXCEPT ![p].chunk = ChunkFor(p, Head(process[p].queue)),
                                 ![p].queue = Tail(@)]
    /\ UNCHANGED <<data, expired, holder, limits>>

\* The foreign keys, which are looked at when the transaction commits.
KeysHold(rows, cards) ==
    /\ \A r \in rows : Kind[r] # "actionItem" => Refers[r] \subseteq rows
    /\ \A c \in cards : GroupOf[c] \in rows

\* A board of which something is left and something was deleted goes to the end of
\* the queue.
CommitChunk(p) ==
    LET chunk == process[p].chunk
        gone == chunk.last /\ chunk.board \in board
        progress == chunk.row \cup chunk.ungroup # {}
    IN  /\ chunk # None
        /\ row' = row \ chunk.row /\ grouped' = grouped \ chunk.ungroup
        /\ board' = IF chunk.last THEN board \ {chunk.board} ELSE board
        /\ KeysHold(row', grouped')
        /\ process' = [process EXCEPT
              ![p].chunk = None,
              ![p].queue = IF ~gone /\ progress /\ ~Aborted(p) THEN Append(@, chunk.board) ELSE @]
        /\ UNCHANGED <<expired, holder, limits>>

\* A timeout, a deadlock or a foreign key.
FailChunk(p) ==
    /\ process[p].chunk # None
    /\ process' = [process EXCEPT ![p].chunk = None]
    /\ UNCHANGED <<data, expired, holder, limits>>

StopBoards(p) ==
    /\ At(p, "boards") /\ process[p].chunk = None
    /\ process[p].queue = <<>> \/ Aborted(p)
    /\ process' = [process EXCEPT ![p].pc = "sessions", ![p].queue = <<>>]
    /\ UNCHANGED <<data, expired, holder, limits>>

\* BOARD_CLEANUP_BUDGET_MS is spent.
BudgetSpent(p) ==
    /\ At(p, "boards") /\ process[p].chunk = None
    /\ process' = [process EXCEPT ![p].pc = "sessions", ![p].queue = <<>>]
    /\ UNCHANGED <<data, expired, holder, limits>>

\* Expired sessions that no membership and no invitation refers to.
FreeSessions ==
    {s \in Session \cap row \cap Range(expired) : \A r \in row : s \notin Refers[r]}

DeleteSessions(p) ==
    /\ At(p, "sessions") /\ ~Aborted(p) /\ Go(p, "closing")
    /\ row' = row \ FirstOf(FreeSessions, BATCH)
    /\ UNCHANGED <<board, grouped, expired, holder, limits>>

SkipSessions(p) ==
    /\ At(p, "sessions") /\ Aborted(p) /\ Go(p, "closing")
    /\ UNCHANGED <<data, expired, holder, limits>>

SessionsFail(p) ==
    /\ At(p, "sessions") /\ Go(p, "closing")
    /\ UNCHANGED <<data, expired, holder, limits>>

-----------------------------------------------------------------------------
Progress(p) ==
    \/ Launch(p) \/ TryLock(p) \/ Skip(p) \/ Claim(p) \/ NoClaim(p) \/ DeleteBuckets(p)
    \/ SelectCandidates(p) \/ SkipCandidates(p) \/ BeginChunk(p) \/ CommitChunk(p)
    \/ StopBoards(p) \/ DeleteSessions(p) \/ SkipSessions(p) \/ Close(p)
    \/ NoticeLoss(p) \/ Boot(p, TRUE)

Failure(p) ==
    \/ ConnectFails(p) \/ CandidatesFail(p) \/ FailChunk(p) \/ BudgetSpent(p) \/ SessionsFail(p)
    \/ LoseConnection(p) \/ Shutdown(p) \/ Crash(p)

Next ==
    \/ /\ UNCHANGED failures
       /\ \/ \E x \in Board \cup Session : Expire(x)
          \/ \E k \in Key \cup {Schedule} : WindowEnds(k)
          \/ \E k \in Key : AssertRateLimit(k)
          \/ \E p \in Process : Progress(p) \/ Boot(p, FALSE)
    \/ /\ failures < MAX_FAILURES /\ failures' = failures + 1
       /\ \E p \in Process : Failure(p)

Spec == Init /\ [][Next]_vars

\* Windows end, servers are started, and their timers and steps go on.
Fairness ==
    /\ WF_vars(WindowEnds(Schedule) /\ UNCHANGED failures)
    /\ \A p \in Process : WF_vars(Progress(p) /\ UNCHANGED failures)

FairSpec == Spec /\ Fairness

-----------------------------------------------------------------------------
(* Properties.                                                             *)

\* Two processes are past the lock together only if all but one have lost the
\* connection that held it.
OneCleanup ==
    \A p, q \in Process :
        (p # q /\ process[p].pc \in Locked /\ process[q].pc \in Locked)
            => process[p].lost \/ process[q].lost

\* However many servers there are and however often they start, one scheduled
\* cleanup begins in an interval; and no deletion of buckets lets a key have more
\* than its limit in one window.
LimitsHold ==
    \A k \in DOMAIN admitted : admitted[k] <= IF k = Schedule THEN 1 ELSE LIMIT

\* Nothing of a board or of a session is deleted before it has expired.
LivingKept ==
    [][/\ board \ board' \subseteq Range(expired)
       /\ \A r \in row \ row' :
              IF r \in Session THEN r \in Range(expired) ELSE BoardOf[r] \in Range(expired)
       /\ \A c \in grouped \ grouped' : BoardOf[c] \in Range(expired)]_vars

\* Whatever goes wrong, as long as it stops going wrong, there is again and again
\* nothing left that has expired, except sessions that boards still refer to: boards
\* go in chunks, over several runs and processes, and sessions after them.
ExpiredGo ==
    []<>(\A x \in Range(expired) \cap (board \cup row) :
            \E r \in row \ Session : x \in Refers[r] /\ BoardOf[r] \notin Range(expired))
=============================================================================
