--------------------------- MODULE RetentionProofs ---------------------------
(***************************************************************************)
(* Nothing living goes, one cleanup at a time, and limits that hold, for   *)
(* any processes, boards, rows, limits and number of failures.             *)
(*                                                                         *)
(* What a chunk deletes was chosen when its transaction began, from a      *)
(* queue filled before that: LivingKept holds because a board stays        *)
(* expired, so that what was queued or chosen once (OfExpired) remains so. *)
(* What the statements of a chunk leave is of no matter to it.             *)
(***************************************************************************)
EXTENDS Retention, TLAPS

\* What a process has queued and chosen is of boards that have expired.
FromExpired(s) ==
    /\ Range(s.queue) \subseteq Range(expired)
    /\ s.chunk # None =>
          /\ s.chunk \in Chunk /\ s.chunk.board \in Range(expired)
          /\ \A r \in s.chunk.row : r \notin Session /\ BoardOf[r] = s.chunk.board
          /\ \A c \in s.chunk.ungroup : BoardOf[c] = s.chunk.board

OfExpired == \A p \in Process : FromExpired(process[p])

\* A process is past the lock while its connection holds it, or held it.
LockHeld == \A p \in Process : process[p].pc \in Locked => holder = p \/ process[p].lost

\* A window's row counts what was admitted in it.
Counted ==
    /\ \A k \in DOMAIN admitted \ live : admitted[k] = 0
    /\ \A k \in live : bucket[k] > 0
    /\ \A k \in Key \cap live : admitted[k] <= bucket[k] /\ admitted[k] <= LIMIT
    /\ admitted[Schedule] <= 1

IInv == TypeOK /\ OfExpired /\ LockHeld /\ Counted

-----------------------------------------------------------------------------
(* The parts of the invariant, and what keeps them.                        *)

LEMMA Parts ==
  ASSUME IInv
  PROVE  /\ board \subseteq Board /\ row \subseteq Row /\ grouped \subseteq DOMAIN GroupOf
         /\ expired \in Seq(Board \cup Session)
         /\ holder \in Process \cup {None}
         /\ process \in [Process -> State]
         /\ bucket \in [Key \cup {Schedule} -> 0 .. LIMIT + 1]
         /\ live \subseteq Key \cup {Schedule}
         /\ admitted \in [Key \cup {Schedule} -> Nat]
         /\ failures \in 0 .. MAX_FAILURES
         /\ OfExpired /\ LockHeld /\ Counted
BY DEF IInv, TypeOK

\* A step of a process that keeps the lock if it goes on under it, and takes it
\* from nobody.
LEMMA StepOf ==
  ASSUME IInv, NEW p \in Process, NEW s \in State,
         process' = [process EXCEPT ![p] = s], expired' = expired,
         FromExpired(s),
         s.pc \in Locked => holder' = p \/ s.lost,
         holder' = holder \/ holder \in {None, p}
  PROVE  process' \in [Process -> State] /\ OfExpired' /\ LockHeld'
<1>1. process' \in [Process -> State]
  BY Parts
<1>2. ASSUME NEW q \in Process
      PROVE  process'[q] = IF q = p THEN s ELSE process[q]
  BY Parts
<1>3. OfExpired'
  BY <1>2, Parts DEF OfExpired, FromExpired
<1>4. ASSUME NEW q \in Process, process'[q].pc \in Locked
      PROVE  holder' = q \/ process'[q].lost
  <2>1. CASE q = p
    BY <1>2, <1>4, <2>1
  <2>2. CASE q # p
    <3>1. holder = q \/ process[q].lost
      BY <1>2, <1>4, <2>2, Parts DEF LockHeld
    <3>2. q # None
      BY RetentionAssumption
    <3> QED  BY <1>2, <2>2, <3>1, <3>2
  <2> QED  BY <2>1, <2>2
<1> QED  BY <1>1, <1>3, <1>4 DEF LockHeld

LEMMA GoOn ==
  ASSUME IInv, NEW p \in Process, NEW pc \in {"connecting"} \cup Locked, Go(p, pc),
         expired' = expired,
         \/ holder' = holder /\ (pc \in Locked => process[p].pc \in Locked)
         \/ holder = None /\ holder' = p
  PROVE  process' \in [Process -> State] /\ OfExpired' /\ LockHeld'
<1> DEFINE s == [process[p] EXCEPT !.pc = pc]
<1>1. process[p] \in State /\ FromExpired(process[p])
  BY Parts DEF OfExpired
<1>2. /\ s \in State /\ s.queue = process[p].queue /\ s.chunk = process[p].chunk
      /\ s.pc = pc /\ s.lost = process[p].lost
  BY <1>1 DEF State
<1>3. process' = [process EXCEPT ![p] = s]
  BY DEF Go
<1>4. s.pc \in Locked => holder' = p \/ s.lost
  BY <1>2, Parts DEF LockHeld
<1>5. FromExpired(s)
  BY <1>1, <1>2 DEF FromExpired
<1> HIDE DEF s
<1> QED  BY <1>2, <1>3, <1>4, <1>5, StepOf

LEMMA OffIsNothing ==
  ASSUME NEW s \in State, s.queue = <<>>, s.chunk = None
  PROVE  FromExpired(s)
BY DEF FromExpired, Range

LEMMA OffIsState ==
  ASSUME NEW pc \in {"off", "waiting", "connecting"}, NEW b \in BOOLEAN
  PROVE  /\ Off \in State
         /\ [Off EXCEPT !.pc = pc, !.scheduled = b] \in State
<1>1. <<>> \in Seq(Board) /\ None \in Chunk \cup {None}
  OBVIOUS
<1>2. Off \in State
  BY <1>1 DEF Off, State
<1> QED  BY <1>2 DEF State

\* The end of a cleanup, or of its process, leaves the lock or gives it back.
LEMMA Ends ==
  ASSUME IInv, NEW p \in Process,
         Ended(p) \/ process' = [process EXCEPT ![p] = Off],
         expired' = expired, holder' = holder \/ holder = p
  PROVE  process' \in [Process -> State] /\ OfExpired' /\ LockHeld'
<1>1. PICK s \in {Off, [Off EXCEPT !.pc = "waiting", !.scheduled = TRUE]} :
          process' = [process EXCEPT ![p] = s]
  BY DEF Ended
<1>2. s \in State
  BY <1>1, OffIsState
<1>3. s.queue = <<>> /\ s.chunk = None /\ s.pc \notin Locked
  <2>1. CASE s = Off
    BY <2>1 DEF Off, Locked
  <2>2. CASE s = [Off EXCEPT !.pc = "waiting", !.scheduled = TRUE]
    BY <2>2 DEF Off, Locked
  <2> QED  BY <1>1, <2>1, <2>2
<1> QED  BY <1>1, <1>2, <1>3, OffIsNothing, StepOf

-----------------------------------------------------------------------------
(* The steps of a process.                                                 *)

\* A chunk deletes what is of its board, whatever its statements leave.
LEMMA ChunkOfItsBoard ==
  ASSUME IInv, NEW p, NEW b \in Board
  PROVE  /\ ChunkFor(p, b) \in Chunk /\ ChunkFor(p, b).board = b
         /\ \A r \in ChunkFor(p, b).row : r \notin Session /\ BoardOf[r] = b
         /\ \A c \in ChunkFor(p, b).ungroup : BoardOf[c] = b
<1> DEFINE after == After(p, b)
<1>1. ChunkFor(p, b) = [board |-> b, row |-> Of(b).row \ after.row,
                        ungroup |-> Of(b).grouped \ after.grouped,
                        last |-> b \in Range(expired) /\ after.row = {}]
  BY DEF ChunkFor
<1>2. /\ Of(b).row \subseteq Row /\ Of(b).grouped \subseteq Row
      /\ \A r \in Of(b).row : r \notin Session /\ BoardOf[r] = b
      /\ \A c \in Of(b).grouped : BoardOf[c] = b
  BY Parts, RetentionAssumption DEF Of
<1>3. (b \in Range(expired) /\ after.row = {}) \in BOOLEAN
  OBVIOUS
<1> HIDE DEF after
<1>4. ChunkFor(p, b) \in Chunk
  <2>1. Of(b).row \ after.row \in SUBSET Row /\ Of(b).grouped \ after.grouped \in SUBSET Row
    BY <1>2
  <2> QED  BY <1>1, <1>3, <2>1 DEF Chunk
<1>5. ChunkFor(p, b).board = b
  BY <1>1
<1>6. ChunkFor(p, b).row \subseteq Of(b).row /\ ChunkFor(p, b).ungroup \subseteq Of(b).grouped
  <2>1. ChunkFor(p, b).row = Of(b).row \ after.row
    BY <1>1
  <2>2. ChunkFor(p, b).ungroup = Of(b).grouped \ after.grouped
    BY <1>1
  <2> QED  BY <2>1, <2>2
<1> QED  BY <1>2, <1>4, <1>5, <1>6

LEMMA Queued ==
  ASSUME IInv, NEW queue \in Candidates
  PROVE  queue \in Seq(Board) /\ Range(queue) \subseteq Range(expired)
<1> DEFINE there == board \cap Range(expired)
<1>1. PICK n \in 0 .. BATCH : queue \in [1 .. n -> there]
  BY DEF Candidates
<1>2. n \in Nat /\ there \subseteq Board
  BY Parts, RetentionAssumption
<1>3. queue \in Seq(Board)
  BY <1>1, <1>2
<1> QED  BY <1>1, <1>3 DEF Range

\* What is left of a queue, or goes round to its end, is of boards that were in it.
LEMMA QueueGoesRound ==
  ASSUME NEW queue \in Seq(Board), NEW b \in Board
  PROVE  /\ Append(queue, b) \in Seq(Board) /\ Range(Append(queue, b)) \subseteq Range(queue) \cup {b}
         /\ queue # <<>> => /\ Head(queue) \in Board /\ Head(queue) \in Range(queue)
                            /\ Tail(queue) \in Seq(Board)
                            /\ Range(Tail(queue)) \subseteq Range(queue)
BY DEF Range

LEMMA BeginChunkKeeps ==
  ASSUME IInv, NEW p \in Process, BeginChunk(p)
  PROVE  process' \in [Process -> State] /\ OfExpired' /\ LockHeld'
<1> DEFINE b == Head(process[p].queue)
           s == [process[p] EXCEPT !.chunk = ChunkFor(p, b), !.queue = Tail(@)]
<1>1. process[p] \in State /\ FromExpired(process[p])
  BY Parts DEF OfExpired
<1>2. process[p].queue \in Seq(Board) /\ process[p].queue # <<>>
  BY <1>1 DEF BeginChunk, State
<1>3. /\ b \in Board /\ b \in Range(expired) /\ Tail(process[p].queue) \in Seq(Board)
      /\ Range(Tail(process[p].queue)) \subseteq Range(expired)
  BY <1>1, <1>2, QueueGoesRound DEF FromExpired
<1> HIDE DEF b
<1>4. ChunkFor(p, b) \in Chunk
  BY <1>3, ChunkOfItsBoard
<1>5. /\ s \in State /\ s.chunk = ChunkFor(p, b) /\ s.queue = Tail(process[p].queue)
      /\ s.pc = process[p].pc /\ s.lost = process[p].lost
  BY <1>1, <1>3, <1>4 DEF State
<1>6. process' = [process EXCEPT ![p] = s]
  BY DEF BeginChunk, b
<1> HIDE DEF s
<1>7. FromExpired(s)
  BY <1>3, <1>5, ChunkOfItsBoard DEF FromExpired
<1>8. s.pc \in Locked => holder' = p \/ s.lost
  BY <1>5, Parts DEF LockHeld, BeginChunk
<1> QED  BY <1>5, <1>6, <1>7, <1>8, StepOf DEF BeginChunk

LEMMA CommitChunkKeeps ==
  ASSUME IInv, NEW p \in Process, CommitChunk(p)
  PROVE  process' \in [Process -> State] /\ OfExpired' /\ LockHeld'
<1> DEFINE b == process[p].chunk.board
<1>1. process[p] \in State /\ FromExpired(process[p])
  BY Parts DEF OfExpired
<1>2. /\ process[p].queue \in Seq(Board) /\ Range(process[p].queue) \subseteq Range(expired)
      /\ b \in Board /\ b \in Range(expired)
  BY <1>1 DEF CommitChunk, State, FromExpired, Chunk
<1>3. PICK queue \in {process[p].queue, Append(process[p].queue, b)} :
          process' = [process EXCEPT ![p] = [process[p] EXCEPT !.chunk = None, !.queue = queue]]
  BY DEF CommitChunk
<1>4. queue \in Seq(Board) /\ Range(queue) \subseteq Range(expired)
  <2>1. CASE queue = process[p].queue
    BY <1>2, <2>1
  <2>2. CASE queue = Append(process[p].queue, b)
    BY <1>2, <2>2, QueueGoesRound
  <2> QED  BY <1>3, <2>1, <2>2
<1> DEFINE s == [process[p] EXCEPT !.chunk = None, !.queue = queue]
<1>5. /\ s \in State /\ s.chunk = None /\ s.queue = queue
      /\ s.pc = process[p].pc /\ s.lost = process[p].lost
  BY <1>1, <1>4 DEF State
<1>6. process' = [process EXCEPT ![p] = s]
  BY <1>3
<1> HIDE DEF s, b
<1>7. FromExpired(s)
  BY <1>4, <1>5 DEF FromExpired
<1>8. s.pc \in Locked => holder' = p \/ s.lost
  BY <1>5, Parts DEF LockHeld, CommitChunk
<1> QED  BY <1>5, <1>6, <1>7, <1>8, StepOf DEF CommitChunk

\* The other steps change the state of a process in a few fields.
LEMMA FieldStep ==
  ASSUME IInv, NEW p \in Process, NEW s,
         process' = [process EXCEPT ![p] = s], expired' = expired,
         s \in State, s.pc \in Locked => process[p].pc \in Locked,
         \/ holder' = holder /\ (process[p].lost => s.lost)
         \/ holder = p /\ holder' = None /\ s.lost,
         FromExpired(s)
  PROVE  process' \in [Process -> State] /\ OfExpired' /\ LockHeld'
<1>1. s.pc \in Locked => holder' = p \/ s.lost
  BY Parts DEF LockHeld
<1> QED  BY <1>1, StepOf

LEMMA ProcessKeeps ==
  ASSUME IInv, NEW p \in Process, Progress(p) \/ Failure(p) \/ Boot(p, FALSE)
  PROVE  /\ process' \in [Process -> State] /\ OfExpired' /\ LockHeld'
         /\ holder' \in Process \cup {None}
<1> USE DEF At
<1>0. process[p] \in State /\ FromExpired(process[p])
  BY Parts DEF OfExpired
<1>1. CASE Launch(p)
  <2>1. "connecting" \notin Locked
    BY DEF Locked
  <2> QED  BY <1>1, <2>1, GoOn, Parts DEF Launch
<1>2. CASE TryLock(p)
  <2>1. {"claiming", "buckets"} \subseteq Locked
    BY DEF Locked
  <2>2. PICK pc \in {"claiming", "buckets"} : Go(p, pc)
    BY <1>2 DEF TryLock
  <2> QED  BY <1>2, <2>1, <2>2, GoOn DEF TryLock
<1>3. CASE Skip(p) \/ ConnectFails(p) \/ Close(p)
  BY <1>3, Ends, Parts DEF Skip, ConnectFails, Close
<1>4. CASE Claim(p) \/ NoClaim(p) \/ DeleteBuckets(p) \/ SkipCandidates(p) \/ CandidatesFail(p)
           \/ DeleteSessions(p) \/ SkipSessions(p) \/ SessionsFail(p)
  <2>1. PICK pc \in Locked : Go(p, pc)
    BY <1>4 DEF Claim, NoClaim, DeleteBuckets, SkipCandidates, CandidatesFail,
                DeleteSessions, SkipSessions, SessionsFail, Locked
  <2>2. /\ process[p].pc \in Locked
        /\ UNCHANGED <<holder, expired>>
    BY <1>4 DEF Claim, NoClaim, DeleteBuckets, SkipCandidates, CandidatesFail,
                DeleteSessions, SkipSessions, SessionsFail, Locked
  <2> QED  BY <2>1, <2>2, GoOn, Parts
<1>5. CASE LoseConnection(p)
  <2> DEFINE s == [process[p] EXCEPT !.lost = TRUE]
  <2>1. /\ s \in State /\ s.pc = process[p].pc /\ s.lost
        /\ s.queue = process[p].queue /\ s.chunk = process[p].chunk
    BY <1>0 DEF State
  <2>2. process' = [process EXCEPT ![p] = s]
    BY <1>5 DEF LoseConnection
  <2> HIDE DEF s
  <2>3. FromExpired(s)
    BY <1>0, <2>1 DEF FromExpired
  <2> QED  BY <1>5, <2>1, <2>2, <2>3, FieldStep DEF LoseConnection
<1>6. CASE NoticeLoss(p)
  <2> DEFINE s == [process[p] EXCEPT !.noticed = TRUE]
  <2>1. /\ s \in State /\ s.pc = process[p].pc /\ s.lost = process[p].lost
        /\ s.queue = process[p].queue /\ s.chunk = process[p].chunk
    BY <1>0 DEF State
  <2>2. process' = [process EXCEPT ![p] = s]
    BY <1>6 DEF NoticeLoss
  <2> HIDE DEF s
  <2>3. FromExpired(s)
    BY <1>0, <2>1 DEF FromExpired
  <2> QED  BY <1>6, <2>1, <2>2, <2>3, FieldStep, Parts DEF NoticeLoss
<1>7. CASE Shutdown(p)
  <2> DEFINE s == [process[p] EXCEPT !.stopping = TRUE]
  <2>1. CASE process[p].pc = "waiting"
    BY <1>7, <2>1, Ends, Parts DEF Shutdown
  <2>2. CASE process[p].pc # "waiting"
    <3>1. /\ s \in State /\ s.pc = process[p].pc /\ s.lost = process[p].lost
          /\ s.queue = process[p].queue /\ s.chunk = process[p].chunk
      BY <1>0 DEF State
    <3>2. process' = [process EXCEPT ![p] = s]
      BY <1>7, <2>2 DEF Shutdown
    <3> HIDE DEF s
    <3>3. FromExpired(s)
      BY <1>0, <3>1 DEF FromExpired
    <3> QED  BY <1>7, <3>1, <3>2, <3>3, FieldStep, Parts DEF Shutdown
  <2> QED  BY <2>1, <2>2
<1>8. CASE Crash(p)
  BY <1>8, Ends, Parts DEF Crash
<1>9. CASE Boot(p, TRUE) \/ Boot(p, FALSE)
  <2>1. PICK b \in BOOLEAN : Boot(p, b)
    BY <1>9
  <2> DEFINE s == [Off EXCEPT !.pc = "connecting", !.scheduled = b]
  <2>2. s.queue = <<>> /\ s.chunk = None /\ s.pc = "connecting"
    BY DEF Off
  <2>3. s \in State
    BY OffIsState
  <2>4. process' = [process EXCEPT ![p] = s] /\ holder' = holder /\ expired' = expired
    BY <2>1 DEF Boot
  <2> HIDE DEF s
  <2>5. s.pc \notin Locked
    BY <2>2 DEF Locked
  <2> QED  BY <2>2, <2>3, <2>4, <2>5, OffIsNothing, StepOf, Parts
<1>10. CASE SelectCandidates(p)
  <2>1. PICK queue \in Candidates :
          process' = [process EXCEPT ![p] = [process[p] EXCEPT !.pc = "boards", !.queue = queue]]
    BY <1>10 DEF SelectCandidates
  <2> DEFINE s == [process[p] EXCEPT !.pc = "boards", !.queue = queue]
  <2>2. /\ s \in State /\ s.pc = "boards" /\ s.lost = process[p].lost
        /\ s.queue = queue /\ s.chunk = process[p].chunk
    BY <1>0, Queued DEF State, Locked
  <2>3. process' = [process EXCEPT ![p] = s]
    BY <2>1
  <2> HIDE DEF s
  <2>4. FromExpired(s)
    BY <1>0, <2>2, Queued DEF FromExpired
  <2>5. process[p].pc \in Locked
    BY <1>10 DEF SelectCandidates, Locked
  <2> QED  BY <1>10, <2>2, <2>3, <2>4, <2>5, FieldStep, Parts DEF SelectCandidates
<1>11. CASE BeginChunk(p) \/ CommitChunk(p)
  BY <1>11, BeginChunkKeeps, CommitChunkKeeps, Parts DEF BeginChunk, CommitChunk
<1>12. CASE FailChunk(p)
  <2> DEFINE s == [process[p] EXCEPT !.chunk = None]
  <2>1. /\ s \in State /\ s.pc = process[p].pc /\ s.lost = process[p].lost
        /\ s.queue = process[p].queue /\ s.chunk = None
    BY <1>0 DEF State
  <2>2. process' = [process EXCEPT ![p] = s]
    BY <1>12 DEF FailChunk
  <2> HIDE DEF s
  <2>3. FromExpired(s)
    BY <1>0, <2>1 DEF FromExpired
  <2> QED  BY <1>12, <2>1, <2>2, <2>3, FieldStep, Parts DEF FailChunk
<1>13. CASE StopBoards(p) \/ BudgetSpent(p)
  <2> DEFINE s == [process[p] EXCEPT !.pc = "sessions", !.queue = <<>>]
  <2>1. /\ s \in State /\ s.pc = "sessions" /\ s.lost = process[p].lost
        /\ s.queue = <<>> /\ s.chunk = process[p].chunk
    <3>1. <<>> \in Seq(Board)
      OBVIOUS
    <3> QED  BY <1>0, <3>1 DEF State, Locked
  <2>2. /\ process' = [process EXCEPT ![p] = s] /\ s.chunk = None
        /\ UNCHANGED <<holder, expired>>
    BY <1>13, <2>1 DEF StopBoards, BudgetSpent
  <2> HIDE DEF s
  <2>3. process[p].pc \in Locked
    BY <1>13 DEF StopBoards, BudgetSpent, Locked
  <2> QED  BY <2>1, <2>2, <2>3, OffIsNothing, FieldStep, Parts
<1> QED  BY <1>1, <1>2, <1>3, <1>4, <1>5, <1>6, <1>7, <1>8, <1>9, <1>10, <1>11, <1>12, <1>13
            DEF Progress, Failure

-----------------------------------------------------------------------------
(* What is deleted.                                                        *)

OnlyExpiredGo ==
    /\ board \ board' \subseteq Range(expired)
    /\ \A r \in row \ row' :
           IF r \in Session THEN r \in Range(expired) ELSE BoardOf[r] \in Range(expired)
    /\ \A c \in grouped \ grouped' : BoardOf[c] \in Range(expired)

LEMMA NothingGoes ==
  ASSUME UNCHANGED data
  PROVE  /\ board' \subseteq board /\ row' \subseteq row /\ grouped' \subseteq grouped
         /\ OnlyExpiredGo
BY DEF data, OnlyExpiredGo

LEMMA DataGoes ==
  ASSUME IInv, NEW p \in Process, Progress(p) \/ Failure(p) \/ Boot(p, FALSE)
  PROVE  /\ board' \subseteq board /\ row' \subseteq row /\ grouped' \subseteq grouped
         /\ OnlyExpiredGo
<1>1. CASE CommitChunk(p)
  <2> DEFINE chunk == process[p].chunk
  <2>1. /\ chunk.board \in Range(expired)
        /\ \A r \in chunk.row : r \notin Session /\ BoardOf[r] = chunk.board
        /\ \A c \in chunk.ungroup : BoardOf[c] = chunk.board
    BY <1>1, Parts DEF CommitChunk, OfExpired, FromExpired
  <2>2. /\ row' = row \ chunk.row /\ grouped' = grouped \ chunk.ungroup
        /\ board' = board \/ board' = board \ {chunk.board}
    BY <1>1 DEF CommitChunk
  <2> HIDE DEF chunk
  <2> QED  BY <2>1, <2>2 DEF OnlyExpiredGo
<1>2. CASE DeleteSessions(p)
  <2>1. FirstOf(FreeSessions, BATCH) \subseteq Session \cap Range(expired)
    BY DEF FirstOf, FreeSessions
  <2> QED  BY <1>2, <2>1 DEF DeleteSessions, OnlyExpiredGo
<1>3. CASE ~CommitChunk(p) /\ ~DeleteSessions(p)
  <2>1. UNCHANGED data
    BY <1>3 DEF Progress, Failure, Launch, TryLock, Skip, Claim, NoClaim, DeleteBuckets,
                SelectCandidates, SkipCandidates, BeginChunk, StopBoards, SkipSessions, Close,
                NoticeLoss, Boot, ConnectFails, CandidatesFail, FailChunk, BudgetSpent,
                SessionsFail, LoseConnection, Shutdown, Crash, data
  <2> QED  BY <2>1, NothingGoes
<1> QED  BY <1>1, <1>2, <1>3

-----------------------------------------------------------------------------
(* The limits.                                                             *)

LimitsTyped ==
    /\ bucket \in [Key \cup {Schedule} -> 0 .. LIMIT + 1]
    /\ live \subseteq Key \cup {Schedule}
    /\ admitted \in [Key \cup {Schedule} -> Nat]

LEMMA LimitsStay ==
  ASSUME IInv, UNCHANGED limits
  PROVE  LimitsTyped' /\ Counted'
BY Parts DEF limits, LimitsTyped, Counted

\* Deleting rows of windows that are over loses no count.
LEMMA CleanedAway ==
  ASSUME IInv, NEW except, NEW cleaned \in SUBSET Stale(except),
         bucket' = [k \in DOMAIN bucket |-> IF k \in cleaned THEN 0 ELSE bucket[k]],
         UNCHANGED <<live, admitted>>
  PROVE  LimitsTyped' /\ Counted'
<1>1. \A k \in cleaned : k \notin live
  BY DEF Stale
<1>2. LimitsTyped'
  BY Parts, RetentionAssumption DEF LimitsTyped
<1>3. \A k \in live : bucket'[k] = bucket[k]
  BY <1>1, Parts
<1> QED  BY <1>2, <1>3, Parts DEF Counted

LEMMA LimitsOfProcess ==
  ASSUME IInv, NEW p \in Process, Progress(p) \/ Failure(p) \/ Boot(p, FALSE)
  PROVE  LimitsTyped' /\ Counted'
<1>1. CASE Claim(p)
  <2>1. Schedule \notin live
    BY <1>1, Parts DEF Claim, Counted
  <2>2. LimitsTyped'
    BY <1>1, Parts, RetentionAssumption DEF Claim, LimitsTyped
  <2>3. admitted[Schedule] = 0
    BY <2>1, Parts DEF Counted
  <2> QED  BY <1>1, <2>2, <2>3, Parts, RetentionAssumption DEF Claim, Counted
<1>2. CASE DeleteBuckets(p)
  <2>1. PICK cleaned \in SUBSET Stale(Schedule) :
          bucket' = [k \in DOMAIN bucket |-> IF k \in cleaned THEN 0 ELSE bucket[k]]
    BY <1>2 DEF DeleteBuckets
  <2> QED  BY <1>2, <2>1, CleanedAway DEF DeleteBuckets
<1>3. CASE ~Claim(p) /\ ~DeleteBuckets(p)
  <2>1. UNCHANGED limits
    BY <1>3 DEF Progress, Failure, Launch, TryLock, Skip, NoClaim, CommitChunk, DeleteSessions,
                SelectCandidates, SkipCandidates, BeginChunk, StopBoards, SkipSessions, Close,
                NoticeLoss, Boot, ConnectFails, CandidatesFail, FailChunk, BudgetSpent,
                SessionsFail, LoseConnection, Shutdown, Crash, limits
  <2> QED  BY <2>1, LimitsStay
<1> QED  BY <1>1, <1>2, <1>3

LEMMA RequestCounted ==
  ASSUME IInv, NEW k \in Key, AssertRateLimit(k)
  PROVE  LimitsTyped' /\ Counted'
<1> DEFINE count == IF bucket[k] = 0 \/ k \notin live THEN 1
                    ELSE IF bucket[k] < LIMIT + 1 THEN bucket[k] + 1 ELSE LIMIT + 1
<1>1. PICK cleaned \in SUBSET Stale(k) :
        /\ bucket' = [x \in DOMAIN bucket |->
                         IF x = k THEN count ELSE IF x \in cleaned THEN 0 ELSE bucket[x]]
        /\ live' = live \cup {k}
        /\ admitted' = [admitted EXCEPT ![k] = IF count <= LIMIT THEN @ + 1 ELSE @]
  BY DEF AssertRateLimit
<1>2. count \in 1 .. LIMIT + 1 /\ bucket[k] \in 0 .. LIMIT + 1 /\ admitted[k] \in Nat
  BY Parts, RetentionAssumption
<1>3. admitted[k] < count /\ admitted[k] <= LIMIT
  BY <1>2, Parts, RetentionAssumption DEF Counted
<1> HIDE DEF count
<1>4. k \in DOMAIN bucket /\ k \in DOMAIN admitted /\ k # Schedule /\ LIMIT \in Nat
  BY Parts, RetentionAssumption
<1>5. LimitsTyped'
  BY <1>1, <1>2, <1>4, Parts DEF LimitsTyped
<1>6. /\ bucket'[k] = count
      /\ \A x \in DOMAIN bucket \ {k} : x \in live => bucket'[x] = bucket[x]
  BY <1>1, <1>4 DEF Stale
<1>7. /\ admitted'[k] <= count /\ admitted'[k] <= LIMIT
      /\ \A x \in DOMAIN admitted \ {k} : admitted'[x] = admitted[x]
      /\ DOMAIN admitted' = DOMAIN admitted
  BY <1>1, <1>2, <1>3, <1>4, Parts
<1> QED  BY <1>1, <1>2, <1>4, <1>5, <1>6, <1>7, Parts DEF Counted

LEMMA WindowOver ==
  ASSUME IInv, NEW k \in Key \cup {Schedule}, WindowEnds(k)
  PROVE  LimitsTyped' /\ Counted'
BY Parts, RetentionAssumption DEF WindowEnds, LimitsTyped, Counted

-----------------------------------------------------------------------------
(* The theorems.                                                           *)

LEMMA NoProcessSteps ==
  ASSUME IInv, UNCHANGED <<process, holder>>,
         expired' \in Seq(Board \cup Session), Range(expired) \subseteq Range(expired')
  PROVE  OfExpired' /\ LockHeld'
BY Parts DEF OfExpired, FromExpired, LockHeld

LEMMA ExpiredGrows ==
  ASSUME NEW x \in Board \cup Session, NEW s \in Seq(Board \cup Session)
  PROVE  Append(s, x) \in Seq(Board \cup Session) /\ Range(s) \subseteq Range(Append(s, x))
BY DEF Range

LEMMA NextKeeps ==
  ASSUME IInv, [Next]_vars
  PROVE  IInv' /\ (OnlyExpiredGo \/ UNCHANGED vars)
<1>1. failures' \in 0 .. MAX_FAILURES
  <2>1. failures' = failures \/ (failures < MAX_FAILURES /\ failures' = failures + 1)
    BY DEF Next, vars
  <2>2. MAX_FAILURES \in Nat /\ failures \in 0 .. MAX_FAILURES
    BY Parts, RetentionAssumption
  <2> QED  BY <2>1, <2>2
<1>2. CASE \E p \in Process : Progress(p) \/ Failure(p) \/ Boot(p, FALSE)
  <2>1. PICK p \in Process : Progress(p) \/ Failure(p) \/ Boot(p, FALSE)
    BY <1>2
  <2>2. expired' = expired
    BY <2>1 DEF Progress, Failure, Launch, TryLock, Skip, Claim, NoClaim, DeleteBuckets,
                SelectCandidates, SkipCandidates, BeginChunk, CommitChunk, StopBoards,
                DeleteSessions, SkipSessions, Close,
                NoticeLoss, Boot, ConnectFails, CandidatesFail, FailChunk, BudgetSpent,
                SessionsFail, LoseConnection, Shutdown, Crash
  <2>3. /\ process' \in [Process -> State] /\ OfExpired' /\ LockHeld'
        /\ holder' \in Process \cup {None}
    BY <2>1, ProcessKeeps
  <2>4. LimitsTyped' /\ Counted'
    BY <2>1, LimitsOfProcess
  <2>5. /\ board' \subseteq board /\ row' \subseteq row /\ grouped' \subseteq grouped
        /\ OnlyExpiredGo
    BY <2>1, DataGoes
  <2> QED  BY <1>1, <2>2, <2>3, <2>4, <2>5, Parts DEF IInv, TypeOK, LimitsTyped
<1>3. ASSUME NEW x \in Board \cup Session, Expire(x)
      PROVE  IInv' /\ OnlyExpiredGo
  <2>1. expired' \in Seq(Board \cup Session) /\ Range(expired) \subseteq Range(expired')
    BY <1>3, ExpiredGrows, Parts DEF Expire
  <2>2. OfExpired' /\ LockHeld'
    BY <1>3, <2>1, NoProcessSteps DEF Expire
  <2>3. LimitsTyped' /\ Counted'
    BY <1>3, LimitsStay DEF Expire
  <2> QED  BY <1>1, <1>3, <2>1, <2>2, <2>3, NothingGoes, Parts DEF Expire, data, IInv, TypeOK, LimitsTyped
<1>4. ASSUME UNCHANGED <<data, expired, holder, process>>, LimitsTyped', Counted'
      PROVE  IInv' /\ OnlyExpiredGo
  BY <1>1, <1>4, NoProcessSteps, NothingGoes, Parts DEF data, IInv, TypeOK, LimitsTyped
<1>5. CASE \E k \in Key \cup {Schedule} : WindowEnds(k)
  BY <1>4, <1>5, WindowOver DEF WindowEnds
<1>6. CASE \E k \in Key : AssertRateLimit(k)
  BY <1>4, <1>6, RequestCounted DEF AssertRateLimit
<1>7. CASE UNCHANGED vars
  BY <1>4, <1>7, LimitsStay DEF vars
<1> QED  BY <1>2, <1>3, <1>5, <1>6, <1>7 DEF Next

LEMMA Initially == Init => IInv
<1> SUFFICES ASSUME Init PROVE IInv
  OBVIOUS
<1>1. Off \in State
  BY OffIsState
<1>2. process \in [Process -> State]
  BY <1>1 DEF Init
<1>3. <<>> \in Seq(Board \cup Session)
  OBVIOUS
<1>4. TypeOK
  BY <1>2, <1>3, RetentionAssumption DEF Init, TypeOK
<1>5. \A p \in Process : /\ process[p].queue = <<>> /\ process[p].chunk = None
                         /\ process[p].pc \notin Locked /\ process[p] \in State
  BY <1>1 DEF Init, Off, Locked
<1>6. OfExpired /\ LockHeld
  BY <1>5, OffIsNothing DEF OfExpired, LockHeld
<1>7. Counted
  BY RetentionAssumption DEF Init, Counted
<1> QED  BY <1>4, <1>6, <1>7 DEF IInv

\* The inductive invariant of the cleanup and the limits.
THEOREM RetentionSound == Spec => []IInv
BY Initially, NextKeeps, PTL DEF Spec

\* Processes, their queues and chunks, rows and counts keep their types (TypeOK).
THEOREM RetentionTypeCorrect == Spec => []TypeOK
<1>1. IInv => TypeOK
  BY DEF IInv
<1> QED  BY <1>1, RetentionSound, PTL

\* Of two processes past the lock one has lost the connection that held it
\* (OneCleanup).
THEOREM CleanupsExclude == Spec => []OneCleanup
<1>1. IInv => OneCleanup
  BY DEF IInv, LockHeld, OneCleanup
<1> QED  BY <1>1, RetentionSound, PTL

\* No window admits more than its limit, and no interval more than one scheduled
\* cleanup, whoever deletes which counters when (LimitsHold).
THEOREM WindowsHold == Spec => []LimitsHold
<1>1. IInv => LimitsHold
  BY RetentionAssumption DEF IInv, TypeOK, Counted, LimitsHold
<1> QED  BY <1>1, RetentionSound, PTL

\* No step of any cleanup, aborted, overtaken or without its lock, deletes
\* anything of a board or of a session that has not expired (LivingKept).
THEOREM LivingStay == Spec => LivingKept
<1>1. IInv /\ [Next]_vars => [OnlyExpiredGo]_vars
  BY NextKeeps
<1>2. OnlyExpiredGo =>
        /\ board \ board' \subseteq Range(expired)
        /\ \A r \in row \ row' :
               IF r \in Session THEN r \in Range(expired) ELSE BoardOf[r] \in Range(expired)
        /\ \A c \in grouped \ grouped' : BoardOf[c] \in Range(expired)
  BY DEF OnlyExpiredGo
<1> QED  BY <1>1, <1>2, RetentionSound, PTL DEF Spec, LivingKept
=============================================================================
