---------------------------- MODULE BoardStream ----------------------------
(***************************************************************************)
(* The server side of a board's event streams in one process: the LISTEN   *)
(* connection all streams share (PostgresBoardListener), the requests for  *)
(* one board by one visitor (the events route), and the count of their     *)
(* streams (BoardStreamLimit).                                             *)
(*                                                                         *)
(* Code between two awaits is atomic: Node runs it, and the promise        *)
(* callbacks it settles, before it handles the next socket event or timer. *)
(* So an action is one such piece of code, of several requests when they   *)
(* await the same promise.  Delays of timers are left out, the reconnect   *)
(* backoff with them; a revision stands for the event that carries it.     *)
(***************************************************************************)
EXTENDS Integers, Sequences, FiniteSets

CONSTANTS
    Stream,                         \* requests that can be under way at once
    Watched,                        \* any of them, whose promise is stated
    None,                           \* null
    MAX_BOARD_STREAMS_PER_VISITOR,  \* 3
    BUFFER,                         \* MAX_STREAM_BUFFER_BYTES, in messages
    MAX_REVISION                    \* bound on the commits of a run

ASSUME StreamAssumption ==
    /\ IsFiniteSet(Stream) /\ Watched \in Stream
    /\ None \notin Int
    /\ MAX_BOARD_STREAMS_PER_VISITOR \in Nat
    /\ BUFFER \in Nat /\ BUFFER >= 2
    /\ MAX_REVISION \in Nat

VARIABLES
    revision,        \* the board's revision
    access,          \* whether the visitor is an active member
    client,          \* the listener's client, and what became of its session
    channel,         \* revisions notified to that session, not handled yet
    connectPromise,  \* whether connect() is under way
    reconnectTimer,  \* whether the timer is set
    shuttingDown,
    subscriptions,   \* the requests subscribed to the board's events
    count,           \* counts of the visitor's stream leases
    stream           \* the local state of each request

database == <<revision, access>>
listener == <<client, channel, connectPromise, reconnectTimer, shuttingDown>>
vars == <<revision, access, client, channel, connectPromise, reconnectTimer,
          shuttingDown, subscriptions, count, stream>>

Refusal == {"notFound", "limited", "invalid", "unavailable"}

\* No request is under way.
Over == Refusal \cup {"idle", "ended"}

\* It awaits ensureListening, the second access check, or its reader.
Live == {"waiting", "checking", "open"}

Request ==
    [stage : Over \cup Live,
     since : Nat \cup {None},               \* lastEventId
     closed : {"no", "aborted", "lost"},    \* by the browser, by the listener
     answer : Nat \cup {None},              \* the second snapshot's revision
     pending : Nat \cup {None},             \* pendingEvent
     lastSent : Nat,                        \* lastSentRevision
     wire : Seq(Nat),                       \* events enqueued and not read
     beats : Nat,                           \* and heartbeats
     gone : BOOLEAN]                        \* the browser vanished silently

Blank(stage) ==
    [stage |-> stage, since |-> None, closed |-> "no", answer |-> None,
     pending |-> None, lastSent |-> 0, wire |-> <<>>,
     beats |-> 0, gone |-> FALSE]

TypeOK ==
    /\ revision \in Nat /\ access \in BOOLEAN
    /\ client \in {"null", "opening", "listening", "broken"}
    /\ channel \in Seq(Nat)
    /\ connectPromise \in BOOLEAN /\ reconnectTimer \in BOOLEAN
    /\ shuttingDown \in BOOLEAN
    /\ subscriptions \subseteq Stream
    /\ count \in Nat
    /\ stream \in [Stream -> Request]

\* Mutant: what was closed already is not told from what was not.
StillOpenOrNot(S) == S

\* Those of S, under way, that closeStream has not been called for.
StillOpen(S) == {s \in S : stream[s].closed = "no"}

Init ==
    /\ revision = 0 /\ access = TRUE
    /\ client = "null" /\ channel = <<>>
    /\ connectPromise = FALSE /\ reconnectTimer = FALSE /\ shuttingDown = FALSE
    /\ subscriptions = {} /\ count = 0
    /\ stream = [s \in Stream |-> Blank("idle")]

-----------------------------------------------------------------------------
(* The database.                                                           *)

\* incrementBoardRevision: the notification is sent in the transaction, so a
\* commit sends it to every session that listens.
Commit ==
    /\ revision < MAX_REVISION
    /\ revision' = revision + 1
    /\ channel' = IF client = "listening" THEN Append(channel, revision') ELSE channel
    /\ UNCHANGED <<access, client, connectPromise, reconnectTimer, shuttingDown,
                   subscriptions, count, stream>>

\* The membership is revoked or left, or the board is deleted.
LoseAccess ==
    /\ access /\ access' = FALSE
    /\ UNCHANGED <<revision, listener, subscriptions, count, stream>>

\* The visitor redeems another invitation.
RegainAccess ==
    /\ ~access /\ access' = TRUE
    /\ UNCHANGED <<revision, listener, subscriptions, count, stream>>

\* The database executes the LISTEN of the connection being opened.
Listen ==
    /\ client = "opening" /\ client' = "listening"
    /\ UNCHANGED <<database, channel, connectPromise, reconnectTimer, shuttingDown,
                   subscriptions, count, stream>>

\* The session dies and the process does not know yet: some of what was
\* notified has arrived, the rest is lost, and so is what comes after.
Break ==
    /\ client = "listening" /\ client' = "broken"
    /\ \E n \in 0 .. Len(channel) : channel' = SubSeq(channel, 1, n)
    /\ UNCHANGED <<database, connectPromise, reconnectTimer, shuttingDown,
                   subscriptions, count, stream>>

-----------------------------------------------------------------------------
(* closeStream: what it makes of a request, and of requests closed at once. *)

Close(q, why) ==
    IF q.stage = "open"
    THEN [Blank("ended") EXCEPT !.wire = IF q.gone THEN <<>> ELSE q.wire]
    ELSE [q EXCEPT !.closed = why, !.pending = None]

ReleaseResources(S) ==
    /\ subscriptions' = subscriptions \ S
    /\ count' = count - Cardinality(S)

\* The request is answered with an error: the finally block closes it.
Answer(s, how) ==
    /\ stream' = [stream EXCEPT ![s] =
                    Blank(IF stream[s].closed = "aborted" THEN "ended" ELSE how)]
    /\ ReleaseResources(StillOpen({s}))
    /\ UNCHANGED <<database, listener>>

-----------------------------------------------------------------------------
(* The listener.                                                           *)

\* ensureListening returns at once.
IsListening == client # "null" /\ ~connectPromise

\* It goes on to the connect() under way, or to a new one, rather than
\* throw because the timer is set.  Mutant: it does not look at the timer.
ConnectsRegardless == ~IsListening
ConnectsOrJoins == ~IsListening /\ ~reconnectTimer

\* The part of connect() before its first await, or nothing but the promise.
Connect ==
    IF connectPromise THEN UNCHANGED <<client, channel, connectPromise>>
    ELSE client' = "opening" /\ channel' = <<>> /\ connectPromise' = TRUE

\* LISTEN is answered and the client is still the listener's.  Mutant: it
\* may be another's, or none.
EstablishedOnce == client # "opening"
Established == client \in {"listening", "broken"}

\* Mutant: not while connect() is under way.
ScheduleReconnectLater == reconnectTimer' = (~shuttingDown /\ ~connectPromise)
ScheduleReconnect == reconnectTimer' = (reconnectTimer \/ ~shuttingDown)

\* connect() resolves: every request that awaits it goes on, unless it was
\* aborted, subscribes and begins its second access check.
ConnectSucceeds ==
    /\ connectPromise /\ Established
    /\ connectPromise' = FALSE
    /\ LET waiting == {s \in Stream : stream[s].stage = "waiting"}
           subscribing == StillOpen(waiting)
       IN  /\ subscriptions' = subscriptions \cup subscribing
           /\ stream' = [s \in Stream |->
                  IF s \in subscribing THEN [stream[s] EXCEPT !.stage = "checking"]
                  ELSE IF s \in waiting THEN Blank("ended") ELSE stream[s]]
    /\ UNCHANGED <<database, client, channel, reconnectTimer, shuttingDown, count>>

\* Connecting or LISTEN fails, and the client is dropped; connect() still
\* awaits its end.
ConnectError ==
    /\ connectPromise /\ client # "null"
    /\ client' = "null" /\ channel' = <<>>
    /\ UNCHANGED <<database, connectPromise, reconnectTimer, shuttingDown,
                   subscriptions, count, stream>>

\* Mutant: the requests that await connect() are not told.
ConnectFailsQuietly ==
    /\ connectPromise /\ client = "null"
    /\ connectPromise' = FALSE
    /\ ScheduleReconnect
    /\ UNCHANGED <<database, client, channel, shuttingDown, subscriptions, count, stream>>

\* connect() rejects, after an error or because its client was superseded
\* by a disconnection or a shutdown.
ConnectFails ==
    /\ connectPromise /\ client = "null"
    /\ connectPromise' = FALSE
    /\ ScheduleReconnect
    /\ LET waiting == {s \in Stream : stream[s].stage = "waiting"}
           closing == StillOpen(waiting)
       IN  /\ ReleaseResources(closing)
           /\ stream' = [s \in Stream |->
                  IF s \in closing THEN Blank("unavailable")
                  ELSE IF s \in waiting THEN Blank("ended") ELSE stream[s]]
    /\ UNCHANGED <<database, client, channel, shuttingDown>>

\* The timer's ensureListening joins a connect() that has not rejected yet.
TimerFires ==
    /\ reconnectTimer /\ reconnectTimer' = FALSE
    /\ Connect
    /\ UNCHANGED <<database, shuttingDown, subscriptions, count, stream>>

\* notifyUnavailable.
NotifyUnavailable ==
    /\ ReleaseResources(subscriptions)
    /\ stream' = [s \in Stream |-> IF s \in subscriptions
                                   THEN Close(stream[s], "lost") ELSE stream[s]]

\* handleDisconnect: an error or the end of the connection is noticed.
Disconnect ==
    /\ client # "null" /\ client' = "null" /\ channel' = <<>>
    /\ NotifyUnavailable
    /\ ScheduleReconnect
    /\ UNCHANGED <<database, connectPromise, shuttingDown>>

\* shutdown.
Shutdown ==
    /\ ~shuttingDown /\ shuttingDown' = TRUE
    /\ reconnectTimer' = FALSE
    /\ NotifyUnavailable
    /\ client' = "null" /\ channel' = <<>>
    /\ UNCHANGED <<database, connectPromise>>

-----------------------------------------------------------------------------
(* The streams.                                                            *)

\* enqueue: a message that finds no room closes the stream.
HasRoom(s) == Len(stream[s].wire) + stream[s].beats < BUFFER

\* sendMutationEvent sends only what is newer.  Mutant: or the same.
IsNotOlder(r, s) == r >= stream[s].lastSent
IsNewer(r, s) == r > stream[s].lastSent

\* handleNotification: the event is sent to the open streams it is new for,
\* and kept by those being opened.
Deliver ==
    /\ client # "null" /\ channel # <<>>
    /\ channel' = Tail(channel)
    /\ LET r     == Head(channel)
           early == {s \in subscriptions :
                       /\ stream[s].stage = "checking"
                       /\ stream[s].pending = None \/ r > stream[s].pending}
           fresh == {s \in subscriptions : stream[s].stage = "open" /\ IsNewer(r, s)}
           full  == {s \in fresh : ~HasRoom(s)}
       IN  /\ ReleaseResources(full)
           /\ stream' = [s \in Stream |->
                CASE s \in early -> [stream[s] EXCEPT !.pending = r]
                  [] s \in full -> Close(stream[s], "no")
                  [] s \in fresh \ full -> [stream[s] EXCEPT !.lastSent = r,
                                                             !.wire = Append(@, r)]
                  [] OTHER -> stream[s]]
    /\ UNCHANGED <<database, client, connectPromise, reconnectTimer, shuttingDown>>

\* GET up to its lease, refused: not a member, over a rate limit or the limit
\* of streams, the database or the listener unavailable.
Turned(s) ==
    /\ stream[s].stage \in Over
    /\ \E how \in {"notFound", "limited", "unavailable"} :
          /\ (how = "notFound" => ~access) /\ (how = "limited" => access)
          /\ stream' = [stream EXCEPT ![s] = Blank(how)]
    /\ UNCHANGED <<database, listener, subscriptions, count>>

\* GET up to the first await after its lease.
Admit(s, lastEventId) ==
    /\ stream[s].stage \in Over /\ access
    /\ count < MAX_BOARD_STREAMS_PER_VISITOR
    /\ ~shuttingDown
    /\ count' = count + 1
    /\ \/ /\ IsListening
          /\ subscriptions' = subscriptions \cup {s}
          /\ stream' = [stream EXCEPT ![s] =
                          [Blank("checking") EXCEPT !.since = lastEventId]]
          /\ UNCHANGED <<client, channel, connectPromise>>
       \/ /\ ConnectsOrJoins /\ Connect
          /\ stream' = [stream EXCEPT ![s] =
                          [Blank("waiting") EXCEPT !.since = lastEventId]]
          /\ UNCHANGED subscriptions
    /\ UNCHANGED <<database, reconnectTimer, shuttingDown>>

\* The second access check reads the database, or fails.
Snapshot(s) ==
    /\ stream[s].stage = "checking" /\ stream[s].answer = None
    /\ IF access
       THEN /\ stream' = [stream EXCEPT ![s].answer = revision]
            /\ UNCHANGED <<database, listener, subscriptions, count>>
       ELSE Answer(s, "notFound")

SnapshotFails(s) ==
    /\ stream[s].stage = "checking"
    /\ Answer(s, "unavailable")

\* The pending event is sent after the snapshot's revision.  Mutant: it is
\* forgotten.
NoPendingNews(q) == FALSE
PendingNews(q) == q.pending # None /\ q.pending > q.answer

\* GET from the second access check to its end: the stream starts.
Start(s) ==
    LET q == stream[s]
    IN  /\ q.stage = "checking" /\ q.answer # None /\ q.closed = "no"
        /\ (q.since # None) => q.since <= q.answer
        /\ stream' = [stream EXCEPT ![s] =
              [q EXCEPT !.stage = "open", !.answer = None, !.pending = None,
                        !.lastSent = IF PendingNews(q) THEN q.pending ELSE q.answer,
                        !.wire = IF PendingNews(q) THEN <<q.answer, q.pending>>
                                                   ELSE <<q.answer>>]]
        /\ UNCHANGED <<database, listener, subscriptions, count>>

\* It does not: listener lost or request aborted meanwhile, or the browser
\* asks from a revision the board does not have.
StartRefused(s) ==
    LET q == stream[s]
    IN  /\ q.stage = "checking" /\ q.answer # None
        /\ \/ q.closed # "no" /\ Answer(s, "unavailable")
           \/ /\ q.closed = "no" /\ q.since # None
              /\ q.since > q.answer
              /\ Answer(s, "invalid")

\* closeStream of an open stream.
EndStream(s) ==
    /\ stream[s].stage = "open"
    /\ stream' = [stream EXCEPT ![s] = Close(@, "no")]
    /\ ReleaseResources({s})

\* The heartbeat timer.
SendHeartbeat(s) ==
    /\ stream[s].stage = "open"
    /\ IF HasRoom(s)
       THEN /\ stream' = [stream EXCEPT ![s].beats = @ + 1]
            /\ UNCHANGED <<subscriptions, count>>
       ELSE EndStream(s)
    /\ UNCHANGED <<database, listener>>

\* Mutant: a failed check is ignored.
IgnoreRevalidation(s) == stream[s].stage = "open" /\ UNCHANGED vars

\* The access timer's check fails, for want of access or of a database.
RevalidateAccess(s) == EndStream(s) /\ UNCHANGED <<database, listener>>

\* The request's abort signal, or the stream's cancel.
HangUp(s) ==
    /\ stream[s].stage \in Live /\ stream[s].closed = "no"
    /\ stream' = [stream EXCEPT ![s] =
                    IF @.stage = "open" THEN Blank("ended") ELSE Close(@, "aborted")]
    /\ ReleaseResources({s})
    /\ UNCHANGED <<database, listener>>

\* The browser is gone without a word, and reads nothing more.
Vanish(s) ==
    /\ stream[s].stage \in Live /\ ~stream[s].gone
    /\ stream' = [stream EXCEPT ![s].gone = TRUE]
    /\ UNCHANGED <<database, listener, subscriptions, count>>

\* The browser reads a message; as it ignores heartbeats, their place among
\* the events is left out.
Read(s) ==
    /\ ~stream[s].gone
    /\ \/ /\ stream[s].wire # <<>>
          /\ stream' = [stream EXCEPT ![s].wire = Tail(@)]
       \/ /\ stream[s].beats > 0
          /\ stream' = [stream EXCEPT ![s].beats = @ - 1]
    /\ UNCHANGED <<database, listener, subscriptions, count>>

Handle(s) ==
    \/ Snapshot(s) \/ SnapshotFails(s) \/ Start(s) \/ StartRefused(s)
    \/ SendHeartbeat(s) \/ RevalidateAccess(s)

Next ==
    \/ Commit \/ LoseAccess \/ RegainAccess \/ Listen \/ Break
    \/ ConnectSucceeds \/ ConnectError \/ ConnectFails \/ TimerFires
    \/ Disconnect \/ Shutdown \/ Deliver
    \/ \E s \in Stream :
          \/ Turned(s) \/ HangUp(s) \/ Vanish(s) \/ Read(s) \/ Handle(s)
          \/ \E from \in {None} \cup (0 .. MAX_REVISION) : Admit(s, from)

Spec == Init /\ [][Next]_vars

(* What must happen: timers fire, queries and connection attempts end (the
   client has a connection timeout), a dead session is noticed (keepAlive),
   and what has arrived is handled.  Nothing is asked of browsers, commits
   or the success of anything.                                             *)
Fairness ==
    /\ WF_vars(Listen \/ ConnectSucceeds \/ ConnectError)
    /\ WF_vars(ConnectFails) /\ WF_vars(TimerFires) /\ WF_vars(Deliver)
    /\ WF_vars(client = "broken" /\ Disconnect)
    /\ \A s \in Stream :
          /\ WF_vars(Snapshot(s) \/ SnapshotFails(s) \/ Start(s) \/ StartRefused(s))
          /\ WF_vars(SendHeartbeat(s))
          /\ WF_vars(~access /\ RevalidateAccess(s))

FairSpec == Spec /\ Fairness

-----------------------------------------------------------------------------
(* Properties.                                                             *)

\* Requests under way that closeStream has not been called for.
Unclosed == {s \in Stream : stream[s].stage \in Live /\ stream[s].closed = "no"}

\* Every lease is that of a request under way that was not closed, is given
\* back once, and never exceeds the limit; a closed request is not subscribed
\* and one that streams is (closeStream, releaseResources).
LeasesMatch ==
    /\ count = Cardinality(Unclosed)
    /\ count <= MAX_BOARD_STREAMS_PER_VISITOR
    /\ subscriptions = {s \in Unclosed : stream[s].stage # "waiting"}

\* A request is subscribed only to a connection that executed LISTEN and is
\* still the listener's, and never after a shutdown, whatever crosses what
\* (the superseded checks of connect(), notifyUnavailable).
SubscribedWhileListening ==
    (subscriptions # {}) =>
        /\ client \in {"listening", "broken"}
        /\ ~connectPromise /\ ~shuttingDown

\* While the session lives, a stream has been sent the board's revision, or
\* the notification of it is still to be handled.  One being opened has it in
\* its snapshot, its pending event or the channel (the second access check).
NothingMissed ==
    (client = "listening" /\ (channel = <<>> \/ channel[Len(channel)] # revision)) =>
        \A s \in subscriptions :
            LET q == stream[s]
            IN  /\ (q.stage = "open") => q.lastSent = revision
                /\ (q.stage = "checking" /\ q.answer # None) =>
                       revision \in {q.answer, q.pending}

\* The timer never waits beside a connection, so that it opens no second one
\* over it (scheduleReconnect, ensureListening).
OneConnection == reconnectTimer => client = "null"

\* Once the listener has begun to connect, it is connected, connecting or
\* about to retry until it is shut down, in whatever order errors, ends and
\* the timer come (scheduleReconnect, handleDisconnect).
Trying == client # "null" \/ connectPromise \/ reconnectTimer

RetryNeverLost == [][Trying => (Trying' \/ shuttingDown')]_vars

-----------------------------------------------------------------------------
(* What the browser sees of a request, in the terms of RevisionStream.     *)

PublicStage ==
    IF stream[Watched].stage \notin {"waiting", "checking"} THEN stream[Watched].stage
    ELSE IF stream[Watched].closed = "aborted" THEN "ended" ELSE "opening"

Promise == INSTANCE RevisionStream WITH
    stage <- PublicStage,
    since <- IF PublicStage = "ended" THEN None ELSE stream[Watched].since,
    told  <- stream[Watched].lastSent,
    wire  <- stream[Watched].wire

\* The stream is what RevisionStream promises: growing revisions from the one
\* asked from on, and refusals for the reasons it gives.
PromiseKept == Promise!Safety

\* Every request is answered, though connections fail and time out, and every
\* commit is told to the stream it opened, or that stream ends.
RequestsAnswered == Promise!Answers /\ Promise!TellsAll

\* A stream whose visitor has lost access ends, unless access is regained; and
\* a request whose browser has vanished gives back its lease, even if the
\* connection never reports it: heartbeats fill its buffer.
StreamsEnd ==
    /\ Promise!EndsRevoked
    /\ \A s \in Stream : stream[s].gone ~> (stream[s].stage \notin Live)
=============================================================================
