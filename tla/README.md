# Formal model of Badaction's boards

TLA+ modules that model this retrospective-board application, its server and the pages that
use it, TLC runs that check them on small boards, and TLAPS proofs of what holds on every
board. Paths below are relative to the repository root.

## 1. The system

A board has columns; a column shows *top-level items* side by side, each a card or a
group of cards; members vote for cards within a limit per column; owners record action
items. Requests arrive over HTTP at Next.js routes, the state is in PostgreSQL, several
server processes may share the database, and clients are told of changes over
server-sent events.

| Component | State | Operations | Interacts with |
|---|---|---|---|
| Ordered positions (`content-service-helpers.ts`, `top-level-order.ts`) | an INTEGER `position` per row | resolve a placement between two neighbours, allocate a position in the gap, renumber when there is none | called by every service that orders rows |
| Cards and votes (`cards-votes-service.ts`, `vote-move-service.ts`) | `Card`, `Vote` rows (a vote carries its column and a quota slot) | create, update, move, delete a card; vote, unvote, reset | leaves and dissolves groups; action items lose their source |
| Groups (`groups-service.ts`) | `CardGroup` rows, a card's `groupId` and `groupPosition` | create, update, move, ungroup | takes and returns places in the column; moves votes |
| Columns (`columns-service.ts`) | `BoardColumn` rows with vote limit and position | create, update, move, delete (empty, moving cards, with cards) | moves or deletes cards, groups, votes |
| Action items (`action-items-service.ts`) | `ActionItem` rows | create from nothing, a card or a group; update, move, delete | refer to cards |
| Settings (`board-settings-service.ts`) | the board row's flags and initial content | create a board, update settings | every operation's guard |
| Transactions (`content-service-helpers.ts`) | the board row's lock and `revision` | lock, compare `expectedRevision`, increment, notify, retry | wraps every mutation |
| Access (`acl-service.ts`, `session-service.ts`) | sessions, memberships, invitations with use counts | invite, claim ownership, redeem, revoke, rename, leave, delete the board | decides who may call the operations above |
| Listener and streams (`postgres-board-listener.ts`, `events/route.ts`) | LISTEN connection, streams' last sent revision | notify, subscribe, reconnect, close | driven by revisions; closed by revoked access |
| Client (`board-page-client.tsx`, `use-board-realtime.ts`) | the board shown, applied and requested revision, requests under way | refresh, follow the stream, poll, drag, read on | reads snapshots and pages; moves items |
| Controls (`board-content-controls.tsx`, the panels, dialogs and composers) | drafts, confirmations, what is pending | open, confirm, send, refresh | call the routes, share the page's loads |
| Queries and exports (`board-query-service.ts`, `board-state.ts`, `board-export-service.ts`, `board-sort.ts`, `board-dnd.ts`) | nothing kept | snapshot, page, merge, export, sort, place | read what the services write; say what is offered |
| Retention (`retention-cleanup-service.ts`, its scheduler) | expired rows, an advisory lock, a minimum interval | claim, delete in chunks, requeue, abort | deletes boards and sessions while others use them |
| Rate limits (`memory-rate-limit.ts`) | counters with a window | count, reset, clean up | guards routes; claims the cleanup's interval |
| Lifecycle (`application-lifecycle.ts`, `run-server.mjs`) | supervisor and child process states | start, ready, prepare, forward signal, kill | stops the cleanup, closes the listener |

What is hard, and what makes each part correct:

* **Positions.** Gaps are halved until they are exhausted, heads walk down and appended
  blocks walk up to the ends of INTEGER. Correct: positions stay distinct and in range,
  and a renumbering never reorders.
* **Votes.** The limit is not stored as a count: every vote holds a slot. Moves between
  columns, deleted columns and lowered limits rewrite the slots of several visitors at once.
  Correct: no visitor exceeds a limit, slots stay within it, no vote disappears by a move.
* **Groups.** Deleting cards one by one dissolves a group; the primary card may be the one
  deleted. Correct: a group has at least two cards, all in its column, its primary card
  among them, and what dissolves it keeps the place in the column.
* **Columns.** One transaction moves or deletes four kinds of rows. Correct: no row is left
  behind, and flags that forbid changing cards cannot be got round by deleting the column.
* **Access.** Concurrent redemptions, owner claims and revocations. Correct: one active owner,
  uses never exceed the invitation's, a session outlives its boards.
* **Streams.** A notification may arrive before, between and after the snapshots of a
  stream that is being opened. Correct: every commit is told or the stream ends.
* **Client.** Answers come late, in another order, unreadable or never, while the user drags.
  Correct: the page shows one revision, never goes back, says when it is behind, and gets to the last one.
* **Controls.** What they rest on is refreshed under them, and their request may have been saved
  though they hear of a failure. Correct: nothing is destroyed that was not confirmed, nothing
  known to be saved is offered again, nobody waits for ever.
* **Reads.** The same facts are computed twice, by the services that check and by the queries and the client that
  offer. Correct: what is offered is accepted, and lists, pages, exports and drops agree.
* **Retention.** Deletion in chunks over several transactions, aborted or crashed anywhere.
  Correct: what lives is never deleted, every expired row goes.
* **Lifecycle.** Supervisor and child exchange messages that may cross exits and signals.
  Correct: a signal always ends the process, after the drain if it can, and is forwarded at most once.

The file `PROJECT.json` lists the hazards one by one, each at its line.

## 2. Modules

| Module | Contents |
|---|---|
| `Placement` | the pure part: orders as sets of pairs, placements, insertion, renumbering |
| `BoardContent` | the content of one board and the 19 operations that write it, with their properties |
| `BoardContentProofs` | insertions and renumberings of every list; types, references, groups, the vote quota, distinct places, kept order, inherited places, what a step may change, what its readers agree on and what a page offers, for every board |
| `BoardReads` | what is read of that content, extending `BoardContent`: snapshots with capabilities, pages, exports, sorted views, drops, and what the page offers |
| `MCBoardContent` | instances of both for TLC: which operations a behaviour takes, and its view of the state |
| `RevisionStream` | abstract: what one request for a board's events promises its browser |
| `BoardStream` | the listener, the streams and their count in one server process, shown to implement `RevisionStream` |
| `MCBoardStream` | instances for TLC |
| `BoardStreamProofs` | the invariants of the streams, and the refinement, for any number of streams |
| `BoardClient` | one open page: what it shows, its requests and the realtime hook, composed with `RevisionStream` |
| `MCBoardClient` | instances for TLC |
| `BoardClientProofs` | all the safety of a page, for any number of commits and attempts, and that it keeps its side of the stream's promise |
| `BoardControls` | the 27 controls of a page that send a request, the page's loads and the server's side of both |
| `MCBoardControls` | instances for TLC |
| `BoardControlsProofs` | nothing known to be saved offered again and nothing destroyed unconfirmed, for any controls used together, columns, cards and requests |
| `VisitorSession` | the lifetimes of a visitor's cookie, session and boards, in days |
| `MCVisitorSession` | instance for TLC |
| `VisitorSessionProofs` | that credentials last, for any lifetimes |
| `BoardAccess` | memberships, invitations, redemptions and owner claims of boards, and the sessions they name |
| `MCBoardAccess` | instances for TLC |
| `BoardAccessProofs` | unique rows, sessions that stay, owners, redemptions and limits that are kept, for any sessions, boards and limits |
| `Retention` | the cleanup of several processes, its lock and chunks, and the rate limits |
| `MCRetention` | instance for TLC |
| `RetentionProofs` | one cleanup at a time, limits that hold, nothing living deleted, for any processes, rows and limits |
| `Lifecycle` | supervisor, server, channel and drain |
| `LifecycleProofs` | the drain comes first, for any number of signals |

### How the state corresponds to the code

A row is in a table when its id is in a function's domain. `voteLimit` and
`columnPosition` are the columns, `card`, `group` and `actionItem` the rows of the
tables of those names. `position` holds the positions of both cards and groups, since a
column orders them together (`listTopLevelItems`). A vote is keyed by its card and
visitor; its row is the denormalised column and the quota slot. Ids are positive
naturals because the code compares them where positions are equal; every group's id is
greater than every card's, so one order stands for `comparePositionedItems`'s kind and id.

Members and the owner are constants there: what changes them is the access component.
Texts, titles, names and assignees are left out. An operation that edits only such data
still is an action, because it increments the revision and is refused under the
same conditions.

### Why an operation is one action

`withBoardMutation` runs each mutation in a transaction whose first statement locks the
board row (`lockBoardForMutation`, `SELECT ... FOR UPDATE`), and every later read of the
operation follows that statement. Under ReadCommitted each statement sees what was
committed before it began, so an operation that holds the lock sees everything earlier
holders committed and nothing of later ones: operations on one board are serial, and a
committed one is one step. An operation that fails writes nothing, so it is no step. A
request with an outdated `expectedRevision` is refused directly after the lock is taken,
so the actions are those of requests whose revision is the current one, or that carry none.

`UNCHANGED` results are not steps either: where the code returns early without a write
(a move to the place an item already has, a removal of a vote that is not there), the
action's guard excludes it. Creation times enter in one place: `compactVoteSlots` orders
equal slots by them, and the model lets any set of the moved votes be the earlier ones.

What the database does on its own is part of the action that causes it: deleting a card
deletes its votes and clears the source of action items, deleting a column its rows.

### Reads

`BoardReads` adds no variable: a query runs in one RepeatableRead transaction, so what it answers is a
function of one state of `BoardContent`. `Page`, `CursorOf` and `Anchor` are the query's, `ReadAll` what the client has that follows
the cursors; `ExportItems` and `ExportRows` the export's; `Capabilities`, `CardCapabilities` and `RemainingVotes` what a snapshot tells its
viewer; `Shown`, `Dropped` and `BuildItemPlacement` what the client does with it when an item is dropped; `VoteButtons`,
`OpensGroupDialog`, `OffersDeletion` and `HasDragHandle` what the page makes of it. Whether the server would accept the request is
`ENABLED` of the operation that handles it.

### The streams

`BoardStream` is one server process. `client`, `connectPromise`, `reconnectTimer` and
`shuttingDown` are the fields of `PostgresBoardListener`; `client` says besides what became of the
database's end of the session, which the process learns later: the model's `"opening"` becomes
`"listening"` when the database executes LISTEN, and `"broken"` when the session dies before the
process notices. `channel` is what was notified to that session and not handled yet. `stream` holds
the variables a call of the events route's `GET` keeps between its awaits, `subscriptions` and
`count` what it has registered. A revision stands for the event that carries it; a buffer of bytes
is a buffer of messages, in which heartbeats are counted apart from events, since nobody depends on
their place. Delays are left out: a timer that is set may fire at any time.

Node runs the code between two awaits, and the promise callbacks it settles, without anything in
between, so an action is one such piece: up to the lease (`Turned`), from the lease to the first
await (`Admit`), from a settled `connect()` to the second access check for all requests that waited
for it (`ConnectSucceeds`, `ConnectFails`), from that check to the open stream (`Start`,
`StartRefused`). What the check reads it reads before it returns, so `Snapshot` is a step of its
own and notifications may be handled between the two. What may cross these steps is everything else:
commits, lost access, notifications, errors and ends of the connection, the retry timer, shutdown,
aborted requests, and browsers that vanish without closing anything.

`RevisionStream` says what one request gives its browser and knows nothing of listeners: a first
revision not older than the one asked from, then greater ones, a reason for each refusal, and in the
end every revision or the end of the stream. `BoardStream` instantiates it for one request,
`Watched`, which may be any; what the browser sees of a request that awaits something is `"opening"`.

### The page

`BoardClient` is the composition of the page with that promise: it instantiates `RevisionStream` for the stream
the page has open, asks again by `Connect`, and does not depend on how the server keeps it. The board's content is
abstracted to its revision, which determines it, and to what may set a shown board apart from it: `tentative` (a move the server
has not confirmed), `pages` (the revisions its parts were read at), `nextCursor`, and the viewer's `role`. `load` is the request
`refreshInFlight` holds, `superseded` an earlier one that `refreshAuthoritativeState` still awaits; `drag`, `move` and `more` are the
locals of a drag, of `commitDndMove` and of `onLoadMore`; `requested`, `applied`, `rendered`, `refresh` and `status` the hook's refs and locals.
An action is again the code between two awaits, so the continuations of one answer that several callers joined are
one step (`LoadAnswered`).

A page loses its board (`LosePage`) when a load or the stream's handshake is answered by 404: it drops the board, stops the hook and makes no load any more. What
was under way goes on. A later page is answered and finds no board to merge into; a drag may still be reported as cancelled, and then puts its previous board back; a move
is answered, its refresh is not made (`MoveUnrefreshed`), and if it was refused the board it began with is set again (`MoveFails`, `board-page-client.tsx:603`), whether or
not it was lost. So a lost board may be held, `shown # None`; that `error` is set is what keeps it from being rendered.

`BoardControls` is about everything else that sends a request from the page. Its 27 controls are one state machine (open, sent,
refreshing, closed, or locked) with a table, `Does`, of what each does differently; each entry is a definition named after the
function it stands for. `ctl` is the state of each, `requests` what is on the way to the server and back, with the attempts of
`withContentTransaction`; the page's `load`, joined or forced, is shared. A control that is unmounted loses its state while
its request goes on. The cards of columns are kept because `deleteColumn` destroys them: `seen` and `confirmed` say what the person
who confirmed was shown and had typed.

### Visitors and their access

Access is modelled twice, because its two questions need different things to be exact: how long
somebody may do something needs time, and who may do what needs rows.

`VisitorSession` keeps time, in days. A `Visitor` is the payload of a `visitor_token`, which never
changes; `cookie` is the day its newest cookie was signed, `session` the row of `anonymous_sessions`
the payload selects, `rows` which boards have a row (a membership or an invitation) that names it.
`shouldRefresh`, `Preserved`, `assertAndRefreshSession` and `resolveOrCreateAnonymousSession` are the code's. Three
writes may cross: the refresh of a session outside a transaction (`RequireSession`, `FinishRefresh`, the
read and the conditional update of `assertAndRefreshSession`), the one that precedes a newly signed cookie
(`RefreshCredential`, whose answer may be lost after it has committed), and those of transactions. The
browser's copy may also be older than the newest: that is a cookie that verifies for less time, which is
the weaker case of each property. `answered` remembers whose browser received the answer to a creation or redemption, as
a lost answer loses the cookie it carried.

`BoardAccess` keeps rows. `memberships`, `invitations` and `redemptions` are the tables, numbered in the
order of creation, which is the order `createdAt` and pruning use. A row's `revoked` is its `revokedAt`;
an invitation's `expired` is what its `expiresAt` has become. An action is a committed transaction:
all of `acl-service` run through `withSerializableRetry` and lock the board's row first;
`createTargetBoard` locks the session's. `redeemBoardInvitation` is three actions by what becomes of the
membership (`RedeemAgain`, `JoinAsParticipant`, `ClaimOwnership`), which share what it refuses
(`Redeemable`) and what it always writes (`Redeemed`). A session's expiry is left out: `VisitorSession` shows
(`CredentialsOutliveBoards`) that one that a living board's row names does not expire, so
`revokeInactiveOwnerMemberships` finds those that an operator has revoked. `CleanupChunk` is one
transaction of the retention cleanup: its batch may be any part of the rows it may delete, since rows that are
locked are skipped and those that the board's content refers to stay.

### The cleanup and the rate limits

In `Retention` a row is a number, `Kind` its table, `BoardOf` its board and `Refers` its foreign keys, all constants: the cleanup only
deletes. `grouped` are the cards that are in a group, which a card must leave (`unlink`) before any statement deletes it. `holder` is whose connection has the advisory lock; a process that lost it goes on until it notices. A chunk is a transaction:
`BeginChunk` computes what its nine statements (`Statements`, in their order) delete, `CommitChunk` deletes it if the foreign keys
hold by then, `FailChunk` is a timeout, a deadlock or a lost connection. Two processes' chunks may overlap and skip each other's
locked rows. The schedule's row is a rate limit bucket like others, so the counters are in the same module: `bucket` is the
counter, `admitted` a history of how many its window has admitted. What may fail does so at most `MAX_FAILURES` times in a behaviour.

### The end of a server

`Lifecycle` has the supervisor's and the server's state in `parent` and `child`, and between them the channel with the messages under way. `wrong`
remembers what was not as planned: a deadline, a drain that timed out, a channel that broke, a signal that
did not come from the supervisor, a crash. `child.listener` is the process's listener for notifications, if it has one: it is made by the first request for events
(`ListenerOpens`), also while the server drains or after, since the events route does not ask; the drain closes the one it finds. Next's own shutdown is outside the repository: it exits, or is stuck for good.

## 3. Runs

A board's state is a product of parts that touch each other in few operations. A single behaviour over all of them would have
to be too small to fill a gap or a column, so some runs start each behaviour with a focus (the variables `focus`, `subject`,
`twoBoards`, or the set of controls in use), which selects operations that bear on each other.

| Run | Asks | Bounds | Distinct states |
|---|---|---|---|
| `BoardOrder` | Do positions stay distinct and in range, does the order survive renumbering, do groups stay intact and inherit places, and do pages, exports and drops agree with the rows? | 3 cards, 1 group, 3 columns, 2 action items, at most 2 votes, step 2, range -1..10 | 33,350 |
| `BoardRows` | Is the quota respected, do references resolve, do flags and votes survive every operation, and is what is offered accepted? | 2 members, 3 cards, 1 group, 2 columns, 1 action item, limits 0..2 | 67,971 |
| `BoardStreams` | Are leases returned once, subscriptions held only while LISTEN is active, commits never missed, attempts never forgotten? | 2 requests, limit 2, buffer 2, 2 commits | 553,576 |
| `StreamPromise` | Does a stream keep `RevisionStream`'s promise, liveness included? | 1 request, limit 1, buffer 2, 2 commits | 8,718 |
| `VisitorSession` | Does a session outlast its cookie and its boards, and a revoked one every cookie? | 2 visitors, 2 boards, cookie 3 days, refreshed after 1, boards 1..2 days, days 0..5 | 2,937,778 |
| `BoardAccess` | Are roles, claims, uses and limits kept in every order of redemptions, claims and removals, and sessions as long as a row names them? | 3 sessions at 1 board with 3 memberships and 3 invitations, or 2 at 2 boards with 2 of each | 633,481 |
| `BoardControls` | Is what was saved never offered again, nothing destroyed unconfirmed, nobody left waiting? | each kind of control by itself, or two that share loads; 2 columns, 1 card, 2 revisions, 2 attempts | 435,601 |
| `BoardClient` | Does the page show one revision, never an older one, say that it is behind, take back what is not saved, and get to the last? | 2 commits, 2 attempts; 1 move where the board is lost under drags | 635,161 |
| `Retention` | One cleanup at a time, limits kept, nothing living deleted, everything expired gone in the end? | 2 processes, 2 boards with 7 rows, 1 session, chunks of 1, 2 failures, limit 1 | 437,903 |
| `Lifecycle` | Is the signal passed on once and after the drain, and does every shutdown end? | 2 signals | 55,493 |
| `OwnedLimit` | The documented limit of boards a session owns (violated, see below) | 2 boards, 3 sessions | a counterexample |
| `SameRevision` | A comment on what equal revisions mean (violated, see below) | 2 commits | a counterexample |

**Why the bounds are enough to be interesting.** A step of 2 instead of 1024 makes a gap
exhausted after one insertion and the ends of the range reachable after a few, so every
branch of allocation is taken: room, no room in the gap, no room below, no room above.
Three cards are what a group that is left one by one needs to pass through both branches of
`LeaveGroup`, and what a rebalance needs to be able to shuffle. A limit of 2 lets slots have a
hole, be compacted and collide; two visitors make compaction partition. Two columns are
what moves and deletions relate, three what a column's own order needs. `Cardinality(S) + 1` rows at one step each fit the
range (`RoomAssumption`), as in the code 2^31/1024 rows do by far. Pages of one and of two items have cursors in every place.

Two requests are what a shared listener needs: one may wait for the connection while the other
subscribes or is closed by it; any number of attempts, disconnections and requests after each
other is explored. Two commits give a pending event that is replaced, one that is older than the
snapshot and one that is newer. A buffer of 2 holds the two messages a stream starts with, as the
64 KiB do, and is full at the next. In the runs the limit of streams equals the number of requests;
that it is never exceeded when there are more is proved. `BoardStreams` uses symmetry of requests, as it checks
no liveness and nothing about `Watched`.

For a page, two commits are enough for an answer that is older than what was announced, for a refresh during which another
revision is announced, and for a move that is followed by another's; two attempts instead of three let the refresh loop go on once and
give up once. Drags, later pages and the stream are pairwise related through refreshes, which every subject has. A fourth subject, `losses`, takes the board away under
drags, moves in every stage and later pages, gives it back, and lets them be answered after: there one revision and one stream are enough, since a page that is lost asks for
nothing and follows nothing. Controls of one kind
differ in nothing the model has, so one of each kind stands for all; two that wait for the same load, one of which forces its
own, are what superseding needs.

The lifetimes 3, 1 and 2 are those of the code in small: the interval and the retention just fit the cookie's
lifetime (30 + 365 of 400 days leave some), so nothing is gained by slack. Five days are enough for a cookie to be
refreshed, for a board to expire and be cleaned up and for a session to be deleted and made again. In
`BoardAccess` every limit is small enough to be met: one active participant and one active invitation of
two that may have been, one row of owners' history, invitations of one use and of two. Three sessions are an
owner, a participant and the next who would be either; the third invitation is the claim or the link by
which somebody removed may return. A row's number is not used again while a later one exists, so the bounds limit how
many rows are made, and the cleanup and deletions make room for others.

In `Retention` chunks of one row make every statement stop in the middle, so that a board takes several chunks and both processes
can be at the same one; the board with a group of two cards, whose primary card refers back to it, is the cycle that the unlinking breaks: its cards leave the group one by
one, a chunk each; only then the group may go, and after it its primary card. Two
failures are a crash and a lost lock, or two chunks that fail.

**Views.** A run's `VIEW` leaves out what none of its operations' guards reads and none of its
properties mentions: the revision (which only grows), the positions cards had before they
were grouped, and in `BoardRows` positions, slots while every limit is at most 1, and authors while only votes change.
There, no guard asks more of a position than that some placement resolves, and one always does.
In `BoardOrder` columns are told apart by what is in them where their own order is not asked about: nothing else in those operations refers to one.

**Liveness.** None is stated of the content or of access: an operation either commits or is refused,
nothing has to happen on its own. `CHECK_DEADLOCK` is off in every run because bounds on revisions, rows, days or signals are
reached, a board may be read-only, and a page, a stream or a server that has ended has nothing left to do.

* *Streams.* Fairness asks only for what Node, the drivers and the timers
  give: connecting ends in success or failure (the `pg` client has a connection timeout and each
  query an answer or an error), a rejected `connect()` is reported, a timer that is set fires, a notification
  that has arrived is handled, a dead session is noticed (`keepAlive`), the second access check answers
  or fails, heartbeats are sent, and the access check of a visitor who has no access is made and fails.
  It asks for no success of anything, no commit, and nothing of browsers: they may never read. All of it is
  weak fairness. Without a notification of its own a stream may break at any time; so the promise is
  "told, or ended", and it is the client that asks again.
* *Client.* Requests are answered or fail, the hook's timer goes on (`Reconcile`), effects run, and a drag comes to an
  end unless the board is lost, which takes away the elements that would report it. Strong fairness is asked of the snapshot and of an answer to a refresh: not all refreshes fail for ever. Nothing is asked
  of the stream, nor of any other request's success: the timer alone makes the page converge.
* *Controls.* Each request ends in some way, each load is answered or fails, and continuations run. Nobody is bound to press anything.
* *Retention.* Processes' timers and steps go on, and the schedule's window ends. Failures need no fairness: they are bounded, which says
  that they stop.
* *Lifecycle.* Event loops turn and timers fire. Nothing is asked of the cleanup, the listener, the operator, or how long Next takes to start.

### Properties

* `PlacesDistinct`: positions are distinct within each of the three lists and in range.
* `OrderKept`: a step moves at most one item relative to the others, except
  that a move in a vote-sorted column writes out the vote order, in a column the item leaves too.
* `GroupsIntact`: size, column, primary card and strict order of a group's cards. The
  database enforces none of these, and `deleteTargetCard` and `ungroupCardGroup` rely on them.
* `PlaceInherited`: a group stands where its first card stood; what dissolves it puts the
  survivors there in their order.
* `QuotaRespected`: a vote's column is its card's; a visitor's slots differ and are within
  the limit. It implies that the number of votes is too.
* `ReferencesResolve`: every reference is to a row that exists.
* `ChangesAllowed`: a vote on a card that stays is only lost by its visitor's or the owner's reset; read-only, disabled
  cards and disabled voting hold against every operation that could get round them; each step counts one revision.
* `ReadersAgree`: pages of any size put together, the export and the rows list the same items in the same order; and a drop, in a column
  shown by position or by votes, is resolved by the server to the order the client showed.
* `OffersHold`: every control the page offers a viewer is one the services accept, and what the snapshot's flags and remaining votes deny him they refuse;
  every vote can be taken back where its card is now. Two exceptions are stated with it: a drop may be refused for the votes it takes along; and the server takes
  a vote for any card of a group, for which the page has one button, its primary card's, so for new votes it is the flag that is compared and not the buttons.
* `TypeOK`: the type invariant of `BoardContent`, `BoardStream`, `VisitorSession`, `BoardAccess`, `Retention` and `Lifecycle`; proved, and
  a part of each inductive invariant.

Of the streams:

* `LeasesMatch`: the count is that of requests under way that are not closed, so each lease is
  given back once, whichever of abort, listener loss, full buffer, failed check and error comes first or with another.
* `SubscribedWhileListening`: a subscription exists only while the connection it relies on executed
  LISTEN and is still the listener's, even if a shutdown or disconnection overtakes `connect()`.
* `NothingMissed`: while the session lives, what a stream was not told is still to come, through the
  gap between subscription and snapshot too.
* `OneConnection`, `RetryNeverLost`: failures in any order lead to one later attempt, never to none
  and never to a second connection over a live one.
* `PromiseKept`, `RequestsAnswered`: the safety of `RevisionStream`; every request is answered, and every commit told or the stream ends.
* `StreamsEnd`: a revoked visitor's stream ends; a browser that vanished silently loses its lease, because heartbeats fill
  its buffer.

Of the page:

* `OneRevision`: no page of another revision is merged into the board shown.
* `LostStaysLost`: a page that has lost its board says so for good, its hook is over and its stream has ended, whichever refresh, later page, drag or move was under way and
  however late it is answered. It speaks of `error`, which decides what is rendered, not of the board that is held.
* `MovesOnTruth`: an unconfirmed move is shown only while under way; and a move is saved only if it was computed from the last revision,
  complete and without a move of its own.
* `KnownStaleIsSaid`: a page that knows of a revision it lacks, with nothing under way to get it, does not say that it is current.
* `NeverBackwards`: the revision shown decreases only to take back a move.
* `Converges`: when commits stop, the page gets to the last revision, or to knowing that the board is lost.
* `OncePerInput`: a control that creates something is not open again once it knows that the request took effect.
* `DestroysAsConfirmed`: cards go with their column only if they were shown in it and the word was typed for it; votes are reset and boards deleted
  only with the word typed for that.
* `ControlsSettle`: no control waits for ever for a load that was joined, superseded or failed.

Of access:

* `NeverTimesOut`: a session is never found expired while a cookie that selects it verifies, so
  `ANONYMOUS_SESSION_INACTIVE` means revoked.
* `CredentialsOutliveBoards`: no row of a living board names a session that has expired or is gone, nor a
  visitor whose cookie, once the browser had it, has expired.
* `TombstonesKept`: nothing replaces or drops a revoked session under a cookie that verifies.
* `UniqueRows`: what the unique indexes state holds by the code alone, so no transaction relies on the
  index to refuse it.
* `LimitsKept`: limits of active and of lifetime rows; uses at most the maximum, each
  remembered redemption among them.
* `SessionsReferenced`: neither deletion nor cleanup takes a session from under a row.
* `OwnerKept`: nobody displaces an owner whose session is active.
* `RedemptionsRemembered`: whoever left or was removed does not come back by the same link; pruning an
  owners' history forgets only redemptions of claims or of revoked sessions.

Of the processes:

* `OneCleanup`: two processes are past the lock at once only if one lost its connection.
* `LimitsHold`: no window admits more than its limit, nor an interval more than one scheduled cleanup.
* `LivingKept`, `ExpiredGo`: only what has expired is deleted; all of it is, again and again, once failures stop.
* `DrainedFirst`: the signal is passed on once, and after the drain unless something went wrong; a drain is complete only when no cleanup runs or will and the listener it
  found, if it found one, is closed.
* `ShutdownsEnd`: a signal or a lost channel is passed on, a second signal ends both, an orphan with its hooks installed tells Next to exit.

### Disagreements

`docs/api.md:170` says "One session can own at most 20 active boards." Only
`createTargetBoard` counts (`board-settings-service.ts:68`); `redeemBoardInvitation` makes a session the owner of
one more board by an owner claim whatever it owns (`acl-service.ts:711`). `OwnedLimit` is that run.

`board-state.ts:55` says "With the same revision the product state is unchanged", and `mergeBoardRefresh` relies on it. Redeeming an owner claim
changes the viewer's role without a new revision (`acl-service.ts:711`), so a page that is open elsewhere keeps the
participant's controls until the next revision. `SameRevision` is that run.

### Remarks

Things met while modelling that no run calls wrong, for whoever works on this code:

* `docs/architecture.md:132` says that the advisory lock "allows only one cleanup worker to run at a time". A worker whose lock connection is lost
  finishes its present statement or chunk while another may begin; `OneCleanup` states what remains, and `LivingKept` that it does no harm.
* A signal that the operator sends after the supervisor has lost its channel, and so passed one on already, is forwarded as a kill, like a
  second signal. A supervisor that dies before the server has installed its hooks leaves the server running.
* A listener that is made while the server drains, or after, is closed by nobody and listens until the process exits: the events route (`events/route.ts:73`) makes it without asking
  whether the server drains, and `shutdownPostgresBoardListener` (`postgres-board-listener.ts:265`) has nothing to close before it is made. `docs/architecture.md:140` says of
  a shutdown that the process "closes the PostgreSQL listener"; `DrainedFirst` states what holds.
* A move that is refused after the board was lost sets the board again (`board-page-client.tsx:603`). It is not shown, because `error` is looked at first (`:618`).
* Each attempt of a transaction is rolled back before the next, so that no request takes effect twice holds by how the attempts are modelled (`AttemptFails`), and
  no property says it. A request whose answer is lost may have taken effect, and the person who sent it may send it again: nothing in the code tells the two apart.
* The settings' drafts are taken when the panel opens (`board-settings-panel.tsx:155`). Saving the general section or a column later sends
  them without a revision, and so may overwrite what another owner's page saved meanwhile.
* `onChanged` without `force` joins the load under way, which may have read the board before the change was saved: the control closes and the
  board shows its change only with the next refresh. Only the quick column dialog compares revisions.
* In the panels, `createColumn` and `createInvitation` keep what was typed when a saved request's answer has an unreadable body: the panel cannot know, and sending again
  creates a second one (for a column only after the revision shown has been refreshed).
* A drag is offered without regard to the target column's vote limit; the server refuses it with a conflict and the page takes the move back.
* The refresh of a session with 365 days or less (`SESSION_REFRESH_THRESHOLD`)
  is a second line of defence, as a cookie at most 30 days old already goes with a session of more than 370;
  and the day by which a session outlasts its cookie is what a refresh that writes late, over a newer one,
  takes from it.

## 4. Proofs

All are for every value of the constants that satisfies the modules' assumptions:

* `PositionAssumption`: the step is at least 2 and the range contains 0 and one step.
* `ContentAssumption`: the sets of ids are finite and their ids positive; the owner is a
  member; defaults are within limits.
* `RoomAssumption`: one step for each row there can be, and one more, fits the range. The
  code has it by its limits (at most a few thousand cards of 1024 each in 2^31).
* `StreamAssumption`, `ClientAssumption`, `ControlsAssumption`, `LifetimeAssumption`, `AccessAssumption`, `RetentionAssumption`, `LifecycleAssumption`: see below.

| Theorem | States |
|---|---|
| `BoardContentProofs!InsertedInPlace` | insertion keeps a well-placed list well placed and puts the element where it was asked to be, with or without room |
| `BoardContentProofs!TypeCorrect` | `Spec => []TypeOK` |
| `BoardContentProofs!ReferencesAlwaysResolve` | `Spec => []ReferencesResolve` |
| `BoardContentProofs!GroupsAlwaysIntact` | `Spec => []GroupsIntact` |
| `BoardContentProofs!QuotaAlwaysRespected` | `Spec => []QuotaRespected` |
| `BoardContentProofs!PlacesAlwaysDistinct` | `Spec => []PlacesDistinct` |
| `BoardContentProofs!OrderAlwaysKept` | `Spec => OrderKept` |
| `BoardContentProofs!PlaceAlwaysInherited` | `Spec => PlaceInherited` |
| `BoardContentProofs!OnlyAllowedChanges` | `Spec => ChangesAllowed` |
| `BoardContentProofs!ReadersAlwaysAgree` | `Spec => []ReadersAgree` |
| `BoardContentProofs!PagesAlwaysMakeTheList` | pages of any size make the column's list, in every state of `Spec` |
| `BoardContentProofs!OffersAreAccepted` | in every state of `Spec`, what a page's snapshot allows is what the operations' conditions allow: `OffersHold` with named conditions for `ENABLED` |
| `BoardContentProofs!OnlyOfferedIsDone` | `Spec => [][\A m \in Member : OfferedTo(m)]_vars`: no operation is done for a member whose snapshot did not allow it |
| `BoardStreamProofs!LeasesAlwaysMatch` | `Spec => []LeasesMatch` |
| `BoardStreamProofs!AlwaysListening` | `Spec => []SubscribedWhileListening` |
| `BoardStreamProofs!NothingEverMissed` | `Spec => []NothingMissed` |
| `BoardStreamProofs!AlwaysOneConnection` | `Spec => []OneConnection` |
| `BoardStreamProofs!RetryNeverForgotten` | `Spec => RetryNeverLost` |
| `BoardStreamProofs!PromiseAlwaysKept` | `Spec => PromiseKept`: `BoardStream` refines the safety part of `RevisionStream` |
| `BoardClientProofs!PagesOfOneRevision` | `Spec => []OneRevision` |
| `BoardClientProofs!NothingBringsBack` | `Spec => []LostStaysLost` |
| `BoardClientProofs!MovesAreTrue` | `Spec => []MovesOnTruth` |
| `BoardClientProofs!StaleIsSaid` | `Spec => []KnownStaleIsSaid` |
| `BoardClientProofs!OnlyFailuresGoBack` | `Spec => NeverBackwards` |
| `BoardClientProofs!OneStreamAtATime` | a page that is to ask for a stream has none: the former one has ended, or it has heard so |
| `BoardClientProofs!PageImplementsStream` | `Spec => Stream!Safety`: the page, too, refines the safety part of `RevisionStream` |
| `BoardControlsProofs!SentOncePerInput` | `Spec => []OncePerInput` |
| `BoardControlsProofs!DestroyedAsConfirmed` | `Spec => DestroysAsConfirmed` |
| `VisitorSessionProofs!CookieNeverTimesOut` | `Spec => []NeverTimesOut` |
| `VisitorSessionProofs!BoardsExpireFirst` | `Spec => []CredentialsOutliveBoards` |
| `VisitorSessionProofs!TombstonesStay` | `Spec => TombstonesKept` |
| `BoardAccessProofs!AccessTypeCorrect` | `Spec => []TypeOK` |
| `BoardAccessProofs!RowsStayUnique` | `Spec => []UniqueRows` |
| `BoardAccessProofs!LimitsAlwaysKept` | `Spec => []LimitsKept` |
| `BoardAccessProofs!SessionsStayReferenced` | `Spec => []SessionsReferenced` |
| `BoardAccessProofs!OwnersStay` | `Spec => OwnerKept` |
| `BoardAccessProofs!RedemptionsStayRemembered` | `Spec => RedemptionsRemembered` |
| `RetentionProofs!CleanupsExclude` | `Spec => []OneCleanup` |
| `RetentionProofs!WindowsHold` | `Spec => []LimitsHold` |
| `RetentionProofs!LivingStay` | `Spec => LivingKept` |
| `LifecycleProofs!SignalFollowsDrain` | `Spec => []DrainedFirst` |

**The argument.** Neither `TypeOK` nor `ReferencesResolve` nor `GroupsIntact` is inductive by
itself: an action item created from a group takes the primary card as its source, which is live
only because groups are intact; a vote's slot is positive only because its card's column is live
and has a limit; a group is intact after a card of it is deleted only because the card's group
is live and had two cards. Their conjunction is: `Sound` says all three in parts, one per kind of
row, so that each operation's proof expands the parts the operation disturbs and cites `Frame`
for the others. `SoundInvariant` has one lemma per operation. Below them are lemmas on what the
operators return: a rank is less than the size of the set and injective for a strict order, a
renumbering and an insertion give an integer to each row, a non-empty finite set that is strictly
ordered has a first element, a compaction keeps the shape of votes.

`QuotaRespected` is inductive together with `Sound`. A step keeps it in one of three ways, each a
lemma: it deletes votes while the rest of them stay where they are and no limit is lowered
(`FewerVotesQuota`), it leaves votes, their cards' columns and their limits alone
(`SameVotesQuota`), or it moves cards with their votes (`MoveVotesQuota`). The last rests on
`CompactedQuota`, that compaction numbers a visitor's votes from 1 without a gap or a
repetition, and on `WithinQuota`, that votes with different slots within a limit are no more
than the limit, so that what is left behind fits as well as what arrives.

`PlacesDistinct` is inductive together with `Sound`, and `RoomAssumption` is what it rests on: a renumbering gives the i-th row
the i-th step, which must still fit. The lemmas are about lists, and serve items, columns and action items alike. `Room` says
that every list there can be fits with one more row; `InsertedKeeps`, that an insertion into a well-placed list is well placed
and moves no other row, with a gap or by a renumbering; `RenumberedPlaced`, that a renumbering places rows in the order it is given.
Two operations do not insert. Ungrouping shares the gap around the group among its cards and, where it is too narrow, renumbers the
column with the cards spliced in: `SplicedStrict` says that the result is a strict order in which nothing else moves, `Shares` that
an integer division of a gap of more than n numbers among n cards keeps them apart. Deleting a column appends its items behind the
target's (`AppendedPlaced`). Each operation then leaves each column `Orderly`: well placed, and all items but one in their order, or in
that of their votes, which `ItemMoved` needs for a move in a column sorted by votes. `NextOrdered` is the conjunction over the three kinds of lists;
`PlacesDistinct` and `OrderKept` both follow from it. For `PlaceInherited` the lemmas that describe the two ways a group can go (`LastCardLeft`,
`GroupTakenApart`) and the one it can come (`GroupFormed`) are used again. `ChangesAllowed` is not about positions, but needs both invariants: moving
cards out of a deleted column while cards are disabled changes nothing because a column without cards has no groups (`NothingMoved`), and
the votes that go with a deleted column are those of its cards because each vote is in its card's column, a part of `QuotaRespected`.

`ReadersAgree` is a consequence of `Sound` alone: it says what follows from the rows, by whatever steps they came about. It rests on what a list is (`Lists`: each
element once, in an order) and on there being one list of a set in a strict order (`ListedOnce`). A list without one of its elements is a list (`ListedWithout`), and
so is one with an element put in, whose neighbours there name its place (`ListedInserted`); `DropsAgree` applies both to the order the client shows. The export's order is the pages' because
cards' ids come before groups' (`ExportListsItems`). Pages and export rows are functions that recurse over a list: `PagesMakeTheList` and `JoinedHoldsAll` argue by
the least number of items left for which the statement fails (`Least`), and first show that such a function exists, as a `CHOOSE` of it says nothing otherwise.

`OffersHold` says what the server accepts with `ENABLED`, which the proof system cannot expand, so its content is proved in two halves that do without. That the
server accepts no more than the page's snapshot allows is a statement about steps, `OnlyOfferedIsDone`, and covers all operations and their placements. That it accepts no less
needs names for what an operation asks of the state before it: `MayEdit`, `MayVote`, `MayTakeBack`, `MayMove`, `MayGroup`, `MayUngroup`, `MayLimit`, `MayCreate` and
the model's `MayDeleteColumn` are the operations' conjuncts without primed variables (`DoneIsAccepted`), and all else in an operation assigns one value to each variable; where
that is not plain, for the slot of a vote and for the three ways a move writes, `AcceptedIsDone` gives the values. The one condition besides is that the
revision can be incremented. `OffersAreAccepted` then says that the page's computation and the condition agree. It is more general than
`OffersHold` where that names one case: any selection of cards for a group, any raised limit, and any drop, within a column or into another, in columns shown by position or by votes.
It needs both invariants. The votes that remain are a count and the server looks for a free slot: `SlotsLeft` makes the visitor's votes an injection into the slots by `QuotaRespected`,
which misses one exactly if they are fewer than the limit. The button of a group is its primary card's, so that every vote has a button where its card is now follows from
`GroupsIntact` (`ButtonsOfCards`); so does that a column shows nothing exactly if it has no cards (`EmptyColumn`), which the page looks at to offer its deletion. That a drop's placement resolves is `DropsAgree`.

For the streams the assumption is `StreamAssumption`: finitely many requests, and a buffer that holds
the two messages a stream starts with. The inductive invariant `Sound` of `BoardStreamProofs` joins five
facts that need each other. `ConnectionSound`: nothing waits in the channel of a client that does not listen, the
timer is not set beside a client, and there is neither after a shutdown. `ChannelSound`: the channel of a
live session is empty or ends with the board's revision, since a commit notifies in its transaction.
`StreamsFit`: a request's local state fits how far it is, and holds no revision the board does not have.
`LeasesMatch` and `SubscribedWhileListening` are parts as they stand. And when a live session's channel is empty, every
subscribed request is up to date: it has sent the revision, or holds it in its answer or its pending event.
The last fact is why delivery of the last notification is the interesting case: only then does it have to
be established, and there the notification is the board's revision by `ChannelSound`. Steps of one kind share a
lemma (`QuietStep`, `OneRequestStep`, `LeasesReleased`, `NotifySound`). `PromiseAlwaysKept` uses the
invariant: an open stream may only be told a revision the board has, a closing request is subscribed and
therefore not aborted, and the messages of a request that is being opened are none.

For a page the assumption is `ClientAssumption`: `None` is none of the values it stands in for, and the hook tries at least once. None of
its four invariants is inductive. `IInv` of `BoardClientProofs` adds what the page's requests, the hook and the server have to do with each other.
`Boards`: every board the page keeps anywhere (shown, kept by a drag, a move's previous one, an answer under way) is of one revision the server had,
and a tentative one that is not under way is behind the server. `Wired`: what the stream holds is in order and ends with what was told last.
`Awaiting`: the hook's run awaits the last load or an overtaken one, and never both. `AnswerNew`: an answer under way is at least as
new as what the page shows or keeps for the end of a drag, since a load that is overtaken is forced after it; so displaying it never goes back. `Applied`: what the
hook takes for applied is on the page unless a failed move took it back, and then a refresh is under way or its failure is said. `Lost`: of a lost board no load, no run of the
hook and no stream is left, and it is said to be lost; of drags, moves and later pages it says nothing but that a drag then holds no board, so that `NothingBringsBack` is about every way they end. `Truthful` is `KnownStaleIsSaid` without its
exceptions: it must hold with a drag, a move or a load under way too, for any of them may end without an effect. `OnlyFailuresGoBack` follows from `IInv`:
only `MoveFails` puts back an earlier board. The steps that begin with a move's or a drag's board are gone through for a lost page too (`LostMovesKeep`).

`PageImplementsStream` closes the gap between the two sides of a stream. `PromiseAlwaysKept` says that the server behaves as `RevisionStream` allows, whatever its browser does within it;
`PageImplementsStream`, that the browser does nothing else. `BoardClient` takes its stream's steps from `RevisionStream`, so what is left to show is that the steps it builds from them are
among those allowed: that it asks from a revision the promise covers (`applied` is a revision the board has had, by `Awaiting`), and that every way out of a stream, whichever answer
caused it and at whatever stage, ends it there or finds it ended. `OneStreamAtATime` says that `Connect` is never held up by a stream of the page's own: the guard that `RevisionStream` has
(no request is under way) holds whenever `runConnection` is to ask again.

For the controls the assumption is `ControlsAssumption`: the controls used together are some of the 27, and `None` is neither a revision nor a request.
What is used of the table `Does` is little (`DoesFacts`): what creates something does not leave the page, a column's deletion always carries the revision, and
what cannot be undone asks for a word. `IInv` of `BoardControlsProofs` says of each control (`Held`) that a typed word was confirmed and that what is saved already
is neither open nor waits for a refresh that would open it; the last needs `Waits`, that a control waits for one load only and is in no other phase meanwhile,
as the page's loads are shared and a forced one leaves others waiting for the one before. `Asks`: the request a sent control awaits is under way and names the
control, so that an answer reaches who asked, though controls go away and slots are used again. `Founded`: a request that deletes a
column carries the revision its cards were seen at. Boards read at one revision are one board (`BoardsRead`), so the server, which compares revisions only, deletes only what was seen.
Steps are grouped by what they change: one control (`ControlStep`), one request (`RequestStep`), those who wait for a load (`ReleaseStep`), the board (`NewRevision`).

For sessions the assumption is `LifetimeAssumption`: a cookie's refresh interval and a board's retention
together fit a cookie's lifetime, as 30 + 365 <= 400. `NeverTimesOut` is not inductive, because a session is
judged against the newest cookie and the boards against both. The invariant `IInv` adds that no refresh that was
read is older than a day (`TimesPast`), that a session lasts at least as long as its newest cookie
(`SessionsLast`), that boards end within their retention (`BoardsEnd`), and that rows and answers are
backed by a session and a cookie that last longer (`RowsBacked`, `AnswersBacked`). Each way a session is written has a lemma of
what it leaves (`ResolvedLasts`, `PreservedLasts`), and each action one that it keeps `IInv`.
`TombstonesStay` follows from `SessionsLast`: what the cleanup deletes has expired, and then so has the cookie.

For access the assumption is `AccessAssumption`: finitely many sessions and boards, and limits of at least 1.
The inductive invariant `IInv` of `BoardAccessProofs` joins `TypeOK`, the three parts of `UniqueRows` and
`SessionsReferenced` with two facts that none of them says. `RowsOnBoards`: a board that is not there has no rows, so
that the first owner of a new board is its only one. `OwnersRevoked`: an owner's row is revoked only after its session was,
since owners cannot leave or be removed and a claim displaces inactive owners only; and a session is never un-revoked
while a row names it. Steps that only delete or revoke rows share the lemma `FewerRows`, insertions share `OneMember` and
`OneInvitation`, and the three ways to redeem share `RedeemedIInv`. In `ClaimOwnership` the new owner is the only one
because whoever was an owner is displaced or is the session itself, whose memberships are participants' there.
`OwnerKept` and `RedemptionsRemembered` follow from `StepStays`: a row of a board that stays active is
gone after a step only if it was pruned, then it was a revoked owner's, and by `OwnersRevoked` its session is
not active.
`LimitsKept` counts rows, so `Limited` adds to it that redemptions are finitely many; members and invitations are, as their ids are. A step that
deletes, revokes or lets expire adds none to any count (`NoMore`), one that inserts adds one to those of one board (`OneMore`), after the guard compared
the same count with the limit. A new board is the case without a guard: it has no rows before its owner's by `RowsOnBoards`. Pruning for a claim is the
other: what is left of the lifetime rows has room for the owner's (`PrunedRoom`). Each use that is remembered was counted when it was made; an
invitation that takes the number of a deleted one has no uses, as no redemption names an invitation that is not there.


For the cleanup the assumption is `RetentionAssumption`: rows and boards are finitely many, each row has a kind and, unless it is a
session, a board, only cards are in groups, and limits, batches and chunks are at least 1. The inductive invariant `IInv` of `RetentionProofs` joins `TypeOK`
with `OfExpired` (what a process queued or chose belongs to boards that have expired, and expired boards stay so), `LockHeld` (a process
past the lock holds it or lost its connection), and `Counted` (a window's row counts what was admitted in it). `OneCleanup` is then a
consequence of `LockHeld`: two holders of one lock are one. Most steps are those of one process and share `StepOf`, `GoOn` and `Ends`.

For the shutdown the assumption is `LifecycleAssumption`: a number of signals, any. `DrainedFirst` speaks of runs in which nothing went
wrong, so `IInv` of `LifecycleProofs` says what such a run has: `AnswersTrue` (an answer under way tells how the drain ended), `DrainGoesOn` (a
drain that began lets no cleanup start again, and the listener it found is closing or closed before it is complete; one that is made later is told apart), `PassedOn` (once, and by then the drain is complete) and `Undisturbed` (until the signal is
passed on, a living supervisor has its channel and a server that neither stops nor was told to).

**Only model-checked.** All liveness: `RequestsAnswered`, `StreamsEnd`, `Converges`, `ControlsSettle`, `ExpiredGo`, `ShutdownsEnd`; the proof
system does not reason about liveness under fairness. `OffersHold` as it stands, because it uses `ENABLED`, which is out of its reach too: TLC
checks that, and the two theorems above say the same of the operations' conditions and steps. Every other
invariant and action property of a passing run is a theorem above.

## 5. Not modelled

* Translations, styles, texts and formatting, the pages for starting and joining a board, accessibility: no state the properties could be about.
* Validators, signatures and cookies' attributes, token formats (a token selects a row or none), same-origin checks and headers: they refuse a
  request before it reaches what is modelled, or do not. The keys of rate limits: in `BoardStream` their refusal may come at any request.
* `boards-service.ts`, the former API: no route calls it, and `target-content-service.ts` only re-exports what is modelled.
* In the modelled services: wording of errors, the answers' shape, texts, names and assignees. Renaming a member changes a name and the revision; of it
  only the control is modelled. The link from a card to a membership that pruning clears is left out, as nothing depends on it.
* Exports' file formats and quoting: `ReadersAgree` is about their items and order.
* The event stream's bytes: `sse-client.ts` parses them, its state between chunks would be a parser's, which tests reach. The
  parsing of a malformed `Last-Event-ID` is left out for the same reason.
* Schema migrations, Docker and compose files, scripts for tests and releases: run once and outside the program. `prisma/schema.prisma` enters by the foreign keys
  and unique indexes that the models refer to.
* Next.js, PostgreSQL, `pg` and the browser are modelled by what the code relies on: serial transactions under a lock, NOTIFY at commit to
  whoever listens, an event loop, a closed connection.

## 6. Plan

What is left, in order of what it would add.

1. Composition of `BoardClient` with several processes' `BoardStream`, beyond the promise they share.
2. `sse-client.ts` as a function of its chunks, checked against the events whatever the cut.
