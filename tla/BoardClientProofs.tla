-------------------------- MODULE BoardClientProofs --------------------------
(***************************************************************************)
(* A page shows one revision, its moves rest on the last one, it never     *)
(* goes back, and it says so when it is behind: for any number of commits, *)
(* attempts, streams, drags and pages.                                     *)
(*                                                                         *)
(* What all of it rests on is that an answer is never older than what the  *)
(* page has when it arrives (AnswerNew), although answers are not compared *)
(* with it: a request that another one overtakes is not looked at, and the *)
(* page's board is only replaced by answers.  That a page that is behind   *)
(* says so (Truthful) needs besides to know of the hook's run that it      *)
(* awaits something for as long as it lasts (Awaiting), and of the answer  *)
(* it does not await that it is not the news it was told of.               *)
(***************************************************************************)
EXTENDS BoardClient, TLAPS

Load == [stage : {"none", "asked", "answered"}, answer : Board \cup {None},
         hook : BOOLEAN, move : BOOLEAN]

Run == [attempt : Nat, observed : Nat, previous : Nat]

Status == {"connecting", "online", "polling"}

TypeOK ==
    /\ revision \in Nat /\ access \in BOOLEAN
    /\ stage \in Stream!Over \cup {"opening", "open"}
    /\ since \in Nat \cup {None} /\ told \in Nat /\ wire \in Seq(Nat)
    /\ role \in {"PARTICIPANT", "OWNER"} /\ paged \in BOOLEAN
    /\ shown \in Board \cup {None}
    /\ drag \in Drag \cup {None}
    /\ move \in Move \cup {None}
    /\ more \in Later \cup {None}
    /\ load \in Load
    /\ accessLost \in BOOLEAN /\ error \in BOOLEAN /\ syncError \in BOOLEAN
    /\ requested \in Nat /\ applied \in Nat /\ rendered \in Nat
    /\ refresh \in Run
    /\ superseded \in BOOLEAN
    /\ connection \in {"waiting", "asked", "online", "over"}
    /\ status \in Status

\* Of a lost board nothing is asked any more and nothing is heard.  The page may hold
\* it again, when a move or the drag that was under way has been taken back.
Lost ==
    /\ error = accessLost /\ (~error => shown # None)
    /\ error => /\ load = NoLoad /\ refresh = Idle /\ ~superseded
                /\ connection = "over" /\ stage \in Stream!Over
                /\ drag # None => shown = None

\* A board as it was read: one revision, which the server's has reached, and
\* nothing of the page's own.  A move shown on a board is not in that revision,
\* but is in a later one if it was saved.
Genuine(b, r) == b.revision <= r /\ b.pages = {b.revision}
Old(b, r) == b.tentative => b.revision < r

Boards ==
    /\ shown # None => Genuine(shown, revision)
    /\ (shown # None /\ drag = None /\ (move # None => move.stage # "sent")) => Old(shown, revision)
    /\ drag # None => /\ move = None
                      /\ Genuine(drag.previous, revision) /\ Old(drag.previous, revision)
                      /\ shown # None => shown.revision = drag.previous.revision
    /\ (drag # None /\ drag.pending # None) =>
          /\ Genuine(drag.pending, revision) /\ ~drag.pending.tentative
          /\ drag.pending.revision >= drag.previous.revision
    /\ move # None => Genuine(move.previous, revision) /\ Old(move.previous, revision)
    /\ (move # None /\ move.stage = "saved") =>
          move.previous.revision = move.saved - 1 /\ ~move.previous.tentative
    /\ load.answer # None => Genuine(load.answer, revision) /\ ~load.answer.tentative

\* The revision of the board that is shown, or will be once the drag ends.
Held == IF drag # None /\ drag.pending # None THEN drag.pending.revision ELSE shown.revision

Undone == move # None /\ move.stage = "undone"

\* The stream's last revision is the last to be read from it.
Wired ==
    /\ told <= revision
    /\ \A i \in DOMAIN wire : wire[i] <= revision
    /\ stage = "open" /\ wire # <<>> => wire[Len(wire)] = told

\* The hook's run awaits the last refresh or an overtaken one, and never both.
Awaiting ==
    /\ refresh = Idle <=> ~load.hook /\ ~superseded
    /\ ~(load.hook /\ superseded)
    /\ load.stage = "none" => ~load.hook /\ ~load.move
    /\ load.stage # "answered" => load.answer = None
    /\ load.move => move # None /\ move.stage \in {"refreshing", "undone"}
    /\ refresh.observed <= requested /\ requested <= revision
    /\ applied <= revision /\ rendered <= revision

\* An answer is as new as all the page has had; and as what it was told of, unless
\* the hook is to hear the answer, or to ask again.
AnswerNew ==
    load.answer # None =>
        /\ ~error => load.answer.revision >= Held
        /\ load.answer.revision >= applied
        /\ superseded => load.answer.revision >= refresh.observed
        /\ refresh = Idle => load.answer.revision >= requested

\* What was applied is what the page has, unless a failed move took it back.
Applied == ~error => applied <= Held \/ Undone \/ syncError

Truthful ==
    (~error /\ refresh = Idle /\ status = "online" /\ ~syncError /\ ~Undone /\ requested > Held)
        => StillToCome

IInv == TypeOK /\ Lost /\ Boards /\ Wired /\ Awaiting /\ AnswerNew /\ Applied /\ Truthful
-----------------------------------------------------------------------------
(* Records.                                                                *)

LEMMA Something ==
  /\ \A b \in Board : b # None /\ b.revision \in Nat /\ b.tentative \in BOOLEAN
                       /\ b.nextCursor \in BOOLEAN
  /\ \A d \in Drag : d # None /\ d.previous \in Board /\ d.pending \in Board \cup {None}
  /\ \A m \in Move : /\ m # None /\ m.previous \in Board /\ m.saved \in Nat
                      /\ m.stage \in {"sent", "saved", "refreshing", "undone"}
  /\ \A l \in Load : l.hook \in BOOLEAN /\ l.move \in BOOLEAN /\ l.answer \in Board \cup {None}
                      /\ l.stage \in {"none", "asked", "answered"}
  /\ \A l \in Later : l # None /\ l.requested \in Nat /\ l.answer \in Nat \cup {None}
  /\ \A r \in Run : r.attempt \in Nat /\ r.observed \in Nat /\ r.previous \in Nat
BY ClientAssumption DEF Board, Drag, Move, Load, Later, Run

\* Showing a move changes nothing else of a board.
LEMMA Tentative ==
  ASSUME NEW b \in Board, NEW t, t = [b EXCEPT !.tentative = TRUE]
  PROVE  t \in Board /\ t.revision = b.revision /\ t.pages = b.pages /\ t.tentative
BY DEF Board

\* A page that is merged is of the revision of the board.
LEMMA PageMerged ==
  ASSUME NEW b \in Board, NEW r \in Nat, NEW t, t = MergePage(b, r)
  PROVE  /\ t \in Board /\ t.revision = b.revision /\ (t.tentative <=> b.tentative)
         /\ b.pages = {b.revision} => t.pages = {t.revision}
<1>1. CASE b.revision = r /\ b.nextCursor
  BY <1>1 DEF Board, MergePage
<1>2. CASE ~(b.revision = r /\ b.nextCursor)
  BY <1>2 DEF MergePage
<1> QED  BY <1>1, <1>2

LEMMA Read ==
  ASSUME TypeOK
  PROVE  /\ Snapshot \in Board /\ Snapshot.revision = revision /\ ~Snapshot.tentative
         /\ Snapshot.pages = {revision}
BY DEF TypeOK, Snapshot, Board

\* A call of commitDndMove that goes on.
LEMMA MoveGoesOn ==
  ASSUME NEW m \in Move, NEW to \in {"sent", "saved", "refreshing", "undone"}, NEW n,
         n = [m EXCEPT !.stage = to]
  PROVE  n \in Move /\ n.stage = to /\ n.previous = m.previous /\ n.saved = m.saved
BY DEF Move

LEMMA MoveSaved ==
  ASSUME NEW m \in Move, NEW r \in Nat, NEW n,
         n = [m EXCEPT !.stage = "saved", !.saved = r]
  PROVE  n \in Move /\ n.stage = "saved" /\ n.previous = m.previous /\ n.saved = r
BY DEF Move

\* Refreshes that are asked, and one that is answered.
LEMMA Askings ==
  /\ NoLoad \in Load /\ NoLoad.stage = "none" /\ NoLoad.answer = None
  /\ ~NoLoad.hook /\ ~NoLoad.move
  /\ Asked \in Load /\ Asked.stage = "asked" /\ Asked.answer = None
  /\ ~Asked.hook /\ ~Asked.move
  /\ Idle \in Run /\ Idle.observed = 0
BY DEF NoLoad, Asked, Load, Idle, Run

LEMMA LoadJoined ==
  ASSUME load \in Load, Awaiting
  PROVE  /\ Joined \in Load /\ Joined.answer = load.answer
         /\ ~accessLost => Joined.stage # "none"
         /\ accessLost => Joined = load
         /\ (Joined.hook <=> load.hook) /\ (Joined.move <=> load.move)
         /\ Joined.stage = "answered" <=> load.stage = "answered"
BY Askings DEF Joined, Load, Awaiting

LEMMA LoadRead ==
  ASSUME NEW a \in Board \cup {None}, load \in Load,
         load' = [load EXCEPT !.stage = "answered", !.answer = a]
  PROVE  /\ load' \in Load /\ load'.stage = "answered" /\ load'.answer = a
         /\ (load'.hook <=> load.hook) /\ (load'.move <=> load.move)
BY DEF Load

LEMMA LoadForced ==
  ASSUME NEW awaited \in BOOLEAN, Forced(awaited), ~accessLost
  PROVE  /\ load' \in Load /\ load'.stage = "asked" /\ load'.answer = None
         /\ ~load'.hook /\ (load'.move <=> awaited)
         /\ superseded' = (superseded \/ load.hook)
BY DEF Forced, Load, Asked, NoLoad

LEMMA Hooked ==
  ASSUME NEW l \in Load, NEW h, h = [l EXCEPT !.hook = TRUE]
  PROVE  /\ h \in Load /\ h.hook /\ h.stage = l.stage /\ h.answer = l.answer
         /\ (h.move <=> l.move)
BY DEF Load

\* A run of the hook that begins awaits the refresh under way, or one that is asked now.
LEMMA RunBegins ==
  ASSUME NEW attempt \in Nat \ {0}, NEW observed \in Nat, NEW previous \in Nat,
         NEW left \in Load, BeginRefresh(attempt, observed, previous, left),
         left.stage = "none" => left.answer = None /\ ~left.move
  PROVE  /\ refresh' \in Run /\ refresh' # Idle /\ refresh'.observed = observed
         /\ load' \in Load /\ load'.hook /\ load'.stage # "none"
         /\ load'.answer = left.answer /\ (load'.move <=> left.move)
         /\ load'.stage = "answered" <=> left.stage = "answered"
<1>1. refresh' \in Run /\ refresh'.observed = observed /\ refresh'.attempt # Idle.attempt
  BY DEF BeginRefresh, Run, Idle
<1> DEFINE base == IF left.stage = "none" THEN Asked ELSE left
<1>2. base \in Load /\ load' = [base EXCEPT !.hook = TRUE]
  BY Askings DEF BeginRefresh
<1>3. /\ load' \in Load /\ load'.hook /\ load'.stage = base.stage
      /\ load'.answer = base.answer /\ (load'.move <=> base.move)
  BY <1>2, Hooked
<1>4. CASE left.stage = "none"
  BY <1>1, <1>3, <1>4, Askings DEF Load
<1>5. CASE left.stage # "none"
  BY <1>1, <1>3, <1>5
<1> QED  BY <1>4, <1>5

\* Either nothing that was requested is missing any more, or another run begins.
LEMMA RunEnds ==
  ASSUME NEW left \in Load, NEW now \in Nat, requested \in Nat, refresh \in Run,
         EndRefresh(left, now), ~left.hook,
         left.stage = "none" => left.answer = None /\ ~left.move
  PROVE  /\ refresh' \in Run /\ load' \in Load
         /\ load'.answer = left.answer /\ (load'.move <=> left.move)
         /\ load'.stage = "none" => left.stage = "none" /\ ~load'.hook
         /\ load'.stage = "answered" <=> left.stage = "answered"
         /\ refresh' = Idle <=> ~load'.hook
         /\ refresh' = Idle => load' = left /\ (requested <= refresh.observed \/ requested <= now)
         /\ refresh'.observed <= requested
<1>1. CASE requested > refresh.observed /\ requested > now
  BY <1>1, RunBegins DEF EndRefresh
<1>2. CASE ~(requested > refresh.observed /\ requested > now)
  BY <1>2, Askings DEF EndRefresh, Run
<1> QED  BY <1>1, <1>2

-----------------------------------------------------------------------------
(* The server's steps.                                                     *)

\* What was true of a board stays so however the server's revision grows.
LEMMA Growing ==
  ASSUME NEW r \in Nat, NEW q \in Nat, r <= q
  PROVE  \A b \in Board : /\ Genuine(b, r) => Genuine(b, q)
                          /\ Old(b, r) => Old(b, q)
                          /\ Genuine(b, r) /\ r < q => Old(b, q)
BY Something DEF Genuine, Old

\* Steps of the server and of the stream leave the page as it is.
LEMMA ServerStep ==
  ASSUME IInv, revision' \in Nat, revision <= revision', access' \in BOOLEAN,
         stage' \in Stream!Over \cup {"opening", "open"},
         stage \in Stream!Over => stage' \in Stream!Over, since' \in Nat \cup {None},
         told' \in Nat, wire' \in Seq(Nat), role' \in {"PARTICIPANT", "OWNER"},
         paged' \in BOOLEAN, UNCHANGED <<page, load, rendered, hook, connection>>,
         Wired', StillToCome => StillToCome'
  PROVE  IInv'
<1>1. TypeOK' /\ Lost'
  BY DEF IInv, TypeOK, Lost, page, hook
<1>2. Boards'
  <2>1. \A b \in Board : /\ Genuine(b, revision) => Genuine(b, revision')
                         /\ Old(b, revision) => Old(b, revision')
    BY Growing DEF IInv, TypeOK
  <2>2. /\ shown # None => shown \in Board
        /\ drag # None => drag.previous \in Board /\ (drag.pending # None => drag.pending \in Board)
        /\ move # None => move.previous \in Board
        /\ load.answer # None => load.answer \in Board
    BY Something DEF IInv, TypeOK
  <2>3. UNCHANGED <<shown, drag, move, load>>
    BY DEF page
  <2> QED  BY <2>1, <2>2, <2>3 DEF IInv, Boards
<1>3. Awaiting'
  BY DEF IInv, TypeOK, Awaiting, page, hook
<1>4. AnswerNew' /\ Applied'
  BY DEF IInv, AnswerNew, Applied, Held, Undone, page, hook
<1>5. Truthful'
  BY DEF IInv, Truthful, Held, Undone, page, hook
<1> QED  BY <1>1, <1>2, <1>3, <1>4, <1>5 DEF IInv

LEMMA CommitKeeps ==
  ASSUME IInv, Commit \/ LoseAccess \/ RegainAccess \/ ClaimOwnership
  PROVE  IInv'
<1>1. /\ revision' \in Nat /\ revision <= revision' /\ access' \in BOOLEAN
      /\ role' \in {"PARTICIPANT", "OWNER"} /\ paged' \in BOOLEAN /\ UNCHANGED stream
      /\ UNCHANGED <<page, load, rendered, hook, connection>>
  <2>1. CASE Commit
    BY <2>1 DEF IInv, TypeOK, Commit, Stream!Commit, stream
  <2>2. CASE LoseAccess
    <3>1. access' \in BOOLEAN
      BY <2>2, Zenon DEF LoseAccess, Stream!LoseAccess
    <3>2. UNCHANGED <<revision, role, paged, stream, page, load, rendered, hook, connection>>
      BY <2>2 DEF LoseAccess, Stream!LoseAccess, stream
    <3> QED  BY <3>1, <3>2 DEF IInv, TypeOK
  <2>3. CASE RegainAccess
    <3>1. access' \in BOOLEAN
      BY <2>3, Zenon DEF RegainAccess, Stream!RegainAccess
    <3>2. UNCHANGED <<revision, role, paged, stream, page, load, rendered, hook, connection>>
      BY <2>3 DEF RegainAccess, Stream!RegainAccess, stream
    <3> QED  BY <3>1, <3>2 DEF IInv, TypeOK
  <2>4. CASE ClaimOwnership
    BY <2>4 DEF IInv, TypeOK, ClaimOwnership
  <2> QED  BY <2>1, <2>2, <2>3, <2>4
<1>2. Wired'
  BY <1>1 DEF IInv, TypeOK, Wired, stream
<1>3. StillToCome => StillToCome'
  BY <1>1 DEF StillToCome, stream, hook
<1> QED  BY <1>1, <1>2, <1>3, ServerStep DEF IInv, TypeOK, stream

LEMMA StreamStepKeeps ==
  ASSUME IInv, StreamStep
  PROVE  IInv'
<1>1. UNCHANGED <<role, paged, page, load, rendered, hook, connection, revision, access>>
  BY DEF StreamStep, Stream!Open, Stream!Tell, Stream!Refuse, Stream!End
<1>2. ASSUME NEW r \in 0 .. revision, Stream!Open(r) \/ Stream!Tell(r)
      PROVE  /\ stage' = "open" /\ since' \in Nat \cup {None} /\ told' \in Nat
             /\ wire' \in Seq(Nat) /\ Wired' /\ (StillToCome => StillToCome')
  <2>1. CASE Stream!Open(r)
    <3>1. PICK n \in 0 .. revision :
             /\ told' = n /\ (wire' = <<n>> \/ wire' = <<r, n>>)
      BY <2>1 DEF Stream!Open, IInv, TypeOK
    <3>2. stage' = "open" /\ since' = since
      BY <2>1 DEF Stream!Open
    <3>3. wire'[Len(wire')] = n /\ wire' \in Seq(Nat) /\ Len(wire') \in DOMAIN wire'
          /\ \A i \in DOMAIN wire' : wire'[i] \in {r, n}
      <4>1. r \in Nat /\ n \in Nat
        BY DEF IInv, TypeOK
      <4>2. CASE wire' = <<n>>
        BY <4>1, <4>2
      <4>3. CASE wire' = <<r, n>>
        BY <4>1, <4>3
      <4> QED  BY <3>1, <4>2, <4>3
    <3>4. Wired'
      BY <1>1, <3>1, <3>3 DEF Wired, IInv, TypeOK
    <3>5. StillToCome'
      BY <1>1, <3>1, <3>3 DEF StillToCome, IInv, TypeOK, hook
    <3> QED  BY <3>1, <3>2, <3>3, <3>4, <3>5 DEF IInv, TypeOK
  <2>2. CASE Stream!Tell(r)
    <3>1. /\ stage = "open" /\ stage' = "open" /\ since' = since /\ told' = r
          /\ wire' = Append(wire, r) /\ wire' \in Seq(Nat) /\ Len(wire') = Len(wire) + 1
          /\ \A i \in DOMAIN wire : wire'[i] = wire[i]
          /\ wire'[Len(wire')] = r /\ Len(wire') \in DOMAIN wire'
          /\ DOMAIN wire \subseteq DOMAIN wire'
      BY <2>2 DEF Stream!Tell, IInv, TypeOK
    <3>2. \A i \in DOMAIN wire' : i \in DOMAIN wire \/ wire'[i] = r
      BY <3>1 DEF IInv, TypeOK
    <3>3. Wired'
      BY <1>1, <3>1, <3>2 DEF Wired, IInv, TypeOK
    <3>4. StillToCome => StillToCome'
      BY <1>1, <3>1 DEF StillToCome, IInv, TypeOK, hook
    <3> QED  BY <3>1, <3>3, <3>4 DEF IInv, TypeOK
  <2> QED  BY <1>2, <2>1, <2>2
<1>3. ASSUME stage' \in Stream!Over, since' \in Nat \cup {None}, told' = 0, wire' \in {wire, <<>>}
      PROVE  stage' # "open" /\ Wired' /\ wire' \in Seq(Nat) /\ StillToCome'
  <2>1. stage' # "open"
    BY <1>3 DEF Stream!Over, Stream!Refusal
  <2>3. wire' \in Seq(Nat)
    <3>1. wire \in Seq(Nat) /\ <<>> \in Seq(Nat)
      BY DEF IInv, TypeOK
    <3> QED  BY <1>3, <3>1
  <2>2. \A i \in DOMAIN wire' : wire'[i] <= revision'
    BY <1>1, <1>3 DEF IInv, TypeOK, Wired
  <2> QED  BY <1>1, <1>3, <2>1, <2>2, <2>3 DEF IInv, TypeOK, Wired, StillToCome
<1>4. ASSUME (stage = "opening" /\ \E why \in Stream!Refusal : Stream!Refuse(why)) \/ Stream!End
      PROVE  stage' \in Stream!Over /\ since' \in Nat \cup {None} /\ told' = 0
             /\ wire' \in {wire, <<>>}
  BY <1>4 DEF Stream!Refuse, Stream!End, Stream!Over
<1>5. stage' \in Stream!Over \cup {"open"} /\ since' \in Nat \cup {None} /\ told' \in Nat
      /\ wire' \in Seq(Nat) /\ Wired' /\ (StillToCome => StillToCome')
  BY <1>2, <1>3, <1>4 DEF StreamStep
<1>6. stage \in Stream!Over => stage' \in Stream!Over
  BY DEF StreamStep, Stream!Open, Stream!Tell, Stream!Refuse, Stream!End, Stream!Over,
         Stream!Refusal
<1> QED  BY <1>1, <1>5, <1>6, ServerStep DEF IInv, TypeOK

LEMMA ReadSnapshotKeeps ==
  ASSUME IInv, ReadSnapshot
  PROVE  IInv'
<1>1. IInv /\ load \in Load
  BY DEF IInv, TypeOK
<1>2. PICK a \in Board \cup {None} :
        /\ a = IF access THEN Snapshot ELSE None
        /\ load' \in Load /\ load'.stage = "answered" /\ load'.answer = a
        /\ (load'.hook <=> load.hook) /\ (load'.move <=> load.move)
  BY Read, LoadRead DEF ReadSnapshot, IInv, TypeOK
<1>3. a # None => Genuine(a, revision) /\ ~a.tentative /\ a.revision = revision
  BY <1>2, Read DEF IInv, Genuine, TypeOK
<1>4. ~error => Held \in Nat /\ Held <= revision /\ Held' = Held
  BY Something DEF ReadSnapshot, IInv, TypeOK, Lost, Boards, Genuine, Held, page
<1>5. ~error
  BY Askings DEF ReadSnapshot, IInv, Lost
<1>6. TypeOK'
  BY <1>1, <1>2, <1>3, <1>4, <1>5, Something DEF ReadSnapshot, server, stream, page, hook, IInv, TypeOK
<1>7. Lost'
  BY <1>1, <1>2, <1>3, <1>4, <1>5, Something DEF ReadSnapshot, server, stream, page, hook, IInv, TypeOK, Lost
<1>8. Boards'
  BY <1>1, <1>2, <1>3, <1>4, <1>5, Something DEF ReadSnapshot, server, stream, page, hook, IInv, TypeOK, Boards, Lost, Genuine, Old
<1>9. Wired'
  BY <1>1, <1>2, <1>3, <1>4, <1>5, Something DEF ReadSnapshot, server, stream, page, hook, IInv, TypeOK, Wired
<1>10. Awaiting'
  BY <1>1, <1>2, <1>3, <1>4, <1>5, Something DEF ReadSnapshot, server, stream, page, hook, IInv, TypeOK, Awaiting
<1>11. AnswerNew'
  BY <1>2, <1>3, <1>4, <1>5, Something DEF ReadSnapshot, IInv, TypeOK, AnswerNew, Awaiting, Snapshot, hook, page
<1>12. Applied'
  BY <1>1, <1>2, <1>3, <1>4, <1>5, Something DEF ReadSnapshot, server, stream, page, hook, IInv, TypeOK, Applied, Lost, Boards, Held, Undone
<1>13. Truthful'
  BY <1>1, <1>2, <1>3, <1>4, <1>5, Something DEF ReadSnapshot, server, stream, page, hook, IInv, TypeOK, Truthful, Lost, Boards, Held, Undone, StillToCome
<1> QED  BY <1>6, <1>7, <1>8, <1>9, <1>10, <1>11, <1>12, <1>13 DEF IInv

LEMMA SaveMoveKeeps ==
  ASSUME IInv, SaveMove
  PROVE  IInv'
<1>1. move \in Move /\ revision' = revision + 1 /\ revision' \in Nat
  BY DEF SaveMove, Stream!Commit, IInv, TypeOK
<1>2. move' \in Move /\ move'.stage = "saved" /\ move'.previous = move.previous /\ move'.saved = revision'
  <2>1. move' = [move EXCEPT !.stage = "saved", !.saved = revision']
    BY DEF SaveMove
  <2> QED  BY <1>1, <2>1 DEF Move
<1>3. TypeOK'
  BY <1>1, <1>2, Something, Growing DEF SaveMove, Stream!Commit, server, stream, page, hook, IInv, TypeOK
<1>4. Lost'
  BY <1>1, <1>2, Something, Growing DEF SaveMove, Stream!Commit, server, stream, page, hook, IInv, TypeOK, Lost
<1>5. Boards'
  <2>1. \A b \in Board : /\ Genuine(b, revision) => Genuine(b, revision')
                         /\ Old(b, revision) => Old(b, revision')
                         /\ Genuine(b, revision) => Old(b, revision')
    BY <1>1, Growing DEF IInv, TypeOK
  <2>2. /\ shown # None => shown \in Board
        /\ move.previous \in Board
        /\ load.answer # None => load.answer \in Board
    BY <1>1, Something DEF IInv, TypeOK
  <2>3. /\ move # None /\ drag = None /\ move.previous.revision = revision
        /\ UNCHANGED <<shown, drag, load>>
    BY DEF SaveMove, IInv, Boards
  <2>4. /\ Genuine(move.previous, revision) /\ ~move.previous.tentative
        /\ shown # None => Genuine(shown, revision)
        /\ load.answer # None => Genuine(load.answer, revision) /\ ~load.answer.tentative
    <3>1. /\ Genuine(move.previous, revision) /\ Old(move.previous, revision)
          /\ shown # None => Genuine(shown, revision)
          /\ load.answer # None => Genuine(load.answer, revision) /\ ~load.answer.tentative
      BY <2>3 DEF IInv, Boards
    <3>2. ~(move.previous.revision < revision)
      BY <2>3 DEF IInv, TypeOK
    <3> QED  BY <3>1, <3>2 DEF Old
  <2>5. move'.previous.revision = move'.saved - 1
    BY <1>1, <1>2, <2>3 DEF IInv, TypeOK
  <2> QED  BY <1>2, <2>1, <2>2, <2>3, <2>4, <2>5 DEF Boards
<1>6. Wired'
  BY <1>1, <1>2, Something, Growing DEF SaveMove, Stream!Commit, server, stream, page, hook, IInv, TypeOK, Wired
<1>7. Awaiting'
  BY <1>1, <1>2, Something, Growing DEF SaveMove, Stream!Commit, server, stream, page, hook, IInv, TypeOK, Awaiting
<1>8. AnswerNew'
  BY <1>1, <1>2, Something, Growing DEF SaveMove, Stream!Commit, server, stream, page, hook, IInv, TypeOK, AnswerNew, Lost, Boards, Awaiting, Held, Genuine
<1>9. Applied'
  BY <1>1, <1>2, Something, Growing DEF SaveMove, Stream!Commit, server, stream, page, hook, IInv, TypeOK, Applied, Lost, Boards, Held, Undone
<1>10. Truthful'
  BY <1>1, <1>2, Something, Growing DEF SaveMove, Stream!Commit, server, stream, page, hook, IInv, TypeOK, Truthful, Lost, Boards, Held, Undone, StillToCome
<1> QED  BY <1>3, <1>4, <1>5, <1>6, <1>7, <1>8, <1>9, <1>10 DEF IInv

LEMMA ReadPageKeeps ==
  ASSUME IInv, ReadPage
  PROVE  IInv'
<1>1. more' \in Later
  BY Something DEF ReadPage, IInv, TypeOK, Later
<1>2. TypeOK'
  BY <1>1, Something DEF ReadPage, server, stream, page, hook, IInv, TypeOK
<1>3. Lost'
  BY <1>1, Something DEF ReadPage, server, stream, page, hook, IInv, TypeOK, Lost
<1>4. Boards'
  BY <1>1, Something DEF ReadPage, server, stream, page, hook, IInv, TypeOK, Boards, Lost, Genuine, Old
<1>5. Wired'
  BY <1>1, Something DEF ReadPage, server, stream, page, hook, IInv, TypeOK, Wired
<1>6. Awaiting'
  BY <1>1, Something DEF ReadPage, server, stream, page, hook, IInv, TypeOK, Awaiting
<1>7. AnswerNew'
  BY <1>1, Something DEF ReadPage, server, stream, page, hook, IInv, TypeOK, AnswerNew, Lost, Boards, Awaiting, Held, Genuine
<1>8. Applied'
  BY <1>1, Something DEF ReadPage, server, stream, page, hook, IInv, TypeOK, Applied, Lost, Boards, Held, Undone
<1>9. Truthful'
  BY <1>1, Something DEF ReadPage, server, stream, page, hook, IInv, TypeOK, Truthful, Lost, Boards, Held, Undone, StillToCome
<1> QED  BY <1>2, <1>3, <1>4, <1>5, <1>6, <1>7, <1>8, <1>9 DEF IInv

-----------------------------------------------------------------------------
(* Refreshes.                                                              *)

LEMMA AskRefreshKeeps ==
  ASSUME IInv, AskRefresh
  PROVE  IInv'
<1>1. /\ load' \in Load /\ load'.answer = load.answer /\ load'.stage # "none"
      /\ (load'.hook <=> load.hook) /\ (load'.move <=> load.move)
      /\ (load'.stage = "answered" <=> load.stage = "answered")
  BY LoadJoined DEF AskRefresh, IInv, TypeOK, Lost
<1>2. TypeOK'
  BY <1>1, Something DEF AskRefresh, server, stream, page, hook, IInv, TypeOK
<1>3. Lost'
  BY <1>1, Something DEF AskRefresh, server, stream, page, hook, IInv, TypeOK, Lost
<1>4. Boards'
  BY <1>1, Something DEF AskRefresh, server, stream, page, hook, IInv, TypeOK, Boards, Lost, Genuine, Old
<1>5. Wired'
  BY <1>1, Something DEF AskRefresh, server, stream, page, hook, IInv, TypeOK, Wired
<1>6. Awaiting'
  BY <1>1, Something DEF AskRefresh, server, stream, page, hook, IInv, TypeOK, Awaiting
<1>7. AnswerNew'
  BY <1>1, Something DEF AskRefresh, server, stream, page, hook, IInv, TypeOK, AnswerNew, Lost, Boards, Awaiting, Held, Genuine
<1>8. Applied'
  BY <1>1, Something DEF AskRefresh, server, stream, page, hook, IInv, TypeOK, Applied, Lost, Boards, Held, Undone
<1>9. Truthful'
  BY <1>1, Something DEF AskRefresh, server, stream, page, hook, IInv, TypeOK, Truthful, Lost, Boards, Held, Undone, StillToCome
<1> QED  BY <1>2, <1>3, <1>4, <1>5, <1>6, <1>7, <1>8, <1>9 DEF IInv

LEMMA RunEffectKeeps ==
  ASSUME IInv, RunEffect
  PROVE  IInv'
<1>1. shown \in Board /\ shown.revision \in Nat /\ shown.revision <= revision /\ shown.revision <= Held
  BY Something DEF RunEffect, IInv, TypeOK, Lost, Boards, Genuine, Held
<1>2. TypeOK'
  BY <1>1, Something DEF RunEffect, server, stream, page, hook, IInv, TypeOK
<1>3. Lost'
  BY <1>1, Something DEF RunEffect, server, stream, page, hook, IInv, TypeOK, Lost
<1>4. Boards'
  BY <1>1, Something DEF RunEffect, server, stream, page, hook, IInv, TypeOK, Boards, Lost, Genuine, Old
<1>5. Wired'
  BY <1>1, Something DEF RunEffect, server, stream, page, hook, IInv, TypeOK, Wired
<1>6. Awaiting'
  BY <1>1, Something DEF RunEffect, server, stream, page, hook, IInv, TypeOK, Awaiting
<1>7. AnswerNew'
  BY <1>1, Something DEF RunEffect, server, stream, page, hook, IInv, TypeOK, AnswerNew, Lost, Boards, Awaiting, Held, Genuine
<1>8. Applied'
  BY <1>1, Something DEF RunEffect, server, stream, page, hook, IInv, TypeOK, Applied, Lost, Boards, Held, Undone
<1>9. Truthful'
  BY <1>1, Something DEF RunEffect, server, stream, page, hook, IInv, TypeOK, Truthful, Lost, Boards, Held, Undone, StillToCome
<1> QED  BY <1>2, <1>3, <1>4, <1>5, <1>6, <1>7, <1>8, <1>9 DEF IInv

LEMMA ReconcileKeeps ==
  ASSUME IInv, Reconcile
  PROVE  IInv'
<1>1. /\ refresh' \in Run /\ refresh' # Idle /\ refresh'.observed = requested
      /\ load' \in Load /\ load'.hook /\ load'.stage # "none"
      /\ load'.answer = load.answer /\ (load'.move <=> load.move)
      /\ (load'.stage = "answered" <=> load.stage = "answered")
  BY RunBegins DEF Reconcile, IInv, TypeOK, Awaiting
<1>2. TypeOK'
  BY <1>1, Something DEF Reconcile, server, stream, page, hook, IInv, TypeOK
<1>3. Lost'
  BY <1>1, Something DEF Reconcile, server, stream, page, hook, IInv, TypeOK, Lost
<1>4. Boards'
  BY <1>1, Something DEF Reconcile, server, stream, page, hook, IInv, TypeOK, Boards, Lost, Genuine, Old
<1>5. Wired'
  BY <1>1, Something DEF Reconcile, server, stream, page, hook, IInv, TypeOK, Wired
<1>6. Awaiting'
  BY <1>1, Something DEF Reconcile, server, stream, page, hook, IInv, TypeOK, Awaiting
<1>7. AnswerNew'
  BY <1>1, Something DEF Reconcile, server, stream, page, hook, IInv, TypeOK, AnswerNew, Lost, Boards, Awaiting, Held, Genuine
<1>8. Applied'
  BY <1>1, Something DEF Reconcile, server, stream, page, hook, IInv, TypeOK, Applied, Lost, Boards, Held, Undone
<1>9. Truthful'
  BY <1>1, Something DEF Reconcile, server, stream, page, hook, IInv, TypeOK, Truthful, Lost, Boards, Held, Undone, StillToCome
<1> QED  BY <1>2, <1>3, <1>4, <1>5, <1>6, <1>7, <1>8, <1>9 DEF IInv

LEMMA SupersededAnsweredKeeps ==
  ASSUME IInv, SupersededAnswered
  PROVE  IInv'
<1>1. /\ UNCHANGED <<server, stream, page, requested, applied, rendered, connection>>
      /\ status' = "polling"
  BY DEF SupersededAnswered
<1>2. superseded /\ superseded' \in BOOLEAN /\ ~superseded' /\ ~load.hook
  BY Zenon DEF SupersededAnswered, IInv, Awaiting
<1>3. /\ refresh' \in Run /\ load' \in Load
      /\ load'.answer = load.answer /\ (load'.move <=> load.move)
      /\ load'.stage = "none" => load.stage = "none" /\ ~load'.hook
      /\ (load'.stage = "answered" <=> load.stage = "answered")
      /\ refresh' = Idle <=> ~load'.hook
      /\ refresh' = Idle => requested <= refresh.observed \/ requested <= applied
      /\ refresh'.observed <= requested
  BY <1>2, RunEnds DEF SupersededAnswered, IInv, TypeOK, Awaiting
<1>4. TypeOK'
  BY <1>1, <1>2, <1>3, Something DEF server, stream, page, hook, IInv, TypeOK, Status
<1>5. Lost'
  BY <1>1, <1>2, <1>3, Something DEF server, stream, page, hook, IInv, TypeOK, Lost
<1>6. Boards'
  BY <1>1, <1>2, <1>3, Something DEF server, stream, page, hook, IInv, TypeOK, Boards, Lost, Genuine, Old
<1>7. Wired'
  BY <1>1, <1>2, <1>3, Something DEF server, stream, page, hook, IInv, TypeOK, Wired
<1>8. Awaiting'
  <2>1. (refresh' = Idle <=> ~load'.hook /\ ~superseded') /\ ~(load'.hook /\ superseded')
    BY <1>2, <1>3
  <2>2. /\ load'.stage = "none" => ~load'.hook /\ ~load'.move
        /\ load'.stage # "answered" => load'.answer = None
        /\ load'.move => move' # None /\ move'.stage \in {"refreshing", "undone"}
    BY <1>1, <1>3 DEF IInv, Awaiting, page
  <2>3. /\ refresh'.observed <= requested' /\ requested' <= revision'
        /\ applied' <= revision' /\ rendered' <= revision'
    BY <1>1, <1>3 DEF IInv, Awaiting, server
  <2> QED  BY <2>1, <2>2, <2>3 DEF Awaiting
<1>9. AnswerNew'
  BY <1>1, <1>2, <1>3, Something DEF IInv, TypeOK, AnswerNew, Held, page
<1>10. Applied'
  BY <1>1, <1>2, <1>3, Something DEF server, stream, page, hook, IInv, TypeOK, Applied, Lost, Boards, Held, Undone
<1>11. Truthful'
  BY <1>1, <1>2, <1>3, Something DEF server, stream, page, hook, IInv, TypeOK, Truthful, Lost, Boards, Held, Undone, StillToCome
<1> QED  BY <1>4, <1>5, <1>6, <1>7, <1>8, <1>9, <1>10, <1>11 DEF IInv

-----------------------------------------------------------------------------
(* Drags and moves.                                                        *)

LEMMA DragStartKeeps ==
  ASSUME IInv, DragStart
  PROVE  IInv'
<1>1. drag' \in Drag /\ drag'.previous = shown /\ drag'.pending = None /\ shown # None
  BY DEF DragStart, IInv, TypeOK, Lost, Drag
<1>2. TypeOK'
  BY <1>1, Something DEF DragStart, server, stream, page, hook, IInv, TypeOK
<1>3. Lost'
  BY <1>1, Something DEF DragStart, server, stream, page, hook, IInv, TypeOK, Lost
<1>4. Boards'
  BY <1>1, Something DEF DragStart, server, stream, page, hook, IInv, TypeOK, Boards, Lost, Genuine, Old
<1>5. Wired'
  BY <1>1, Something DEF DragStart, server, stream, page, hook, IInv, TypeOK, Wired
<1>6. Awaiting'
  BY <1>1, Something DEF DragStart, server, stream, page, hook, IInv, TypeOK, Awaiting
<1>7. AnswerNew'
  BY <1>1, Something DEF DragStart, server, stream, page, hook, IInv, TypeOK, AnswerNew, Lost, Boards, Awaiting, Held, Genuine
<1>8. Applied'
  BY <1>1, Something DEF DragStart, server, stream, page, hook, IInv, TypeOK, Applied, Lost, Boards, Held, Undone
<1>9. Truthful'
  BY <1>1, Something DEF DragStart, server, stream, page, hook, IInv, TypeOK, Truthful, Lost, Boards, Held, Undone, StillToCome
<1> QED  BY <1>2, <1>3, <1>4, <1>5, <1>6, <1>7, <1>8, <1>9 DEF IInv

LEMMA DragOverKeeps ==
  ASSUME IInv, DragOver
  PROVE  IInv'
<1>1. /\ shown' \in Board /\ shown'.revision = drag.previous.revision
      /\ shown'.pages = drag.previous.pages /\ shown'.tentative
  BY Tentative, Something DEF DragOver, IInv, TypeOK
<1>2. TypeOK'
  BY <1>1, Something DEF DragOver, server, stream, page, hook, IInv, TypeOK
<1>3. Lost'
  BY <1>1, Something DEF DragOver, server, stream, page, hook, IInv, TypeOK, Lost
<1>4. Boards'
  BY <1>1, Something DEF DragOver, server, stream, page, hook, IInv, TypeOK, Boards, Lost, Genuine, Old
<1>5. Wired'
  BY <1>1, Something DEF DragOver, server, stream, page, hook, IInv, TypeOK, Wired
<1>6. Awaiting'
  BY <1>1, Something DEF DragOver, server, stream, page, hook, IInv, TypeOK, Awaiting
<1>7. AnswerNew'
  BY <1>1, Something DEF DragOver, server, stream, page, hook, IInv, TypeOK, AnswerNew, Lost, Boards, Awaiting, Held, Genuine
<1>8. Applied'
  BY <1>1, Something DEF DragOver, server, stream, page, hook, IInv, TypeOK, Applied, Lost, Boards, Held, Undone
<1>9. Truthful'
  BY <1>1, Something DEF DragOver, server, stream, page, hook, IInv, TypeOK, Truthful, Lost, Boards, Held, Undone, StillToCome
<1> QED  BY <1>2, <1>3, <1>4, <1>5, <1>6, <1>7, <1>8, <1>9 DEF IInv

LEMMA CancelDragKeeps ==
  ASSUME IInv, CancelDrag
  PROVE  IInv'
<1>1. /\ shown' \in {drag.previous, drag.pending} /\ shown' \in Board /\ shown' # None
      /\ ~error => shown'.revision = Held
  BY Something DEF CancelDrag, Merge, IInv, TypeOK, Lost, Boards, Held
<1>2. TypeOK'
  BY <1>1, Something DEF CancelDrag, server, stream, page, hook, IInv, TypeOK
<1>3. Lost'
  BY <1>1, Something DEF CancelDrag, server, stream, page, hook, IInv, TypeOK, Lost
<1>4. Boards'
  BY <1>1, Something DEF CancelDrag, server, stream, page, hook, IInv, TypeOK, Boards, Lost, Genuine, Old
<1>5. Wired'
  BY <1>1, Something DEF CancelDrag, server, stream, page, hook, IInv, TypeOK, Wired
<1>6. Awaiting'
  BY <1>1, Something DEF CancelDrag, server, stream, page, hook, IInv, TypeOK, Awaiting
<1>7. AnswerNew'
  BY <1>1, Something DEF CancelDrag, server, stream, page, hook, IInv, TypeOK, AnswerNew, Lost, Boards, Awaiting, Held, Genuine
<1>8. Applied'
  BY <1>1, Something DEF CancelDrag, server, stream, page, hook, IInv, TypeOK, Applied, Lost, Boards, Held, Undone
<1>9. Truthful'
  BY <1>1, Something DEF CancelDrag, server, stream, page, hook, IInv, TypeOK, Truthful, Lost, Boards, Held, Undone, StillToCome
<1> QED  BY <1>2, <1>3, <1>4, <1>5, <1>6, <1>7, <1>8, <1>9 DEF IInv

LEMMA DropFailsKeeps ==
  ASSUME IInv, DropFails
  PROVE  IInv'
<1>1. /\ load' \in Load /\ load'.answer = load.answer /\ load'.stage # "none"
      /\ (load'.hook <=> load.hook) /\ (load'.move <=> load.move)
      /\ (load'.stage = "answered" <=> load.stage = "answered")
  BY LoadJoined DEF DropFails, IInv, TypeOK, Lost
<1>2. shown' \in Board /\ shown'.revision = Held /\ shown' = drag.previous
  BY Something DEF DropFails, Undisturbed, IInv, TypeOK, Lost, Boards, Held
<1>3. TypeOK'
  BY <1>1, <1>2, Something DEF DropFails, Undisturbed, server, stream, page, hook, IInv, TypeOK
<1>4. Lost'
  BY <1>1, <1>2, Something DEF DropFails, Undisturbed, server, stream, page, hook, IInv, TypeOK, Lost
<1>5. Boards'
  BY <1>1, <1>2, Something DEF DropFails, Undisturbed, server, stream, page, hook, IInv, TypeOK, Boards, Lost, Genuine, Old
<1>6. Wired'
  BY <1>1, <1>2, Something DEF DropFails, Undisturbed, server, stream, page, hook, IInv, TypeOK, Wired
<1>7. Awaiting'
  BY <1>1, <1>2, Something DEF DropFails, Undisturbed, server, stream, page, hook, IInv, TypeOK, Awaiting
<1>8. AnswerNew'
  BY <1>1, <1>2, Something DEF DropFails, Undisturbed, server, stream, page, hook, IInv, TypeOK, AnswerNew, Lost, Boards, Awaiting, Held, Genuine
<1>9. Applied'
  BY <1>1, <1>2, Something DEF DropFails, Undisturbed, server, stream, page, hook, IInv, TypeOK, Applied, Lost, Boards, Held, Undone
<1>10. Truthful'
  BY <1>1, <1>2, Something DEF DropFails, Undisturbed, server, stream, page, hook, IInv, TypeOK, Truthful, Lost, Boards, Held, Undone, StillToCome
<1> QED  BY <1>3, <1>4, <1>5, <1>6, <1>7, <1>8, <1>9, <1>10 DEF IInv

LEMMA DropKeeps ==
  ASSUME IInv, Drop
  PROVE  IInv'
<1>1. /\ shown' \in Board /\ shown'.revision = drag.previous.revision
      /\ shown'.pages = drag.previous.pages /\ shown'.tentative
  BY Tentative, Something DEF Drop, IInv, TypeOK
<1>2. move' \in Move /\ move'.stage = "sent" /\ move'.previous = drag.previous
  BY Something DEF Drop, Move, IInv, TypeOK
<1>3. shown'.revision = Held
  BY <1>1, Something DEF Drop, Undisturbed, IInv, TypeOK, Lost, Boards, Held
<1>4. TypeOK'
  BY <1>1, <1>2, <1>3, Something DEF Drop, server, stream, page, hook, IInv, TypeOK
<1>5. Lost'
  BY <1>1, <1>2, <1>3, Something DEF Drop, server, stream, page, hook, IInv, TypeOK, Lost
<1>6. Boards'
  BY <1>1, <1>2, <1>3, Something DEF Drop, server, stream, page, hook, IInv, TypeOK, Boards, Lost, Genuine, Old
<1>7. Wired'
  BY <1>1, <1>2, <1>3, Something DEF Drop, server, stream, page, hook, IInv, TypeOK, Wired
<1>8. Awaiting'
  BY <1>1, <1>2, <1>3, Something DEF Drop, server, stream, page, hook, IInv, TypeOK, Awaiting, Boards
<1>9. AnswerNew'
  BY <1>1, <1>2, <1>3, Something DEF Drop, server, stream, page, hook, IInv, TypeOK, AnswerNew, Lost, Boards, Awaiting, Held, Genuine
<1>10. Applied'
  BY <1>1, <1>2, <1>3, Something DEF Drop, server, stream, page, hook, IInv, TypeOK, Applied, Lost, Boards, Held, Undone
<1>11. Truthful'
  BY <1>1, <1>2, <1>3, Something DEF Drop, server, stream, page, hook, IInv, TypeOK, Truthful, Lost, Boards, Held, Undone, StillToCome
<1> QED  BY <1>4, <1>5, <1>6, <1>7, <1>8, <1>9, <1>10, <1>11 DEF IInv

\* What becomes of a move whose board was lost: it is taken back, or ends.
LEMMA LostMoveKeeps ==
  ASSUME IInv, accessLost, move # None, syncError' \in BOOLEAN,
         UNCHANGED <<server, stream, drag, more, accessLost, error>>,
         UNCHANGED <<load, rendered, hook, connection>>,
         shown' = move.previous \/ (shown' = shown /\ move.stage # "sent"),
         move' # None => /\ move' \in Move /\ move'.previous = move.previous
                         /\ move'.stage \in {"refreshing", "undone"}
  PROVE  IInv'
<1>1. error /\ error' /\ drag = None /\ drag' = None /\ load.answer = None
  BY Askings DEF IInv, Lost, Boards
<1>2. shown' \in Board \cup {None}
  BY Something DEF IInv, TypeOK
<1>3. TypeOK'
  BY <1>1, <1>2, Something DEF IInv, TypeOK, server, stream, hook
<1>4. Lost'
  BY <1>1 DEF IInv, Lost, stream, hook
<1>5. Boards'
  BY <1>1, Something DEF IInv, Boards, server
<1>6. Wired'
  BY DEF IInv, Wired, server, stream
<1>7. Awaiting'
  BY <1>1, Askings DEF IInv, Lost, Awaiting, server, hook
<1>8. AnswerNew' /\ Applied' /\ Truthful'
  BY <1>1 DEF AnswerNew, Applied, Truthful
<1> QED  BY <1>3, <1>4, <1>5, <1>6, <1>7, <1>8 DEF IInv

LEMMA LostMovesKeep ==
  ASSUME IInv, accessLost,
         MoveAnswered \/ MoveUnreadable \/ MoveFails \/ MoveUnrefreshed
  PROVE  IInv'
<1> move # None /\ move \in Move /\ syncError \in BOOLEAN
  BY DEF MoveAnswered, MoveUnreadable, MoveFails, MoveUnrefreshed, IInv, TypeOK
<1>1. CASE MoveAnswered
  <2>1. /\ move' \in Move /\ move'.stage = "refreshing" /\ move'.previous = move.previous
        /\ move.stage # "sent"
    BY <1>1, MoveGoesOn DEF MoveAnswered
  <2> QED  BY <1>1, <2>1, LostMoveKeeps DEF MoveAnswered, Forced, hook
<1>2. CASE MoveUnreadable
  BY <1>2, LostMoveKeeps DEF MoveUnreadable, Forced, hook
<1>3. CASE MoveFails
  <2>1. move' \in Move /\ move'.stage = "undone" /\ move'.previous = move.previous
    BY <1>3, MoveGoesOn DEF MoveFails
  <2> QED  BY <1>3, <2>1, LostMoveKeeps DEF MoveFails, Forced, hook
<1>4. CASE MoveUnrefreshed
  <2>1. syncError' \in BOOLEAN
    BY <1>4, Zenon DEF MoveUnrefreshed
  <2> QED  BY <1>4, <2>1, LostMoveKeeps DEF MoveUnrefreshed
<1> QED  BY <1>1, <1>2, <1>3, <1>4

LEMMA MoveAnsweredKeeps ==
  ASSUME IInv, MoveAnswered, ~accessLost
  PROVE  IInv'
<1>1. /\ load' \in Load /\ load'.stage = "asked" /\ load'.answer = None
      /\ ~load'.hook /\ (load'.move <=> TRUE)
      /\ superseded' = (superseded \/ load.hook)
  BY LoadForced DEF MoveAnswered
<1>2. move' \in Move /\ move'.stage = "refreshing" /\ move'.previous = move.previous /\ move'.saved = move.saved
  BY MoveGoesOn, Something DEF MoveAnswered, IInv, TypeOK
<1>3. TypeOK'
  BY <1>1, <1>2, Something DEF MoveAnswered, server, stream, page, hook, IInv, TypeOK
<1>4. Lost'
  BY <1>1, <1>2, Something DEF MoveAnswered, server, stream, page, hook, IInv, TypeOK, Lost
<1>5. Boards'
  BY <1>1, <1>2, Something DEF MoveAnswered, server, stream, page, hook, IInv, TypeOK, Boards, Lost, Genuine, Old
<1>6. Wired'
  BY <1>1, <1>2, Something DEF MoveAnswered, server, stream, page, hook, IInv, TypeOK, Wired
<1>7. Awaiting'
  BY <1>1, <1>2, Something DEF MoveAnswered, server, stream, page, hook, IInv, TypeOK, Awaiting
<1>8. AnswerNew'
  BY <1>1, <1>2, Something DEF MoveAnswered, server, stream, page, hook, IInv, TypeOK, AnswerNew, Lost, Boards, Awaiting, Held, Genuine
<1>9. Applied'
  BY <1>1, <1>2, Something DEF MoveAnswered, server, stream, page, hook, IInv, TypeOK, Applied, Lost, Boards, Held, Undone
<1>10. Truthful'
  BY <1>1, <1>2, Something DEF MoveAnswered, server, stream, page, hook, IInv, TypeOK, Truthful, Lost, Boards, Held, Undone, StillToCome
<1> QED  BY <1>3, <1>4, <1>5, <1>6, <1>7, <1>8, <1>9, <1>10 DEF IInv

LEMMA MoveUnreadableKeeps ==
  ASSUME IInv, MoveUnreadable, ~accessLost
  PROVE  IInv'
<1>1. /\ load' \in Load /\ load'.stage = "asked" /\ load'.answer = None
      /\ ~load'.hook /\ (load'.move <=> FALSE)
      /\ superseded' = (superseded \/ load.hook)
  BY LoadForced DEF MoveUnreadable
<1>2. TypeOK'
  BY <1>1, Something DEF MoveUnreadable, server, stream, page, hook, IInv, TypeOK
<1>3. Lost'
  BY <1>1, Something DEF MoveUnreadable, server, stream, page, hook, IInv, TypeOK, Lost
<1>4. Boards'
  BY <1>1, Something DEF MoveUnreadable, server, stream, page, hook, IInv, TypeOK, Boards, Lost, Genuine, Old
<1>5. Wired'
  BY <1>1, Something DEF MoveUnreadable, server, stream, page, hook, IInv, TypeOK, Wired
<1>6. Awaiting'
  BY <1>1, Something DEF MoveUnreadable, server, stream, page, hook, IInv, TypeOK, Awaiting
<1>7. AnswerNew'
  BY <1>1, Something DEF MoveUnreadable, server, stream, page, hook, IInv, TypeOK, AnswerNew, Lost, Boards, Awaiting, Held, Genuine
<1>8. Applied'
  BY <1>1, Something DEF MoveUnreadable, server, stream, page, hook, IInv, TypeOK, Applied, Lost, Boards, Held, Undone
<1>9. Truthful'
  BY <1>1, Something DEF MoveUnreadable, server, stream, page, hook, IInv, TypeOK, Truthful, Lost, Boards, Held, Undone, StillToCome
<1> QED  BY <1>2, <1>3, <1>4, <1>5, <1>6, <1>7, <1>8, <1>9 DEF IInv

LEMMA MoveFailsKeeps ==
  ASSUME IInv, MoveFails, ~accessLost
  PROVE  IInv'
<1>1. /\ load' \in Load /\ load'.stage = "asked" /\ load'.answer = None
      /\ ~load'.hook /\ (load'.move <=> TRUE)
      /\ superseded' = (superseded \/ load.hook)
  BY LoadForced DEF MoveFails
<1>2. move' \in Move /\ move'.stage = "undone" /\ move'.previous = move.previous /\ move'.saved = move.saved
  BY MoveGoesOn, Something DEF MoveFails, IInv, TypeOK
<1>3. shown' \in Board /\ shown' # None /\ shown' = move.previous
  BY Something DEF MoveFails, IInv, TypeOK
<1>4. TypeOK'
  BY <1>1, <1>2, <1>3, Something DEF MoveFails, server, stream, page, hook, IInv, TypeOK
<1>5. Lost'
  BY <1>1, <1>2, <1>3, Something DEF MoveFails, server, stream, page, hook, IInv, TypeOK, Lost
<1>6. Boards'
  BY <1>1, <1>2, <1>3, Something DEF MoveFails, server, stream, page, hook, IInv, TypeOK, Boards, Lost, Genuine, Old
<1>7. Wired'
  BY <1>1, <1>2, <1>3, Something DEF MoveFails, server, stream, page, hook, IInv, TypeOK, Wired
<1>8. Awaiting'
  BY <1>1, <1>2, <1>3, Something DEF MoveFails, server, stream, page, hook, IInv, TypeOK, Awaiting
<1>9. AnswerNew'
  BY <1>1, <1>2, <1>3, Something DEF MoveFails, server, stream, page, hook, IInv, TypeOK, AnswerNew, Lost, Boards, Awaiting, Held, Genuine
<1>10. Applied'
  BY <1>1, <1>2, <1>3, Something DEF MoveFails, server, stream, page, hook, IInv, TypeOK, Applied, Lost, Boards, Held, Undone
<1>11. Truthful'
  BY <1>1, <1>2, <1>3, Something DEF MoveFails, server, stream, page, hook, IInv, TypeOK, Truthful, Lost, Boards, Held, Undone, StillToCome
<1> QED  BY <1>4, <1>5, <1>6, <1>7, <1>8, <1>9, <1>10, <1>11 DEF IInv

-----------------------------------------------------------------------------
(* Later pages.                                                            *)

LEMMA LoadMoreKeeps ==
  ASSUME IInv, LoadMore
  PROVE  IInv'
<1>1. more' \in Later
  BY Something DEF LoadMore, IInv, TypeOK, Lost, Later
<1>2. TypeOK'
  BY <1>1, Something DEF LoadMore, server, stream, page, hook, IInv, TypeOK
<1>3. Lost'
  BY <1>1, Something DEF LoadMore, server, stream, page, hook, IInv, TypeOK, Lost
<1>4. Boards'
  BY <1>1, Something DEF LoadMore, server, stream, page, hook, IInv, TypeOK, Boards, Lost, Genuine, Old
<1>5. Wired'
  BY <1>1, Something DEF LoadMore, server, stream, page, hook, IInv, TypeOK, Wired
<1>6. Awaiting'
  BY <1>1, Something DEF LoadMore, server, stream, page, hook, IInv, TypeOK, Awaiting
<1>7. AnswerNew'
  BY <1>1, Something DEF LoadMore, server, stream, page, hook, IInv, TypeOK, AnswerNew, Lost, Boards, Awaiting, Held, Genuine
<1>8. Applied'
  BY <1>1, Something DEF LoadMore, server, stream, page, hook, IInv, TypeOK, Applied, Lost, Boards, Held, Undone
<1>9. Truthful'
  BY <1>1, Something DEF LoadMore, server, stream, page, hook, IInv, TypeOK, Truthful, Lost, Boards, Held, Undone, StillToCome
<1> QED  BY <1>2, <1>3, <1>4, <1>5, <1>6, <1>7, <1>8, <1>9 DEF IInv

LEMMA PageFailsKeeps ==
  ASSUME IInv, PageFails
  PROVE  IInv'
<1>1. TypeOK'
  BY Something DEF PageFails, server, stream, page, hook, IInv, TypeOK
<1>2. Lost'
  BY Something DEF PageFails, server, stream, page, hook, IInv, TypeOK, Lost
<1>3. Boards'
  BY Something DEF PageFails, server, stream, page, hook, IInv, TypeOK, Boards, Lost, Genuine, Old
<1>4. Wired'
  BY Something DEF PageFails, server, stream, page, hook, IInv, TypeOK, Wired
<1>5. Awaiting'
  BY Something DEF PageFails, server, stream, page, hook, IInv, TypeOK, Awaiting
<1>6. AnswerNew'
  BY Something DEF PageFails, server, stream, page, hook, IInv, TypeOK, AnswerNew, Lost, Boards, Awaiting, Held, Genuine
<1>7. Applied'
  BY Something DEF PageFails, server, stream, page, hook, IInv, TypeOK, Applied, Lost, Boards, Held, Undone
<1>8. Truthful'
  BY Something DEF PageFails, server, stream, page, hook, IInv, TypeOK, Truthful, Lost, Boards, Held, Undone, StillToCome
<1> QED  BY <1>1, <1>2, <1>3, <1>4, <1>5, <1>6, <1>7, <1>8 DEF IInv

LEMMA PageAnsweredKeeps ==
  ASSUME IInv, PageAnswered
  PROVE  IInv'
<1>1. shown \in Board \cup {None} /\ more.answer \in Nat
  BY Something DEF PageAnswered, IInv, TypeOK
<1>2. /\ shown' \in Board \cup {None} /\ (shown' # None <=> shown # None)
      /\ shown # None =>
            /\ shown'.revision = shown.revision /\ (shown'.tentative <=> shown.tentative)
            /\ shown.pages = {shown.revision} => shown'.pages = {shown'.revision}
  <2>1. CASE shown = None
    BY <2>1 DEF PageAnswered, MergePage
  <2>2. CASE shown # None
    <3>1. shown \in Board
      BY <1>1, <2>2
    <3>2. shown' = shown \/ shown' = MergePage(shown, more.answer)
      BY DEF PageAnswered
    <3>3. CASE shown' = shown
      BY <3>1, <3>3
    <3>4. CASE shown' = MergePage(shown, more.answer)
      <4>1. /\ shown' \in Board /\ shown'.revision = shown.revision
            /\ (shown'.tentative <=> shown.tentative)
            /\ shown.pages = {shown.revision} => shown'.pages = {shown'.revision}
        BY <1>1, <3>1, <3>4, PageMerged
      <4> QED  BY <2>2, <4>1, Something
    <3> QED  BY <3>2, <3>3, <3>4
  <2> QED  BY <1>1, <2>1, <2>2
<1>3. /\ load' \in Load /\ load'.answer = load.answer
      /\ (load'.hook <=> load.hook) /\ (load'.move <=> load.move)
      /\ (load'.stage = "answered" <=> load.stage = "answered")
      /\ load'.stage = "none" => load.stage = "none"
      /\ accessLost => load' = load
  BY LoadJoined, Something DEF PageAnswered, IInv, TypeOK
<1>4. TypeOK'
  BY <1>1, <1>2, <1>3, Something DEF PageAnswered, server, stream, page, hook, IInv, TypeOK
<1>5. Lost'
  BY <1>1, <1>2, <1>3, Something DEF PageAnswered, server, stream, page, hook, IInv, TypeOK, Lost
<1>6. Boards'
  BY <1>1, <1>2, <1>3, Something DEF PageAnswered, server, stream, page, hook, IInv, TypeOK, Boards, Lost, Genuine, Old
<1>7. Wired'
  BY <1>1, <1>2, <1>3, Something DEF PageAnswered, server, stream, page, hook, IInv, TypeOK, Wired
<1>8. Awaiting'
  BY <1>1, <1>2, <1>3, Something DEF PageAnswered, server, stream, page, hook, IInv, TypeOK, Awaiting
<1>9. AnswerNew'
  BY <1>1, <1>2, <1>3, Something DEF PageAnswered, server, stream, page, hook, IInv, TypeOK, AnswerNew, Lost, Boards, Awaiting, Held, Genuine
<1>10. Applied'
  BY <1>1, <1>2, <1>3, Something DEF PageAnswered, server, stream, page, hook, IInv, TypeOK, Applied, Lost, Boards, Held, Undone
<1>11. Truthful'
  BY <1>1, <1>2, <1>3, Something DEF PageAnswered, server, stream, page, hook, IInv, TypeOK, Truthful, Lost, Boards, Held, Undone, StillToCome
<1> QED  BY <1>4, <1>5, <1>6, <1>7, <1>8, <1>9, <1>10, <1>11 DEF IInv

-----------------------------------------------------------------------------
(* The stream, as the page reads it.                                       *)

\* Nothing is told by a stream that is over or was only asked for.
LEMMA Silent ==
  ASSUME IInv, revision' = revision, wire' = <<>>, told' = 0, stage' # "open"
  PROVE  wire' \in Seq(Nat) /\ told' \in Nat /\ Wired'
<1>1. wire' \in Seq(Nat) /\ DOMAIN wire' = {}
  OBVIOUS
<1> QED  BY <1>1 DEF IInv, TypeOK, Wired

LEMMA LosePageKeeps ==
  ASSUME IInv, LosePage(NoLoad)
  PROVE  IInv'
<1>1. /\ accessLost' = TRUE /\ error' = TRUE /\ shown' = None
      /\ load' = NoLoad /\ refresh' = Idle /\ superseded' = FALSE
      /\ connection' = "over" /\ status' = "polling"
      /\ UNCHANGED <<role, paged, drag, move, more, syncError, requested, applied, rendered>>
  BY DEF LosePage
<1>2. /\ UNCHANGED <<revision, access>> /\ Wired' /\ wire' \in Seq(Nat) /\ told' \in Nat
      /\ stage' \in Stream!Over /\ since' \in Nat \cup {None}
  <2>1. CASE stage \in Stream!Over
    <3>1. UNCHANGED <<revision, access, stage, since, told, wire>>
      BY <2>1 DEF LosePage, stream
    <3> QED  BY <2>1, <3>1 DEF IInv, TypeOK, Wired
  <2>2. CASE stage \notin Stream!Over
    <3>1. /\ UNCHANGED <<revision, access>> /\ wire' = <<>> /\ told' = 0
          /\ stage' = "ended" /\ since' = None
      BY <2>2 DEF LosePage, Stream!End
    <3> QED  BY <3>1, Silent DEF Stream!Over
  <2> QED  BY <2>1, <2>2
<1>3. TypeOK'
  BY <1>1, <1>2, Askings DEF IInv, TypeOK, Status
<1>4. Lost' /\ Applied' /\ Truthful'
  BY <1>1, <1>2 DEF Lost, Applied, Truthful
<1>5. Boards'
  BY <1>1, <1>2, Askings DEF IInv, Boards
<1>6. Awaiting' /\ AnswerNew'
  BY <1>1, <1>2, Askings DEF IInv, TypeOK, Awaiting, AnswerNew
<1> QED  BY <1>2, <1>3, <1>4, <1>5, <1>6 DEF IInv

LEMMA ConnectKeeps ==
  ASSUME IInv, Connect
  PROVE  IInv'
<1>1. /\ UNCHANGED <<revision, access, role, paged, page, load, rendered>>
      /\ UNCHANGED <<requested, applied, refresh, superseded>>
      /\ ~error /\ connection' = "asked" /\ status' = "connecting"
      /\ stage' = "opening" /\ since' = applied /\ told' = 0 /\ wire' = <<>>
  BY DEF Connect, Stream!Request
<1>2. Wired' /\ wire' \in Seq(Nat) /\ told' \in Nat
  BY <1>1, Silent
<1>3. TypeOK'
  BY <1>1, <1>2 DEF IInv, TypeOK, Status, page
<1>4. Lost' /\ Boards' /\ Applied'
  BY <1>1 DEF IInv, Lost, Boards, Applied, Held, Undone, page
<1>5. Awaiting' /\ AnswerNew' /\ Truthful'
  BY <1>1 DEF IInv, Awaiting, AnswerNew, Truthful, Held, page
<1> QED  BY <1>2, <1>3, <1>4, <1>5 DEF IInv

LEMMA DisconnectedKeeps ==
  ASSUME IInv, Disconnected \/ FallBackToPolling
  PROVE  IInv'
<1>1. /\ UNCHANGED <<revision, access, role, paged, page, load, rendered>>
      /\ UNCHANGED <<requested, applied, refresh, superseded>>
      /\ connection \in {"asked", "online"} /\ connection' \in {"waiting", "over"}
      /\ status' \in {"connecting", "polling"}
  BY DEF Disconnected, FallBackToPolling, Stream!End, server
<1>2. /\ Wired' /\ wire' \in Seq(Nat) /\ told' \in Nat
      /\ stage' \in Stream!Over \cup {"opening", "open"} /\ since' \in Nat \cup {None}
  <2>1. CASE UNCHANGED stream
    BY <1>1, <2>1 DEF IInv, TypeOK, Wired, stream
  <2>2. CASE Stream!End /\ wire' = <<>>
    BY <2>2, Silent DEF Stream!End, Stream!Over
  <2> QED  BY <2>1, <2>2 DEF Disconnected, FallBackToPolling
<1>3. TypeOK'
  BY <1>1, <1>2 DEF IInv, TypeOK, Status, page
<1>4. Lost' /\ Boards' /\ Applied'
  BY <1>1 DEF IInv, Lost, Boards, Applied, Held, Undone, page
<1>5. Awaiting' /\ AnswerNew' /\ Truthful'
  BY <1>1 DEF IInv, Awaiting, AnswerNew, Truthful, Held, page
<1> QED  BY <1>2, <1>3, <1>4, <1>5 DEF IInv

\* What is left on the wire ends with what the stream has told.
LEMMA TailTells ==
  ASSUME IInv, wire # <<>>, wire' = Tail(wire), UNCHANGED <<revision, stage, told>>
  PROVE  /\ Head(wire) \in Nat /\ Head(wire) <= revision
         /\ wire' \in Seq(Nat) /\ Wired'
         /\ stage = "open" =>
              \/ told = Head(wire)
              \/ \E i \in DOMAIN wire' : wire'[i] = told
<1>1. /\ wire \in Seq(Nat) /\ Len(wire) \in Nat \ {0}
      /\ Head(wire) = wire[1] /\ 1 \in DOMAIN wire
      /\ wire' \in Seq(Nat) /\ Len(wire') = Len(wire) - 1
      /\ \A i \in 1 .. Len(wire) - 1 : wire'[i] = wire[i + 1]
      /\ DOMAIN wire = 1 .. Len(wire) /\ DOMAIN wire' = 1 .. Len(wire')
  BY DEF IInv, TypeOK
<1>2. \A i \in DOMAIN wire' : i + 1 \in DOMAIN wire /\ wire'[i] = wire[i + 1]
  BY <1>1
<1>3. stage = "open" /\ Len(wire) > 1 => Len(wire') \in DOMAIN wire' /\ wire'[Len(wire')] = told
  BY <1>1, <1>2 DEF IInv, Wired
<1>4. wire' # <<>> => Len(wire) > 1
  BY <1>1
<1>5. Wired'
  BY <1>1, <1>2, <1>3, <1>4 DEF IInv, Wired
<1>6. stage = "open" /\ Len(wire) = 1 => told = Head(wire)
  BY <1>1 DEF IInv, Wired
<1>7. Head(wire) \in Nat /\ Head(wire) <= revision
  BY <1>1 DEF IInv, TypeOK, Wired
<1>8. Len(wire) = 1 \/ Len(wire) > 1
  BY <1>1
<1>9. stage = "open" => told = Head(wire) \/ \E i \in DOMAIN wire' : wire'[i] = told
  BY <1>3, <1>6, <1>8
<1> QED  BY <1>1, <1>5, <1>7, <1>9

LEMMA ReadEventKeeps ==
  ASSUME IInv, ReadEvent
  PROVE  IInv'
<1> DEFINE r == Head(wire)
<1>1. /\ UNCHANGED <<revision, access, stage, since, told, role, paged, page>>
      /\ UNCHANGED <<rendered, applied, superseded>>
      /\ connection \in {"asked", "online"} /\ connection' = "online" /\ status' = "online"
      /\ wire # <<>> /\ wire' = Tail(wire)
  BY DEF ReadEvent, Stream!Read
<1>2. /\ r \in Nat /\ r <= revision /\ wire' \in Seq(Nat) /\ Wired'
      /\ stage = "open" => told = r \/ \E i \in DOMAIN wire' : wire'[i] = told
  BY <1>1, TailTells
<1>3. /\ ~error /\ ~error' /\ requested \in Nat /\ applied \in Nat /\ refresh \in Run
      /\ load \in Load /\ revision \in Nat /\ told \in Nat
  BY <1>1 DEF IInv, TypeOK, Lost, page
<1>4. /\ requested' \in Nat /\ requested <= requested' /\ requested' <= revision
      /\ refresh' \in Run /\ refresh'.observed <= requested'
      /\ load' \in Load /\ load'.answer = load.answer /\ (load'.move <=> load.move)
      /\ load'.stage = "answered" <=> load.stage = "answered"
      /\ load'.stage = "none" => load.stage = "none" /\ ~load'.hook
      /\ (refresh' = Idle <=> ~load'.hook /\ ~superseded)
      /\ ~(load'.hook /\ superseded)
      /\ superseded => refresh' = refresh
      /\ refresh' = Idle => UNCHANGED <<requested, refresh>> /\ r <= applied
  <2>1. CASE r > applied /\ refresh = Idle
    <3>1. /\ requested' = IF r > requested THEN r ELSE requested
          /\ BeginRefresh(1, requested', applied, load)
      BY <2>1 DEF ReadEvent
    <3>2. requested' \in Nat /\ requested <= requested' /\ requested' <= revision
      BY <1>2, <1>3, <3>1 DEF IInv, Awaiting
    <3>3. load.stage = "none" => load.answer = None /\ ~load.move
      BY DEF IInv, Awaiting
    <3>4. ~superseded
      BY <2>1 DEF IInv, Awaiting
    <3> QED  BY <1>3, <3>1, <3>2, <3>3, <3>4, RunBegins
  <2>2. CASE r > applied /\ refresh # Idle
    <3>1. /\ requested' = IF r > requested THEN r ELSE requested
          /\ UNCHANGED <<refresh, load>>
      BY <2>2 DEF ReadEvent
    <3> QED  BY <1>2, <1>3, <2>2, <3>1, Something DEF IInv, Awaiting
  <2>3. CASE ~(r > applied)
    <3>1. UNCHANGED <<requested, refresh, load>>
      BY <2>3 DEF ReadEvent
    <3> QED  BY <1>2, <1>3, <2>3, <3>1 DEF IInv, Awaiting
  <2> QED  BY <2>1, <2>2, <2>3
<1>5. TypeOK'
  BY <1>1, <1>2, <1>4 DEF IInv, TypeOK, Status, page
<1>6. Lost' /\ Boards' /\ Applied'
  BY <1>1, <1>3, <1>4 DEF IInv, Lost, Boards, Applied, Held, Undone, page
<1>7. Awaiting'
  BY <1>1, <1>3, <1>4 DEF IInv, Awaiting, page
<1>8. AnswerNew'
  BY <1>1, <1>3, <1>4 DEF IInv, AnswerNew, Held, page
<1>9. Held' = Held /\ (~error => Held \in Nat)
  BY <1>1, Something DEF IInv, TypeOK, Lost, Held, page
<1>10. Truthful'
  <2>1. SUFFICES ASSUME refresh' = Idle, ~syncError, ~Undone, requested > Held
                 PROVE  StillToCome'
    BY <1>1, <1>3, <1>4, <1>9 DEF Truthful, Undone, page
  <2>2. r <= applied /\ applied <= Held
    BY <1>3, <1>4, <2>1 DEF IInv, Applied
  <2>3. r < requested
    BY <1>2, <1>3, <1>9, <2>1, <2>2
  <2> QED  BY <1>1, <1>2, <1>3, <1>4, <2>1, <2>3 DEF StillToCome
<1> QED  BY <1>2, <1>5, <1>6, <1>7, <1>8, <1>10 DEF IInv

-----------------------------------------------------------------------------
(* Answers to refreshes.                                                   *)

\* A board that is shown for an answer has its revision, whichever is kept.
LEMMA Displayed ==
  ASSUME IInv, load.answer # None, Display(load.answer)
  PROVE  /\ ~error /\ ~accessLost /\ shown' \in Board /\ drag' \in Drag \cup {None}
         /\ Held' = load.answer.revision /\ load.answer.revision \in Nat
         /\ Genuine(shown', revision) /\ (drag' # None <=> drag # None)
         /\ shown' \in {shown, load.answer}
         /\ drag' # None => /\ shown' = shown /\ drag'.previous = drag.previous
                            /\ drag'.pending = load.answer
<1>1. /\ ~error /\ ~accessLost /\ shown \in Board /\ load.answer \in Board
      /\ Genuine(shown, revision) /\ Genuine(load.answer, revision)
      /\ load.answer.revision \in Nat
  BY Something, Askings DEF IInv, TypeOK, Lost, Boards
<1>2. CASE drag # None
  <2>1. drag' = [drag EXCEPT !.pending = load.answer] /\ shown' = shown /\ drag \in Drag
    BY <1>2 DEF Display, IInv, TypeOK
  <2>2. /\ drag' \in Drag /\ drag'.previous = drag.previous /\ drag'.pending = load.answer
    BY <1>1, <2>1 DEF Drag
  <2> QED  BY <1>1, <1>2, <2>1, <2>2, Something DEF Held
<1>3. CASE drag = None
  <2>1. drag' = None /\ shown' = Merge(shown, load.answer)
    BY <1>3 DEF Display
  <2>2. shown' \in {shown, load.answer} /\ shown'.revision = load.answer.revision
    BY <2>1 DEF Merge
  <2> QED  BY <1>1, <1>3, <2>1, <2>2 DEF Held
<1> QED  BY <1>2, <1>3

\* What the hook's run does with a board that is at revision r.
LEMMA RunGoesOn ==
  ASSUME IInv, load.hook, NEW left \in {NoLoad, Asked}, NEW r \in Nat,
         ContinueRefresh(left, r)
  PROVE  /\ refresh' \in Run /\ load' \in Load /\ load'.answer = None /\ ~load'.move
         /\ load'.stage = "none" => ~load'.hook
         /\ load'.stage # "answered"
         /\ refresh' = Idle <=> ~load'.hook
         /\ refresh'.observed <= requested
         /\ applied' = r /\ status' \in Status
         /\ refresh' = Idle /\ status' = "online" => requested <= r
<1> DEFINE reached == r >= requested
           stuck == r <= refresh.previous \/ refresh.attempt = MAX_SYNC_ATTEMPTS
<1>1. /\ left \in Load /\ left.answer = None /\ ~left.hook /\ ~left.move
      /\ left.stage \in {"none", "asked"} /\ requested \in Nat /\ refresh \in Run
      /\ status \in Status
  BY Askings DEF IInv, TypeOK
<1>2. /\ applied' = r /\ status' \in Status
      /\ ~reached /\ stuck => status' = "polling"
  BY <1>1 DEF ContinueRefresh, Status
<1>3. CASE reached \/ stuck
  <2>1. EndRefresh(left, r)
    BY <1>3 DEF ContinueRefresh
  <2> QED  BY <1>1, <1>2, <1>3, <2>1, RunEnds
<1>4. CASE ~(reached \/ stuck)
  <2>1. BeginRefresh(refresh.attempt + 1, requested, r, left)
    BY <1>4 DEF ContinueRefresh
  <2>2. refresh.attempt + 1 \in Nat \ {0}
    BY <1>1, Something
  <2> QED  BY <1>1, <1>2, <2>1, <2>2, RunBegins
<1> QED  BY <1>3, <1>4

LEMMA LoadAnsweredKeeps ==
  ASSUME IInv, LoadAnswered
  PROVE  IInv'
<1> DEFINE answer == load.answer
           behind == load.move /\ move.stage = "refreshing" /\ answer.revision < move.saved
           left == IF behind THEN Asked ELSE NoLoad
<1>1. /\ answer # None /\ Display(answer) /\ move' = IF load.move THEN None ELSE move
      /\ error' = FALSE /\ syncError' = behind
      /\ UNCHANGED <<revision, access, role, paged, stage, since, told, wire>>
      /\ UNCHANGED <<more, accessLost, requested, superseded, rendered, connection>>
  BY DEF LoadAnswered, server, stream
<1>2. /\ ~error /\ ~accessLost /\ shown' \in Board /\ drag' \in Drag \cup {None}
      /\ Held' = answer.revision /\ answer.revision \in Nat
      /\ Genuine(shown', revision) /\ (drag' # None <=> drag # None)
      /\ shown' \in {shown, answer}
      /\ drag' # None => /\ shown' = shown /\ drag'.previous = drag.previous
                         /\ drag'.pending = answer
  BY <1>1, Displayed
<1>3. /\ Genuine(answer, revision) /\ ~answer.tentative /\ answer.revision <= revision
      /\ answer.revision >= Held /\ answer.revision >= applied
      /\ refresh = Idle => requested <= answer.revision
  BY <1>1, <1>2 DEF IInv, TypeOK, Boards, AnswerNew, Genuine
<1>4. left \in {NoLoad, Asked}
  OBVIOUS
<1>5. /\ refresh' \in Run /\ load' \in Load /\ load'.answer = None /\ ~load'.move
      /\ load'.stage = "none" => ~load'.hook
      /\ load'.stage # "answered"
      /\ (refresh' = Idle <=> ~load'.hook /\ ~superseded) /\ ~(load'.hook /\ superseded)
      /\ refresh'.observed <= requested
      /\ applied' \in Nat /\ applied' <= answer.revision /\ status' \in Status
      /\ refresh' = Idle /\ status' = "online" => requested <= answer.revision
  <2>1. CASE load.hook
    <3>1. ContinueRefresh(left, answer.revision)
      BY <2>1 DEF LoadAnswered
    <3>2. ~superseded
      BY <2>1 DEF IInv, Awaiting
    <3> HIDE DEF left, answer
    <3> QED  BY <1>2, <1>4, <2>1, <3>1, <3>2, RunGoesOn DEF answer
  <2>2. CASE ~load.hook
    <3>1. load' = left /\ UNCHANGED <<refresh, applied, status>>
      BY <2>2 DEF LoadAnswered
    <3>2. /\ left \in Load /\ left.answer = None /\ ~left.hook /\ ~left.move
          /\ left.stage \in {"none", "asked"}
      BY <1>4, Askings
    <3>3. (refresh = Idle <=> ~superseded) /\ refresh.observed <= requested
      BY <2>2 DEF IInv, Awaiting
    <3> HIDE DEF left, answer
    <3> QED  BY <1>3, <3>1, <3>2, <3>3 DEF IInv, TypeOK, answer
  <2> QED  BY <2>1, <2>2
<1> HIDE DEF left, behind
<1>6. move' \in Move \cup {None} /\ (move' # None => move' = move) /\ syncError' \in BOOLEAN
  BY <1>1 DEF IInv, TypeOK, behind
<1>7. TypeOK'
  BY <1>1, <1>2, <1>5, <1>6 DEF IInv, TypeOK
<1>8. Lost'
  <2>1. shown' # None
    BY <1>2, Something
  <2>2. accessLost' = FALSE
    BY <1>1, <1>2 DEF IInv, TypeOK
  <2> QED  BY <1>1, <2>1, <2>2 DEF Lost
<1>9. Boards'
  <2>1. shown' # None /\ drag' = None /\ (move' # None => move'.stage # "sent")
           => Old(shown', revision)
    BY <1>1, <1>2, <1>3, <1>6 DEF IInv, Lost, Boards, Awaiting, Old
  <2>2. drag' # None => /\ move' = None /\ shown' # None
                        /\ Genuine(drag'.previous, revision) /\ Old(drag'.previous, revision)
                        /\ shown'.revision = drag'.previous.revision
                        /\ answer.revision >= shown'.revision
    BY <1>1, <1>2, <1>3, <1>6, Something DEF IInv, TypeOK, Lost, Boards, Held
  <2>3. move' # None => Genuine(move'.previous, revision) /\ Old(move'.previous, revision)
    BY <1>6 DEF IInv, Boards
  <2>4. move' # None /\ move'.stage = "saved" =>
          move'.previous.revision = move'.saved - 1 /\ ~move'.previous.tentative
    BY <1>6 DEF IInv, Boards
  <2> QED  BY <1>1, <1>2, <1>3, <1>5, <2>1, <2>2, <2>3, <2>4 DEF Boards
<1>10. Wired'
  BY <1>1 DEF IInv, Wired
<1>11. Awaiting' /\ AnswerNew'
  BY <1>1, <1>2, <1>3, <1>5 DEF IInv, TypeOK, Awaiting, AnswerNew
<1>12. Applied' /\ Truthful'
  BY <1>1, <1>2, <1>5 DEF IInv, TypeOK, Applied, Truthful
<1> QED  BY <1>7, <1>8, <1>9, <1>10, <1>11, <1>12 DEF IInv

LEMMA LoadFailsKeeps ==
  ASSUME IInv, LoadFails
  PROVE  IInv'
<1> DEFINE left == IF load.move /\ move.stage = "refreshing" THEN Asked ELSE NoLoad
<1>1. /\ load.stage # "none" /\ syncError' = TRUE
      /\ move' = IF load.move THEN None ELSE move
      /\ UNCHANGED <<revision, access, role, paged, stage, since, told, wire>>
      /\ UNCHANGED <<shown, drag, more, accessLost, error, requested, applied>>
      /\ UNCHANGED <<superseded, rendered, connection>>
  BY DEF LoadFails, server, stream
<1>2. /\ left \in Load /\ left.answer = None /\ ~left.hook /\ ~left.move
      /\ left.stage \in {"none", "asked"}
  BY Askings
<1>3. /\ refresh' \in Run /\ load' \in Load /\ load'.answer = None /\ ~load'.move
      /\ load'.stage = "none" => ~load'.hook
      /\ load'.stage # "answered"
      /\ (refresh' = Idle <=> ~load'.hook /\ ~superseded) /\ ~(load'.hook /\ superseded)
      /\ refresh'.observed <= requested /\ status' \in Status
  <2>1. CASE load.hook
    <3>1. EndRefresh(left, applied) /\ status' = "polling"
      BY <2>1 DEF LoadFails
    <3>2. ~superseded /\ requested \in Nat /\ refresh \in Run /\ applied \in Nat
      BY <2>1 DEF IInv, TypeOK, Awaiting
    <3> HIDE DEF left
    <3> QED  BY <1>2, <3>1, <3>2, RunEnds DEF Status
  <2>2. CASE ~load.hook
    <3>1. load' = left /\ UNCHANGED <<refresh, status>>
      BY <2>2 DEF LoadFails
    <3>2. (refresh = Idle <=> ~superseded) /\ refresh.observed <= requested
      BY <2>2 DEF IInv, Awaiting
    <3> HIDE DEF left
    <3> QED  BY <1>2, <3>1, <3>2 DEF IInv, TypeOK
  <2> QED  BY <2>1, <2>2
<1> HIDE DEF left
<1>4. /\ move' \in Move \cup {None} /\ (move' # None => move' = move)
      /\ load.move => move # None /\ move.stage # "sent"
  BY <1>1 DEF IInv, TypeOK, Awaiting
<1>5. TypeOK'
  BY <1>1, <1>3, <1>4 DEF IInv, TypeOK
<1>6. Lost'
  BY <1>1, Askings DEF IInv, Lost
<1>7. Boards'
  BY <1>1, <1>3, <1>4 DEF IInv, Boards
<1>8. Wired' /\ Awaiting' /\ AnswerNew'
  BY <1>1, <1>3 DEF IInv, Wired, Awaiting, AnswerNew
<1>9. Applied' /\ Truthful'
  BY <1>1 DEF Applied, Truthful
<1> QED  BY <1>5, <1>6, <1>7, <1>8, <1>9 DEF IInv

-----------------------------------------------------------------------------
(* The specification.                                                      *)

LEMMA Initially ==
  ASSUME Init
  PROVE  IInv
<1>1. /\ revision = 0 /\ access = TRUE
      /\ stage = "idle" /\ since = None /\ told = 0 /\ wire = <<>>
      /\ role = "PARTICIPANT" /\ paged \in BOOLEAN
      /\ drag = None /\ move = None /\ more = None /\ load = NoLoad
      /\ accessLost = FALSE /\ error = FALSE /\ syncError = FALSE
      /\ requested = 0 /\ applied = 0 /\ rendered = 0
      /\ refresh = Idle /\ superseded = FALSE
      /\ connection = "waiting" /\ status = "connecting"
  BY DEF Init, Stream!Init
<1>2. /\ shown \in Board /\ shown # None /\ shown.revision = 0
      /\ shown.pages = {0} /\ ~shown.tentative
  <2>1. shown \in Board /\ shown.revision = 0 /\ shown.pages = {0} /\ ~shown.tentative
    BY <1>1 DEF Init, Snapshot, Board
  <2> QED  BY <2>1, Something
<1>3. wire \in Seq(Nat) /\ DOMAIN wire = {}
  BY <1>1
<1>4. TypeOK
  BY <1>1, <1>2, <1>3, Askings DEF TypeOK, Status, Stream!Over
<1>5. Lost
  BY <1>1, <1>2 DEF Lost
<1>9. Wired
  BY <1>1, <1>3 DEF Wired
<1>6. Boards
  BY <1>1, <1>2, Askings DEF Boards, Genuine, Old
<1>7. Awaiting /\ AnswerNew
  BY <1>1, Askings DEF Awaiting, AnswerNew
<1>8. Applied /\ Truthful
  BY <1>1, <1>2 DEF Applied, Truthful, Held
<1> QED  BY <1>4, <1>5, <1>6, <1>7, <1>8, <1>9 DEF IInv

LEMMA StutterKeeps ==
  ASSUME IInv, UNCHANGED vars
  PROVE  IInv'
<1>1. /\ UNCHANGED <<revision, access, role, paged, stage, since, told, wire>>
      /\ UNCHANGED <<page, load, rendered, hook, connection>>
  BY DEF vars, server, stream
<1>2. Wired' /\ (StillToCome => StillToCome')
  BY <1>1 DEF IInv, Wired, StillToCome, hook
<1> QED  BY <1>1, <1>2, ServerStep DEF IInv, TypeOK

LEMMA NextKeeps ==
  ASSUME IInv, Next
  PROVE  IInv'
<1>1. CASE Server
  BY <1>1, CommitKeeps, StreamStepKeeps, ReadSnapshotKeeps, SaveMoveKeeps, ReadPageKeeps
  DEF Server
<1>2. CASE Hook
  <2>1. CASE HandshakeNotFound
    BY <2>1, LosePageKeeps DEF HandshakeNotFound
  <2> QED  BY <1>2, <2>1, SupersededAnsweredKeeps, RunEffectKeeps, ReconcileKeeps,
              ConnectKeeps, ReadEventKeeps, DisconnectedKeeps
           DEF Hook
<1>3. CASE Page
  <2>1. CASE LoadLost
    BY <2>1, LosePageKeeps DEF LoadLost
  <2> QED  BY <1>3, <2>1, AskRefreshKeeps, LoadAnsweredKeeps, LoadFailsKeeps, DragStartKeeps,
              DragOverKeeps, CancelDragKeeps, DropFailsKeeps, DropKeeps, MoveAnsweredKeeps,
              MoveUnreadableKeeps, MoveFailsKeeps, LostMovesKeep, LoadMoreKeeps,
              PageFailsKeeps, PageAnsweredKeeps
           DEF Page, MoveUnrefreshed
<1> QED  BY <1>1, <1>2, <1>3 DEF Next

\* What the page has is sound in every state it can be in.
THEOREM ClientSound == Spec => []IInv
<1>1. IInv /\ [Next]_vars => IInv'
  BY NextKeeps, StutterKeeps
<1> QED  BY <1>1, Initially, PTL DEF Spec

\* Every shown board is of one revision, whatever pages and answers arrive in
\* which order (mergeBoardItemsPage, mergeBoardRefresh).
THEOREM PagesOfOneRevision == Spec => []OneRevision
<1>1. IInv => OneRevision
  BY DEF IInv, Boards, Genuine, OneRevision
<1> QED  BY <1>1, ClientSound, PTL

\* A page that has lost its board says so for good and hears no more, also when a move
\* or a drag that was under way makes it hold a board again (handleAccessLost, and
\* commitDndMove, which takes a refused move back without asking whether it was lost).
THEOREM NothingBringsBack == Spec => []LostStaysLost
<1>1. IInv => LostStaysLost
  BY DEF IInv, TypeOK, Lost, LostStaysLost
<1> QED  BY <1>1, ClientSound, PTL

\* A move is saved only on the whole truth, and one that is shown without being under
\* way is one the page is behind on (commitDndMove, requireExpectedRevision).
THEOREM MovesAreTrue == Spec => []MovesOnTruth
<1>1. ASSUME IInv PROVE MovesOnTruth
  <2>1. ASSUME ~error, shown.tentative, drag = None, move # None => move.stage # "sent"
        PROVE  shown.revision < revision
    BY <1>1, <2>1 DEF IInv, Lost, Boards, Old
  <2>2. ASSUME move # None, move.stage = "saved"
        PROVE  /\ move.previous.revision = move.saved - 1 /\ ~move.previous.tentative
               /\ move.previous.pages = {move.previous.revision}
    BY <1>1, <2>2 DEF IInv, Boards, Genuine
  <2> QED  BY <2>1, <2>2 DEF MovesOnTruth
<1> QED  BY <1>1, ClientSound, PTL

\* A page that has heard of a revision it does not show, and awaits nothing, does not
\* claim to be current unless it will hear of it again (useBoardRealtime).
THEOREM StaleIsSaid == Spec => []KnownStaleIsSaid
<1>1. IInv => KnownStaleIsSaid
  BY DEF IInv, Truthful, Held, Undone, KnownStaleIsSaid
<1> QED  BY <1>1, ClientSound, PTL

\* What each step of the page that changes the shown board does to its revision.
LEMMA Forward ==
  ASSUME IInv, Next, ~MoveFails, shown # None, shown' # None
  PROVE  shown'.revision >= shown.revision
<1> shown \in Board /\ shown.revision \in Nat
  BY Something DEF IInv, TypeOK
<1>1. CASE UNCHANGED shown
  BY <1>1
<1>2. ASSUME LoadAnswered PROVE shown'.revision >= shown.revision
  <2>1. load.answer # None /\ Display(load.answer)
    BY <1>2 DEF LoadAnswered
  <2>2. /\ ~error /\ shown' \in {shown, load.answer} /\ load.answer.revision \in Nat
        /\ drag' # None => shown' = shown
        /\ drag' # None <=> drag # None
    BY <2>1, Displayed
  <2>3. drag = None => load.answer.revision >= shown.revision
    BY <2>1, <2>2 DEF IInv, AnswerNew, Held
  <2> QED  BY <2>2, <2>3
<1>3. ASSUME drag # None, DragOver \/ CancelDrag \/ DropFails \/ Drop
      PROVE  shown'.revision >= shown.revision
  <2>1. /\ shown.revision = drag.previous.revision /\ drag.previous \in Board
        /\ drag.pending # None => /\ drag.pending \in Board /\ drag.pending.revision \in Nat
                                  /\ drag.pending.revision >= shown.revision
    BY <1>3, Something DEF IInv, TypeOK, Boards
  <2>2. CASE DragOver \/ Drop
    <3>1. shown' = [drag.previous EXCEPT !.tentative = TRUE]
      BY <2>2 DEF DragOver, Drop
    <3>2. shown'.revision = drag.previous.revision
      BY <2>1, <3>1, Tentative
    <3> QED  BY <2>1, <3>2
  <2>3. CASE DropFails
    BY <2>1, <2>3 DEF DropFails
  <2>4. CASE CancelDrag
    <3>1. shown' = drag.previous \/ (drag.pending # None /\ shown' = drag.pending)
      BY <2>4 DEF CancelDrag, Merge
    <3> QED  BY <2>1, <3>1
  <2> QED  BY <1>3, <2>2, <2>3, <2>4
<1>4. ASSUME PageAnswered PROVE shown'.revision >= shown.revision
  <2>1. more.answer \in Nat
    BY <1>4, Something DEF PageAnswered, IInv, TypeOK
  <2>2. shown' = shown \/ shown' = MergePage(shown, more.answer)
    BY <1>4 DEF PageAnswered
  <2>3. shown'.revision = shown.revision
    BY <2>1, <2>2, PageMerged
  <2> QED  BY <2>3
<1>5. Server => UNCHANGED shown
  BY DEF Server, Commit, LoseAccess, RegainAccess, ClaimOwnership, StreamStep, ReadSnapshot,
         SaveMove, ReadPage, page
<1>6. SupersededAnswered \/ RunEffect \/ Reconcile \/ Connect \/ ReadEvent \/ Disconnected
        \/ FallBackToPolling => UNCHANGED shown
  BY DEF SupersededAnswered, RunEffect, Reconcile, Connect, ReadEvent, Disconnected,
         FallBackToPolling, page
<1>7. AskRefresh \/ LoadFails \/ DragStart \/ MoveAnswered \/ MoveUnreadable
        \/ MoveUnrefreshed \/ LoadMore \/ PageFails => UNCHANGED shown
  BY DEF AskRefresh, LoadFails, DragStart, MoveAnswered, MoveUnreadable, MoveUnrefreshed,
         LoadMore, PageFails, page
<1>8. ~LoadLost /\ ~HandshakeNotFound
  BY DEF LoadLost, HandshakeNotFound, LosePage
<1>9. DragOver \/ CancelDrag \/ DropFails \/ Drop => drag # None
  BY DEF DragOver, CancelDrag, DropFails, Drop
<1> QED  BY <1>1, <1>2, <1>3, <1>4, <1>5, <1>6, <1>7, <1>8, <1>9 DEF Next, Page, Hook

\* The page goes back to an earlier revision only to take back a move that failed,
\* in whatever order its requests are answered.
THEOREM OnlyFailuresGoBack == Spec => NeverBackwards
<1>1. ASSUME IInv, [Next]_vars, shown # None, shown' # None, shown'.revision < shown.revision
      PROVE  move # None /\ move'.stage = "undone"
  <2>1. shown.revision \in Nat /\ shown'.revision \in Nat
    <3>1. IInv'
      BY <1>1, NextKeeps, StutterKeeps
    <3> QED  BY <1>1, <3>1, Something DEF IInv, TypeOK
  <2>2. ~UNCHANGED vars
    BY <1>1, <2>1 DEF vars, page
  <2>3. MoveFails
    BY <1>1, <2>1, <2>2, Forward
  <2>4. move \in Move /\ move' = [move EXCEPT !.stage = "undone"]
    BY <1>1, <2>3 DEF MoveFails, IInv, TypeOK
  <2> QED  BY <2>3, <2>4, MoveGoesOn DEF MoveFails
<1> QED  BY <1>1, ClientSound, PTL DEF Spec, NeverBackwards

-----------------------------------------------------------------------------
(* The page and its stream.                                                *)

\* The page has left its stream, or has been told of its end, when it is to ask for
\* another one; and nobody has committed more than a request may name.
Asks ==
    /\ connection = "waiting" => stage \in Stream!Over
    /\ revision <= MAX_REVISION

LEMMA AsksKept ==
  ASSUME Asks, Next, revision \in Nat
  PROVE  Asks'
<1> USE ClientAssumption DEF Asks
<1>1. CASE Server
  <2>1. CASE Commit \/ SaveMove
    BY <1>1, <2>1 DEF Commit, SaveMove, Stream!Commit, hook
  <2>2. CASE LoseAccess \/ RegainAccess
    BY <2>2 DEF LoseAccess, RegainAccess, Stream!LoseAccess, Stream!RegainAccess
  <2>3. CASE StreamStep
    BY <2>3 DEF StreamStep, Stream!Open, Stream!Tell, Stream!Refuse, Stream!End,
                Stream!Over, Stream!Refusal
  <2>4. CASE ClaimOwnership \/ ReadSnapshot \/ ReadPage
    BY <2>4 DEF ClaimOwnership, ReadSnapshot, ReadPage, server, stream
  <2> QED  BY <1>1, <2>1, <2>2, <2>3, <2>4 DEF Server
<1>2. CASE Connect \/ ReadEvent \/ Disconnected \/ FallBackToPolling
  BY <1>2 DEF Connect, ReadEvent, Disconnected, FallBackToPolling, server, stream,
              Stream!Request, Stream!Read, Stream!End, Stream!Over, Stream!Refusal
<1>3. CASE HandshakeNotFound \/ LoadLost
  BY <1>3 DEF HandshakeNotFound, LoadLost, LosePage, Stream!End
<1>4. CASE SupersededAnswered \/ RunEffect \/ Reconcile
  BY <1>4 DEF SupersededAnswered, RunEffect, Reconcile, server, stream
<1>5. CASE Page /\ ~LoadLost
  BY <1>5 DEF Page, AskRefresh, LoadAnswered, LoadFails, DragStart, DragOver, CancelDrag,
              DropFails, Drop, MoveAnswered, MoveUnreadable, MoveFails, MoveUnrefreshed,
              LoadMore, PageFails, PageAnswered, server, stream, hook
<1> QED  BY <1>1, <1>2, <1>3, <1>4, <1>5 DEF Next, Hook

LEMMA AlwaysAsks == Spec => []Asks
<1>1. Init => Asks
  BY ClientAssumption DEF Init, Stream!Init, Stream!Over, Asks
<1>2. IInv /\ Asks /\ [Next]_vars => Asks'
  <2>1. ASSUME IInv, Asks, UNCHANGED vars PROVE Asks'
    BY <2>1 DEF vars, Asks, server, stream
  <2> QED  BY <2>1, AsksKept DEF IInv, TypeOK
<1> QED  BY <1>1, <1>2, ClientSound, PTL DEF Spec

\* A page never asks for a second stream while it may still hear of the first one
\* (runConnection), so what it reads is of the stream it has asked for last.
THEOREM OneStreamAtATime == Spec => [](connection = "waiting" => stage \in Stream!Over)
<1>1. Asks => (connection = "waiting" => stage \in Stream!Over)
  BY DEF Asks
<1> QED  BY <1>1, AlwaysAsks, PTL

\* Each step of the page and of what it talks to, seen from the stream.
LEMMA PageKeepsPromise ==
  ASSUME IInv, Asks, [Next]_vars
  PROVE  [Stream!Next]_(Stream!vars)
<1> /\ revision \in Nat /\ applied \in Nat /\ applied <= revision /\ MAX_REVISION \in Nat
    /\ told \in Nat /\ None \notin Nat
  BY ClientAssumption DEF IInv, TypeOK, Awaiting
<1>1. CASE Server
  <2>1. CASE Commit \/ SaveMove
    BY <2>1 DEF Commit, SaveMove, Stream!Next
  <2>2. CASE LoseAccess \/ RegainAccess
    BY <2>2 DEF LoseAccess, RegainAccess, Stream!Next
  <2>3. CASE StreamStep
    BY <2>3 DEF StreamStep, Stream!Next
  <2>4. CASE ClaimOwnership \/ ReadSnapshot \/ ReadPage
    BY <2>4 DEF ClaimOwnership, ReadSnapshot, ReadPage, server, stream, Stream!vars
  <2> QED  BY <1>1, <2>1, <2>2, <2>3, <2>4 DEF Server
<1>2. CASE Connect
  <2>1. applied \in 0 .. MAX_REVISION
    BY DEF Asks
  <2> QED  BY <1>2, <2>1 DEF Connect, Stream!Next
<1>3. CASE ReadEvent
  BY <1>3 DEF ReadEvent, Stream!Next
<1>4. CASE FallBackToPolling
  BY <1>4 DEF FallBackToPolling, Stream!Next, Stream!vars, stream
<1>5. CASE HandshakeNotFound \/ LoadLost
  BY <1>5 DEF HandshakeNotFound, LoadLost, LosePage, Stream!Next, Stream!vars, stream
<1>6. CASE SupersededAnswered \/ RunEffect \/ Reconcile \/ Disconnected
  BY <1>6 DEF SupersededAnswered, RunEffect, Reconcile, Disconnected, server, stream, Stream!vars
<1>7. CASE Page /\ ~LoadLost
  BY <1>7 DEF Page, AskRefresh, LoadAnswered, LoadFails, DragStart, DragOver, CancelDrag,
              DropFails, Drop, MoveAnswered, MoveUnreadable, MoveFails, MoveUnrefreshed,
              LoadMore, PageFails, PageAnswered, server, stream, Stream!vars
<1>8. CASE UNCHANGED vars
  BY <1>8 DEF vars, server, stream, Stream!vars
<1> QED  BY <1>1, <1>2, <1>3, <1>4, <1>5, <1>6, <1>7, <1>8 DEF Next, Hook

\* The page uses its stream as RevisionStream, which the server keeps (BoardStream),
\* allows: it asks only when no request of its own is under way, from a revision that
\* it has had, and otherwise only reads or leaves.  What a page does to a board
\* or loses of it is one of the stream's commits or losses of access.
THEOREM PageImplementsStream == Spec => Stream!Safety
<1>1. Init => Stream!Init
  BY DEF Init
<1>2. IInv /\ Asks /\ [Next]_vars => [Stream!Next]_(Stream!vars)
  BY PageKeepsPromise
<1> QED  BY <1>1, <1>2, AlwaysAsks, ClientSound, PTL DEF Spec, Stream!Safety

=============================================================================
