--------------------------- MODULE RevisionStream ---------------------------
(***************************************************************************)
(* What one request for a board's events (GET /api/boards/{id}/events)     *)
(* promises the browser that makes it: a stream of growing revisions that  *)
(* begins no earlier than the revision asked from, tells every later one   *)
(* or a greater one for as long as it is open, and ends when the visitor   *)
(* loses access.  BoardStream shows how the server keeps the promise.      *)
(***************************************************************************)
EXTENDS Integers, Sequences

CONSTANTS None, MAX_REVISION

VARIABLES
    revision,  \* the board's
    access,    \* whether the visitor is an active member of the board
    stage,     \* how far the request is
    since,     \* its Last-Event-ID, or None
    told,      \* the greatest revision written to it
    wire       \* the revisions written to it and not read yet

vars == <<revision, access, stage, since, told, wire>>

Refusal == {"notFound", "limited", "invalid", "unavailable"}

\* No request is under way.
Over == Refusal \cup {"idle", "ended"}

Init ==
    /\ revision = 0 /\ access = TRUE
    /\ stage = "idle" /\ since = None /\ told = 0 /\ wire = <<>>

Commit ==
    /\ revision' = revision + 1
    /\ UNCHANGED <<access, stage, since, told, wire>>

LoseAccess ==
    /\ access /\ access' = FALSE
    /\ UNCHANGED <<revision, stage, since, told, wire>>

RegainAccess ==
    /\ ~access /\ access' = TRUE
    /\ UNCHANGED <<revision, stage, since, told, wire>>

Request(from) ==
    /\ stage \in Over /\ stage' = "opening"
    /\ since' = from /\ told' = 0 /\ wire' = <<>>
    /\ UNCHANGED <<revision, access>>

\* Answered with an error, at once or later.
Refuse(why) ==
    /\ stage \in Over \cup {"opening"} /\ stage' = why
    /\ (why = "notFound") => ~access
    /\ (why = "invalid") => since # None
    /\ since' = None /\ told' = 0 /\ wire' = <<>>
    /\ UNCHANGED <<revision, access>>

\* The stream begins with the revision read last, which ready or resync
\* carries, and at most one that was committed since.
Open(first) ==
    /\ stage = "opening" /\ stage' = "open"
    /\ (since # None) => first >= since
    /\ \/ told' = first /\ wire' = <<first>>
       \/ \E next \in first + 1 .. revision : told' = next /\ wire' = <<first, next>>
    /\ UNCHANGED <<revision, access, since>>

Tell(r) ==
    /\ stage = "open" /\ r > told
    /\ told' = r /\ wire' = Append(wire, r)
    /\ UNCHANGED <<revision, access, stage, since>>

\* What was written before the end can still be read, unless the browser
\* itself has left.
End ==
    /\ stage \in {"opening", "open"} /\ stage' = "ended"
    /\ since' = None /\ told' = 0 /\ wire' \in {wire, <<>>}
    /\ UNCHANGED <<revision, access>>

Read ==
    /\ wire # <<>> /\ wire' = Tail(wire)
    /\ UNCHANGED <<revision, access, stage, since, told>>

Next ==
    \/ Commit \/ LoseAccess \/ RegainAccess \/ End \/ Read
    \/ \E from \in {None} \cup (0 .. MAX_REVISION) : Request(from)
    \/ \E why \in Refusal : Refuse(why)
    \/ \E r \in 0 .. revision : Open(r) \/ Tell(r)

\* An open stream tells each revision, or a greater one, or ends.
TellsAll ==
    \A r \in 1 .. MAX_REVISION :
        (stage = "open" /\ told < r /\ r <= revision)
            ~> (stage # "open" \/ told >= r)

\* A request is answered.
Answers == (stage = "opening") ~> (stage # "opening")

\* A visitor who stays without access has no stream in the end.
EndsRevoked == (~access) ~> (stage # "open" \/ access)

Safety == Init /\ [][Next]_vars

Spec == Safety /\ TellsAll /\ Answers /\ EndsRevoked
=============================================================================
