------------------------------ MODULE Lifecycle ------------------------------
(***************************************************************************)
(* How the application stops: the supervisor (ServerSupervisor) that the   *)
(* operator signals, the server it forked, and the channel between them.   *)
(* The server drains (ApplicationLifecycle.shutdown): its cleanup is       *)
(* aborted and waited for and its listener, which the first request for    *)
(* events makes, is closed if there is one, both within a time.            *)
(* The supervisor passes the signal on when the server is ready for it, or *)
(* when it has waited long enough.                                         *)
(***************************************************************************)
EXTENDS Naturals, Sequences

CONSTANT MAX_SIGNALS  \* bound on the signals to the supervisor

ASSUME LifecycleAssumption == MAX_SIGNALS \in Nat

VARIABLES
    parent,    \* the supervisor
    child,     \* the server
    link,      \* the channel is up
    toChild,   \* prepare-shutdown messages under way
    toParent,  \* lifecycle-ready and the answers under way
    unsent,    \* a prepare-shutdown could not be sent, its callback is due
    sigterm,   \* a signal is under way to the server
    forwards,  \* history: how often the supervisor passed a signal on
    wrong      \* history: what went wrong

mail == <<link, toChild, toParent, unsent>>
vars == <<parent, child, mail, sigterm, forwards, wrong>>

Answer == [complete |-> "prepared", timeout |-> "failed"]

Parent == [ready : BOOLEAN, signals : 0 .. MAX_SIGNALS, shutting : BOOLEAN, timer : BOOLEAN,
           forwarded : BOOLEAN, disconnected : BOOLEAN, stopped : BOOLEAN, dead : BOOLEAN]

Child == [pc : {"booting", "running", "exiting", "stuck", "gone"}, hooks : BOOLEAN,
          shutdown : {"no", "running", "complete", "timeout"},
          cleanup : {"off", "waiting", "running"},
          listener : {"none", "open", "closing", "closed", "late"},
          owed : 0 .. 1, terminating : BOOLEAN]

TypeOK ==
    /\ parent \in Parent /\ child \in Child
    /\ link \in BOOLEAN /\ unsent \in BOOLEAN /\ sigterm \in BOOLEAN
    /\ toChild \in Seq({"prepare"})
    /\ toParent \in Seq({"ready", "prepared", "failed"})
    /\ forwards \in Nat
    /\ wrong \subseteq {"deadline", "drain", "channel", "signal", "crash"}

Init ==
    /\ parent = [ready |-> FALSE, signals |-> 0, shutting |-> FALSE, timer |-> FALSE,
                 forwarded |-> FALSE, disconnected |-> FALSE, stopped |-> FALSE, dead |-> FALSE]
    /\ child = [pc |-> "booting", hooks |-> FALSE, shutdown |-> "no", cleanup |-> "off",
                listener |-> "none", owed |-> 0, terminating |-> FALSE]
    /\ link = TRUE /\ toChild = <<>> /\ toParent = <<>> /\ unsent = FALSE
    /\ sigterm = FALSE /\ forwards = 0 /\ wrong = {}

Alive == ~parent.stopped /\ ~parent.dead

-----------------------------------------------------------------------------
(* The supervisor.                                                         *)

\* requestLifecycleShutdown: sent while the channel is up, else its callback fails.
Request ==
    IF parent.forwarded
    THEN UNCHANGED <<toChild, unsent>>
    ELSE /\ toChild' = IF link THEN Append(toChild, "prepare") ELSE toChild
         /\ unsent' = (unsent \/ ~link)

Forward ==
    IF parent.forwarded \/ ~parent.shutting
    THEN UNCHANGED <<parent, sigterm, forwards>>
    ELSE /\ parent' = [parent EXCEPT !.forwarded = TRUE, !.timer = FALSE]
         /\ sigterm' = TRUE /\ forwards' = forwards + 1

\* handleSignal, the first: beginShutdown.
FirstSignal ==
    /\ Alive /\ ~parent.shutting /\ parent.signals < MAX_SIGNALS
    /\ parent' = [parent EXCEPT !.signals = @ + 1, !.shutting = TRUE, !.timer = TRUE]
    /\ IF parent.ready THEN Request ELSE UNCHANGED <<toChild, unsent>>
    /\ UNCHANGED <<child, link, toParent, sigterm, forwards, wrong>>

\* handleSignal while shutting down: forceShutdown.
NextSignal ==
    /\ Alive /\ parent.shutting /\ parent.signals < MAX_SIGNALS
    /\ parent' = [parent EXCEPT !.signals = @ + 1, !.forwarded = TRUE, !.timer = FALSE]
    /\ child' = [child EXCEPT !.pc = "gone"] /\ link' = FALSE
    /\ UNCHANGED <<toChild, toParent, unsent, sigterm, forwards, wrong>>

Deadline ==
    /\ Alive /\ parent.timer /\ Forward
    /\ wrong' = wrong \cup {"deadline"}
    /\ UNCHANGED <<child, mail>>

SendFailed ==
    /\ Alive /\ unsent /\ unsent' = FALSE /\ Forward
    /\ UNCHANGED <<child, link, toChild, toParent, wrong>>

OnReady ==
    /\ Alive /\ toParent # <<>> /\ Head(toParent) = "ready"
    /\ toParent' = Tail(toParent)
    /\ parent' = [parent EXCEPT !.ready = TRUE]
    /\ IF parent.shutting THEN Request ELSE UNCHANGED <<toChild, unsent>>
    /\ UNCHANGED <<child, link, sigterm, forwards, wrong>>

\* prepared, or could not be prepared: passed on either way.
OnAnswer ==
    /\ Alive /\ toParent # <<>> /\ Head(toParent) # "ready"
    /\ toParent' = Tail(toParent) /\ Forward
    /\ UNCHANGED <<child, link, toChild, unsent, wrong>>

\* onChildDisconnect.  Mutant: leaves it to the server.
OnDisconnectIdly ==
    /\ Alive /\ ~link /\ toParent = <<>> /\ ~parent.disconnected
    /\ parent' = [parent EXCEPT !.disconnected = TRUE, !.ready = FALSE]
    /\ UNCHANGED <<child, mail, sigterm, forwards, wrong>>

OnDisconnect ==
    /\ Alive /\ ~link /\ toParent = <<>> /\ ~parent.disconnected
    /\ parent' = [parent EXCEPT !.disconnected = TRUE, !.ready = FALSE,
                                !.shutting = TRUE, !.timer = @ \/ ~parent.shutting]
    /\ UNCHANGED <<child, mail, sigterm, forwards, wrong>>

\* onChildExit and onChildError: finish.
OnExit ==
    /\ Alive /\ child.pc = "gone"
    /\ parent' = [parent EXCEPT !.stopped = TRUE, !.timer = FALSE]
    /\ UNCHANGED <<child, mail, sigterm, forwards, wrong>>

\* The supervisor is killed.
Die ==
    /\ Alive /\ parent' = [parent EXCEPT !.dead = TRUE] /\ link' = FALSE
    /\ UNCHANGED <<child, toChild, toParent, unsent, sigterm, forwards, wrong>>

-----------------------------------------------------------------------------
(* The server.                                                             *)

Up == child.pc \in {"running", "exiting", "stuck"}

\* startApplicationLifecycle, called while Next starts: the first cleanup, and the
\* hooks on the channel unless it is already down.
Start ==
    /\ child.pc = "booting"
    /\ child' = [child EXCEPT !.pc = "running", !.hooks = link, !.cleanup = "running"]
    /\ toParent' = IF link THEN Append(toParent, "ready") ELSE toParent
    /\ UNCHANGED <<parent, link, toChild, unsent, sigterm, forwards, wrong>>

\* ApplicationLifecycle.shutdown, once however often it is called: the scheduler's
\* timer is cleared, the cleanup aborted, and the listener, if there is one, shut down.
Drain(c) ==
    IF c.shutdown # "no" THEN c
    ELSE [c EXCEPT !.shutdown = "running",
                   !.cleanup = IF @ = "waiting" THEN "off" ELSE @,
                   !.listener = IF @ = "open" THEN "closing" ELSE @]

Drained == child.shutdown \in {"complete", "timeout"}

Say(answers) == toParent' = IF link THEN toParent \o answers ELSE toParent

OnPrepare ==
    /\ Up /\ child.hooks /\ toChild # <<>> /\ toChild' = Tail(toChild)
    /\ IF Drained
       THEN UNCHANGED child /\ Say(<<Answer[child.shutdown]>>)
       ELSE child' = [Drain(child) EXCEPT !.owed = 1] /\ UNCHANGED toParent
    /\ UNCHANGED <<parent, link, unsent, sigterm, forwards, wrong>>

\* The server sends itself SIGTERM once it has drained.
OnChannelDown ==
    /\ Up /\ child.hooks /\ ~link /\ toChild = <<>> /\ ~child.terminating
    /\ child' = [Drain(child) EXCEPT !.terminating = TRUE]
    /\ sigterm' = (sigterm \/ Drained)
    /\ UNCHANGED <<parent, mail, forwards, wrong>>

Finish(outcome) ==
    /\ child' = [child EXCEPT !.shutdown = outcome, !.owed = 0]
    /\ Say(IF child.owed = 0 THEN <<>> ELSE <<Answer[outcome]>>)
    /\ sigterm' = (sigterm \/ child.terminating)
    /\ UNCHANGED <<parent, link, toChild, unsent, forwards>>

\* Both promises have settled.  Mutant: the cleanup is not waited for.
DrainCompletesEarly ==
    /\ Up /\ child.shutdown = "running" /\ child.listener # "closing"
    /\ Finish("complete") /\ UNCHANGED wrong

DrainCompletes ==
    /\ Up /\ child.shutdown = "running"
    /\ child.cleanup # "running" /\ child.listener # "closing"
    /\ Finish("complete") /\ UNCHANGED wrong

DrainTimesOut ==
    /\ Up /\ child.shutdown = "running"
    /\ Finish("timeout") /\ wrong' = wrong \cup {"drain"}

CleanupEnds ==
    /\ Up /\ child.cleanup = "running"
    /\ child' = [child EXCEPT !.cleanup = IF child.shutdown = "no" THEN "waiting" ELSE "off"]
    /\ UNCHANGED <<parent, mail, sigterm, forwards, wrong>>

LaunchCleanup ==
    /\ Up /\ child.cleanup = "waiting"
    /\ child' = [child EXCEPT !.cleanup = "running"]
    /\ UNCHANGED <<parent, mail, sigterm, forwards, wrong>>

\* getPostgresBoardListener, on the first request for events that Next serves.  It
\* does not look at whether the server drains: a listener that is made late is shut
\* down by nobody.
ListenerOpens ==
    /\ Up /\ child.listener = "none"
    /\ child.pc = "running" \/ child.shutdown # "no"
    /\ child' = [child EXCEPT !.listener = IF child.shutdown = "no" THEN "open" ELSE "late"]
    /\ UNCHANGED <<parent, mail, sigterm, forwards, wrong>>

\* Its connection has ended; it refuses to listen again (ensureListening).
ListenerCloses ==
    /\ Up /\ child.listener = "closing"
    /\ child' = [child EXCEPT !.listener = "closed"]
    /\ UNCHANGED <<parent, mail, sigterm, forwards, wrong>>

\* Next, and installApplicationShutdownHooks: Next stops and exits, in its own time.
OnSigterm ==
    /\ sigterm /\ child.pc # "gone" /\ sigterm' = FALSE
    /\ child' = IF child.pc = "running" THEN [Drain(child) EXCEPT !.pc = "exiting"]
                ELSE IF child.pc = "booting" THEN [child EXCEPT !.pc = "exiting"]
                ELSE child
    /\ UNCHANGED <<parent, mail, forwards, wrong>>

\* A request that does not end keeps Next from exiting.
GetStuck ==
    /\ child.pc = "exiting" /\ child' = [child EXCEPT !.pc = "stuck"]
    /\ UNCHANGED <<parent, mail, sigterm, forwards, wrong>>

Exit ==
    /\ child.pc = "exiting" /\ child' = [child EXCEPT !.pc = "gone"] /\ link' = FALSE
    /\ UNCHANGED <<parent, toChild, toParent, unsent, sigterm, forwards, wrong>>

\* Also a fork that fails.
Crash ==
    /\ child.pc # "gone" /\ child' = [child EXCEPT !.pc = "gone"] /\ link' = FALSE
    /\ wrong' = wrong \cup {"crash"}
    /\ UNCHANGED <<parent, toChild, toParent, unsent, sigterm, forwards>>

ChannelBreaks ==
    /\ link /\ child.pc # "gone" /\ link' = FALSE /\ wrong' = wrong \cup {"channel"}
    /\ UNCHANGED <<parent, child, toChild, toParent, unsent, sigterm, forwards>>

\* Somebody signals the server and not its supervisor.
SignalServer ==
    /\ child.pc # "gone" /\ "signal" \notin wrong
    /\ sigterm' = TRUE /\ wrong' = wrong \cup {"signal"}
    /\ UNCHANGED <<parent, child, mail, forwards>>

-----------------------------------------------------------------------------
Supervise == SendFailed \/ OnReady \/ OnAnswer \/ OnDisconnect \/ OnExit

Serve == OnPrepare \/ OnChannelDown \/ DrainCompletes

Next ==
    \/ FirstSignal \/ NextSignal \/ Deadline \/ Supervise \/ Die
    \/ Start \/ Serve \/ DrainTimesOut \/ CleanupEnds \/ LaunchCleanup
    \/ ListenerOpens \/ ListenerCloses
    \/ OnSigterm \/ GetStuck \/ Exit \/ Crash \/ ChannelBreaks \/ SignalServer

Spec == Init /\ [][Next]_vars

\* Event loops turn and timers fire; nothing is asked of the cleanup, of the listener,
\* of how long Next takes to start, or of the operator.
Fairness ==
    /\ WF_vars(Deadline) /\ WF_vars(Supervise) /\ WF_vars(Serve) /\ WF_vars(DrainTimesOut)
    /\ WF_vars(OnSigterm) /\ WF_vars(Exit)

FairSpec == Spec /\ Fairness

-----------------------------------------------------------------------------
(* Properties.                                                             *)

\* A drain is complete when no cleanup runs and none will, and the listener that was
\* there when it began, if there was one, is closed (one made later may be open);
\* unless something goes wrong the signal is passed on after that; and it reaches
\* Next once: an answer that comes after the deadline, a channel that goes down after
\* an answer, a failed send do not repeat it.
DrainedFirst ==
    /\ forwards <= 1
    /\ child.shutdown = "complete" =>
           child.cleanup = "off" /\ child.listener \in {"none", "closed", "late"}
    /\ forwards > 0 /\ wrong = {} => child.shutdown = "complete"

\* However long the server takes to start or to drain, a signal to the supervisor,
\* or a channel that goes down, is passed on; a second signal ends both; and a server
\* whose supervisor is gone tells Next to exit.
ShutdownsEnd ==
    /\ (parent.signals > 0 \/ parent.disconnected) ~> (parent.forwarded \/ ~Alive)
    /\ (parent.signals > 1) ~> ~Alive
    /\ (parent.dead /\ child.hooks) ~> (child.pc \in {"gone", "stuck"})
=============================================================================
