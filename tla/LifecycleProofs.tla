--------------------------- MODULE LifecycleProofs ---------------------------
(***************************************************************************)
(* The server drains before it is told to exit: DrainedFirst, for any      *)
(* number of signals.                                                      *)
(*                                                                         *)
(* DrainedFirst speaks of runs in which nothing goes wrong, and most of    *)
(* what could pass the signal on too early is excluded by what has to be   *)
(* wrong before.  Undisturbed says it: until the signal is passed on, a    *)
(* supervisor that lives has its channel, and a server that goes on.       *)
(***************************************************************************)
EXTENDS Lifecycle, SequenceTheorems, TLAPS

Says(answer) == \E i \in DOMAIN toParent : toParent[i] = answer

\* What the server owes and says of its drain is how it ended.
AnswersTrue ==
    /\ Says("prepared") => child.shutdown = "complete"
    /\ Says("failed") => child.shutdown = "timeout"
    /\ child.shutdown = "timeout" => wrong # {}

\* A drain that began leaves no cleanup waiting to be launched and no listener that
\* it has not shut down; once it is complete the cleanup and that listener are gone.
DrainGoesOn ==
    /\ child.pc = "booting" => child.shutdown = "no"
    /\ child.shutdown # "no" => child.cleanup # "waiting"
    /\ child.shutdown # "no" => child.listener # "open"
    /\ child.shutdown = "complete" => child.cleanup = "off" /\ child.listener # "closing"

\* The signal is passed on once, and in a run without faults after the drain.
PassedOn ==
    /\ forwards <= 1
    /\ forwards > 0 => parent.forwarded
    /\ forwards > 0 /\ wrong = {} => child.shutdown = "complete"

\* Until then a supervisor that lives has its channel, and a server that goes on.
Undisturbed ==
    (wrong = {} /\ ~parent.forwarded /\ ~parent.dead) =>
        /\ link /\ ~unsent /\ ~sigterm
        /\ child.pc \in {"booting", "running"} /\ ~child.terminating

IInv == TypeOK /\ AnswersTrue /\ DrainGoesOn /\ PassedOn /\ Undisturbed

-----------------------------------------------------------------------------
(* The parts of the invariant, each at the place where it is needed.       *)

LEMMA Parts ==
  ASSUME IInv
  PROVE  /\ parent \in Parent /\ child \in Child
         /\ link \in BOOLEAN /\ unsent \in BOOLEAN /\ sigterm \in BOOLEAN
         /\ toChild \in Seq({"prepare"})
         /\ toParent \in Seq({"ready", "prepared", "failed"})
         /\ forwards \in Nat
         /\ wrong \subseteq {"deadline", "drain", "channel", "signal", "crash"}
         /\ AnswersTrue /\ DrainGoesOn /\ PassedOn /\ Undisturbed
BY DEF IInv, TypeOK

-----------------------------------------------------------------------------
(* Messages.                                                               *)

\* What the server says is heard, and nothing else.
LEMMA SaysMore ==
  ASSUME toParent \in Seq({"ready", "prepared", "failed"}),
         NEW answers \in Seq({"ready", "prepared", "failed"}),
         toParent' = toParent \o answers, NEW a, Says(a)'
  PROVE  Says(a) \/ \E i \in DOMAIN answers : answers[i] = a
<1>1. PICK i \in 1 .. Len(toParent \o answers) : (toParent \o answers)[i] = a
  BY DEF Says
<1>2. CASE i <= Len(toParent)
  BY <1>1, <1>2 DEF Says
<1>3. CASE i > Len(toParent)
  BY <1>1, <1>3
<1> QED  BY <1>1, <1>2, <1>3

\* What was read was said before, and what is left too.
LEMMA SaysRest ==
  ASSUME toParent \in Seq({"ready", "prepared", "failed"}), toParent # <<>>,
         toParent' = Tail(toParent)
  PROVE  /\ toParent' \in Seq({"ready", "prepared", "failed"})
         /\ Head(toParent) \in {"ready", "prepared", "failed"}
         /\ Says(Head(toParent))
         /\ \A a : Says(a)' => Says(a)
  BY DEF Says

-----------------------------------------------------------------------------
(* The steps of the supervisor.                                            *)

\* What is asked of the server is asked over the channel that is up.
LEMMA RequestSent ==
  ASSUME IInv, Request
  PROVE  /\ toChild' \in Seq({"prepare"}) /\ unsent' \in BOOLEAN
         /\ link => unsent' = unsent
<1>1. Append(toChild, "prepare") \in Seq({"prepare"})
  BY Parts, AppendProperties
<1> QED  BY <1>1, Parts DEF Request

\* The signal is passed on at most once.
LEMMA ForwardOnce ==
  ASSUME IInv, Forward
  PROVE  /\ parent' \in Parent /\ sigterm' \in BOOLEAN /\ forwards' \in Nat
         /\ parent'.dead = parent.dead
         /\ forwards' <= 1 /\ (forwards' > 0 => parent'.forwarded)
         /\ \/ parent' = parent /\ sigterm' = sigterm /\ forwards' = forwards
            \/ ~parent.forwarded /\ parent'.forwarded
<1>1. CASE parent.forwarded \/ ~parent.shutting
  BY <1>1, Parts DEF Forward, PassedOn
<1>2. CASE ~(parent.forwarded \/ ~parent.shutting)
  <2>1. parent' = [parent EXCEPT !.forwarded = TRUE, !.timer = FALSE]
    BY <1>2 DEF Forward
  <2>2. parent' \in Parent /\ parent'.forwarded /\ parent'.dead = parent.dead
    BY <2>1, Parts DEF Parent
  <2>3. forwards = 0 /\ forwards' = 1 /\ sigterm' = TRUE
    BY <1>2, Parts DEF Forward, PassedOn
  <2> QED  BY <1>2, <2>2, <2>3
<1> QED  BY <1>1, <1>2

LEMMA FirstSignalKeeps ==
  ASSUME IInv, FirstSignal
  PROVE  IInv'
<1>1. parent.signals + 1 \in 0 .. MAX_SIGNALS
  BY Parts, LifecycleAssumption DEF FirstSignal, Parent
<1>2. parent' \in Parent
  BY Parts, RequestSent, <1>1 DEF FirstSignal, Parent
<1>3. child' \in Child
  BY Parts, RequestSent DEF FirstSignal, Child
<1>4. TypeOK'
  BY Parts, RequestSent, <1>2, <1>3 DEF FirstSignal, mail, TypeOK
<1>5. AnswersTrue'
  BY Parts, RequestSent DEF FirstSignal, mail, AnswersTrue, Says, Child
<1>6. DrainGoesOn'
  BY Parts, RequestSent DEF FirstSignal, mail, DrainGoesOn, Child
<1>7. PassedOn'
  BY Parts, RequestSent DEF FirstSignal, mail, PassedOn, Parent, Child
<1>8. Undisturbed'
  BY Parts, RequestSent DEF FirstSignal, mail, Undisturbed, Parent, Child
<1> QED  BY <1>4, <1>5, <1>6, <1>7, <1>8 DEF IInv

LEMMA NextSignalKeeps ==
  ASSUME IInv, NextSignal
  PROVE  IInv'
<1>1. parent.signals + 1 \in 0 .. MAX_SIGNALS
  BY Parts, LifecycleAssumption DEF NextSignal, Parent
<1>2. parent' \in Parent
  BY Parts, <1>1 DEF NextSignal, Parent
<1>3. child' \in Child
  BY Parts DEF NextSignal, Child
<1>4. TypeOK'
  BY Parts, <1>2, <1>3 DEF NextSignal, mail, TypeOK
<1>5. AnswersTrue'
  BY Parts DEF NextSignal, mail, AnswersTrue, Says, Child
<1>6. DrainGoesOn'
  BY Parts DEF NextSignal, mail, DrainGoesOn, Child
<1>7. PassedOn'
  BY Parts DEF NextSignal, mail, PassedOn, Parent, Child
<1>8. Undisturbed'
  BY Parts DEF NextSignal, mail, Undisturbed, Parent, Child
<1> QED  BY <1>4, <1>5, <1>6, <1>7, <1>8 DEF IInv

LEMMA DeadlineKeeps ==
  ASSUME IInv, Deadline
  PROVE  IInv'
<1>1. parent' \in Parent
  BY Parts, ForwardOnce DEF Deadline, Parent
<1>2. child' \in Child
  BY Parts, ForwardOnce DEF Deadline, Child
<1>3. TypeOK'
  BY Parts, ForwardOnce, <1>1, <1>2 DEF Deadline, mail, TypeOK
<1>4. AnswersTrue'
  BY Parts, ForwardOnce DEF Deadline, mail, AnswersTrue, Says, Child
<1>5. DrainGoesOn'
  BY Parts, ForwardOnce DEF Deadline, mail, DrainGoesOn, Child
<1>6. PassedOn'
  BY Parts, ForwardOnce DEF Deadline, mail, PassedOn, AnswersTrue, Undisturbed, Parent, Child
<1>7. Undisturbed'
  BY Parts, ForwardOnce DEF Deadline, mail, Undisturbed, Parent, Child
<1> QED  BY <1>3, <1>4, <1>5, <1>6, <1>7 DEF IInv

LEMMA SendFailedKeeps ==
  ASSUME IInv, SendFailed
  PROVE  IInv'
<1>1. parent' \in Parent
  BY Parts, ForwardOnce DEF SendFailed, Alive, Parent
<1>2. child' \in Child
  BY Parts, ForwardOnce DEF SendFailed, Alive, Child
<1>3. TypeOK'
  BY Parts, ForwardOnce, <1>1, <1>2 DEF SendFailed, Alive, mail, TypeOK
<1>4. AnswersTrue'
  BY Parts, ForwardOnce DEF SendFailed, Alive, mail, AnswersTrue, Says, Child
<1>5. DrainGoesOn'
  BY Parts, ForwardOnce DEF SendFailed, Alive, mail, DrainGoesOn, Child
<1>6. PassedOn'
  BY Parts, ForwardOnce DEF SendFailed, Alive, mail, PassedOn, AnswersTrue, Undisturbed, Parent, Child
<1>7. Undisturbed'
  BY Parts, ForwardOnce DEF SendFailed, Alive, mail, Undisturbed, Parent, Child
<1> QED  BY <1>3, <1>4, <1>5, <1>6, <1>7 DEF IInv

LEMMA OnReadyKeeps ==
  ASSUME IInv, OnReady
  PROVE  IInv'
<1>1. parent' \in Parent
  BY Parts, RequestSent, SaysRest DEF OnReady, Alive, Parent
<1>2. child' \in Child
  BY Parts, RequestSent, SaysRest DEF OnReady, Alive, Child
<1>3. TypeOK'
  BY Parts, RequestSent, SaysRest, <1>1, <1>2 DEF OnReady, Alive, mail, TypeOK
<1>4. AnswersTrue'
  BY Parts, RequestSent, SaysRest DEF OnReady, Alive, mail, AnswersTrue, Child
<1>5. DrainGoesOn'
  BY Parts, RequestSent, SaysRest DEF OnReady, Alive, mail, DrainGoesOn, Child
<1>6. PassedOn'
  BY Parts, RequestSent, SaysRest DEF OnReady, Alive, mail, PassedOn, Parent, Child
<1>7. Undisturbed'
  BY Parts, RequestSent, SaysRest DEF OnReady, Alive, mail, Undisturbed, Parent, Child
<1> QED  BY <1>3, <1>4, <1>5, <1>6, <1>7 DEF IInv

LEMMA OnAnswerKeeps ==
  ASSUME IInv, OnAnswer
  PROVE  IInv'
<1>1. parent' \in Parent
  BY Parts, ForwardOnce, SaysRest DEF OnAnswer, Alive, Parent
<1>2. child' \in Child
  BY Parts, ForwardOnce, SaysRest DEF OnAnswer, Alive, Child
<1>3. TypeOK'
  BY Parts, ForwardOnce, SaysRest, <1>1, <1>2 DEF OnAnswer, Alive, mail, TypeOK
<1>4. AnswersTrue'
  BY Parts, ForwardOnce, SaysRest DEF OnAnswer, Alive, mail, AnswersTrue, Child
<1>5. DrainGoesOn'
  BY Parts, ForwardOnce, SaysRest DEF OnAnswer, Alive, mail, DrainGoesOn, Child
<1>6. PassedOn'
  BY Parts, ForwardOnce, SaysRest DEF OnAnswer, Alive, mail, PassedOn, AnswersTrue, Undisturbed, Parent, Child
<1>7. Undisturbed'
  BY Parts, ForwardOnce, SaysRest DEF OnAnswer, Alive, mail, Undisturbed, Parent, Child
<1> QED  BY <1>3, <1>4, <1>5, <1>6, <1>7 DEF IInv

LEMMA OnDisconnectKeeps ==
  ASSUME IInv, OnDisconnect
  PROVE  IInv'
<1>1. parent' \in Parent
  BY Parts DEF OnDisconnect, Parent
<1>2. child' \in Child
  BY Parts DEF OnDisconnect, Child
<1>3. TypeOK'
  BY Parts, <1>1, <1>2 DEF OnDisconnect, mail, TypeOK
<1>4. AnswersTrue'
  BY Parts DEF OnDisconnect, mail, AnswersTrue, Says, Child
<1>5. DrainGoesOn'
  BY Parts DEF OnDisconnect, mail, DrainGoesOn, Child
<1>6. PassedOn'
  BY Parts DEF OnDisconnect, mail, PassedOn, Parent, Child
<1>7. Undisturbed'
  BY Parts DEF OnDisconnect, mail, Undisturbed, Parent, Child
<1> QED  BY <1>3, <1>4, <1>5, <1>6, <1>7 DEF IInv

LEMMA OnExitKeeps ==
  ASSUME IInv, OnExit
  PROVE  IInv'
<1>1. parent' \in Parent
  BY Parts DEF OnExit, Parent
<1>2. child' \in Child
  BY Parts DEF OnExit, Child
<1>3. TypeOK'
  BY Parts, <1>1, <1>2 DEF OnExit, mail, TypeOK
<1>4. AnswersTrue'
  BY Parts DEF OnExit, mail, AnswersTrue, Says, Child
<1>5. DrainGoesOn'
  BY Parts DEF OnExit, mail, DrainGoesOn, Child
<1>6. PassedOn'
  BY Parts DEF OnExit, mail, PassedOn, Parent, Child
<1>7. Undisturbed'
  BY Parts DEF OnExit, mail, Undisturbed, Parent, Child
<1> QED  BY <1>3, <1>4, <1>5, <1>6, <1>7 DEF IInv

LEMMA DieKeeps ==
  ASSUME IInv, Die
  PROVE  IInv'
<1>1. parent' \in Parent
  BY Parts DEF Die, Alive, Parent
<1>2. child' \in Child
  BY Parts DEF Die, Alive, Child
<1>3. TypeOK'
  BY Parts, <1>1, <1>2 DEF Die, Alive, mail, TypeOK
<1>4. AnswersTrue'
  BY Parts DEF Die, Alive, mail, AnswersTrue, Says, Child
<1>5. DrainGoesOn'
  BY Parts DEF Die, Alive, mail, DrainGoesOn, Child
<1>6. PassedOn'
  BY Parts DEF Die, Alive, mail, PassedOn, Parent, Child
<1>7. Undisturbed'
  BY Parts DEF Die, Alive, mail, Undisturbed, Parent, Child
<1> QED  BY <1>3, <1>4, <1>5, <1>6, <1>7 DEF IInv

-----------------------------------------------------------------------------
(* The steps of the server.                                                *)

\* A drain begins once, and with it no cleanup waits to be launched and no listener
\* stays open.
LEMMA DrainBegins ==
  ASSUME NEW c \in Child
  PROVE  /\ Drain(c) \in Child
         /\ c.shutdown # "no" => Drain(c) = c
         /\ c.shutdown = "no" => /\ Drain(c).shutdown = "running"
                                /\ Drain(c).cleanup # "waiting" /\ Drain(c).listener # "open"
         /\ Drain(c).pc = c.pc /\ Drain(c).terminating = c.terminating
<1>1. CASE c.shutdown # "no"
  BY <1>1 DEF Drain
<1>2. CASE c.shutdown = "no"
  <2> DEFINE cleanup == IF c.cleanup = "waiting" THEN "off" ELSE c.cleanup
             listener == IF c.listener = "open" THEN "closing" ELSE c.listener
             d == [c EXCEPT !.shutdown = "running", !.cleanup = cleanup]
  <2>1. /\ cleanup \in {"off", "running"}
        /\ listener \in {"none", "closing", "closed", "late"}
    BY DEF Child
  <2>2. Drain(c) = [d EXCEPT !.listener = listener]
    BY <1>2 DEF Drain, Child
  <2>3. /\ d \in Child /\ d.shutdown = "running" /\ d.cleanup = cleanup
        /\ d.pc = c.pc /\ d.terminating = c.terminating
    <3> HIDE DEF cleanup
    <3> QED  BY <2>1 DEF Child
  <2> HIDE DEF cleanup, listener, d
  <2> QED  BY <1>2, <2>1, <2>2, <2>3 DEF Child
<1> QED  BY <1>1, <1>2

\* The server says at most one answer more.
LEMMA SayAnswer ==
  ASSUME IInv, NEW a \in {"prepared", "failed"}, Say(<<a>>) \/ Say(<<>>)
  PROVE  /\ toParent' \in Seq({"ready", "prepared", "failed"})
         /\ \A b : Says(b)' => Says(b) \/ b = a
<1>1. CASE toParent' = toParent
  BY <1>1, Parts DEF Says
<1>2. CASE toParent' = toParent \o <<a>>
  <2>1. <<a>> \in Seq({"ready", "prepared", "failed"}) /\ \A i \in DOMAIN <<a>> : <<a>>[i] = a
    OBVIOUS
  <2>2. toParent' \in Seq({"ready", "prepared", "failed"})
    BY <1>2, <2>1, Parts, ConcatProperties
  <2>3. ASSUME NEW b, Says(b)'
        PROVE  Says(b) \/ b = a
    <3>1. Says(b) \/ \E i \in DOMAIN <<a>> : <<a>>[i] = b
      BY <1>2, <2>1, <2>3, Parts, SaysMore
    <3> QED  BY <3>1, <2>1
  <2> QED  BY <2>2, <2>3
<1>3. CASE toParent' = toParent \o <<>>
  BY <1>1, <1>3, Parts, ConcatEmptySeq
<1> QED  BY <1>1, <1>2, <1>3 DEF Say

\* What the end of a drain leaves, and says if it is asked.
LEMMA FinishSays ==
  ASSUME IInv, child.shutdown = "running",
         NEW outcome \in {"complete", "timeout"}, Finish(outcome)
  PROVE  /\ child' \in Child /\ child'.shutdown = outcome
         /\ child'.cleanup = child.cleanup /\ child'.listener = child.listener
         /\ child'.pc = child.pc /\ child'.terminating = child.terminating
         /\ toParent' \in Seq({"ready", "prepared", "failed"})
         /\ \A b : Says(b)' => Says(b) \/ b = Answer[outcome]
         /\ sigterm' \in BOOLEAN /\ sigterm' = (sigterm \/ child.terminating)
         /\ UNCHANGED <<parent, link, toChild, unsent, forwards>>
<1>1. child' = [child EXCEPT !.shutdown = outcome, !.owed = 0]
  BY DEF Finish
<1>2. Answer[outcome] \in {"prepared", "failed"}
  BY DEF Answer
<1>3. Say(<<Answer[outcome]>>) \/ Say(<<>>)
  BY DEF Finish, Say
<1>4. /\ sigterm' \in BOOLEAN /\ sigterm' = (sigterm \/ child.terminating)
      /\ UNCHANGED <<parent, link, toChild, unsent, forwards>>
  BY Parts DEF Finish, Child
<1>5. child' \in Child /\ child'.shutdown = outcome
  <2> DEFINE c == [child EXCEPT !.shutdown = outcome]
  <2>1. c \in Child /\ c.shutdown = outcome
    BY Parts DEF Child
  <2>2. child' = [c EXCEPT !.owed = 0]
    BY <1>1
  <2> HIDE DEF c
  <2> QED  BY <2>1, <2>2 DEF Child
<1>6. /\ child'.cleanup = child.cleanup /\ child'.listener = child.listener
      /\ child'.pc = child.pc /\ child'.terminating = child.terminating
  BY <1>1, Parts DEF Child
<1> QED  BY <1>2, <1>3, <1>4, <1>5, <1>6, SayAnswer

LEMMA StartKeeps ==
  ASSUME IInv, Start
  PROVE  IInv'
<1>1. parent' \in Parent
  BY Parts, SaysMore DEF Start, Parent
<1>2. child' \in Child
  BY Parts, SaysMore DEF Start, Child
<1>3. TypeOK'
  BY Parts, SaysMore, <1>1, <1>2 DEF Start, mail, TypeOK
<1>4. AnswersTrue'
  BY Parts, SaysMore DEF Start, mail, AnswersTrue, Says, Child
<1>5. DrainGoesOn'
  BY Parts, SaysMore DEF Start, mail, DrainGoesOn, Child
<1>6. PassedOn'
  BY Parts, SaysMore DEF Start, mail, PassedOn, Parent, Child
<1>7. Undisturbed'
  BY Parts, SaysMore DEF Start, mail, Undisturbed, Parent, Child
<1> QED  BY <1>3, <1>4, <1>5, <1>6, <1>7 DEF IInv

LEMMA OnPrepareKeeps ==
  ASSUME IInv, OnPrepare
  PROVE  IInv'
<1>1. child' \in Child /\ child'.pc = child.pc /\ child'.terminating = child.terminating
  <2>1. CASE Drained
    BY <2>1, Parts DEF OnPrepare
  <2>2. CASE ~Drained
    <3> DEFINE d == Drain(child)
    <3>1. d \in Child /\ d.pc = child.pc /\ d.terminating = child.terminating
      BY Parts, DrainBegins
    <3>2. child' = [d EXCEPT !.owed = 1]
      BY <2>2 DEF OnPrepare
    <3> HIDE DEF d
    <3> QED  BY <3>1, <3>2 DEF Child
  <2> QED  BY <2>1, <2>2
<1>2. /\ \/ child'.shutdown = child.shutdown
         \/ child.shutdown = "no" /\ child'.shutdown = "running"
      /\ child'.shutdown # "no" => child'.cleanup # "waiting" /\ child'.listener # "open"
      /\ child'.shutdown = "complete" => child'.cleanup = child.cleanup /\ child'.listener = child.listener
  <2>1. CASE Drained
    <3>1. child' = child
      BY <2>1 DEF OnPrepare
    <3> QED  BY <2>1, <3>1, Parts DEF Drained, DrainGoesOn
  <2>2. CASE ~Drained
    BY <2>2, Parts, DrainBegins DEF OnPrepare, Drained, DrainGoesOn, Child
  <2> QED  BY <2>1, <2>2
<1>3. /\ toParent' \in Seq({"ready", "prepared", "failed"})
      /\ \A b : Says(b)' => \/ Says(b)
                            \/ /\ child.shutdown \in {"complete", "timeout"}
                               /\ b = Answer[child.shutdown] /\ child' = child
  <2>1. CASE Drained
    <3>1. Answer[child.shutdown] \in {"prepared", "failed"}
      BY <2>1 DEF Drained, Answer
    <3> QED  BY <2>1, <3>1, SayAnswer DEF OnPrepare, Drained
  <2>2. CASE ~Drained
    BY <2>2, Parts DEF OnPrepare, Says
  <2> QED  BY <2>1, <2>2
<1>4. toChild' \in Seq({"prepare"})
  BY Parts, HeadTailProperties DEF OnPrepare
<1>5. TypeOK'
  BY <1>1, <1>3, <1>4, Parts DEF OnPrepare, TypeOK
<1>6. AnswersTrue'
  BY <1>2, <1>3, Parts DEF OnPrepare, AnswersTrue, Answer
<1>7. DrainGoesOn'
  BY <1>1, <1>2, Parts DEF OnPrepare, Up, DrainGoesOn, Child
<1>8. PassedOn' /\ Undisturbed'
  BY <1>1, <1>2, Parts DEF OnPrepare, PassedOn, Undisturbed, Child
<1> QED  BY <1>5, <1>6, <1>7, <1>8 DEF IInv

LEMMA OnChannelDownKeeps ==
  ASSUME IInv, OnChannelDown
  PROVE  IInv'
<1>1. parent' \in Parent
  BY Parts, DrainBegins DEF OnChannelDown, Drained, Parent
<1>2. child' \in Child
  <2> DEFINE d == Drain(child)
  <2>1. d \in Child
    BY Parts, DrainBegins
  <2>2. child' = [d EXCEPT !.terminating = TRUE]
    BY DEF OnChannelDown
  <2> HIDE DEF d
  <2> QED  BY <2>1, <2>2 DEF Child
<1>3. TypeOK'
  BY Parts, DrainBegins, <1>1, <1>2 DEF OnChannelDown, Drained, mail, TypeOK
<1>4. AnswersTrue'
  BY Parts, DrainBegins DEF OnChannelDown, Drained, mail, AnswersTrue, Says, Child
<1>5. DrainGoesOn'
  <2> DEFINE d == Drain(child)
  <2>1. /\ d \in Child /\ d.pc = child.pc
        /\ child.shutdown # "no" => d = child
        /\ child.shutdown = "no" =>
              d.shutdown = "running" /\ d.cleanup # "waiting" /\ d.listener # "open"
    BY Parts, DrainBegins
  <2>2. child' = [d EXCEPT !.terminating = TRUE]
    BY DEF OnChannelDown
  <2> HIDE DEF d
  <2>3. /\ child'.shutdown = d.shutdown /\ child'.cleanup = d.cleanup
        /\ child'.listener = d.listener /\ child'.pc = d.pc
    BY <2>1, <2>2 DEF Child
  <2> QED  BY <2>1, <2>3, Parts DEF OnChannelDown, Up, DrainGoesOn
<1>6. PassedOn'
  BY Parts, DrainBegins DEF OnChannelDown, Drained, mail, PassedOn, Parent, Child
<1>7. Undisturbed'
  BY Parts, DrainBegins DEF OnChannelDown, Drained, mail, Undisturbed, Parent, Child
<1> QED  BY <1>3, <1>4, <1>5, <1>6, <1>7 DEF IInv

LEMMA DrainCompletesKeeps ==
  ASSUME IInv, DrainCompletes
  PROVE  IInv'
<1>1. parent' \in Parent
  BY Parts, FinishSays DEF DrainCompletes, Parent
<1>2. child' \in Child
  BY Parts, FinishSays DEF DrainCompletes, Child
<1>3. TypeOK'
  BY Parts, FinishSays, <1>1, <1>2 DEF DrainCompletes, mail, TypeOK
<1>4. AnswersTrue'
  BY Parts, FinishSays DEF DrainCompletes, mail, AnswersTrue, Answer, Child
<1>5. DrainGoesOn'
  BY Parts, FinishSays DEF DrainCompletes, mail, DrainGoesOn, Child
<1>6. PassedOn'
  BY Parts, FinishSays DEF DrainCompletes, mail, PassedOn, Parent, Child
<1>7. Undisturbed'
  BY Parts, FinishSays DEF DrainCompletes, mail, Undisturbed, Parent, Child
<1> QED  BY <1>3, <1>4, <1>5, <1>6, <1>7 DEF IInv

LEMMA DrainTimesOutKeeps ==
  ASSUME IInv, DrainTimesOut
  PROVE  IInv'
<1>1. parent' \in Parent
  BY Parts, FinishSays DEF DrainTimesOut, Parent
<1>2. child' \in Child
  BY Parts, FinishSays DEF DrainTimesOut, Child
<1>3. TypeOK'
  BY Parts, FinishSays, <1>1, <1>2 DEF DrainTimesOut, mail, TypeOK
<1>4. AnswersTrue'
  BY Parts, FinishSays DEF DrainTimesOut, mail, AnswersTrue, Answer, Child
<1>5. DrainGoesOn'
  BY Parts, FinishSays DEF DrainTimesOut, mail, DrainGoesOn, Child
<1>6. PassedOn'
  BY Parts, FinishSays DEF DrainTimesOut, mail, PassedOn, Parent, Child
<1>7. Undisturbed'
  BY Parts, FinishSays DEF DrainTimesOut, mail, Undisturbed, Parent, Child
<1> QED  BY <1>3, <1>4, <1>5, <1>6, <1>7 DEF IInv

LEMMA CleanupEndsKeeps ==
  ASSUME IInv, CleanupEnds
  PROVE  IInv'
<1>1. parent' \in Parent
  BY Parts DEF CleanupEnds, Parent
<1>2. child' \in Child
  BY Parts DEF CleanupEnds, Child
<1>3. TypeOK'
  BY Parts, <1>1, <1>2 DEF CleanupEnds, mail, TypeOK
<1>4. AnswersTrue'
  BY Parts DEF CleanupEnds, mail, AnswersTrue, Says, Child
<1>5. DrainGoesOn'
  BY Parts DEF CleanupEnds, mail, DrainGoesOn, Child
<1>6. PassedOn'
  BY Parts DEF CleanupEnds, mail, PassedOn, Parent, Child
<1>7. Undisturbed'
  BY Parts DEF CleanupEnds, mail, Undisturbed, Parent, Child
<1> QED  BY <1>3, <1>4, <1>5, <1>6, <1>7 DEF IInv

LEMMA LaunchCleanupKeeps ==
  ASSUME IInv, LaunchCleanup
  PROVE  IInv'
<1>1. parent' \in Parent
  BY Parts DEF LaunchCleanup, Parent
<1>2. child' \in Child
  BY Parts DEF LaunchCleanup, Child
<1>3. TypeOK'
  BY Parts, <1>1, <1>2 DEF LaunchCleanup, mail, TypeOK
<1>4. AnswersTrue'
  BY Parts DEF LaunchCleanup, mail, AnswersTrue, Says, Child
<1>5. DrainGoesOn'
  BY Parts DEF LaunchCleanup, mail, DrainGoesOn, Child
<1>6. PassedOn'
  BY Parts DEF LaunchCleanup, mail, PassedOn, Parent, Child
<1>7. Undisturbed'
  BY Parts DEF LaunchCleanup, mail, Undisturbed, Parent, Child
<1> QED  BY <1>3, <1>4, <1>5, <1>6, <1>7 DEF IInv

LEMMA ListenerOpensKeeps ==
  ASSUME IInv, ListenerOpens
  PROVE  IInv'
<1>1. parent' \in Parent
  BY Parts DEF ListenerOpens, Parent
<1>2. child' \in Child
  BY Parts DEF ListenerOpens, Child
<1>3. TypeOK'
  BY Parts, <1>1, <1>2 DEF ListenerOpens, mail, TypeOK
<1>4. AnswersTrue'
  BY Parts DEF ListenerOpens, mail, AnswersTrue, Says, Child
<1>5. DrainGoesOn'
  BY Parts DEF ListenerOpens, mail, DrainGoesOn, Child
<1>6. PassedOn'
  BY Parts DEF ListenerOpens, mail, PassedOn, Parent, Child
<1>7. Undisturbed'
  BY Parts DEF ListenerOpens, mail, Undisturbed, Parent, Child
<1> QED  BY <1>3, <1>4, <1>5, <1>6, <1>7 DEF IInv

LEMMA ListenerClosesKeeps ==
  ASSUME IInv, ListenerCloses
  PROVE  IInv'
<1>1. parent' \in Parent
  BY Parts DEF ListenerCloses, Parent
<1>2. child' \in Child
  BY Parts DEF ListenerCloses, Child
<1>3. TypeOK'
  BY Parts, <1>1, <1>2 DEF ListenerCloses, mail, TypeOK
<1>4. AnswersTrue'
  BY Parts DEF ListenerCloses, mail, AnswersTrue, Says, Child
<1>5. DrainGoesOn'
  BY Parts DEF ListenerCloses, mail, DrainGoesOn, Child
<1>6. PassedOn'
  BY Parts DEF ListenerCloses, mail, PassedOn, Parent, Child
<1>7. Undisturbed'
  BY Parts DEF ListenerCloses, mail, Undisturbed, Parent, Child
<1> QED  BY <1>3, <1>4, <1>5, <1>6, <1>7 DEF IInv

LEMMA OnSigtermKeeps ==
  ASSUME IInv, OnSigterm
  PROVE  IInv'
<1>1. parent' \in Parent
  BY Parts, DrainBegins DEF OnSigterm, Parent
<1>2. child' \in Child
  BY Parts, DrainBegins DEF OnSigterm, Child
<1>3. TypeOK'
  BY Parts, DrainBegins, <1>1, <1>2 DEF OnSigterm, mail, TypeOK
<1>4. AnswersTrue'
  BY Parts, DrainBegins DEF OnSigterm, mail, AnswersTrue, Says, Child
<1>5. DrainGoesOn'
  BY Parts, DrainBegins DEF OnSigterm, mail, DrainGoesOn, Child
<1>6. PassedOn'
  BY Parts, DrainBegins DEF OnSigterm, mail, PassedOn, Parent, Child
<1>7. Undisturbed'
  BY Parts, DrainBegins DEF OnSigterm, mail, Undisturbed, Parent, Child
<1> QED  BY <1>3, <1>4, <1>5, <1>6, <1>7 DEF IInv

LEMMA GetStuckKeeps ==
  ASSUME IInv, GetStuck
  PROVE  IInv'
<1>1. parent' \in Parent
  BY Parts DEF GetStuck, Parent
<1>2. child' \in Child
  BY Parts DEF GetStuck, Child
<1>3. TypeOK'
  BY Parts, <1>1, <1>2 DEF GetStuck, mail, TypeOK
<1>4. AnswersTrue'
  BY Parts DEF GetStuck, mail, AnswersTrue, Says, Child
<1>5. DrainGoesOn'
  BY Parts DEF GetStuck, mail, DrainGoesOn, Child
<1>6. PassedOn'
  BY Parts DEF GetStuck, mail, PassedOn, Parent, Child
<1>7. Undisturbed'
  BY Parts DEF GetStuck, mail, Undisturbed, Parent, Child
<1> QED  BY <1>3, <1>4, <1>5, <1>6, <1>7 DEF IInv

LEMMA ExitKeeps ==
  ASSUME IInv, Exit
  PROVE  IInv'
<1>1. parent' \in Parent
  BY Parts DEF Exit, Parent
<1>2. child' \in Child
  BY Parts DEF Exit, Child
<1>3. TypeOK'
  BY Parts, <1>1, <1>2 DEF Exit, mail, TypeOK
<1>4. AnswersTrue'
  BY Parts DEF Exit, mail, AnswersTrue, Says, Child
<1>5. DrainGoesOn'
  BY Parts DEF Exit, mail, DrainGoesOn, Child
<1>6. PassedOn'
  BY Parts DEF Exit, mail, PassedOn, Parent, Child
<1>7. Undisturbed'
  BY Parts DEF Exit, mail, Undisturbed, Parent, Child
<1> QED  BY <1>3, <1>4, <1>5, <1>6, <1>7 DEF IInv

LEMMA CrashKeeps ==
  ASSUME IInv, Crash
  PROVE  IInv'
<1>1. parent' \in Parent
  BY Parts DEF Crash, Parent
<1>2. child' \in Child
  BY Parts DEF Crash, Child
<1>3. TypeOK'
  BY Parts, <1>1, <1>2 DEF Crash, mail, TypeOK
<1>4. AnswersTrue'
  BY Parts DEF Crash, mail, AnswersTrue, Says, Child
<1>5. DrainGoesOn'
  BY Parts DEF Crash, mail, DrainGoesOn, Child
<1>6. PassedOn'
  BY Parts DEF Crash, mail, PassedOn, Parent, Child
<1>7. Undisturbed'
  BY Parts DEF Crash, mail, Undisturbed, Parent, Child
<1> QED  BY <1>3, <1>4, <1>5, <1>6, <1>7 DEF IInv

LEMMA ChannelBreaksKeeps ==
  ASSUME IInv, ChannelBreaks
  PROVE  IInv'
<1>1. parent' \in Parent
  BY Parts DEF ChannelBreaks, Parent
<1>2. child' \in Child
  BY Parts DEF ChannelBreaks, Child
<1>3. TypeOK'
  BY Parts, <1>1, <1>2 DEF ChannelBreaks, mail, TypeOK
<1>4. AnswersTrue'
  BY Parts DEF ChannelBreaks, mail, AnswersTrue, Says, Child
<1>5. DrainGoesOn'
  BY Parts DEF ChannelBreaks, mail, DrainGoesOn, Child
<1>6. PassedOn'
  BY Parts DEF ChannelBreaks, mail, PassedOn, Parent, Child
<1>7. Undisturbed'
  BY Parts DEF ChannelBreaks, mail, Undisturbed, Parent, Child
<1> QED  BY <1>3, <1>4, <1>5, <1>6, <1>7 DEF IInv

LEMMA SignalServerKeeps ==
  ASSUME IInv, SignalServer
  PROVE  IInv'
<1>1. parent' \in Parent
  BY Parts DEF SignalServer, Parent
<1>2. child' \in Child
  BY Parts DEF SignalServer, Child
<1>3. TypeOK'
  BY Parts, <1>1, <1>2 DEF SignalServer, mail, TypeOK
<1>4. AnswersTrue'
  BY Parts DEF SignalServer, mail, AnswersTrue, Says, Child
<1>5. DrainGoesOn'
  BY Parts DEF SignalServer, mail, DrainGoesOn, Child
<1>6. PassedOn'
  BY Parts DEF SignalServer, mail, PassedOn, Parent, Child
<1>7. Undisturbed'
  BY Parts DEF SignalServer, mail, Undisturbed, Parent, Child
<1> QED  BY <1>3, <1>4, <1>5, <1>6, <1>7 DEF IInv

-----------------------------------------------------------------------------
(* The theorems.                                                           *)

LEMMA Initially == Init => IInv
<1> SUFFICES ASSUME Init PROVE IInv
  OBVIOUS
<1>1. parent \in Parent
  BY LifecycleAssumption DEF Init, Parent
<1>2. child \in Child
  BY DEF Init, Child
<1>3. toChild \in Seq({"prepare"}) /\ toParent \in Seq({"ready", "prepared", "failed"})
  BY EmptySeq DEF Init
<1>4. TypeOK
  BY <1>1, <1>2, <1>3 DEF TypeOK, Init
<1>5. AnswersTrue /\ DrainGoesOn /\ PassedOn /\ Undisturbed
  BY DEF Init, AnswersTrue, Says, DrainGoesOn, PassedOn, Undisturbed
<1> QED  BY <1>4, <1>5 DEF IInv

LEMMA NothingHappens ==
  ASSUME IInv, UNCHANGED vars
  PROVE  IInv'
BY DEF IInv, vars, mail, TypeOK, AnswersTrue, Says, DrainGoesOn, PassedOn, Undisturbed

LEMMA NextKeeps ==
  ASSUME IInv, [Next]_vars
  PROVE  IInv'
BY NothingHappens, FirstSignalKeeps, NextSignalKeeps, DeadlineKeeps, SendFailedKeeps,
   OnReadyKeeps, OnAnswerKeeps, OnDisconnectKeeps, OnExitKeeps, DieKeeps,
   StartKeeps, OnPrepareKeeps, OnChannelDownKeeps, DrainCompletesKeeps,
   DrainTimesOutKeeps, CleanupEndsKeeps, LaunchCleanupKeeps, ListenerOpensKeeps,
   ListenerClosesKeeps, OnSigtermKeeps, GetStuckKeeps, ExitKeeps, CrashKeeps, ChannelBreaksKeeps,
   SignalServerKeeps
   DEF Next, Supervise, Serve

\* The inductive invariant of the shutdown.
THEOREM ShutdownSound == Spec => []IInv
BY Initially, NextKeeps, PTL DEF Spec

\* Supervisor, server and the messages between them keep their types (TypeOK).
THEOREM LifecycleTypeCorrect == Spec => []TypeOK
<1>1. IInv => TypeOK
  BY DEF IInv
<1> QED  BY <1>1, ShutdownSound, PTL

\* For any number of signals: the signal reaches the server once, after its
\* drain unless something went wrong, and a complete drain is one in which no
\* cleanup runs or will and the listener there was when it began is closed for
\* good, whether or not requests open one while the server drains and after it
\* has drained (DrainedFirst).
THEOREM SignalFollowsDrain == Spec => []DrainedFirst
<1>1. IInv => DrainedFirst
  BY DEF IInv, TypeOK, Child, DrainGoesOn, PassedOn, DrainedFirst
<1> QED  BY <1>1, ShutdownSound, PTL
=============================================================================
