------------------------- MODULE BoardStreamProofs -------------------------
(* Proofs about BoardStream, for every value of its constants. *)
EXTENDS BoardStream, FiniteSetTheorems, SequenceTheorems, TLAPS

-----------------------------------------------------------------------------
(* The inductive invariant.                                                *)

\* What the listener's variables say together.
ConnectionSound ==
    /\ (client = "opening") => connectPromise
    /\ (client \in {"null", "opening"}) => (channel = <<>>)
    /\ reconnectTimer => (client = "null")
    /\ shuttingDown => (client = "null" /\ ~reconnectTimer)

\* A live session's queue ends with the last commit.
ChannelSound ==
    /\ \A i \in 1 .. Len(channel) : channel[i] <= revision
    /\ (client = "listening" /\ channel # <<>>) => (channel[Len(channel)] = revision)

\* A request's local state fits how far it is, and knows of no revision the
\* board does not have.
Fits(q, r) ==
    /\ (q.answer # None) => (q.stage = "checking" /\ q.answer <= r)
    /\ (q.pending # None) => (q.stage = "checking" /\ q.pending <= r)
    /\ q.lastSent <= r
    /\ (q.stage # "open") => (q.lastSent = 0)
    /\ (q.stage \in {"waiting", "checking"}) => (q.wire = <<>>)
    /\ (q.stage \in Over) => (q.since = None)
    /\ (q.stage \notin {"waiting", "checking"}) => (q.closed = "no")

StreamsFit == \A s \in Stream : Fits(stream[s], revision)

\* A request has been told the last commit, or will be by what it holds.
UpToDate(q, r) ==
    /\ (q.stage = "open") => (q.lastSent = r)
    /\ (q.stage = "checking" /\ q.answer # None) => (r \in {q.answer, q.pending})

Sound ==
    /\ TypeOK
    /\ ConnectionSound
    /\ ChannelSound
    /\ StreamsFit
    /\ LeasesMatch
    /\ SubscribedWhileListening
    /\ (client = "listening" /\ channel = <<>>) =>
           \A s \in subscriptions : UpToDate(stream[s], revision)

-----------------------------------------------------------------------------
(* What becomes of one request.                                            *)

\* closeStream and an answer leave a request in a state it can be in.
LEMMA BlankFits ==
    ASSUME StreamAssumption, NEW how \in Over, NEW r \in Nat
    PROVE  Blank(how) \in Request /\ Fits(Blank(how), r)
  BY DEF StreamAssumption, Blank, Fits, Request, Over, Refusal, Live

LEMMA CloseFits ==
    ASSUME StreamAssumption, NEW q \in Request, NEW r \in Nat, Fits(q, r),
           q.stage \in Live, NEW why \in {"no", "aborted", "lost"},
           (q.stage = "open") \/ why # "no"
    PROVE  /\ Close(q, why) \in Request /\ Fits(Close(q, why), r)
           /\ (q.stage = "open") => (Close(q, why).stage = "ended")
           /\ (q.stage # "open") => (/\ Close(q, why).closed # "no"
                                     /\ Close(q, why).stage = q.stage)
<1>1. CASE q.stage = "open"
  <2> DEFINE w == IF q.gone THEN <<>> ELSE q.wire
  <2>1. w \in Seq(Nat)
    BY EmptySeq DEF Request
  <2>2. Close(q, why) =
            [stage |-> "ended", since |-> None, closed |-> "no", answer |-> None,
             pending |-> None, lastSent |-> 0, wire |-> w, beats |-> 0, gone |-> FALSE]
    BY <1>1 DEF Close, Blank
  <2> HIDE DEF w
  <2> QED
    BY <1>1, <2>1, <2>2 DEF StreamAssumption, Fits, Request, Over, Refusal, Live
<1>2. CASE q.stage # "open"
  BY <1>2 DEF StreamAssumption, Close, Blank, Fits, Request, Over, Refusal, Live
<1> QED BY <1>1, <1>2

\* The leases left when those of some requests are released.
LEMMA ReleaseCounts ==
    ASSUME StreamAssumption, NEW U, NEW S, IsFiniteSet(U), S \subseteq U
    PROVE  /\ Cardinality(U) - Cardinality(S) = Cardinality(U \ S)
           /\ Cardinality(U) - Cardinality(S) \in Nat
<1>1. IsFiniteSet(S) /\ Cardinality(S) <= Cardinality(U)
  BY FS_Subset
<1>2. Cardinality(U \ S) = Cardinality(U) - Cardinality(U \cap S)
  BY FS_Difference
<1>3. U \cap S = S
  OBVIOUS
<1>4. /\ Cardinality(U) \in Nat /\ Cardinality(S) \in Nat
      /\ Cardinality(U \ S) \in Nat
  BY <1>1, FS_CardinalityType, FS_Subset
<1> QED BY <1>1, <1>2, <1>3, <1>4
-----------------------------------------------------------------------------
(* Steps of one kind.                                                      *)

\* A step of the connection alone.
LEMMA QuietStep ==
    ASSUME Sound, UNCHANGED <<revision, subscriptions, count, stream>>,
           access' \in BOOLEAN, client' \in {"null", "opening", "listening", "broken"},
           channel' \in Seq(Nat), connectPromise' \in BOOLEAN,
           reconnectTimer' \in BOOLEAN, shuttingDown' \in BOOLEAN,
           ConnectionSound', ChannelSound', SubscribedWhileListening',
           (client' = "listening" /\ channel' = <<>>) =>
               (subscriptions = {} \/ (client = "listening" /\ channel = <<>>))
    PROVE  Sound'
<1>1. TypeOK'
  BY DEF Sound, TypeOK
<1>2. StreamsFit'
  BY DEF Sound, StreamsFit
<1>3. LeasesMatch'
  BY DEF Sound, LeasesMatch, Unclosed
<1>4. (client' = "listening" /\ channel' = <<>>) =>
          \A s \in subscriptions' : UpToDate(stream'[s], revision')
  BY DEF Sound
<1> QED BY <1>1, <1>2, <1>3, <1>4 DEF Sound

\* A step that closes the requests of S, which are unclosed, and leaves how
\* far the others are, or ends ones that were closed before.
LEMMA LeasesReleased ==
    ASSUME StreamAssumption, Sound, NEW S, S \subseteq Unclosed,
           subscriptions' = subscriptions \ S, count' = count - Cardinality(S),
           \A t \in Stream :
              \/ t \in S /\ (stream'[t].stage \notin Live \/ stream'[t].closed # "no")
              \/ /\ t \notin S /\ stream'[t].closed = stream[t].closed
                 /\ stream'[t].stage = stream[t].stage
              \/ t \notin Unclosed /\ stream'[t].stage \notin Live
              \/ /\ t \notin S /\ stream'[t].closed = stream[t].closed
                 /\ stream[t].stage = "checking" /\ stream'[t].stage = "open"
    PROVE  LeasesMatch' /\ count' \in Nat /\ subscriptions' \subseteq Stream
<1>1. IsFiniteSet(Unclosed)
  BY FS_Subset DEF StreamAssumption, Unclosed
<1>2. Unclosed' = Unclosed \ S
  BY DEF Unclosed, Live
<1>3. count' = Cardinality(Unclosed') /\ count' \in Nat
  BY <1>1, <1>2, ReleaseCounts DEF Sound, LeasesMatch
<1>4. Cardinality(Unclosed \ S) <= Cardinality(Unclosed)
  BY <1>1, FS_Subset
<1>5. count' <= MAX_BOARD_STREAMS_PER_VISITOR
  <2>1. Cardinality(Unclosed) \in Nat /\ Cardinality(Unclosed) <= MAX_BOARD_STREAMS_PER_VISITOR
    BY <1>1, FS_CardinalityType DEF Sound, LeasesMatch
  <2> QED BY <1>2, <1>3, <1>4, <2>1 DEF StreamAssumption
<1>6. subscriptions' = {s \in Unclosed' : stream'[s].stage # "waiting"}
  BY <1>2 DEF Sound, LeasesMatch, Unclosed, Live
<1> QED BY <1>3, <1>5, <1>6 DEF LeasesMatch, Unclosed
-----------------------------------------------------------------------------
(* Each action keeps the invariant: those of the connection.               *)

LEMMA InitSound == ASSUME StreamAssumption, Init PROVE Sound
<1>1. \A s \in Stream : stream[s] \in Request /\ Fits(stream[s], revision)
  BY BlankFits DEF Init, Over
<1>2. Unclosed = {} /\ Cardinality(Unclosed) = 0
  BY FS_EmptySet DEF Init, Unclosed, Blank, Live
<1>3. stream \in [Stream -> Request]
  BY <1>1 DEF Init
<1>4. TypeOK
  BY <1>3, EmptySeq DEF Init, TypeOK
<1>5. ConnectionSound /\ ChannelSound /\ SubscribedWhileListening
  BY EmptySeq DEF Init, ConnectionSound, ChannelSound, SubscribedWhileListening
<1>6. LeasesMatch
  BY <1>2 DEF Init, LeasesMatch, StreamAssumption
<1> QED BY <1>1, <1>4, <1>5, <1>6 DEF Sound, StreamsFit, Init

LEMMA CommitSound == ASSUME StreamAssumption, Sound, Commit PROVE Sound'
<1> USE DEF Sound
<1>1. TypeOK' /\ ChannelSound'
  <2>1. CASE client = "listening"
    <3>1. /\ channel' \in Seq(Nat) /\ Len(channel') = Len(channel) + 1
          /\ \A i \in 1 .. Len(channel) : channel'[i] = channel[i]
          /\ channel'[Len(channel) + 1] = revision'
      BY <2>1, AppendProperties DEF Commit, TypeOK
    <3> QED BY <3>1, LenProperties DEF Commit, TypeOK, ChannelSound
  <2>2. CASE client # "listening"
    BY <2>2, ElementOfSeq, LenProperties DEF Commit, TypeOK, ChannelSound
  <2> QED BY <2>1, <2>2
<1>2. ConnectionSound' /\ SubscribedWhileListening' /\ LeasesMatch'
  BY DEF Commit, ConnectionSound, SubscribedWhileListening, LeasesMatch, Unclosed
<1>3. StreamsFit'
  BY DEF Commit, TypeOK, StreamsFit, Fits, Request, StreamAssumption
<1>4. ~(client' = "listening" /\ channel' = <<>>)
  BY AppendProperties DEF Commit, TypeOK
<1> QED BY <1>1, <1>2, <1>3, <1>4

LEMMA AccessSound ==
    ASSUME StreamAssumption, Sound, LoseAccess \/ RegainAccess PROVE Sound'
<1>1. ConnectionSound' /\ ChannelSound' /\ SubscribedWhileListening'
  BY DEF Sound, LoseAccess, RegainAccess, listener, ConnectionSound, ChannelSound,
     SubscribedWhileListening
<1> QED BY <1>1, QuietStep DEF Sound, TypeOK, LoseAccess, RegainAccess, listener

LEMMA ListenSound == ASSUME StreamAssumption, Sound, Listen PROVE Sound'
<1>1. subscriptions = {}
  BY DEF Sound, Listen, SubscribedWhileListening
<1>2. ConnectionSound' /\ ChannelSound' /\ SubscribedWhileListening'
  BY <1>1 DEF Sound, Listen, database, ConnectionSound, ChannelSound, SubscribedWhileListening
<1> QED BY <1>1, <1>2, QuietStep DEF Sound, TypeOK, Listen, database

LEMMA BreakSound == ASSUME StreamAssumption, Sound, Break PROVE Sound'
<1>1. PICK n \in 0 .. Len(channel) : channel' = SubSeq(channel, 1, n)
  BY DEF Break
<1>2. /\ channel' \in Seq(Nat) /\ Len(channel') = n
      /\ \A i \in 1 .. n : channel'[i] = channel[i]
  BY <1>1, SubSeqProperties DEF Sound, TypeOK
<1>3. ConnectionSound' /\ ChannelSound' /\ SubscribedWhileListening'
  BY <1>2, LenProperties
  DEF Sound, TypeOK, Break, database, ConnectionSound, ChannelSound, SubscribedWhileListening
<1> QED BY <1>2, <1>3, QuietStep DEF Sound, TypeOK, Break, database

LEMMA ConnectErrorSound == ASSUME StreamAssumption, Sound, ConnectError PROVE Sound'
<1>1. ConnectionSound' /\ ChannelSound' /\ SubscribedWhileListening'
  BY EmptySeq
  DEF Sound, ConnectError, database, ConnectionSound, ChannelSound, SubscribedWhileListening
<1> QED BY <1>1, EmptySeq, QuietStep DEF Sound, TypeOK, ConnectError, database

LEMMA TimerFiresSound == ASSUME StreamAssumption, Sound, TimerFires PROVE Sound'
<1>1. subscriptions = {} /\ client = "null" /\ ~shuttingDown
  BY DEF Sound, TimerFires, ConnectionSound, SubscribedWhileListening
<1>2. ConnectionSound' /\ ChannelSound' /\ SubscribedWhileListening'
  BY <1>1, EmptySeq
  DEF Sound, TypeOK, TimerFires, Connect, database, ConnectionSound, ChannelSound,
      SubscribedWhileListening
<1> QED BY <1>1, <1>2, EmptySeq, QuietStep DEF Sound, TypeOK, TimerFires, Connect, database

LEMMA ConnectSucceedsSound == ASSUME StreamAssumption, Sound, ConnectSucceeds PROVE Sound'
<1> DEFINE waiting == {s \in Stream : stream[s].stage = "waiting"}
           subscribing == StillOpen(waiting)
<1> USE DEF Sound
<1>1. subscriptions = {} /\ ~shuttingDown
  BY DEF ConnectSucceeds, ConnectionSound, SubscribedWhileListening, Established
<1>2. \A s \in Stream :
         /\ s \in subscribing =>
               /\ stream'[s] = [stream[s] EXCEPT !.stage = "checking"]
               /\ stream[s].stage = "waiting" /\ stream[s].closed = "no"
         /\ (s \in waiting /\ s \notin subscribing) =>
               /\ stream'[s] = Blank("ended") /\ stream[s].closed # "no"
         /\ s \notin waiting => stream'[s] = stream[s] /\ stream[s].stage # "waiting"
  BY DEF ConnectSucceeds, StillOpen
<1>3. \A s \in Stream : stream'[s] \in Request /\ Fits(stream'[s], revision)
  <2> TAKE s \in Stream
  <2>1. stream[s] \in Request /\ Fits(stream[s], revision) /\ revision \in Nat
    BY DEF TypeOK, StreamsFit
  <2>2. CASE s \in subscribing
    BY <1>2, <2>1, <2>2 DEF Request, Fits, Live, Over, Refusal, StreamAssumption
  <2>3. CASE s \in waiting /\ s \notin subscribing
    <3>1. stream'[s] = Blank("ended") /\ "ended" \in Over
      BY <1>2, <2>3 DEF Over
    <3> HIDE DEF waiting, subscribing
    <3> QED BY <2>1, <3>1, BlankFits
  <2>4. CASE s \notin waiting
    BY <1>2, <2>1, <2>4
  <2> QED BY <2>2, <2>3, <2>4
<1>4. TypeOK'
  <2>1. stream' \in [Stream -> Request]
    BY <1>3 DEF ConnectSucceeds
  <2>2. subscribing \subseteq Stream
    BY DEF StillOpen
  <2> QED BY <2>1, <2>2 DEF ConnectSucceeds, TypeOK, database
<1>5. ConnectionSound' /\ ChannelSound' /\ SubscribedWhileListening'
  BY <1>1 DEF ConnectSucceeds, ConnectionSound, ChannelSound, SubscribedWhileListening,
              database, Established
<1>6. Unclosed' = Unclosed /\ subscriptions' = {s \in Unclosed' : stream'[s].stage # "waiting"}
  <2>1. \A s \in Stream : /\ (s \in Unclosed') <=> (s \in Unclosed)
                          /\ s \in subscribing <=> (s \in Unclosed' /\ stream'[s].stage # "waiting")
    <3> TAKE s \in Stream
    <3>1. stream[s] \in Request
      BY DEF TypeOK
    <3>2. s \notin waiting => (s \in Unclosed => stream[s].stage = "waiting")
      BY <1>1 DEF LeasesMatch
    <3>3. CASE s \in subscribing
      BY <1>2, <3>1, <3>3 DEF Unclosed, Live, Request
    <3>4. CASE s \in waiting /\ s \notin subscribing
      <4>1. stream'[s] = Blank("ended") /\ stream[s].closed # "no"
        BY <1>2, <3>4
      <4>2. stream'[s].stage = "ended"
        BY <4>1 DEF Blank
      <4> QED BY <3>4, <4>1, <4>2 DEF Unclosed, Live
    <3>5. CASE s \notin waiting
      BY <1>2, <3>2, <3>5 DEF Unclosed, StillOpen
    <3> QED BY <3>3, <3>4, <3>5
  <2>2. subscriptions' = subscribing
    BY <1>1 DEF ConnectSucceeds
  <2>3. Unclosed' \subseteq Stream /\ Unclosed \subseteq Stream /\ subscribing \subseteq Stream
    BY DEF Unclosed, StillOpen
  <2> QED BY <2>1, <2>2, <2>3
<1>7. LeasesMatch'
  BY <1>6 DEF LeasesMatch, ConnectSucceeds
<1>8. \A s \in subscriptions' : UpToDate(stream'[s], revision')
  BY <1>1, <1>2 DEF ConnectSucceeds, UpToDate, StillOpen, Fits, StreamsFit, database, TypeOK, Request
<1> QED BY <1>3, <1>4, <1>5, <1>7, <1>8 DEF StreamsFit, ConnectSucceeds, database
LEMMA NotifySound ==
    ASSUME StreamAssumption, Sound, NotifyUnavailable, revision' = revision
    PROVE  /\ stream' \in [Stream -> Request] /\ StreamsFit'
           /\ LeasesMatch' /\ count' \in Nat /\ subscriptions' = {}
<1>1. \A s \in subscriptions : /\ s \in Stream /\ s \in Unclosed
                               /\ stream[s].stage \in {"checking", "open"}
  BY DEF Sound, LeasesMatch, Unclosed, Live
<1>2. \A s \in Stream : stream'[s] = IF s \in subscriptions
                                     THEN Close(stream[s], "lost") ELSE stream[s]
  BY DEF NotifyUnavailable
<1>3. \A s \in Stream : stream[s] \in Request /\ Fits(stream[s], revision)
  BY DEF Sound, TypeOK, StreamsFit
<1>4. revision \in Nat
  BY DEF Sound, TypeOK
<1>5. \A s \in subscriptions :
         LET q == Close(stream[s], "lost")
         IN  q \in Request /\ Fits(q, revision) /\ (q.stage \notin Live \/ q.closed # "no")
  <2> TAKE s \in subscriptions
  <2>1. stream[s] \in Request /\ Fits(stream[s], revision) /\ stream[s].stage \in Live
    BY <1>1, <1>3 DEF Live
  <2> QED BY <1>4, <2>1, CloseFits DEF Live
<1>6. \A s \in Stream : stream'[s] \in Request /\ Fits(stream'[s], revision)
  BY <1>2, <1>3, <1>5
<1>7. stream' \in [Stream -> Request]
  BY <1>6 DEF NotifyUnavailable
<1>8. subscriptions' = {}
  BY DEF NotifyUnavailable, ReleaseResources
<1>9. LeasesMatch' /\ count' \in Nat
  <2>1. subscriptions \subseteq Unclosed
    BY <1>1
  <2>2. \A t \in Stream :
           \/ t \in subscriptions /\ (stream'[t].stage \notin Live \/ stream'[t].closed # "no")
           \/ /\ t \notin subscriptions /\ stream'[t].closed = stream[t].closed
              /\ stream'[t].stage = stream[t].stage
    BY <1>2, <1>5
  <2>3. /\ subscriptions' = subscriptions \ subscriptions
        /\ count' = count - Cardinality(subscriptions)
    BY DEF NotifyUnavailable, ReleaseResources
  <2> QED BY <2>1, <2>2, <2>3, LeasesReleased
<1> QED BY <1>6, <1>7, <1>8, <1>9 DEF StreamsFit

LEMMA DisconnectSound == ASSUME StreamAssumption, Sound, Disconnect PROVE Sound'
<1>1. /\ stream' \in [Stream -> Request] /\ StreamsFit'
      /\ LeasesMatch' /\ count' \in Nat /\ subscriptions' = {}
  BY NotifySound DEF Disconnect, database
<1>2. ~shuttingDown /\ ~shuttingDown' /\ client' = "null" /\ channel' = <<>>
  BY DEF Sound, ConnectionSound, Disconnect
<1>3. TypeOK'
  BY <1>1, <1>2, EmptySeq DEF Sound, TypeOK, Disconnect, ScheduleReconnect, database
<1>4. ConnectionSound' /\ ChannelSound' /\ SubscribedWhileListening'
  BY <1>1, <1>2, EmptySeq DEF ConnectionSound, ChannelSound, SubscribedWhileListening
<1> QED BY <1>1, <1>2, <1>3, <1>4 DEF Sound

LEMMA ShutdownSound == ASSUME StreamAssumption, Sound, Shutdown PROVE Sound'
<1>1. /\ stream' \in [Stream -> Request] /\ StreamsFit'
      /\ LeasesMatch' /\ count' \in Nat /\ subscriptions' = {}
  BY NotifySound DEF Shutdown, database
<1>2. ~reconnectTimer' /\ client' = "null" /\ channel' = <<>>
  BY DEF Shutdown
<1>3. TypeOK'
  BY <1>1, <1>2, EmptySeq DEF Sound, TypeOK, Shutdown, database
<1>4. ConnectionSound' /\ ChannelSound' /\ SubscribedWhileListening'
  BY <1>1, <1>2, EmptySeq DEF ConnectionSound, ChannelSound, SubscribedWhileListening
<1> QED BY <1>1, <1>2, <1>3, <1>4 DEF Sound

LEMMA ConnectFailsSound == ASSUME StreamAssumption, Sound, ConnectFails PROVE Sound'
<1> DEFINE waiting == {s \in Stream : stream[s].stage = "waiting"}
           closing == StillOpen(waiting)
<1>1. subscriptions = {}
  BY DEF Sound, ConnectFails, SubscribedWhileListening
<1>2. \A s \in Stream :
         /\ s \in waiting => stream'[s] \in {Blank("unavailable"), Blank("ended")}
         /\ s \notin waiting => stream'[s] = stream[s]
         /\ s \in closing => (s \in waiting /\ s \in Unclosed)
         /\ (s \in waiting /\ s \notin closing) => s \notin Unclosed
  BY DEF ConnectFails, StillOpen, Unclosed, Live
<1>3. {"unavailable", "ended"} \subseteq Over \ Live
  BY DEF Over, Refusal, Live
<1>4. revision' = revision /\ revision \in Nat
  BY DEF Sound, TypeOK, ConnectFails, database
<1>5. \A s \in waiting : /\ stream'[s] \in Request /\ Fits(stream'[s], revision)
                         /\ stream'[s].stage \notin Live
  <2> TAKE s \in waiting
  <2>1. PICK how \in {"unavailable", "ended"} : stream'[s] = Blank(how)
    BY <1>2
  <2>2. Blank(how).stage = how
    BY DEF Blank
  <2> HIDE DEF waiting
  <2> QED BY <1>3, <1>4, <2>1, <2>2, BlankFits
<1>6. \A s \in Stream : stream'[s] \in Request /\ Fits(stream'[s], revision)
  <2> TAKE s \in Stream
  <2>1. stream[s] \in Request /\ Fits(stream[s], revision)
    BY DEF Sound, TypeOK, StreamsFit
  <2> HIDE DEF waiting
  <2> QED BY <1>2, <1>5, <2>1
<1>7. stream' \in [Stream -> Request]
  BY <1>6 DEF ConnectFails
<1>8. /\ closing \subseteq Unclosed /\ subscriptions' = subscriptions \ closing
      /\ count' = count - Cardinality(closing)
  BY <1>2 DEF ConnectFails, ReleaseResources, StillOpen
<1> HIDE DEF waiting, closing
<1>9. LeasesMatch' /\ count' \in Nat /\ subscriptions' = {}
  BY <1>1, <1>2, <1>5, <1>8, LeasesReleased
<1>10. /\ ConnectionSound' /\ ChannelSound' /\ SubscribedWhileListening' /\ TypeOK'
       /\ client' # "listening"
  BY <1>7, <1>9
  DEF Sound, TypeOK, ConnectFails, ScheduleReconnect, database, ConnectionSound,
      ChannelSound, SubscribedWhileListening
<1> QED BY <1>4, <1>6, <1>9, <1>10 DEF Sound, StreamsFit

-----------------------------------------------------------------------------
(* Those of one request.                                                   *)

\* Each of them makes q of the request s and releases what S says.
LEMMA OneRequestStep ==
    ASSUME StreamAssumption, Sound, UNCHANGED <<database, listener>>,
           NEW s \in Stream, NEW q \in Request, Fits(q, revision),
           stream' = [stream EXCEPT ![s] = q],
           NEW S, S \subseteq Unclosed \cap {s},
           subscriptions' = subscriptions \ S, count' = count - Cardinality(S),
           \/ s \in S /\ (q.stage \notin Live \/ q.closed # "no")
           \/ s \notin S /\ q.closed = stream[s].closed /\ q.stage = stream[s].stage
           \/ s \notin Unclosed /\ q.stage \notin Live
           \/ /\ s \notin S /\ q.closed = stream[s].closed
              /\ stream[s].stage = "checking" /\ q.stage = "open",
           (/\ s \in subscriptions /\ s \notin S /\ client = "listening"
            /\ channel = <<>> /\ UpToDate(stream[s], revision)) => UpToDate(q, revision)
    PROVE  Sound'
<1>1. /\ stream' \in [Stream -> Request]
      /\ \A t \in Stream : stream'[t] = IF t = s THEN q ELSE stream[t]
  BY DEF Sound, TypeOK
<1>2. LeasesMatch' /\ count' \in Nat /\ subscriptions' \subseteq Stream
  <2>1. S \subseteq Unclosed
    OBVIOUS
  <2>2. \A t \in Stream :
              \/ t \in S /\ (stream'[t].stage \notin Live \/ stream'[t].closed # "no")
              \/ /\ t \notin S /\ stream'[t].closed = stream[t].closed
                 /\ stream'[t].stage = stream[t].stage
              \/ t \notin Unclosed /\ stream'[t].stage \notin Live
              \/ /\ t \notin S /\ stream'[t].closed = stream[t].closed
                 /\ stream[t].stage = "checking" /\ stream'[t].stage = "open"
    BY <1>1
  <2> QED BY <2>1, <2>2, LeasesReleased
<1>3. TypeOK'
  BY <1>1, <1>2 DEF Sound, TypeOK, database, listener
<1>4. StreamsFit'
  BY <1>1 DEF Sound, StreamsFit, database
<1>5. ConnectionSound' /\ ChannelSound' /\ SubscribedWhileListening'
  BY DEF Sound, ConnectionSound, ChannelSound, SubscribedWhileListening, database, listener
<1>6. (client' = "listening" /\ channel' = <<>>) =>
          \A t \in subscriptions' : UpToDate(stream'[t], revision')
  BY <1>1, <1>2 DEF Sound, database, listener
<1> QED BY <1>2, <1>3, <1>4, <1>5, <1>6 DEF Sound

\* A step that releases nothing.
LEMMA NothingReleased ==
    ASSUME Sound, UNCHANGED <<subscriptions, count>>
    PROVE  /\ subscriptions' = subscriptions \ {} /\ count' = count - Cardinality({})
           /\ {} \subseteq Unclosed
  BY FS_EmptySet DEF Sound, TypeOK
LEMMA TurnedSound ==
    ASSUME StreamAssumption, Sound, NEW s \in Stream, Turned(s)
    PROVE  Sound'
<1>1. PICK how \in {"notFound", "limited", "unavailable"} :
          stream' = [stream EXCEPT ![s] = Blank(how)]
  BY DEF Turned
<1>2. how \in Over /\ how \notin Live /\ stream[s].stage \notin Live
  BY DEF Turned, Over, Refusal, Live
<1>3. revision \in Nat /\ UNCHANGED <<database, listener, subscriptions, count>>
  BY DEF Sound, TypeOK, Turned
<1>4. Blank(how) \in Request /\ Fits(Blank(how), revision)
  BY <1>2, <1>3, BlankFits
<1>5. Blank(how).stage = how
  BY DEF Blank
<1>6. s \notin Unclosed /\ s \notin subscriptions
  BY <1>2 DEF Sound, LeasesMatch, Unclosed
<1>7. /\ subscriptions' = subscriptions \ {} /\ count' = count - Cardinality({})
      /\ {} \subseteq Unclosed \cap {s}
  BY <1>3, NothingReleased
<1> DEFINE q == Blank(how)
<1>8. /\ q \in Request /\ Fits(q, revision) /\ stream' = [stream EXCEPT ![s] = q]
      /\ q.stage \notin Live
  BY <1>1, <1>2, <1>4, <1>5
<1> HIDE DEF q
<1> QED BY <1>3, <1>6, <1>7, <1>8, OneRequestStep

LEMMA AnswerSound ==
    ASSUME StreamAssumption, Sound, NEW s \in Stream, NEW how \in Refusal, Answer(s, how),
           stream[s].stage \in Live
    PROVE  Sound'
<1> DEFINE end == IF stream[s].closed = "aborted" THEN "ended" ELSE how
           S == {s} \cap Unclosed
<1>1. end \in Over /\ end \notin Live
  BY DEF Over, Refusal, Live
<1>2. revision \in Nat /\ UNCHANGED <<database, listener>>
  BY DEF Sound, TypeOK, Answer
<1>3. stream' = [stream EXCEPT ![s] = Blank(end)]
  BY DEF Answer
<1>4. StillOpen({s}) = S
  BY DEF StillOpen, Unclosed
<1>5. subscriptions' = subscriptions \ S /\ count' = count - Cardinality(S)
  BY <1>4 DEF Answer, ReleaseResources
<1>6. Blank(end).stage = end
  BY DEF Blank
<1>7. s \in subscriptions => s \in S
  BY DEF Sound, LeasesMatch
<1> DEFINE q == Blank(end)
<1> HIDE DEF end
<1>8. /\ q \in Request /\ Fits(q, revision) /\ stream' = [stream EXCEPT ![s] = q]
      /\ q.stage \notin Live
  BY <1>1, <1>2, <1>3, <1>6, BlankFits
<1> HIDE DEF q
<1>9. S \subseteq Unclosed \cap {s} /\ (s \in S \/ s \notin Unclosed)
  OBVIOUS
<1> HIDE DEF S
<1> QED BY <1>2, <1>5, <1>7, <1>8, <1>9, OneRequestStep
\* A step that only changes what an open request or one being opened holds.
LEMMA HoldingStep ==
    ASSUME StreamAssumption, Sound, UNCHANGED <<database, listener, subscriptions, count>>,
           NEW s \in Stream, NEW q \in Request, Fits(q, revision),
           stream' = [stream EXCEPT ![s] = q], q.closed = stream[s].closed,
           q.stage = stream[s].stage \/ (stream[s].stage = "checking" /\ q.stage = "open"),
           (s \in subscriptions /\ client = "listening" /\ channel = <<>>
                /\ UpToDate(stream[s], revision)) => UpToDate(q, revision)
    PROVE  Sound'
<1>1. /\ subscriptions' = subscriptions \ {} /\ count' = count - Cardinality({})
      /\ {} \subseteq Unclosed \cap {s}
  BY NothingReleased
<1> QED BY <1>1, OneRequestStep

LEMMA SnapshotSound ==
    ASSUME StreamAssumption, Sound, NEW s \in Stream, Snapshot(s)
    PROVE  Sound'
<1>1. CASE access
  <2> DEFINE q == [stream[s] EXCEPT !.answer = revision]
  <2>1. stream[s] \in Request /\ Fits(stream[s], revision) /\ revision \in Nat
    BY DEF Sound, TypeOK, StreamsFit
  <2>2. stream[s].stage = "checking" /\ stream' = [stream EXCEPT ![s] = q]
    BY <1>1 DEF Snapshot
  <2>3. q \in Request /\ q.closed = stream[s].closed /\ q.stage = stream[s].stage
    BY <2>1 DEF Request
  <2>4. Fits(q, revision) /\ UpToDate(q, revision)
    BY <2>1, <2>2 DEF Request, Fits, UpToDate, StreamAssumption, Over, Refusal
  <2> HIDE DEF q
  <2> QED BY <1>1, <2>2, <2>3, <2>4, HoldingStep DEF Snapshot
<1>2. CASE ~access
  BY <1>2, AnswerSound DEF Snapshot, Refusal, Live
<1> QED BY <1>1, <1>2

LEMMA StartSound ==
    ASSUME StreamAssumption, Sound, NEW s \in Stream, Start(s)
    PROVE  Sound'
<1> DEFINE p == stream[s]
           sent == IF PendingNews(p) THEN p.pending ELSE p.answer
           w == IF PendingNews(p) THEN <<p.answer, p.pending>> ELSE <<p.answer>>
           q == [p EXCEPT !.stage = "open", !.answer = None, !.pending = None,
                          !.lastSent = sent, !.wire = w]
<1>1. p \in Request /\ Fits(p, revision) /\ revision \in Nat
  BY DEF Sound, TypeOK, StreamsFit
<1>2. /\ p.stage = "checking" /\ p.answer # None /\ p.closed = "no"
      /\ stream' = [stream EXCEPT ![s] = q]
      /\ UNCHANGED <<database, listener, subscriptions, count>>
  BY DEF Start
<1>3. p.answer \in Nat /\ p.pending \in Nat \cup {None}
  BY <1>1, <1>2 DEF Request
<1>4. sent \in Nat /\ sent <= revision /\ w \in Seq(Nat)
  BY <1>1, <1>2, <1>3 DEF PendingNews, Fits, StreamAssumption
<1> HIDE DEF sent, w
<1>5. /\ q \in Request /\ q.closed = p.closed /\ q.stage = "open"
      /\ q.lastSent = sent
  BY <1>1, <1>4 DEF Request, Live
<1>6. Fits(q, revision)
  BY <1>1, <1>2, <1>4 DEF Fits, Request, Over, Refusal
<1>7. UpToDate(p, revision) => UpToDate(q, revision)
  <2>1. (revision \in {p.answer, p.pending}) => sent = revision
    BY <1>1, <1>2, <1>3 DEF sent, PendingNews, Fits, StreamAssumption
  <2>2. UpToDate(p, revision) => (revision \in {p.answer, p.pending})
    BY <1>2 DEF UpToDate
  <2> QED BY <1>5, <2>1, <2>2 DEF UpToDate
<1> HIDE DEF q
<1> QED BY <1>2, <1>5, <1>6, <1>7, HoldingStep

LEMMA EndStreamSound ==
    ASSUME StreamAssumption, Sound, NEW s \in Stream, EndStream(s),
           UNCHANGED <<database, listener>>
    PROVE  Sound'
<1> DEFINE q == Close(stream[s], "no")
<1>1. stream[s] \in Request /\ Fits(stream[s], revision) /\ revision \in Nat
  BY DEF Sound, TypeOK, StreamsFit
<1>2. stream[s].stage = "open" /\ stream' = [stream EXCEPT ![s] = q]
  BY DEF EndStream
<1>3. q \in Request /\ Fits(q, revision) /\ q.stage = "ended"
  BY <1>1, <1>2, CloseFits DEF Live
<1>4. {s} \subseteq Unclosed \cap {s} /\ q.stage \notin Live
  BY <1>1, <1>2, <1>3 DEF Unclosed, Live, Fits
<1>5. subscriptions' = subscriptions \ {s} /\ count' = count - Cardinality({s})
  BY DEF EndStream, ReleaseResources
<1> HIDE DEF q
<1> QED BY <1>2, <1>3, <1>4, <1>5, OneRequestStep

LEMMA HangUpSound ==
    ASSUME StreamAssumption, Sound, NEW s \in Stream, HangUp(s)
    PROVE  Sound'
<1> DEFINE q == IF stream[s].stage = "open" THEN Blank("ended")
                ELSE Close(stream[s], "aborted")
<1>1. stream[s] \in Request /\ Fits(stream[s], revision) /\ revision \in Nat
  BY DEF Sound, TypeOK, StreamsFit
<1>2. /\ stream[s].stage \in Live /\ stream[s].closed = "no"
      /\ stream' = [stream EXCEPT ![s] = q]
      /\ subscriptions' = subscriptions \ {s} /\ count' = count - Cardinality({s})
      /\ UNCHANGED <<database, listener>>
  BY DEF HangUp, ReleaseResources
<1>3. q \in Request /\ Fits(q, revision) /\ (q.stage \notin Live \/ q.closed # "no")
  <2>1. CASE stream[s].stage = "open"
    <3>1. "ended" \in Over /\ "ended" \notin Live /\ Blank("ended").stage = "ended"
      BY DEF Over, Refusal, Live, Blank
    <3> QED BY <1>1, <2>1, <3>1, BlankFits
  <2>2. CASE stream[s].stage # "open"
    BY <1>1, <1>2, <2>2, CloseFits
  <2> QED BY <2>1, <2>2
<1>4. {s} \subseteq Unclosed \cap {s}
  BY <1>2 DEF Unclosed
<1> HIDE DEF q
<1> QED BY <1>2, <1>3, <1>4, OneRequestStep

LEMMA SendHeartbeatSound ==
    ASSUME StreamAssumption, Sound, NEW s \in Stream, SendHeartbeat(s)
    PROVE  Sound'
<1>1. CASE HasRoom(s)
  <2> DEFINE more == stream[s].beats + 1
             q == [stream[s] EXCEPT !.beats = more]
  <2>1. stream[s] \in Request /\ Fits(stream[s], revision)
    BY DEF Sound, TypeOK, StreamsFit
  <2>2. stream' = [stream EXCEPT ![s] = q]
    BY <1>1 DEF SendHeartbeat
  <2>4. more \in Nat
    BY <2>1 DEF Request
  <2> HIDE DEF more
  <2>3. /\ q \in Request /\ Fits(q, revision) /\ q.closed = stream[s].closed
        /\ q.stage = stream[s].stage /\ (UpToDate(stream[s], revision) => UpToDate(q, revision))
    BY <2>1, <2>4 DEF Request, Fits, UpToDate
  <2> HIDE DEF q
  <2> QED BY <1>1, <2>2, <2>3, HoldingStep DEF SendHeartbeat
<1>2. CASE ~HasRoom(s)
  BY <1>2, EndStreamSound DEF SendHeartbeat
<1> QED BY <1>1, <1>2

LEMMA VanishSound ==
    ASSUME StreamAssumption, Sound, NEW s \in Stream, Vanish(s)
    PROVE  Sound'
<1> DEFINE q == [stream[s] EXCEPT !.gone = TRUE]
<1>1. stream[s] \in Request /\ Fits(stream[s], revision)
  BY DEF Sound, TypeOK, StreamsFit
<1>2. stream' = [stream EXCEPT ![s] = q]
  BY DEF Vanish
<1>3. /\ q \in Request /\ Fits(q, revision) /\ q.closed = stream[s].closed
      /\ q.stage = stream[s].stage /\ (UpToDate(stream[s], revision) => UpToDate(q, revision))
  BY <1>1 DEF Request, Fits, UpToDate
<1> HIDE DEF q
<1> QED BY <1>2, <1>3, HoldingStep DEF Vanish

LEMMA ReadSound ==
    ASSUME StreamAssumption, Sound, NEW s \in Stream, Read(s)
    PROVE  Sound'
<1> DEFINE p == [stream[s] EXCEPT !.wire = Tail(@)]
           less == stream[s].beats - 1
           q == [stream[s] EXCEPT !.beats = less]
<1>1. stream[s] \in Request /\ Fits(stream[s], revision)
  BY DEF Sound, TypeOK, StreamsFit
<1>2. UNCHANGED <<database, listener, subscriptions, count>>
  BY DEF Read
<1>3. CASE stream[s].wire # <<>> /\ stream' = [stream EXCEPT ![s] = p]
  <2>1. stream[s].wire \in Seq(Nat) /\ Tail(stream[s].wire) \in Seq(Nat)
    BY <1>1, <1>3, HeadTailProperties DEF Request
  <2>2. /\ p \in Request /\ Fits(p, revision) /\ p.closed = stream[s].closed
        /\ p.stage = stream[s].stage /\ (UpToDate(stream[s], revision) => UpToDate(p, revision))
    BY <1>1, <1>3, <2>1 DEF Request, Fits, UpToDate
  <2> HIDE DEF p
  <2> QED BY <1>2, <1>3, <2>2, HoldingStep
<1>4. CASE stream[s].beats > 0 /\ stream' = [stream EXCEPT ![s] = q]
  <2>2. less \in Nat
    BY <1>1, <1>4 DEF Request
  <2> HIDE DEF less
  <2>1. /\ q \in Request /\ Fits(q, revision) /\ q.closed = stream[s].closed
        /\ q.stage = stream[s].stage /\ (UpToDate(stream[s], revision) => UpToDate(q, revision))
    BY <1>1, <2>2 DEF Request, Fits, UpToDate
  <2> HIDE DEF q
  <2> QED BY <1>2, <1>4, <2>1, HoldingStep
<1> QED BY <1>3, <1>4 DEF Read
\* A new request takes a lease.
LEMMA AdmitSound ==
    ASSUME StreamAssumption, Sound, NEW s \in Stream, NEW from \in Nat \cup {None},
           Admit(s, from)
    PROVE  Sound'
<1> DEFINE phase == IF IsListening THEN "checking" ELSE "waiting"
           q == [Blank(phase) EXCEPT !.since = from]
<1>1. stream[s].stage \in Over /\ s \notin Unclosed /\ s \notin subscriptions
  BY DEF Admit, Sound, LeasesMatch, Unclosed, Over, Refusal, Live
<1>2. /\ revision \in Nat /\ count \in Nat /\ ~shuttingDown /\ ~shuttingDown'
      /\ UNCHANGED <<database, reconnectTimer, shuttingDown>>
  BY DEF Admit, Sound, TypeOK
<1>3. /\ stream' = [stream EXCEPT ![s] = q]
      /\ subscriptions' = IF IsListening THEN subscriptions \cup {s} ELSE subscriptions
      /\ IF IsListening THEN UNCHANGED <<client, channel, connectPromise>>
                        ELSE Connect /\ ~reconnectTimer
  BY DEF Admit, ConnectsOrJoins
<1>12. /\ phase \in {"checking", "waiting"}
       /\ (phase = "waiting") <=> ~IsListening
  OBVIOUS
<1> HIDE DEF phase
<1>4. /\ q.stage = phase /\ q.since = from /\ q.closed = "no" /\ q.answer = None
      /\ q.pending = None /\ q.lastSent = 0 /\ q.wire = <<>>
  BY DEF Blank
<1>13. q \in Request
  <2>1. Blank(phase) \in Request
    BY <1>12, EmptySeq DEF Blank, Request, Live
  <2> QED BY <2>1 DEF Request
<1> HIDE DEF q
<1>5. /\ q \in Request /\ Fits(q, revision) /\ UpToDate(q, revision)
      /\ q.stage = phase /\ q.closed = "no"
  BY <1>2, <1>4, <1>12, <1>13 DEF Fits, UpToDate, Over, Refusal
<1>6. /\ stream' \in [Stream -> Request]
      /\ \A t \in Stream : stream'[t] = IF t = s THEN q ELSE stream[t]
  BY <1>3, <1>5 DEF Sound, TypeOK
<1>7. Unclosed' = Unclosed \cup {s}
  BY <1>5, <1>6, <1>12 DEF Unclosed, Live
<1>8. LeasesMatch' /\ count' \in Nat /\ subscriptions' \subseteq Stream
  <2>1. IsFiniteSet(Unclosed)
    BY FS_Subset DEF StreamAssumption, Unclosed
  <2>2. Cardinality(Unclosed \cup {s}) = Cardinality(Unclosed) + 1
    BY <1>1, <2>1, FS_AddElement
  <2>3. count' = Cardinality(Unclosed') /\ count' \in Nat
    BY <1>2, <1>7, <2>2 DEF Sound, LeasesMatch, Admit
  <2>4. count' <= MAX_BOARD_STREAMS_PER_VISITOR
    BY <1>2 DEF Admit, StreamAssumption
  <2>5. subscriptions' = {t \in Unclosed' : stream'[t].stage # "waiting"}
    <3>1. subscriptions = {t \in Unclosed : stream[t].stage # "waiting"}
      BY DEF Sound, LeasesMatch
    <3>2. \A t \in Unclosed : t # s /\ t \in Stream /\ stream'[t] = stream[t]
      BY <1>1, <1>6 DEF Unclosed
    <3>3. stream'[s].stage = phase
      BY <1>5, <1>6
    <3>4. CASE IsListening
      BY <1>3, <1>7, <1>12, <3>1, <3>2, <3>3, <3>4
    <3>5. CASE ~IsListening
      BY <1>3, <1>7, <1>12, <3>1, <3>2, <3>3, <3>5
    <3> QED BY <3>4, <3>5
  <2>6. subscriptions' \subseteq Stream
    BY <1>3 DEF Sound, TypeOK
  <2> QED BY <2>3, <2>4, <2>5, <2>6 DEF LeasesMatch
<1>9. StreamsFit'
  BY <1>2, <1>5, <1>6 DEF Sound, StreamsFit, database
<1>10. CASE IsListening
  <2>1. UNCHANGED listener
    BY <1>2, <1>3, <1>10 DEF listener
  <2>2. TypeOK'
    BY <1>2, <1>6, <1>8, <2>1 DEF Sound, TypeOK, database, listener
  <2>3. ConnectionSound' /\ ChannelSound'
    BY <1>2, <2>1 DEF Sound, ConnectionSound, ChannelSound, database, listener
  <2>4. SubscribedWhileListening'
    BY <1>2, <1>10, <2>1
    DEF Sound, TypeOK, ConnectionSound, SubscribedWhileListening, IsListening, listener
  <2>5. (client' = "listening" /\ channel' = <<>>) =>
            \A t \in subscriptions' : UpToDate(stream'[t], revision')
    BY <1>2, <1>3, <1>5, <1>6, <1>8, <2>1 DEF Sound, database, listener
  <2> QED BY <1>8, <1>9, <2>2, <2>3, <2>4, <2>5 DEF Sound
<1>11. CASE ~IsListening
  <2>1. subscriptions = {} /\ subscriptions' = {}
    BY <1>3, <1>11 DEF Sound, SubscribedWhileListening, IsListening
  <2>2. TypeOK'
    BY <1>2, <1>3, <1>6, <1>8, <1>11, EmptySeq DEF Sound, TypeOK, Connect, database
  <2>3. ConnectionSound' /\ ChannelSound'
    BY <1>2, <1>3, <1>11, EmptySeq
    DEF Sound, TypeOK, ConnectionSound, ChannelSound, Connect, database
  <2>4. SubscribedWhileListening'
    BY <2>1 DEF SubscribedWhileListening
  <2> QED BY <1>8, <1>9, <2>1, <2>2, <2>3, <2>4 DEF Sound
<1> QED BY <1>10, <1>11
\* A notification goes to every subscriber.
LEMMA DeliverSound == ASSUME StreamAssumption, Sound, Deliver PROVE Sound'
<1> DEFINE r == Head(channel)
           early == {s \in subscriptions :
                       /\ stream[s].stage = "checking"
                       /\ stream[s].pending = None \/ r > stream[s].pending}
           fresh == {s \in subscriptions : stream[s].stage = "open" /\ IsNewer(r, s)}
           full == {s \in fresh : ~HasRoom(s)}
<1>1. /\ channel \in Seq(Nat) /\ channel # <<>> /\ Len(channel) \in Nat
      /\ Len(channel) > 0 /\ r = channel[1] /\ r \in Nat /\ r <= revision
      /\ channel' \in Seq(Nat) /\ Len(channel') = Len(channel) - 1
      /\ \A i \in 1 .. Len(channel') : channel'[i] = channel[i + 1]
  <2>1. channel \in Seq(Nat) /\ channel # <<>> /\ channel' = Tail(channel)
    BY DEF Sound, TypeOK, Deliver
  <2>2. Len(channel) \in Nat /\ Len(channel) > 0
    BY <2>1, LenProperties, EmptySeq
  <2> QED BY <2>1, <2>2, HeadTailProperties, ElementOfSeq DEF Sound, ChannelSound
<1>2. /\ revision' = revision /\ revision \in Nat
      /\ UNCHANGED <<database, client, connectPromise, reconnectTimer, shuttingDown>>
  BY DEF Sound, TypeOK, Deliver, database
<1>3. /\ stream' = [s \in Stream |->
                CASE s \in early -> [stream[s] EXCEPT !.pending = r]
                  [] s \in full -> Close(stream[s], "no")
                  [] s \in fresh \ full -> [stream[s] EXCEPT !.lastSent = r,
                                                             !.wire = Append(@, r)]
                  [] OTHER -> stream[s]]
      /\ subscriptions' = subscriptions \ full /\ count' = count - Cardinality(full)
  BY DEF Deliver, ReleaseResources
<1>4. /\ full \subseteq fresh /\ fresh \subseteq subscriptions /\ early \subseteq subscriptions
      /\ subscriptions \subseteq Unclosed /\ Unclosed \subseteq Stream
      /\ \A s \in early : /\ stream[s].stage = "checking" /\ s \notin fresh
                          /\ stream[s].pending = None \/ r > stream[s].pending
      /\ \A s \in fresh : stream[s].stage = "open" /\ r > stream[s].lastSent
      /\ \A s \in subscriptions \ fresh : ~(stream[s].stage = "open" /\ r > stream[s].lastSent)
      /\ \A s \in subscriptions \ early :
             ~(/\ stream[s].stage = "checking"
               /\ stream[s].pending = None \/ r > stream[s].pending)
  BY DEF Sound, LeasesMatch, Unclosed, IsNewer
<1> HIDE DEF r, early, fresh, full
<1>5. \A s \in Stream :
         /\ s \in early => stream'[s] = [stream[s] EXCEPT !.pending = r]
         /\ s \in full => stream'[s] = Close(stream[s], "no")
         /\ s \in fresh \ full => stream'[s] = [stream[s] EXCEPT !.lastSent = r,
                                                                  !.wire = Append(@, r)]
         /\ (s \notin early /\ s \notin fresh) => stream'[s] = stream[s]
  BY <1>3, <1>4
<1>6. \A s \in Stream : stream[s] \in Request /\ Fits(stream[s], revision)
  BY DEF Sound, TypeOK, StreamsFit
<1>7. \A s \in early : /\ stream'[s] \in Request /\ Fits(stream'[s], revision)
                       /\ stream'[s].stage = "checking" /\ stream'[s].pending = r
                       /\ stream'[s].answer = stream[s].answer
                       /\ stream'[s].closed = stream[s].closed
  <2> TAKE s \in early
  <2>1. /\ s \in Stream /\ stream'[s] = [stream[s] EXCEPT !.pending = r]
        /\ stream[s].stage = "checking"
    BY <1>4, <1>5
  <2>2. stream[s] \in Request /\ Fits(stream[s], revision)
    BY <1>6, <2>1
  <2> QED BY <1>1, <2>1, <2>2 DEF Request, Fits, Over, Refusal, StreamAssumption
<1>8. \A s \in full : /\ stream'[s] \in Request /\ Fits(stream'[s], revision)
                      /\ stream'[s].stage = "ended"
  <2> TAKE s \in full
  <2>1. s \in Stream /\ stream'[s] = Close(stream[s], "no") /\ stream[s].stage = "open"
    BY <1>4, <1>5
  <2> QED BY <1>2, <1>6, <2>1, CloseFits DEF Live
<1>9. \A s \in fresh \ full :
         /\ stream'[s] \in Request /\ Fits(stream'[s], revision)
         /\ stream'[s].stage = "open" /\ stream'[s].lastSent = r
         /\ stream'[s].closed = stream[s].closed
  <2> TAKE s \in fresh \ full
  <2> DEFINE w == Append(stream[s].wire, r)
  <2>1. /\ s \in Stream /\ stream[s].stage = "open"
        /\ stream'[s] = [stream[s] EXCEPT !.lastSent = r, !.wire = w]
    BY <1>4, <1>5
  <2>2. stream[s] \in Request /\ Fits(stream[s], revision)
    BY <1>6, <2>1
  <2>3. stream[s].wire \in Seq(Nat)
    BY <2>2 DEF Request
  <2>4. w \in Seq(Nat)
    BY <1>1, <2>3, AppendProperties
  <2> HIDE DEF w
  <2> QED BY <1>1, <2>1, <2>2, <2>4 DEF Request, Fits, Over, Refusal, StreamAssumption
<1>10. \A s \in Stream : stream'[s] \in Request /\ Fits(stream'[s], revision)
  BY <1>5, <1>6, <1>7, <1>8, <1>9
<1>11. stream' \in [Stream -> Request] /\ StreamsFit'
  BY <1>2, <1>3, <1>10 DEF StreamsFit
<1>12. LeasesMatch' /\ count' \in Nat /\ subscriptions' \subseteq Stream
  <2>1. \A t \in Stream :
           \/ t \in full /\ (stream'[t].stage \notin Live \/ stream'[t].closed # "no")
           \/ /\ t \notin full /\ stream'[t].closed = stream[t].closed
              /\ stream'[t].stage = stream[t].stage
    <3> TAKE t \in Stream
    <3>1. CASE t \in full
      BY <1>8, <3>1 DEF Live
    <3>2. CASE t \in fresh \ full
      BY <1>4, <1>9, <3>2
    <3>3. CASE t \in early
      BY <1>4, <1>7, <3>3
    <3>4. CASE t \notin early /\ t \notin fresh
      BY <1>4, <1>5, <3>4
    <3> QED BY <3>1, <3>2, <3>3, <3>4
  <2>2. full \subseteq Unclosed
    BY <1>4
  <2> QED BY <1>3, <2>1, <2>2, LeasesReleased
<1>13. TypeOK'
  BY <1>1, <1>2, <1>11, <1>12 DEF Sound, TypeOK, database
<1>14. ConnectionSound' /\ SubscribedWhileListening'
  BY <1>1, <1>2, <1>3 DEF Sound, ConnectionSound, SubscribedWhileListening
<1>15. ChannelSound'
  <2>1. \A i \in 1 .. Len(channel') : channel'[i] <= revision'
    <3> TAKE i \in 1 .. Len(channel')
    <3>1. channel'[i] = channel[i + 1] /\ i + 1 \in 1 .. Len(channel)
      BY <1>1
    <3> QED BY <1>2, <3>1 DEF Sound, ChannelSound
  <2>2. (client' = "listening" /\ channel' # <<>>) => channel'[Len(channel')] = revision'
    <3> SUFFICES ASSUME client' = "listening", channel' # <<>>
                 PROVE  channel'[Len(channel')] = revision'
      OBVIOUS
    <3>1. Len(channel') \in 1 .. Len(channel')
      BY <1>1, LenProperties, EmptySeq
    <3>2. channel'[Len(channel')] = channel[Len(channel)]
      BY <1>1, <3>1
    <3> QED BY <1>1, <1>2, <3>2 DEF Sound, ChannelSound
  <2> QED BY <2>1, <2>2 DEF ChannelSound
<1>16. (client' = "listening" /\ channel' = <<>>) =>
            \A s \in subscriptions' : UpToDate(stream'[s], revision')
  <2> SUFFICES ASSUME client' = "listening", channel' = <<>>, NEW s \in subscriptions'
               PROVE  UpToDate(stream'[s], revision)
    BY <1>2
  <2>1. r = revision
    <3>1. Len(channel) = 1
      BY <1>1, EmptySeq
    <3> QED BY <1>1, <1>2, <3>1 DEF Sound, ChannelSound
  <2>2. s \in Stream /\ s \in subscriptions /\ s \notin full
    BY <1>3, <1>4
  <2>3. CASE s \in fresh
    BY <1>9, <2>1, <2>2, <2>3 DEF UpToDate
  <2>4. CASE s \in early
    BY <1>7, <2>1, <2>4 DEF UpToDate
  <2>5. CASE s \notin fresh /\ s \notin early
    <3>1. stream'[s] = stream[s]
      BY <1>5, <2>2, <2>5
    <3>2. /\ stream[s].lastSent \in Nat /\ stream[s].lastSent <= revision
          /\ stream[s].pending \in Nat \cup {None}
          /\ stream[s].pending # None => stream[s].pending <= revision
      BY <1>6, <2>2 DEF Request, Fits
    <3>3. stream[s].stage = "open" => stream[s].lastSent = revision
      BY <1>2, <1>4, <2>1, <2>2, <2>5, <3>2
    <3>4. stream[s].stage = "checking" => stream[s].pending = revision
      BY <1>2, <1>4, <2>1, <2>2, <2>5, <3>2
    <3> QED BY <3>1, <3>3, <3>4 DEF UpToDate
  <2> QED BY <2>3, <2>4, <2>5
<1> QED BY <1>11, <1>12, <1>13, <1>14, <1>15, <1>16 DEF Sound

-----------------------------------------------------------------------------
(* The theorems.                                                           *)

LEMMA NextSound == ASSUME StreamAssumption, Sound, [Next]_vars PROVE Sound'
<1>1. CASE UNCHANGED vars
  BY <1>1 DEF vars, Sound, TypeOK, ConnectionSound, ChannelSound, StreamsFit, LeasesMatch,
              Unclosed, SubscribedWhileListening
<1>2. ASSUME NEW s \in Stream, Handle(s) PROVE Sound'
  <2>1. CASE Snapshot(s)
    BY <2>1, SnapshotSound
  <2>2. CASE SnapshotFails(s)
    BY <2>2, AnswerSound DEF SnapshotFails, Refusal, Live
  <2>3. CASE Start(s)
    BY <2>3, StartSound
  <2>4. CASE StartRefused(s)
    BY <2>4, AnswerSound DEF StartRefused, Refusal, Live
  <2>5. CASE SendHeartbeat(s)
    BY <2>5, SendHeartbeatSound
  <2>6. CASE RevalidateAccess(s)
    BY <2>6, EndStreamSound DEF RevalidateAccess
  <2> QED BY <1>2, <2>1, <2>2, <2>3, <2>4, <2>5, <2>6 DEF Handle
<1>3. ASSUME NEW s \in Stream, NEW from \in {None} \cup (0 .. MAX_REVISION), Admit(s, from)
      PROVE  Sound'
  <2>1. from \in Nat \cup {None}
    BY DEF StreamAssumption
  <2> QED BY <1>3, <2>1, AdmitSound
<1>4. ASSUME NEW s \in Stream, Turned(s) \/ HangUp(s) \/ Vanish(s) \/ Read(s)
      PROVE  Sound'
  BY <1>4, TurnedSound, HangUpSound, VanishSound, ReadSound
<1> QED
  BY <1>1, <1>2, <1>3, <1>4, CommitSound, AccessSound, ListenSound, BreakSound,
     ConnectSucceedsSound, ConnectErrorSound, ConnectFailsSound, TimerFiresSound,
     DisconnectSound, ShutdownSound, DeliverSound
  DEF Next

\* The inductive invariant holds, whatever browsers, database and network do.
THEOREM StreamsSound == ASSUME StreamAssumption PROVE Spec => []Sound
<1>1. Init => Sound
  BY InitSound
<1>2. Sound /\ [Next]_vars => Sound'
  BY NextSound
<1> QED BY <1>1, <1>2, PTL DEF Spec

-----------------------------------------------------------------------------
(* What it implies.                                                        *)

\* Every variable keeps its type: no lease count is ever negative.
THEOREM StreamsTyped == ASSUME StreamAssumption PROVE Spec => []TypeOK
<1>1. Sound => TypeOK
  BY DEF Sound
<1> QED BY <1>1, StreamsSound, PTL

\* closeStream releases each lease once, and no visitor has more streams
\* than the limit.
THEOREM LeasesAlwaysMatch == ASSUME StreamAssumption PROVE Spec => []LeasesMatch
<1>1. Sound => LeasesMatch
  BY DEF Sound
<1> QED BY <1>1, StreamsSound, PTL

\* A request is subscribed only while the listener's connection listens.
THEOREM AlwaysListening ==
    ASSUME StreamAssumption PROVE Spec => []SubscribedWhileListening
<1>1. Sound => SubscribedWhileListening
  BY DEF Sound
<1> QED BY <1>1, StreamsSound, PTL

\* No commit is missed by an open stream whose session lives: it was sent or
\* is about to be handled.
THEOREM NothingEverMissed == ASSUME StreamAssumption PROVE Spec => []NothingMissed
<1>1. Sound => NothingMissed
  BY DEF Sound, ChannelSound, NothingMissed, UpToDate
<1> QED BY <1>1, StreamsSound, PTL

\* The retry timer never waits beside a connection.
THEOREM AlwaysOneConnection == ASSUME StreamAssumption PROVE Spec => []OneConnection
<1>1. Sound => OneConnection
  BY DEF Sound, ConnectionSound, OneConnection
<1> QED BY <1>1, StreamsSound, PTL

\* The listener never stops trying without being shut down.
THEOREM RetryNeverForgotten == ASSUME StreamAssumption PROVE Spec => RetryNeverLost
<1>1. ASSUME Sound, [Next]_vars, Trying
      PROVE  Trying' \/ shuttingDown'
  <2> SUFFICES ASSUME Next PROVE Trying' \/ shuttingDown'
    BY <1>1 DEF vars, Trying
  <2>1. CASE Listen \/ Break \/ ConnectSucceeds \/ ConnectError \/ TimerFires
    BY <1>1, <2>1 DEF Sound, ConnectionSound, Trying, Connect, Established,
       Listen, Break, ConnectSucceeds, ConnectError, TimerFires
  <2>2. CASE ConnectFails \/ Disconnect \/ Shutdown
    <3>1. CASE ConnectFails \/ Disconnect
      <4>1. /\ reconnectTimer' = (reconnectTimer \/ ~shuttingDown)
            /\ shuttingDown' = shuttingDown
        BY <3>1 DEF ConnectFails, Disconnect, ScheduleReconnect
      <4>2. shuttingDown \in BOOLEAN
        BY <1>1 DEF Sound, TypeOK
      <4> QED BY <4>1, <4>2 DEF Trying
    <3>2. CASE Shutdown
      BY <3>2 DEF Shutdown
    <3> QED BY <2>2, <3>1, <3>2
  <2>3. CASE UNCHANGED <<client, connectPromise, reconnectTimer>>
    BY <1>1, <2>3 DEF Trying
  <2>4. CASE Commit \/ LoseAccess \/ RegainAccess \/ Deliver
    BY <2>3, <2>4 DEF Commit, LoseAccess, RegainAccess, Deliver, listener
  <2>5. ASSUME NEW s \in Stream,
               Turned(s) \/ HangUp(s) \/ Vanish(s) \/ Read(s) \/ Handle(s)
        PROVE  UNCHANGED <<client, connectPromise, reconnectTimer>>
    BY <2>5 DEF Turned, HangUp, Vanish, Read, Handle, Snapshot, SnapshotFails, Start,
       StartRefused, SendHeartbeat, RevalidateAccess, Answer, listener
  <2>6. ASSUME NEW s \in Stream, NEW from, Admit(s, from)
        PROVE  Trying'
    BY <1>1, <2>6 DEF Admit, Connect, IsListening, Trying
  <2> QED BY <1>1, <2>1, <2>2, <2>3, <2>4, <2>5, <2>6 DEF Next
<1>2. Sound /\ [Next]_vars => (Trying => (Trying' \/ shuttingDown'))
  BY <1>1
<1>3. Spec => [][Next]_vars /\ []Sound
  BY StreamsSound, PTL DEF Spec
<1> QED BY <1>2, <1>3, PTL DEF RetryNeverLost

-----------------------------------------------------------------------------
(* The server keeps the promise of RevisionStream.                         *)

\* The variables of RevisionStream after a step that leaves the watched
\* request's public state.
LEMMA WatchedKept ==
    ASSUME PublicStage' = PublicStage,
           stream'[Watched].since = stream[Watched].since,
           stream'[Watched].lastSent = stream[Watched].lastSent,
           stream'[Watched].wire = stream[Watched].wire,
           UNCHANGED <<revision, access>>
    PROVE  UNCHANGED Promise!vars
  BY DEF Promise!vars

\* A request that is not watched takes a step.
LEMMA AnotherTakesStep ==
    ASSUME stream'[Watched] = stream[Watched], UNCHANGED <<revision, access>>
    PROVE  UNCHANGED Promise!vars
  BY DEF Promise!vars, PublicStage


\* The watched request is answered with an error or ends.
LEMMA WatchedRefused ==
    ASSUME StreamAssumption, Sound, NEW how \in Refusal \cup {"ended"},
           stream'[Watched] = Blank(how),
           stream[Watched].stage \in {"waiting", "checking"},
           UNCHANGED <<revision, access>>,
           (how = "notFound") => ~access,
           (how = "invalid") => (stream[Watched].since # None),
           (stream[Watched].closed = "aborted") => (how = "ended")
    PROVE  Promise!Next \/ UNCHANGED Promise!vars
<1> DEFINE q == stream[Watched]
<1>1. /\ q \in Request /\ Fits(q, revision) /\ q.wire = <<>> /\ q.lastSent = 0
  BY DEF Sound, TypeOK, StreamsFit, StreamAssumption, Fits
<1>2. /\ PublicStage' = how /\ stream'[Watched].since = None
      /\ stream'[Watched].lastSent = 0 /\ stream'[Watched].wire = <<>>
  BY DEF PublicStage, Blank, Refusal
<1>3. CASE q.closed = "aborted"
  <2>1. PublicStage = "ended" /\ how = "ended"
    BY <1>3 DEF PublicStage
  <2> QED BY <1>1, <1>2, <2>1 DEF Promise!vars
<1>4. CASE q.closed # "aborted" /\ how # "ended"
  <2>1. PublicStage = "opening" /\ how \in Refusal
    BY <1>4 DEF PublicStage
  <2>2. Promise!Refuse(how)
    BY <1>2, <1>4, <2>1 DEF Promise!Refuse, Promise!Over, Promise!Refusal, Refusal
  <2> QED BY <2>1, <2>2 DEF Promise!Next, Promise!Refusal, Refusal
<1>5. CASE q.closed # "aborted" /\ how = "ended"
  <2>1. PublicStage = "opening"
    BY <1>5 DEF PublicStage
  <2>2. Promise!End
    BY <1>1, <1>2, <1>5, <2>1 DEF Promise!End
  <2> QED BY <2>2 DEF Promise!Next
<1> QED BY <1>3, <1>4, <1>5

\* closeStream is called for the watched request, by the server.
LEMMA WatchedCloses ==
    ASSUME StreamAssumption, Sound, NEW why \in {"no", "lost"},
           stream'[Watched] = Close(stream[Watched], why),
           Watched \in subscriptions, UNCHANGED <<revision, access>>
    PROVE  Promise!Next \/ UNCHANGED Promise!vars
<1> DEFINE q == stream[Watched]
<1>1. /\ q \in Request /\ q.closed = "no" /\ q.stage \in {"checking", "open"}
  BY DEF Sound, TypeOK, LeasesMatch, Unclosed, StreamAssumption, Live
<1>2. CASE q.stage = "open"
  <2>1. /\ stream'[Watched].stage = "ended"
        /\ stream'[Watched].since = None /\ stream'[Watched].lastSent = 0
        /\ stream'[Watched].wire \in {q.wire, <<>>}
    BY <1>2 DEF Close, Blank
  <2>2. PublicStage = "open" /\ PublicStage' = "ended"
    BY <1>2, <2>1 DEF PublicStage
  <2>3. Promise!End
    BY <2>1, <2>2 DEF Promise!End
  <2> QED BY <2>3 DEF Promise!Next
<1>3. CASE q.stage = "checking"
  <2>1. stream'[Watched] = [q EXCEPT !.closed = why, !.pending = None]
    BY <1>3 DEF Close
  <2>2. /\ stream'[Watched].stage = "checking" /\ stream'[Watched].closed = why
        /\ stream'[Watched].since = q.since /\ stream'[Watched].wire = q.wire
        /\ stream'[Watched].lastSent = q.lastSent
    BY <1>1, <1>3, <2>1 DEF Request
  <2>3. PublicStage' = PublicStage
    BY <1>1, <1>3, <2>2 DEF PublicStage
  <2> QED BY <2>2, <2>3, WatchedKept
<1> QED BY <1>1, <1>2, <1>3

\* Connections end well or badly.
LEMMA PromiseConnects ==
    ASSUME StreamAssumption, Sound, ConnectSucceeds \/ ConnectFails
    PROVE  Promise!Next \/ UNCHANGED Promise!vars
<1> DEFINE q == stream[Watched]
<1>1. q \in Request /\ UNCHANGED <<revision, access>> /\ Watched \in Stream
  BY DEF Sound, TypeOK, StreamAssumption, ConnectSucceeds, ConnectFails, database
<1>2. CASE q.stage # "waiting"
  <2>1. stream'[Watched] = q
    BY <1>1, <1>2 DEF ConnectSucceeds, ConnectFails, StillOpen
  <2> QED BY <1>1, <2>1, AnotherTakesStep
<1>3. CASE q.stage = "waiting" /\ q.closed # "no"
  <2>1. stream'[Watched] = Blank("ended")
    BY <1>1, <1>3 DEF ConnectSucceeds, ConnectFails, StillOpen
  <2> QED BY <1>1, <1>3, <2>1, WatchedRefused
<1>4. CASE q.stage = "waiting" /\ q.closed = "no" /\ ConnectFails
  <2>1. stream'[Watched] = Blank("unavailable")
    BY <1>1, <1>4 DEF ConnectFails, StillOpen
  <2> QED BY <1>1, <1>4, <2>1, WatchedRefused DEF Refusal
<1>5. CASE q.stage = "waiting" /\ q.closed = "no" /\ ConnectSucceeds
  <2>1. stream'[Watched] = [q EXCEPT !.stage = "checking"]
    BY <1>1, <1>5 DEF ConnectSucceeds, StillOpen
  <2>2. /\ stream'[Watched].stage = "checking" /\ stream'[Watched].closed = q.closed
        /\ stream'[Watched].since = q.since /\ stream'[Watched].wire = q.wire
        /\ stream'[Watched].lastSent = q.lastSent
    BY <1>1, <2>1 DEF Request
  <2>3. PublicStage' = PublicStage
    BY <1>5, <2>2 DEF PublicStage
  <2> QED BY <1>1, <2>2, <2>3, WatchedKept
<1> QED BY <1>2, <1>3, <1>4, <1>5

LEMMA PromiseNotifies ==
    ASSUME StreamAssumption, Sound, NotifyUnavailable, UNCHANGED database
    PROVE  Promise!Next \/ UNCHANGED Promise!vars
<1>1. CASE Watched \in subscriptions
  <2>1. stream'[Watched] = Close(stream[Watched], "lost")
    BY <1>1 DEF NotifyUnavailable, StreamAssumption
  <2> QED BY <1>1, <2>1, WatchedCloses DEF database
<1>2. CASE Watched \notin subscriptions
  <2>1. stream'[Watched] = stream[Watched]
    BY <1>2 DEF NotifyUnavailable, StreamAssumption
  <2> QED BY <2>1, AnotherTakesStep DEF database
<1> QED BY <1>1, <1>2

\* A notification is told to an open stream.
LEMMA PromiseDelivers ==
    ASSUME StreamAssumption, Sound, Deliver
    PROVE  Promise!Next \/ UNCHANGED Promise!vars
<1> DEFINE q == stream[Watched]
           r == Head(channel)
           early == {s \in subscriptions :
                       /\ stream[s].stage = "checking"
                       /\ stream[s].pending = None \/ r > stream[s].pending}
           fresh == {s \in subscriptions : stream[s].stage = "open" /\ IsNewer(r, s)}
           full  == {s \in fresh : ~HasRoom(s)}
<1>1. /\ q \in Request /\ UNCHANGED <<revision, access>> /\ Watched \in Stream
      /\ revision \in Nat
  BY DEF Sound, TypeOK, StreamAssumption, Deliver, database
<1>2. r \in Nat /\ r <= revision
  <2>1. channel \in Seq(Nat) /\ channel # <<>>
    BY DEF Deliver, Sound, TypeOK
  <2>2. Len(channel) >= 1 /\ r = channel[1] /\ r \in Nat
    BY <2>1
  <2> QED BY <2>1, <2>2 DEF Sound, ChannelSound
<1>3. stream'[Watched] =
          CASE Watched \in early -> [q EXCEPT !.pending = r]
            [] Watched \in full -> Close(q, "no")
            [] Watched \in fresh \ full -> [q EXCEPT !.lastSent = r,
                                                     !.wire = Append(@, r)]
            [] OTHER -> q
  BY <1>1 DEF Deliver
<1>4. early \cap fresh = {}
  OBVIOUS
<1>5. CASE Watched \in early
  <2>1. stream'[Watched] = [q EXCEPT !.pending = r]
    BY <1>3, <1>4, <1>5
  <2>2. /\ stream'[Watched].stage = q.stage /\ stream'[Watched].closed = q.closed
        /\ stream'[Watched].since = q.since /\ stream'[Watched].wire = q.wire
        /\ stream'[Watched].lastSent = q.lastSent
    BY <1>1, <2>1 DEF Request
  <2>3. PublicStage' = PublicStage
    BY <2>2 DEF PublicStage
  <2> QED BY <1>1, <2>2, <2>3, WatchedKept
<1>6. CASE Watched \in full
  <2>1. stream'[Watched] = Close(q, "no")
    BY <1>3, <1>4, <1>6
  <2> QED BY <1>1, <1>6, <2>1, WatchedCloses
<1>7. CASE Watched \in fresh \ full
  <2>1. stream'[Watched] = [q EXCEPT !.lastSent = r, !.wire = Append(@, r)]
    BY <1>3, <1>4, <1>7
  <2>2. /\ stream'[Watched].stage = q.stage /\ stream'[Watched].since = q.since
        /\ stream'[Watched].lastSent = r /\ stream'[Watched].wire = Append(q.wire, r)
    BY <1>1, <2>1 DEF Request
  <2>3. PublicStage = "open" /\ PublicStage' = "open" /\ r > q.lastSent
    BY <1>7, <2>2 DEF PublicStage, IsNewer
  <2>4. Promise!Tell(r)
    BY <1>1, <2>2, <2>3 DEF Promise!Tell
  <2>5. r \in 0 .. revision
    BY <1>1, <1>2
  <2> QED BY <2>4, <2>5 DEF Promise!Next
<1>8. CASE Watched \notin early \cup fresh
  <2>1. stream'[Watched] = q
    BY <1>3, <1>8
  <2> QED BY <1>1, <2>1, AnotherTakesStep
<1> QED BY <1>5, <1>6, <1>7, <1>8

\* The steps of the request itself.
LEMMA PromiseAsks ==
    ASSUME StreamAssumption, Sound, NEW from \in {None} \cup (0 .. MAX_REVISION),
           Turned(Watched) \/ Admit(Watched, from)
    PROVE  Promise!Next \/ UNCHANGED Promise!vars
<1> DEFINE q == stream[Watched]
<1>1. /\ q \in Request /\ UNCHANGED <<revision, access>> /\ Watched \in Stream
      /\ stream \in [Stream -> Request]
  BY DEF Sound, TypeOK, StreamAssumption, Turned, Admit, database
<1>2. PublicStage = q.stage /\ q.stage \in Over
  BY DEF PublicStage, Turned, Admit, Over, Refusal
<1>3. CASE Turned(Watched)
  <2>1. PICK how \in {"notFound", "limited", "unavailable"} :
            /\ (how = "notFound") => ~access
            /\ stream'[Watched] = Blank(how)
    BY <1>1, <1>3 DEF Turned
  <2>2. /\ PublicStage' = how /\ stream'[Watched].since = None
        /\ stream'[Watched].lastSent = 0 /\ stream'[Watched].wire = <<>>
    BY <2>1 DEF PublicStage, Blank
  <2>3. Promise!Refuse(how)
    BY <1>1, <1>2, <2>1, <2>2
    DEF Promise!Refuse, Promise!Over, Promise!Refusal, Over, Refusal
  <2> QED BY <2>3 DEF Promise!Next, Promise!Refusal
<1>4. CASE Admit(Watched, from)
  <2>1. PICK how \in {"waiting", "checking"} :
            stream'[Watched] = [Blank(how) EXCEPT !.since = from]
    BY <1>1, <1>4 DEF Admit
  <2>2. /\ stream'[Watched].stage = how /\ stream'[Watched].closed = "no"
        /\ stream'[Watched].since = from /\ stream'[Watched].wire = <<>>
        /\ stream'[Watched].lastSent = 0
    BY <2>1 DEF Blank
  <2>3. PublicStage' = "opening"
    BY <2>2 DEF PublicStage
  <2>4. Promise!Request(from)
    BY <1>1, <1>2, <2>2, <2>3
    DEF Promise!Request, Promise!Over, Promise!Refusal, Over, Refusal
  <2> QED BY <2>4 DEF Promise!Next
<1> QED BY <1>3, <1>4

LEMMA PromiseOpens ==
    ASSUME StreamAssumption, Sound, Start(Watched)
    PROVE  Promise!Next
<1> DEFINE q == stream[Watched]
<1>1. /\ q \in Request /\ UNCHANGED <<revision, access>> /\ Watched \in Stream
      /\ stream \in [Stream -> Request] /\ revision \in Nat /\ Fits(q, revision)
  BY DEF Sound, TypeOK, StreamsFit, StreamAssumption, Start, database
<1>2. /\ q.stage = "checking" /\ q.closed = "no" /\ q.answer # None
      /\ q.answer \in Nat /\ q.answer <= revision
      /\ (q.since # None) => (q.since <= q.answer)
  BY <1>1 DEF Start, Fits, Request
<1>3. stream'[Watched] =
          [q EXCEPT !.stage = "open", !.answer = None, !.pending = None,
                    !.lastSent = IF PendingNews(q) THEN q.pending ELSE q.answer,
                    !.wire = IF PendingNews(q) THEN <<q.answer, q.pending>>
                                               ELSE <<q.answer>>]
  BY <1>1 DEF Start
<1>4. /\ stream'[Watched].stage = "open" /\ stream'[Watched].since = q.since
      /\ stream'[Watched].lastSent = IF PendingNews(q) THEN q.pending ELSE q.answer
      /\ stream'[Watched].wire = IF PendingNews(q) THEN <<q.answer, q.pending>>
                                                   ELSE <<q.answer>>
  BY <1>1, <1>3 DEF Request
<1>5. PublicStage = "opening" /\ PublicStage' = "open"
  BY <1>2, <1>4 DEF PublicStage
<1>6. Promise!Open(q.answer)
  <2>1. CASE PendingNews(q)
    <3>1. q.pending \in q.answer + 1 .. revision
      BY <1>1, <1>2, <2>1 DEF PendingNews, Fits, Request
    <3> QED BY <1>1, <1>2, <1>4, <1>5, <2>1, <3>1 DEF Promise!Open
  <2>2. CASE ~PendingNews(q)
    BY <1>1, <1>2, <1>4, <1>5, <2>2 DEF Promise!Open
  <2> QED BY <2>1, <2>2
<1>7. q.answer \in 0 .. revision
  BY <1>1, <1>2
<1> QED BY <1>6, <1>7 DEF Promise!Next

LEMMA PromiseAnswers ==
    ASSUME StreamAssumption, Sound, NEW how \in Refusal, Answer(Watched, how),
           stream[Watched].stage = "checking",
           (how = "notFound") => ~access,
           (how = "invalid") => (stream[Watched].since # None)
    PROVE  Promise!Next \/ UNCHANGED Promise!vars
<1>1. /\ UNCHANGED <<revision, access>> /\ Watched \in Stream
      /\ stream \in [Stream -> Request]
  BY DEF Sound, TypeOK, StreamAssumption, Answer, database
<1>2. CASE stream[Watched].closed = "aborted"
  <2>1. stream'[Watched] = Blank("ended")
    BY <1>1, <1>2 DEF Answer
  <2> QED BY <1>1, <2>1, WatchedRefused
<1>3. CASE stream[Watched].closed # "aborted"
  <2>1. stream'[Watched] = Blank(how)
    BY <1>1, <1>3 DEF Answer
  <2> QED BY <1>1, <1>3, <2>1, WatchedRefused
<1> QED BY <1>2, <1>3

LEMMA PromiseEnds ==
    ASSUME StreamAssumption, Sound, EndStream(Watched), UNCHANGED database
    PROVE  Promise!Next \/ UNCHANGED Promise!vars
<1>1. Watched \in subscriptions
  BY DEF EndStream, Sound, LeasesMatch, Unclosed, StreamsFit, Fits, StreamAssumption, Live
<1>2. stream'[Watched] = Close(stream[Watched], "no")
  BY DEF EndStream, Sound, TypeOK, StreamAssumption
<1> QED BY <1>1, <1>2, WatchedCloses DEF database

LEMMA PromiseHandles ==
    ASSUME StreamAssumption, Sound, Handle(Watched)
    PROVE  Promise!Next \/ UNCHANGED Promise!vars
<1> DEFINE q == stream[Watched]
<1>1. q \in Request /\ Watched \in Stream /\ stream \in [Stream -> Request]
  BY DEF Sound, TypeOK, StreamAssumption
<1>2. CASE Snapshot(Watched)
  <2>1. CASE ~access
    BY <1>2, <2>1, PromiseAnswers DEF Snapshot, Refusal
  <2>2. CASE access
    <3>1. /\ stream'[Watched] = [q EXCEPT !.answer = revision]
          /\ UNCHANGED <<revision, access>>
      BY <1>1, <1>2, <2>2 DEF Snapshot, database
    <3>2. /\ stream'[Watched].stage = q.stage /\ stream'[Watched].closed = q.closed
          /\ stream'[Watched].since = q.since /\ stream'[Watched].wire = q.wire
          /\ stream'[Watched].lastSent = q.lastSent
      BY <1>1, <3>1 DEF Request
    <3>3. PublicStage' = PublicStage
      BY <3>2 DEF PublicStage
    <3> QED BY <3>1, <3>2, <3>3, WatchedKept
  <2> QED BY <2>1, <2>2
<1>3. CASE SnapshotFails(Watched)
  BY <1>3, PromiseAnswers DEF SnapshotFails, Refusal
<1>4. CASE Start(Watched)
  BY <1>4, PromiseOpens
<1>5. CASE StartRefused(Watched)
  BY <1>5, PromiseAnswers DEF StartRefused, Refusal
<1>6. CASE SendHeartbeat(Watched)
  <2>1. CASE HasRoom(Watched)
    <3>1. /\ stream'[Watched] = [q EXCEPT !.beats = @ + 1]
          /\ UNCHANGED <<revision, access>>
      BY <1>1, <1>6, <2>1 DEF SendHeartbeat, database
    <3>2. /\ stream'[Watched].stage = q.stage /\ stream'[Watched].closed = q.closed
          /\ stream'[Watched].since = q.since /\ stream'[Watched].wire = q.wire
          /\ stream'[Watched].lastSent = q.lastSent
      BY <1>1, <3>1 DEF Request
    <3>3. PublicStage' = PublicStage
      BY <3>2 DEF PublicStage
    <3> QED BY <3>1, <3>2, <3>3, WatchedKept
  <2>2. CASE ~HasRoom(Watched)
    BY <1>6, <2>2, PromiseEnds DEF SendHeartbeat
  <2> QED BY <2>1, <2>2
<1>7. CASE RevalidateAccess(Watched)
  BY <1>7, PromiseEnds DEF RevalidateAccess
<1> QED BY <1>2, <1>3, <1>4, <1>5, <1>6, <1>7 DEF Handle

LEMMA PromiseHangsUp ==
    ASSUME StreamAssumption, Sound, HangUp(Watched)
    PROVE  Promise!Next \/ UNCHANGED Promise!vars
<1> DEFINE q == stream[Watched]
<1>1. /\ q \in Request /\ UNCHANGED <<revision, access>> /\ Watched \in Stream
      /\ stream \in [Stream -> Request] /\ Fits(q, revision)
  BY DEF Sound, TypeOK, StreamsFit, StreamAssumption, HangUp, database
<1>2. CASE q.stage = "open"
  <2>1. stream'[Watched] = Blank("ended")
    BY <1>1, <1>2 DEF HangUp
  <2>2. PublicStage = "open" /\ PublicStage' = "ended"
    BY <1>2, <2>1 DEF PublicStage, Blank
  <2>3. Promise!End
    BY <1>1, <2>1, <2>2 DEF Promise!End, Blank
  <2> QED BY <2>3 DEF Promise!Next
<1>3. CASE q.stage # "open"
  <2>1. stream'[Watched] = [q EXCEPT !.closed = "aborted", !.pending = None]
    BY <1>1, <1>3 DEF HangUp, Close
  <2>2. /\ stream'[Watched].stage = q.stage /\ stream'[Watched].closed = "aborted"
        /\ stream'[Watched].since = q.since /\ stream'[Watched].wire = q.wire
        /\ stream'[Watched].lastSent = q.lastSent
    BY <1>1, <2>1 DEF Request
  <2>3. /\ q.stage \in {"waiting", "checking"} /\ q.closed = "no"
        /\ q.wire = <<>> /\ q.lastSent = 0
    BY <1>1, <1>3 DEF HangUp, Live, Fits
  <2>4. PublicStage = "opening" /\ PublicStage' = "ended"
    BY <2>2, <2>3 DEF PublicStage
  <2>5. Promise!End
    BY <1>1, <2>2, <2>3, <2>4 DEF Promise!End
  <2> QED BY <2>5 DEF Promise!Next
<1> QED BY <1>2, <1>3

LEMMA PromiseReads ==
    ASSUME StreamAssumption, Sound, Vanish(Watched) \/ Read(Watched)
    PROVE  Promise!Next \/ UNCHANGED Promise!vars
<1> DEFINE q == stream[Watched]
<1>1. /\ q \in Request /\ UNCHANGED <<revision, access>> /\ Watched \in Stream
      /\ stream \in [Stream -> Request]
  BY DEF Sound, TypeOK, StreamAssumption, Vanish, Read, database
<1>2. CASE stream' = [stream EXCEPT ![Watched].wire = Tail(@)] /\ q.wire # <<>>
  <2>1. stream'[Watched] = [q EXCEPT !.wire = Tail(@)]
    BY <1>1, <1>2
  <2>2. /\ stream'[Watched].stage = q.stage /\ stream'[Watched].closed = q.closed
        /\ stream'[Watched].since = q.since /\ stream'[Watched].wire = Tail(q.wire)
        /\ stream'[Watched].lastSent = q.lastSent
    BY <1>1, <2>1 DEF Request
  <2>3. PublicStage' = PublicStage
    BY <2>2 DEF PublicStage
  <2>4. Promise!Read
    BY <1>1, <1>2, <2>2, <2>3 DEF Promise!Read
  <2> QED BY <2>4 DEF Promise!Next
<1>3. CASE \/ stream' = [stream EXCEPT ![Watched].gone = TRUE]
           \/ stream' = [stream EXCEPT ![Watched].beats = @ - 1]
  <2>1. \/ stream'[Watched] = [q EXCEPT !.gone = TRUE]
        \/ stream'[Watched] = [q EXCEPT !.beats = @ - 1]
    BY <1>1, <1>3
  <2>2. /\ stream'[Watched].stage = q.stage /\ stream'[Watched].closed = q.closed
        /\ stream'[Watched].since = q.since /\ stream'[Watched].wire = q.wire
        /\ stream'[Watched].lastSent = q.lastSent
    BY <1>1, <2>1 DEF Request
  <2>3. PublicStage' = PublicStage
    BY <2>2 DEF PublicStage
  <2> QED BY <1>1, <2>2, <2>3, WatchedKept
<1> QED BY <1>2, <1>3 DEF Vanish, Read

\* A step of another request is invisible.
LEMMA PromiseIgnores ==
    ASSUME StreamAssumption, Sound, NEW s \in Stream, s # Watched,
           \/ Turned(s) \/ HangUp(s) \/ Vanish(s) \/ Read(s) \/ Handle(s)
           \/ \E from \in {None} \cup (0 .. MAX_REVISION) : Admit(s, from)
    PROVE  UNCHANGED Promise!vars
<1>1. stream'[Watched] = stream[Watched]
  <2>1. stream \in [Stream -> Request] /\ Watched \in Stream
    BY DEF Sound, TypeOK, StreamAssumption
  <2>2. \/ stream' = stream
        \/ \E q : stream' = [stream EXCEPT ![s] = q]
    <3>1. CASE Turned(s) \/ Vanish(s) \/ Read(s)
      BY <3>1 DEF Turned, Vanish, Read
    <3>2. CASE HangUp(s)
      BY <3>2 DEF HangUp
    <3>3. CASE \E from \in {None} \cup (0 .. MAX_REVISION) : Admit(s, from)
      BY <3>3 DEF Admit
    <3>4. CASE Snapshot(s) \/ SnapshotFails(s) \/ StartRefused(s)
      BY <3>4 DEF Snapshot, SnapshotFails, StartRefused, Answer
    <3>5. CASE Start(s)
      BY <3>5 DEF Start
    <3>6. CASE SendHeartbeat(s) \/ RevalidateAccess(s)
      BY <3>6 DEF SendHeartbeat, RevalidateAccess, EndStream
    <3> QED BY <3>1, <3>2, <3>3, <3>4, <3>5, <3>6 DEF Handle
  <2> QED BY <2>1, <2>2
<1>2. UNCHANGED <<revision, access>>
  BY DEF Turned, HangUp, Vanish, Read, Handle, Admit, Snapshot, SnapshotFails, Start,
     StartRefused, SendHeartbeat, RevalidateAccess, Answer, database
<1> QED BY <1>1, <1>2, AnotherTakesStep

\* The events route and the listener implement what RevisionStream allows:
\* every stream tells growing revisions, from the one asked from on, and
\* refuses for the reasons it gives.
THEOREM PromiseAlwaysKept == ASSUME StreamAssumption PROVE Spec => PromiseKept
<1>1. Init => Promise!Init
  BY DEF Init, Promise!Init, PublicStage, Blank, StreamAssumption
<1>2. ASSUME Sound, [Next]_vars
      PROVE  [Promise!Next]_Promise!vars
  <2>1. CASE UNCHANGED vars
    BY <2>1, AnotherTakesStep DEF vars
  <2>2. CASE Commit
    BY <2>2 DEF Commit, Promise!Next, Promise!Commit, PublicStage
  <2>3. CASE LoseAccess \/ RegainAccess
    BY <2>3 DEF LoseAccess, RegainAccess, Promise!Next, Promise!LoseAccess,
       Promise!RegainAccess, PublicStage
  <2>4. CASE Listen \/ Break \/ ConnectError \/ TimerFires
    BY <2>4, AnotherTakesStep DEF Listen, Break, ConnectError, TimerFires, database
  <2>5. CASE ConnectSucceeds \/ ConnectFails
    BY <1>2, <2>5, PromiseConnects
  <2>6. CASE Disconnect \/ Shutdown
    BY <1>2, <2>6, PromiseNotifies DEF Disconnect, Shutdown
  <2>7. CASE Deliver
    BY <1>2, <2>7, PromiseDelivers
  <2>8. ASSUME NEW s \in Stream,
               \/ Turned(s) \/ HangUp(s) \/ Vanish(s) \/ Read(s) \/ Handle(s)
               \/ \E from \in {None} \cup (0 .. MAX_REVISION) : Admit(s, from)
        PROVE  Promise!Next \/ UNCHANGED Promise!vars
    <3>1. CASE s = Watched
      BY <1>2, <2>8, <3>1, PromiseAsks, PromiseHandles, PromiseHangsUp, PromiseReads
    <3>2. CASE s # Watched
      BY <1>2, <2>8, <3>2, PromiseIgnores
    <3> QED BY <3>1, <3>2
  <2> QED
    BY <1>2, <2>1, <2>2, <2>3, <2>4, <2>5, <2>6, <2>7, <2>8 DEF Next
<1>3. Sound /\ [Next]_vars => [Promise!Next]_Promise!vars
  BY <1>2
<1>4. Spec => Init /\ [][Next]_vars /\ []Sound
  BY StreamsSound, PTL DEF Spec
<1> QED BY <1>1, <1>3, <1>4, PTL DEF PromiseKept, Promise!Safety
=============================================================================
