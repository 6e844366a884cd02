------------------------- MODULE PolicySessionProofs -------------------------
(***************************************************************************
 Proofs about the rendering path as a whole (SessionSpec of PolicySession):
 the session, the Worker it made and the frame it wired to that Worker, for
 every number of requests, Workers, generations and documents, every length of
 the startup queue, with or without a frame.

 The client's own invariants hold here too, because none of its step lemmas
 asks where a message comes from.  On top of them: what belongs to the Worker
 that lives, the order of the requests and of their generations along the path,
 the order in which ports reach the frame, and what the frame showed.
 ***************************************************************************)
EXTENDS PolicyClientSafety, PolicySession, SequenceTheorems

USE DEF NoSession, Sessions, SessionOrNone, Requests, Generations

-----------------------------------------------------------------------------
(***************************************************************************
 What is in a queue, as a set.
 ***************************************************************************)
LEMMA RangeAppend ==
  ASSUME NEW S, NEW s \in Seq(S), NEW e \in S
  PROVE  /\ Append(s, e) \in Seq(S)
         /\ Range(Append(s, e)) = Range(s) \cup {e}
<1>1. /\ DOMAIN Append(s, e) = DOMAIN s \cup {Len(s) + 1}
      /\ Append(s, e)[Len(s) + 1] = e
      /\ \A i \in DOMAIN s : Append(s, e)[i] = s[i]
      /\ Append(s, e) \in Seq(S)
  OBVIOUS
<1>2. QED
  BY <1>1 DEF Range

LEMMA RangeTail ==
  ASSUME NEW S, NEW s \in Seq(S), s # <<>>
  PROVE  /\ Tail(s) \in Seq(S)
         /\ Head(s) \in Range(s)
         /\ Range(s) = Range(Tail(s)) \cup {Head(s)}
<1>1. /\ Tail(s) \in Seq(S)
      /\ 1 \in DOMAIN s /\ Head(s) = s[1]
      /\ \A i \in DOMAIN Tail(s) :
           i + 1 \in DOMAIN s /\ Tail(s)[i] = s[i + 1]
      /\ \A i \in DOMAIN s :
           \/ i = 1
           \/ i - 1 \in DOMAIN Tail(s) /\ Tail(s)[i - 1] = s[i]
  OBVIOUS
<1> DEFINE rest == Tail(s)
           first == Head(s)
<1> HIDE DEF rest, first
<1>2. ASSUME NEW x \in Range(s)
      PROVE  x \in Range(rest) \cup {first}
  <2>1. PICK i \in DOMAIN s : x = s[i]
    BY DEF Range
  <2>2. i = 1 \/ (i - 1 \in DOMAIN rest /\ rest[i - 1] = s[i])
    BY <1>1 DEF rest
  <2>3. QED
    BY <1>1, <2>1, <2>2 DEF Range, first
<1>3. ASSUME NEW x \in Range(rest) \cup {first}
      PROVE  x \in Range(s)
  <2>1. CASE x = first
    BY <1>1, <2>1 DEF Range, first
  <2>2. CASE x \in Range(rest)
    BY <1>1, <2>2 DEF Range, rest
  <2>3. QED
    BY <2>1, <2>2
<1>4. QED
  BY <1>1, <1>2, <1>3 DEF rest, first, Range

LEMMA RangeType ==
  ASSUME NEW S, NEW s \in Seq(S)
  PROVE  /\ Range(s) \subseteq S
         /\ s = <<>> => Range(s) = {}
<1>1. \A i \in DOMAIN s : s[i] \in S
  OBVIOUS
<1>2. QED
  BY <1>1 DEF Range

-----------------------------------------------------------------------------
(***************************************************************************
 The client inside the path.
 ***************************************************************************)
\* Every step of the path is one of the client's, or leaves the client alone.
LEMMA ClientOfStep ==
  ASSUME SafetyInv, SessionNext
  PROVE  \/ CallerNext \/ HostNext
         \/ \E m : OnMessage(m)
         \/ WorkerTakes
         \/ UNCHANGED clientVars
<1>1. generation \in CallerGenerations
  BY DEF CallerGenerations, SafetyInv, ClientTypeOK
<1>2. CASE ClientStep
  BY <1>1, <1>2 DEF ClientStep, GuardCalls, CallerNext
<1>3. QED
  BY <1>2 DEF SessionNext, HostReceives, WorkerStep, WorkerReceives,
     WorkerReceivesAck, HostFrameStep, FrameStep

LEMMA ClientKeepsInSession ==
  ASSUME SafetyInv, PlaceInv, [SessionNext]_sessionVars
  PROVE  SafetyInv' /\ PlaceInv'
<1>1. CASE UNCHANGED clientVars
  <2>1. SafetyInv'
    BY <1>1, SafetyInvStep
  <2>2. UNCHANGED <<worker, nextRequestId, awaitingAttach, toWorker, posting,
                    entry, pending, frameAttached, inCallback, releasing>>
    BY <1>1 DEF clientVars, requestVars, stackVars
  <2>3. PlaceInv'
    BY <2>2, PlaceStays DEF PlaceInv, HeldForThePort
  <2>4. QED
    BY <2>1, <2>3
<1>2. CASE CallerNext
  BY <1>2, CallerType, CallerKeeps, CallerPlace DEF SafetyInv
<1>3. CASE HostNext
  BY <1>3, HostType, HostKeeps, HostPlace DEF SafetyInv
<1>4. ASSUME NEW m, OnMessage(m)
      PROVE  SafetyInv' /\ PlaceInv'
  BY <1>4, MessageType, MessageKeeps, MessagePlace DEF SafetyInv
<1>5. CASE WorkerTakes
  BY <1>5, SafetyInvStep, TakePlace DEF OpenNext
<1>6. CASE UNCHANGED sessionVars
  BY <1>1, <1>6 DEF sessionVars
<1>7. QED
  BY <1>1, <1>2, <1>3, <1>4, <1>5, <1>6, ClientOfStep

\* The client's invariants hold of the path: against the Worker of this build
\* as against any other.
LEMMA ClientInvInSession == SessionSpec => [](SafetyInv /\ PlaceInv)
<1>1. SessionInit => SafetyInv /\ PlaceInv
  BY SafetyInvInit, PlaceInvInit DEF SessionInit
<1>2. QED
  BY <1>1, ClientKeepsInSession, PTL DEF SessionSpec

-----------------------------------------------------------------------------
(***************************************************************************
 What belongs to the Worker that lives.
 ***************************************************************************)
NoWorkerLeft ==
  /\ queued = <<>>
  /\ frameSender = NoSession
  /\ senderPending = {}
  /\ toHost = <<>>

\* What the Worker of this build posts to the host.
OwnReplies ==
  [kind : {"result", "refused"}, session : Sessions, requestId : Requests,
   generation : Generations, status : Statuses, lean : BOOLEAN, token : Tokens,
   tree : BOOLEAN]

OwnMessages ==
  {Ready, Failed, CheckerReady(TRUE)} \cup {FrameAttached(s) : s \in Sessions}
  \cup OwnReplies

\* The part of the types the proofs below need.
PathTypeOK ==
  /\ core \in {"boot", "starting", "ready", "failed"}
  /\ queued \in Seq(Envelopes)
  /\ frameSender \in SessionOrNone
  /\ senderSeq \in Nat
  /\ senderPending \subseteq [command : Commands, session : Sessions]
  /\ toHost \in Seq(OwnMessages)
  /\ toFrame \in [Sessions -> Seq(Commands)]
  /\ ackRead \in [Sessions -> Nat]
  /\ acks \in [Sessions -> Seq(Acks)]
  /\ portRead \in [Sessions -> Nat]

\* Whatever the Worker holds or posted is of the session that lives, and a dead
\* Worker left nothing; requests wait in the startup queue only until it is
\* drained, so none overtakes another.
OneWorker ==
  /\ worker \in {NoSession, sessions}
  /\ worker = NoSession => NoWorkerLeft
  /\ \A m \in Range(toHost) : IsReply(m) => m.session = worker
  /\ \A e \in Range(queued) : e.session = worker
  /\ \A p \in senderPending : p.session = worker
  /\ core \in {"ready", "failed"} => draining \/ queued = <<>>

Attaching == {i \in DOMAIN toWorker : toWorker[i].kind = "attach-frame"}

\* A Worker is given one port, once, after its handshake: the sender is never
\* replaced, and what it waits for is never dropped.
OnePort ==
  /\ \A i, j \in Attaching : i = j
  /\ Attaching # {} => frameSender = NoSession
  /\ Attaching # {} \/ frameSender # NoSession => HasFrame /\ handshakeDone
  /\ frameSender \in {NoSession, worker}
  /\ frameSender = NoSession => senderPending = {}

WireInv == PathTypeOK /\ OneWorker /\ OnePort

ClientInv == SafetyInv /\ PlaceInv

PreprocessIn(msgs) == {m \in Range(msgs) : m.kind = "preprocess"}

\* The requests between preprocess() and the Worker.
Line == Range(awaitingAttach) \cup posting \cup PreprocessIn(toWorker)

LineIds == {e.requestId : e \in Line}

LEMMA LineIsPlaced == LineIds = Posted \cup BeingPosted \cup Held
  BY DEF LineIds, Line, PreprocessIn, Posted, BeingPosted, Held, Range

LEMMA LineType ==
  ASSUME ClientTypeOK
  PROVE  /\ Line \subseteq Envelopes
         /\ \A e \in Line : e.requestId \in Requests /\ e.generation \in Generations
<1>1. Range(awaitingAttach) \subseteq Envelopes /\ Range(toWorker) \subseteq HostMessages
  BY RangeType DEF ClientTypeOK
<1>2. PreprocessIn(toWorker) \subseteq Envelopes
  BY <1>1 DEF PreprocessIn, HostMessages, AttachMessages
<1>3. Line \subseteq Envelopes
  BY <1>1, <1>2 DEF Line, ClientTypeOK
<1>4. QED
  BY <1>3 DEF Envelopes

-----------------------------------------------------------------------------
(***************************************************************************
 What a step of the client does to the path: it ends the session's Worker, or
 it goes on with it.
 ***************************************************************************)
\* terminate(), and createWorker throwing while there is no Worker.
Ends ==
  /\ worker' = NoSession
  /\ NoWorkerLeft'
  /\ Line' = {}
  /\ toWorker' = <<>>
  /\ pending' = {}
  /\ sessions' \in {sessions, sessions + 1}
  /\ nextRequestId' >= nextRequestId
  /\ generation' = generation
  /\ frameAttached' => frameAttached /\ worker = NoSession
  /\ UNCHANGED frameVars

\* The Worker's part is as it was, or a new Worker starts where none was left;
\* the host may have taken the oldest message.
Keeps ==
  /\ UNCHANGED <<queued, frameSender, senderPending>>
  /\ UNCHANGED <<core, draining, senderSeq>> \/ (core' = "boot" /\ senderSeq' = 0)
  /\ toHost' = toHost \/ (toHost # <<>> /\ toHost' = Tail(toHost))

WorkerStays == UNCHANGED <<worker, sessions>> /\ (handshakeDone => handshakeDone')

WorkerMade ==
  /\ worker = NoSession
  /\ sessions < MaxSessions
  /\ sessions' = sessions + 1
  /\ worker' = sessions + 1
  /\ ~handshakeDone'
  /\ toWorker' = <<>>

NothingNew == Line' \subseteq Line /\ nextRequestId' = nextRequestId

NewRequest ==
  /\ nextRequestId \in Requests
  /\ nextRequestId' = nextRequestId + 1
  /\ Line' = Line \cup {Preprocess(worker', nextRequestId, generation, Declared)}
  /\ Posted' = Posted

\* The handshake hands the two ends of a channel out.
Attaches ==
  /\ HasFrame
  /\ worker # NoSession
  /\ UNCHANGED <<worker, sessions>>
  /\ ~handshakeDone /\ handshakeDone'
  /\ toWorker' = Append(toWorker, AttachFrame(worker))
  /\ HostAttachesPort(worker)

Continues ==
  /\ Keeps
  /\ WorkerStays \/ WorkerMade
  /\ NothingNew \/ NewRequest
  /\ generation' >= generation
  /\ (Attaching' = Attaching /\ UNCHANGED frameVars) \/ Attaches
  /\ frameAttached' /\ ~frameAttached =>
       \E m \in Range(toHost) : m.kind = "frame-attached"
  /\ \A r \in pending' : r \in LineIds' \/ r \in pending \ LineIds
  /\ \/ toHost' = toHost
     \/ ~IsReply(Head(toHost))
     \/ Head(toHost).requestId \notin pending'

ClientEffect == UNCHANGED <<toFrame, ackRead>> /\ (Ends \/ Continues)

LEMMA LineOfNothing ==
  ASSUME awaitingAttach' = <<>>, posting' = {}, toWorker' = <<>>
  PROVE  Line' = {} /\ Attaching' = {}
  BY DEF Line, PreprocessIn, Range, Attaching

LEMMA NothingWithoutWorker ==
  ASSUME ClientInv, WireInv, worker = NoSession
  PROVE  /\ pending = {} /\ awaitingAttach = <<>> /\ posting = {}
         /\ toWorker = <<>> /\ Line = {} /\ Attaching = {}
         /\ NoWorkerLeft
  BY DEF ClientInv, SafetyInv, Bookkeeping, NothingWithoutAWorker, WireInv,
     OneWorker, Line, PreprocessIn, Range, Attaching

\* What FollowClient does to the Worker's part, in the three cases.
LEMMA FollowEnds ==
  ASSUME WireInv, NEW rest, worker' = NoSession,
         worker = NoSession => rest = toHost,
         FollowClient(rest), UNCHANGED portsAttached
  PROVE  NoWorkerLeft' /\ UNCHANGED <<toFrame, ackRead, frameVars>>
<1>1. CASE worker = NoSession
  BY <1>1 DEF FollowClient, WireInv, OneWorker, NoWorkerLeft
<1>2. CASE worker # NoSession
  BY <1>2 DEF FollowClient, FreshWorker, NoWorkerLeft
<1>3. QED
  BY <1>1, <1>2

LEMMA FollowStays ==
  ASSUME NEW rest, worker' = worker,
         rest = toHost \/ (toHost # <<>> /\ rest = Tail(toHost)),
         FollowClient(rest)
  PROVE  /\ Keeps /\ toHost' = rest
         /\ UNCHANGED <<toFrame, ackRead>>
         /\ portsAttached' = portsAttached => UNCHANGED frameVars
         /\ portsAttached' # portsAttached => HostAttachesPort(worker)
  BY DEF FollowClient, Keeps

LEMMA FollowMakes ==
  ASSUME ClientInv, WireInv, worker = NoSession, worker' # NoSession,
         FollowClient(toHost), UNCHANGED portsAttached
  PROVE  /\ Keeps /\ toHost' = toHost
         /\ UNCHANGED <<toFrame, ackRead, frameVars>>
<1>1. NoWorkerLeft
  BY NothingWithoutWorker
<1>2. FreshWorker
  BY DEF FollowClient
<1>3. QED
  BY <1>1, <1>2 DEF FollowClient, FreshWorker, NoWorkerLeft, Keeps

LEMMA TerminateEnds ==
  ASSUME WireInv, ClientInv, NEW live, NEW settled, NEW promise, NEW rest,
         Terminate(live, settled, promise),
         worker = NoSession => rest = toHost,
         FollowClient(rest),
         UNCHANGED <<sessions, nextRequestId, generation, portsAttached>>
  PROVE  ClientEffect
<1>1. /\ worker' = NoSession /\ pending' = {} /\ awaitingAttach' = <<>>
      /\ posting' = {} /\ toWorker' = <<>> /\ frameAttached' = FALSE
  BY DEF Terminate
<1>2. NoWorkerLeft' /\ UNCHANGED <<toFrame, ackRead, frameVars>>
  BY <1>1, FollowEnds
<1>3. Line' = {}
  BY <1>1, LineOfNothing
<1>4. nextRequestId' >= nextRequestId
  BY BoundsAssumption DEF ClientInv, SafetyInv, ClientTypeOK
<1>5. QED
  BY <1>1, <1>2, <1>3, <1>4 DEF ClientEffect, Ends

\* Nothing of the channel moves but the message the host may have taken.
LEMMA QuietEffect ==
  ASSUME NEW rest, rest = toHost \/ (toHost # <<>> /\ rest = Tail(toHost)),
         FollowClient(rest),
         UNCHANGED <<worker, sessions, nextRequestId, toWorker, portsAttached>>,
         handshakeDone => handshakeDone',
         generation' >= generation,
         pending' \subseteq pending,
         Line' = Line,
         frameAttached' /\ ~frameAttached =>
           \E m \in Range(toHost) : m.kind = "frame-attached",
         rest # toHost =>
           ~IsReply(Head(toHost)) \/ Head(toHost).requestId \notin pending'
  PROVE  ClientEffect
<1>1. /\ Keeps /\ toHost' = rest
      /\ UNCHANGED <<toFrame, ackRead, frameVars>>
  BY FollowStays
<1>2. WorkerStays /\ NothingNew
  BY DEF WorkerStays, NothingNew
<1>3. Attaching' = Attaching /\ LineIds' = LineIds
  BY DEF Attaching, LineIds
<1>4. \A r \in pending' : r \in LineIds' \/ r \in pending \ LineIds
  BY <1>3
<1>5. QED
  BY <1>1, <1>2, <1>3, <1>4 DEF ClientEffect, Continues

\* createWorker throws: there was no Worker, and there is none.
LEMMA StartFailsEnds ==
  ASSUME ClientInv, WireInv, worker = NoSession, StartFails,
         FollowClient(toHost), nextRequestId' >= nextRequestId,
         UNCHANGED <<pending, awaitingAttach, posting, toWorker, generation,
                     frameAttached, portsAttached>>
  PROVE  ClientEffect
<1>1. worker' = NoSession /\ sessions' = sessions + 1
  BY DEF StartFails
<1>2. pending = {} /\ awaitingAttach = <<>> /\ posting = {} /\ toWorker = <<>>
  BY NothingWithoutWorker
<1>3. NoWorkerLeft' /\ UNCHANGED <<toFrame, ackRead, frameVars>>
  BY <1>1, FollowEnds
<1>4. Line' = {}
  BY <1>2, LineOfNothing
<1>5. QED
  BY <1>1, <1>2, <1>3, <1>4 DEF ClientEffect, Ends

\* A Worker is created, for start() or for the request that needs it.
LEMMA StartMakes ==
  ASSUME ClientInv, WireInv, worker = NoSession, StartWorker,
         FollowClient(toHost), UNCHANGED <<toWorker, portsAttached>>
  PROVE  /\ Keeps /\ WorkerMade /\ toHost' = toHost
         /\ Attaching' = Attaching
         /\ UNCHANGED <<toFrame, ackRead, frameVars>>
<1>1. /\ sessions < MaxSessions /\ sessions' = sessions + 1
      /\ worker' = sessions + 1 /\ ~handshakeDone'
  BY DEF StartWorker
<1>2. sessions \in Nat
  BY BoundsAssumption DEF ClientInv, SafetyInv, ClientTypeOK
<1>3. toWorker = <<>>
  BY NothingWithoutWorker
<1>4. Keeps /\ toHost' = toHost /\ UNCHANGED <<toFrame, ackRead, frameVars>>
  BY <1>1, <1>2, FollowMakes
<1>5. QED
  BY <1>1, <1>3, <1>4 DEF WorkerMade, Attaching

LEMMA PreprocessEffect ==
  ASSUME ClientInv, WireInv, Preprocesses(generation), FollowClient(toHost)
  PROVE  ClientEffect
<1> DEFINE e == Preprocess(worker', nextRequestId, generation, Declared)
<1>1. /\ CallerRuns /\ nextRequestId \in Requests
      /\ nextRequestId' = nextRequestId + 1
      /\ pending' = pending \cup {nextRequestId}
      /\ UNCHANGED <<generation, frameAttached, toWorker, portsAttached>>
  BY DEF Preprocesses
<1>2. posting = {}
  BY <1>1 DEF CallerRuns
<1>3. generation \in Nat /\ ClientTypeOK
  BY BoundsAssumption DEF ClientInv, SafetyInv, ClientTypeOK
<1>4. worker' \in Sessions
  BY BoundsAssumption, <1>3 DEF Preprocesses, StartWorker, ClientTypeOK
<1>5. e \in Envelopes
  BY <1>1, <1>3, <1>4 DEF Preprocess, Envelopes, Declared, Deliveries, ClientTypeOK
<1>6. Line' = Line \cup {e}
  <2>1. PreprocessIn(toWorker') = PreprocessIn(toWorker)
    BY <1>1
  <2>2. CASE MustHold
    <3>1. awaitingAttach' = Append(awaitingAttach, e) /\ posting' = posting
      BY <2>2 DEF Preprocesses
    <3>2. awaitingAttach \in Seq(Envelopes)
      BY <1>3 DEF ClientTypeOK
    <3>3. Range(awaitingAttach)' = Range(awaitingAttach) \cup {e}
      BY <1>5, <3>1, <3>2, RangeAppend
    <3>4. QED
      BY <2>1, <3>1, <3>3 DEF Line
  <2>3. CASE ~MustHold
    <3>1. awaitingAttach' = awaitingAttach /\ posting' = {e}
      BY <2>3 DEF Preprocesses
    <3>2. QED
      BY <1>2, <2>1, <3>1 DEF Line
  <2>4. QED
    BY <2>2, <2>3
<1>7. Posted' = Posted
  BY <1>1 DEF Posted
<1>8. NewRequest
  BY <1>1, <1>6, <1>7 DEF NewRequest
<1>9. /\ Keeps /\ toHost' = toHost /\ (WorkerStays \/ WorkerMade)
      /\ Attaching' = Attaching
      /\ UNCHANGED <<toFrame, ackRead, frameVars>>
  <2>1. CASE worker = NoSession
    BY <1>1, <2>1, StartMakes DEF Preprocesses
  <2>2. CASE worker # NoSession
    <3>1. UNCHANGED <<worker, sessions, startupVars>>
      BY <2>2 DEF Preprocesses
    <3>2. WorkerStays
      BY <3>1 DEF WorkerStays, startupVars
    <3>3. Attaching' = Attaching
      BY <1>1 DEF Attaching
    <3>4. QED
      BY <1>1, <3>1, <3>2, <3>3, FollowStays
  <2>3. QED
    BY <2>1, <2>2
<1>10. \A r \in pending' : r \in LineIds' \/ r \in pending \ LineIds
  <2>1. e.requestId = nextRequestId
    BY DEF Preprocess
  <2> HIDE DEF e
  <2>2. LineIds' = LineIds \cup {nextRequestId}
    BY <1>6, <2>1 DEF LineIds
  <2>3. QED
    BY <1>1, <2>2
<1>11. QED
  BY <1>1, <1>3, <1>8, <1>9, <1>10 DEF ClientEffect, Continues

LEMMA TerminateAllEnds ==
  ASSUME WireInv, ClientInv, NEW live, NEW settled, NEW rest,
         TerminateAll(live, settled),
         worker = NoSession => rest = toHost,
         FollowClient(rest)
  PROVE  ClientEffect
  BY TerminateEnds DEF TerminateAll

LEMMA GuardEffect ==
  ASSUME ClientInv, WireInv, GuardCalls, FollowClient(toHost)
  PROVE  ClientEffect
<1>1. generation \in Nat /\ nextRequestId \in Nat
  BY BoundsAssumption DEF ClientInv, SafetyInv, ClientTypeOK
<1>2. CASE PublicStart
  <2>1. /\ worker = NoSession
        /\ UNCHANGED <<pending, nextRequestId, awaitingAttach, posting, toWorker,
                       generation, frameAttached, portsAttached>>
    BY <1>2 DEF PublicStart, requestVars, stackVars
  <2>2. CASE StartFails
    BY <1>1, <2>1, <2>2, StartFailsEnds
  <2>3. CASE StartWorker
    <3>1. /\ Keeps /\ WorkerMade /\ toHost' = toHost /\ Attaching' = Attaching
          /\ UNCHANGED <<toFrame, ackRead, frameVars>>
      BY <2>1, <2>3, StartMakes
    <3>2. Line' = Line
      BY <2>1 DEF Line
    <3>3. LineIds' = LineIds /\ NothingNew
      BY <2>1, <3>2 DEF LineIds, NothingNew
    <3>4. \A r \in pending' : r \in LineIds' \/ r \in pending \ LineIds
      BY <2>1, <3>3
    <3>5. QED
      BY <1>1, <2>1, <3>1, <3>3, <3>4 DEF ClientEffect, Continues
  <2>4. QED
    BY <1>2, <2>2, <2>3 DEF PublicStart
<1>3. CASE PreprocessFails
  BY <1>1, <1>3, StartFailsEnds DEF PreprocessFails, stackVars
<1>4. CASE Preprocesses(generation)
  BY <1>4, PreprocessEffect
<1>5. CASE NextGeneration
  <2>1. /\ UNCHANGED <<worker, sessions, nextRequestId, toWorker, portsAttached,
                       handshakeDone, pending, frameAttached>>
        /\ UNCHANGED <<awaitingAttach, posting>>
        /\ generation' >= generation
    BY <1>1, <1>5 DEF NextGeneration, requestVars, startupVars, stackVars
  <2>2. Line' = Line
    BY <2>1 DEF Line
  <2>3. QED
    BY <2>1, <2>2, QuietEffect
<1>6. CASE Dispose
  BY <1>6, TerminateEnds DEF Dispose
<1>7. QED
  BY <1>2, <1>3, <1>4, <1>5, <1>6 DEF GuardCalls

\* postEnvelope() moves a request on, or drops one that has settled.
LEMMA PostEffect ==
  ASSUME ClientInv, WireInv, NEW e \in posting, PostEnvelope(e),
         FollowClient(toHost)
  PROVE  ClientEffect
<1>1. /\ UNCHANGED <<worker, sessions, nextRequestId, generation, portsAttached,
                     handshakeDone, pending, frameAttached, awaitingAttach>>
      /\ posting' = {}
      /\ toWorker' = IF e.requestId \in pending THEN Append(toWorker, e) ELSE toWorker
  BY DEF PostEnvelope, startupVars
<1>2. posting = {e}
  BY DEF ClientInv, PlaceInv, QueuesInOrder
<1>3. /\ ClientTypeOK /\ generation \in Nat /\ toWorker \in Seq(HostMessages)
      /\ e \in HostMessages /\ e.kind = "preprocess"
  BY BoundsAssumption DEF ClientInv, SafetyInv, ClientTypeOK, HostMessages, Envelopes
<1> HIDE DEF HostMessages
<1>4. PreprocessIn(toWorker)' = IF e.requestId \in pending
                                THEN PreprocessIn(toWorker) \cup {e}
                                ELSE PreprocessIn(toWorker)
  <2>1. CASE e.requestId \in pending
    <3>1. Range(toWorker)' = Range(toWorker) \cup {e}
      BY <1>1, <1>3, <2>1, RangeAppend
    <3>2. QED
      BY <1>3, <2>1, <3>1 DEF PreprocessIn
  <2>2. CASE e.requestId \notin pending
    BY <1>1, <2>2 DEF PreprocessIn
  <2>3. QED
    BY <2>1, <2>2
<1>5. Line' = IF e.requestId \in pending
              THEN Line ELSE Range(awaitingAttach) \cup PreprocessIn(toWorker)
  BY <1>1, <1>2, <1>4 DEF Line
<1>6. Line' \subseteq Line /\ (Line \subseteq Line' \cup {e})
      /\ (e.requestId \in pending => e \in Line')
  BY <1>2, <1>5 DEF Line
<1>7. Attaching' = Attaching
  <2>1. CASE e.requestId \in pending
    <3>1. /\ DOMAIN toWorker' = DOMAIN toWorker \cup {Len(toWorker) + 1}
          /\ toWorker'[Len(toWorker) + 1] = e
          /\ \A i \in DOMAIN toWorker : toWorker'[i] = toWorker[i]
      BY <1>1, <1>3, <2>1
    <3>2. QED
      BY <1>3, <3>1 DEF Attaching
  <2>2. CASE e.requestId \notin pending
    BY <1>1, <2>2 DEF Attaching
  <2>3. QED
    BY <2>1, <2>2
<1>8. \A r \in pending' : r \in LineIds' \/ r \in pending \ LineIds
  <2> SUFFICES ASSUME NEW r \in pending, r \in LineIds
               PROVE  r \in LineIds'
    BY <1>1
  <2>1. PICK x \in Line : r = x.requestId
    BY DEF LineIds
  <2>2. x \in Line'
    BY <1>6, <2>1
  <2>3. QED
    BY <2>1, <2>2 DEF LineIds
<1>9. NothingNew /\ WorkerStays
  BY <1>1, <1>6 DEF NothingNew, WorkerStays
<1>10. Keeps /\ toHost' = toHost /\ UNCHANGED <<toFrame, ackRead, frameVars>>
  BY <1>1, FollowStays
<1>11. QED
  BY <1>1, <1>3, <1>7, <1>8, <1>9, <1>10 DEF ClientEffect, Continues

LEMMA ReleaseEffect ==
  ASSUME ClientInv, WireInv, ReleaseNext, FollowClient(toHost)
  PROVE  ClientEffect
<1>1. /\ UNCHANGED <<worker, sessions, nextRequestId, generation, portsAttached,
                     handshakeDone, pending, frameAttached, toWorker>>
      /\ awaitingAttach # <<>>
      /\ posting = {} /\ posting' = {Head(awaitingAttach)}
      /\ awaitingAttach' = Tail(awaitingAttach)
  BY DEF ReleaseNext, Oldest, startupVars
<1>2. awaitingAttach \in Seq(Envelopes) /\ generation \in Nat
  BY BoundsAssumption DEF ClientInv, SafetyInv, ClientTypeOK
<1>3. Range(awaitingAttach) = Range(awaitingAttach)' \cup {Head(awaitingAttach)}
  BY <1>1, <1>2, RangeTail
<1>4. Line' = Line
  BY <1>1, <1>3 DEF Line
<1>5. QED
  BY <1>1, <1>2, <1>4, QuietEffect

LEMMA HostEffect ==
  ASSUME ClientInv, WireInv, HostNext, FollowClient(toHost)
  PROVE  ClientEffect
<1>1. ASSUME NEW e \in posting, PostThrows(e)
      PROVE  ClientEffect
  BY <1>1, TerminateEnds DEF PostThrows
<1>2. CASE ReleaseEnds \/ CallbackReturns
  <2>1. /\ UNCHANGED <<worker, sessions, nextRequestId, toWorker, portsAttached,
                       handshakeDone, generation, pending, frameAttached>>
        /\ UNCHANGED <<awaitingAttach, posting>>
    BY <1>2 DEF ReleaseEnds, CallbackReturns, requestVars, startupVars
  <2>2. Line' = Line /\ generation \in Nat
    BY <2>1, BoundsAssumption DEF Line, ClientInv, SafetyInv, ClientTypeOK
  <2>3. QED
    BY <2>1, <2>2, QuietEffect
<1>3. CASE \/ \E r \in Requests : RequestTimeout(r)
           \/ HandshakeTimeout \/ CheckerTimeout \/ OnWorkerError
  BY <1>3, TerminateAllEnds
  DEF RequestTimeout, HandshakeTimeout, CheckerTimeout, OnWorkerError
<1>4. QED
  BY <1>1, <1>2, <1>3, PostEffect, ReleaseEffect DEF HostNext

\* The Worker of this build answers requests, and nothing it answers for a
\* pending one is passed over.
LEMMA OwnMessageKinds ==
  ASSUME NEW m \in OwnMessages
  PROVE  /\ IsReply(m) => m \in OwnReplies
         /\ m \in OwnReplies => IsReply(m) /\ m.kind # "other"
  BY DEF OwnMessages, OwnReplies, IsReply, Ready, Failed, CheckerReady,
     FrameAttached

LEMMA MessageEffect ==
  ASSUME ClientInv, WireInv, HostReceives
  PROVE  ClientEffect
<1> DEFINE m == Head(toHost)
           rest == Tail(toHost)
<1>1. toHost # <<>> /\ OnMessage(m) /\ FollowClient(rest)
  BY DEF HostReceives
<1>2. /\ m \in Range(toHost) /\ m \in OwnMessages
      /\ worker # NoSession
      /\ generation \in Nat
  BY <1>1, RangeTail, RangeType, BoundsAssumption
  DEF WireInv, PathTypeOK, OneWorker, NoWorkerLeft, ClientInv, SafetyInv,
      ClientTypeOK
<1>3. IsReply(m) => m.session = worker /\ m.kind # "other"
  BY <1>2, OwnMessageKinds DEF WireInv, OneWorker
<1>4. FollowClient(Tail(toHost)) /\ m = Head(toHost)
  BY <1>1
<1> HIDE DEF m
<1>5. CASE OnReadyAttachFails(m) \/ OnStartupFailure(m) \/ FatalReply(m)
  BY <1>2, <1>4, <1>5, TerminateEnds, TerminateAllEnds
  DEF OnReadyAttachFails, OnStartupFailure, FatalReply
<1>6. CASE OnFrameAttached(m) \/ OnCheckerReady(m) \/ SettleReply(m) \/ Ignored(m)
  <2>1. /\ UNCHANGED <<worker, sessions, nextRequestId, toWorker, portsAttached>>
        /\ handshakeDone' = handshakeDone
        /\ generation' = generation
        /\ pending' \subseteq pending
        /\ UNCHANGED <<awaitingAttach, posting>>
    BY <1>6 DEF OnFrameAttached, OnCheckerReady, SettleReply, Ignored,
       clientVars, requestVars, startupVars, stackVars
  <2>2. frameAttached' = frameAttached \/ m.kind = "frame-attached"
    BY <1>6 DEF OnFrameAttached, OnCheckerReady, SettleReply, Ignored,
       clientVars
  <2>3. ~IsReply(m) \/ m.requestId \notin pending'
    <3>1. CASE OnFrameAttached(m) \/ OnCheckerReady(m)
      BY <3>1 DEF OnFrameAttached, OnCheckerReady, IsReply
    <3>2. CASE SettleReply(m)
      BY <3>2 DEF SettleReply
    <3>3. CASE Ignored(m)
      <4>1. ~IsReply(m) \/ m.requestId \notin pending
        BY <1>3, <3>3 DEF Ignored, Matches, UnknownKind, IsReply
      <4>2. QED
        BY <2>1, <4>1
    <3>4. QED
      BY <1>6, <3>1, <3>2, <3>3
  <2>4. Line' = Line
    BY <2>1 DEF Line
  <2>5. handshakeDone => handshakeDone'
    BY <2>1
  <2>6. frameAttached' /\ ~frameAttached =>
          \E x \in Range(toHost) : x.kind = "frame-attached"
    BY <1>2, <2>2
  <2>7. ~IsReply(Head(toHost)) \/ Head(toHost).requestId \notin pending'
    BY <1>4, <2>3
  <2>8. generation' >= generation
    BY <1>2, <2>1
  <2>9. QED
    BY <1>1, <1>4, <2>1, <2>4, <2>5, <2>6, <2>7, <2>8, QuietEffect
<1>7. CASE OnReady(m)
  <2>1. /\ UNCHANGED <<worker, sessions, nextRequestId, generation, pending,
                       frameAttached, awaitingAttach, posting>>
        /\ ~handshakeDone /\ handshakeDone'
        /\ m.kind = "ready"
    BY <1>7 DEF OnReady, requestVars, stackVars
  <2>2. ~IsReply(m) /\ generation' >= generation
    BY <1>2, <2>1 DEF IsReply
  <2>3. CASE ~HasFrame
    <3>1. UNCHANGED <<toWorker, portsAttached>>
      BY <1>7, <2>3 DEF OnReady
    <3>2. Line' = Line
      BY <2>1, <3>1 DEF Line
    <3>3. QED
      BY <1>1, <1>4, <2>1, <2>2, <3>1, <3>2, QuietEffect
  <2>4. CASE HasFrame
    <3>1. /\ toWorker' = Append(toWorker, AttachFrame(worker))
          /\ portsAttached' = Append(portsAttached, worker)
      BY <1>7, <2>4 DEF OnReady
    <3>2. toWorker \in Seq(HostMessages) /\ worker \in Sessions
          /\ portsAttached \in Seq(Sessions)
      BY <1>2 DEF ClientInv, SafetyInv, ClientTypeOK
    <3>3. portsAttached' # portsAttached
      BY <3>1, <3>2
    <3>4. AttachFrame(worker) \in HostMessages
          /\ AttachFrame(worker).kind # "preprocess"
      BY <3>2 DEF AttachFrame, HostMessages, AttachMessages
    <3>5. Range(toWorker)' = Range(toWorker) \cup {AttachFrame(worker)}
      BY <3>1, <3>2, <3>4, RangeAppend
    <3>6. PreprocessIn(toWorker)' = PreprocessIn(toWorker)
      BY <3>4, <3>5 DEF PreprocessIn
    <3>7. Line' = Line
      BY <2>1, <3>6 DEF Line
    <3>8. LineIds' = LineIds /\ NothingNew /\ WorkerStays
      BY <2>1, <3>7 DEF LineIds, NothingNew, WorkerStays
    <3>9. /\ Keeps /\ UNCHANGED <<toFrame, ackRead>>
          /\ HostAttachesPort(worker)
      BY <1>1, <1>4, <2>1, <3>3, FollowStays
    <3>10. Attaches
      BY <1>2, <2>1, <2>4, <3>1, <3>9 DEF Attaches
    <3>11. \A r \in pending' : r \in LineIds' \/ r \in pending \ LineIds
      BY <2>1, <3>8
    <3>12. QED
      BY <1>4, <2>1, <2>2, <3>8, <3>9, <3>10, <3>11 DEF ClientEffect, Continues
  <2>5. QED
    BY <2>3, <2>4
<1>8. QED
  BY <1>1, <1>4, <1>5, <1>6, <1>7 DEF OnMessage

\* What every step of the session's thread comes to, on the path.
LEMMA ClientStepEffect ==
  ASSUME ClientInv, WireInv, ClientStep \/ HostReceives
  PROVE  ClientEffect
  BY GuardEffect, HostEffect, MessageEffect DEF ClientStep

-----------------------------------------------------------------------------
(***************************************************************************
 What a step of the Worker does to the path.
 ***************************************************************************)
\* The Worker reports a stage of its startup; a checker that is there, or will
\* not be, has the queue drained before anything else is read.
Announces ==
  /\ \E m \in {Ready, Failed, CheckerReady(TRUE)} : toHost' = Append(toHost, m)
  /\ core' = "starting" \/ draining'
  /\ core' \in {"starting", "ready", "failed"}
  /\ UNCHANGED <<toWorker, queued, frameSender, senderSeq, senderPending, toFrame>>

FromQueue(e) ==
  /\ queued # <<>> /\ e = Head(queued) /\ queued' = Tail(queued)
  /\ toWorker' = toWorker

FromChannel(e) ==
  /\ toWorker # <<>> /\ e = Head(toWorker) /\ e.kind = "preprocess"
  /\ toWorker' = Tail(toWorker)

\* The request is answered at once, and not with a document.
RepliesTo(e) ==
  /\ \E m \in OwnReplies :
       /\ m.session = e.session /\ m.requestId = e.requestId
       /\ m.status # "rendered"
       /\ m.status = "undeliverable" => DeliveryRefused(e)
       /\ toHost' = Append(toHost, m)
  /\ UNCHANGED <<senderSeq, senderPending, toFrame>>

\* Its document is posted to the frame, and the reply waits.
RendersTo(e) ==
  /\ frameSender # NoSession
  /\ LET c == Command(NextSeq, e.requestId, e.generation)
     IN /\ senderPending' = senderPending \cup {[command |-> c, session |-> e.session]}
        /\ toFrame' = [toFrame EXCEPT ![frameSender] = Append(@, c)]
  /\ senderSeq' = senderSeq + 1
  /\ toHost' = toHost

Serves(e) ==
  /\ \/ FromQueue(e) /\ (RepliesTo(e) \/ RendersTo(e))
     \/ /\ FromChannel(e) /\ queued' = queued
        /\ RepliesTo(e) \/ (queued = <<>> /\ RendersTo(e))
  /\ UNCHANGED <<core, draining, frameSender>>

Queues(e) ==
  /\ FromChannel(e)
  /\ queued' = Append(queued, e)
  /\ core = "starting"
  /\ UNCHANGED <<core, draining, frameSender, senderSeq, senderPending, toHost,
                 toFrame>>

Installs(m) ==
  /\ toWorker # <<>> /\ m = Head(toWorker) /\ m.kind = "attach-frame"
  /\ toWorker' = Tail(toWorker)
  /\ frameSender' = m.session /\ senderSeq' = 0 /\ senderPending' = {}
  /\ toHost' = Append(toHost, FrameAttached(m.session))
  /\ UNCHANGED <<core, draining, queued, toFrame>>

\* The frame's answer to a command the Worker waits for becomes the reply.
Relays(p) ==
  /\ p \in senderPending /\ senderPending' = senderPending \ {p}
  /\ \E m \in OwnReplies :
       /\ m.session = p.session /\ m.requestId = p.command.requestId
       /\ m.status # "undeliverable"
       /\ m.status = "rendered" => p.command.requestId \in ShownBy(frameSender)
       /\ toHost' = Append(toHost, m)
  /\ UNCHANGED <<toWorker, core, draining, queued, frameSender, senderSeq, toFrame>>

Rests ==
  /\ UNCHANGED <<toWorker, core, queued, frameSender, senderSeq, senderPending,
                 toHost, toFrame>>
  /\ draining' = draining \/ queued = <<>>

WorkerEffect ==
  /\ worker # NoSession
  /\ UNCHANGED <<worker, sessions, generation, frameAttached, handshakeDone,
                 nextRequestId, pending, entry, outcome, awaitingAttach, posting>>
  /\ UNCHANGED frameVars
  /\ ackRead' \in [Sessions -> Nat]
  /\ \/ Announces
     \/ \E e \in Envelopes : e.session = worker /\ (Serves(e) \/ Queues(e))
     \/ \E m : m.session = worker /\ Installs(m)
     \/ \E p : Relays(p)
     \/ Rests

LEMMA RejectionIsOwn ==
  ASSUME NEW e \in Envelopes, NEW status \in Statuses
  PROVE  Rejection(e, status) \in OwnReplies
  BY DEF Rejection, Reply, OwnReplies, Envelopes, Tokens

LEMMA ServeEffect ==
  ASSUME NEW e \in Envelopes, Serve(e)
  PROVE  RepliesTo(e) \/ RendersTo(e)
<1>1. CASE ServeRenders(e)
  BY <1>1 DEF ServeRenders, RendersTo
<1>2. CASE ServeAnswers(e)
  <2>1. PICK m \in Answers(e) :
          toHost' = Append(toHost, m) /\ UNCHANGED <<senderSeq, senderPending, toFrame>>
    BY <1>2 DEF ServeAnswers, Post
  <2>2. e.kind = "preprocess"
    BY DEF Envelopes
  <2>3. \/ DeliveryRefused(e) /\ m = Rejection(e, "undeliverable")
        \/ \E v \in {"rejected", "checker-poisoned"} : m = Rejection(e, v)
        \/ m = AcceptedReply(e)
    BY <2>1, <2>2 DEF Answers, Verdicts
  <2>4. /\ m \in OwnReplies /\ m.session = e.session
        /\ m.requestId = e.requestId /\ m.status # "rendered"
        /\ m.status = "undeliverable" => DeliveryRefused(e)
    <3>1. CASE DeliveryRefused(e) /\ m = Rejection(e, "undeliverable")
      <4>1. m \in OwnReplies
        BY <3>1, RejectionIsOwn DEF Statuses, Rejections
      <4>2. QED
        BY <3>1, <4>1 DEF Rejection, Reply
    <3>2. ASSUME NEW v \in {"rejected", "checker-poisoned"}, m = Rejection(e, v)
          PROVE  /\ m \in OwnReplies /\ m.session = e.session
                 /\ m.requestId = e.requestId /\ m.status # "rendered"
                 /\ m.status # "undeliverable"
      <4>1. m \in OwnReplies
        BY <3>2, RejectionIsOwn DEF Statuses, Rejections
      <4>2. QED
        BY <3>2, <4>1 DEF Rejection, Reply
    <3>3. CASE m = AcceptedReply(e)
      BY <3>3 DEF AcceptedReply, Reply, OwnReplies, Envelopes, Statuses, Tokens
    <3>4. QED
      BY <2>3, <3>1, <3>2, <3>3
  <2>5. QED
    BY <2>1, <2>4 DEF RepliesTo
<1>3. QED
  BY <1>1, <1>2 DEF Serve

LEMMA RejectionEffect ==
  ASSUME NEW e \in Envelopes, NEW status \in {"rejected", "startup-queue-full"},
         Post(Rejection(e, status)), UNCHANGED <<senderSeq, senderPending, toFrame>>
  PROVE  RepliesTo(e)
<1>1. Rejection(e, status) \in OwnReplies
  BY RejectionIsOwn DEF Statuses, Rejections
<1>2. /\ Rejection(e, status).session = e.session
      /\ Rejection(e, status).requestId = e.requestId
      /\ Rejection(e, status).status = status
  BY DEF Rejection, Reply
<1>3. QED
  BY <1>1, <1>2 DEF RepliesTo, Post

LEMMA OwnStepEffect ==
  ASSUME WireInv, WorkerNext, UNCHANGED toWorker
  PROVE  \/ Announces \/ Rests
         \/ \E e \in Envelopes : e.session = worker /\ Serves(e)
<1>1. CASE Start \/ CheckerStarts \/ CheckerFails
  BY <1>1 DEF Start, CheckerStarts, CheckerFails, Post, Announces
<1>2. CASE DrainNext
  <2> DEFINE e == Head(queued)
  <2>1. /\ queued # <<>> /\ queued' = Tail(queued)
        /\ UNCHANGED <<core, draining, frameSender>>
    BY <1>2 DEF DrainNext
  <2>2. e \in Envelopes /\ e.session = worker
    BY <2>1, RangeTail, RangeType DEF WireInv, PathTypeOK, OneWorker
  <2>3. \/ Post(Rejection(e, "rejected")) /\ UNCHANGED <<senderSeq, senderPending, toFrame>>
        \/ Serve(e)
    BY <1>2 DEF DrainNext
  <2>4. FromQueue(e)
    BY <2>1 DEF FromQueue
  <2> HIDE DEF e
  <2>5. RepliesTo(e) \/ RendersTo(e)
    BY <2>2, <2>3, ServeEffect, RejectionEffect
  <2>6. QED
    BY <2>1, <2>2, <2>4, <2>5 DEF Serves
<1>3. CASE DrainEnds
  BY <1>3 DEF DrainEnds, Rests
<1>4. QED
  BY <1>1, <1>2, <1>3 DEF WorkerNext

LEMMA ReceiveEffect ==
  ASSUME ClientInv, WireInv, worker # NoSession, WorkerTakes, Receive(Head(toWorker))
  PROVE  \/ \E e \in Envelopes : e.session = worker /\ (Serves(e) \/ Queues(e))
         \/ \E m : m.session = worker /\ Installs(m)
<1> DEFINE m == Head(toWorker)
<1>1. toWorker # <<>> /\ toWorker' = Tail(toWorker)
  BY DEF WorkerTakes
<1>2. toWorker \in Seq(HostMessages) /\ worker \in Sessions
  BY DEF ClientInv, SafetyInv, ClientTypeOK
<1> HIDE DEF HostMessages
<1>3. m = toWorker[1] /\ 1 \in DOMAIN toWorker /\ m \in HostMessages
  BY <1>1, <1>2
<1>4. m.session = worker
  BY <1>3 DEF ClientInv, PlaceInv, QueuesInOrder
<1>5. Receive(m) /\ m = Head(toWorker)
  OBVIOUS
<1> HIDE DEF m
<1>6. ~draining
  BY <1>5 DEF Receive, WorkerIdle
<1>7. CASE ReceiveBadAttach(m)
  BY <1>2, <1>4, <1>7 DEF ReceiveBadAttach
<1>8. CASE ReceiveAttach(m)
  <2>1. Installs(m)
    BY <1>1, <1>5, <1>8 DEF ReceiveAttach, Installs, Post
  <2>2. QED
    BY <1>4, <2>1
<1>9. CASE ReceiveRequest(m)
  <2>1. m \in Envelopes /\ m.kind = "preprocess"
    BY <1>3, <1>9 DEF ReceiveRequest, HostMessages, AttachMessages, Envelopes
  <2>2. FromChannel(m) /\ UNCHANGED <<core, draining, frameSender>>
    BY <1>1, <1>5, <1>9, <2>1 DEF FromChannel, ReceiveRequest
  <2>3. CASE /\ core = "failed" /\ Post(Rejection(m, "rejected"))
             /\ UNCHANGED <<queued, senderSeq, senderPending, toFrame>>
    <3>1. RepliesTo(m) /\ queued' = queued
      BY <2>1, <2>3, RejectionEffect
    <3>2. QED
      BY <1>4, <2>1, <2>2, <3>1 DEF Serves
  <2>4. CASE core = "ready" /\ Serve(m) /\ queued' = queued
    <3>1. RepliesTo(m) \/ RendersTo(m)
      BY <2>1, <2>4, ServeEffect
    <3>2. queued = <<>>
      BY <1>6, <2>4 DEF WireInv, OneWorker
    <3>3. QED
      BY <1>4, <2>1, <2>2, <2>4, <3>1, <3>2 DEF Serves
  <2>5. CASE /\ core = "starting" /\ Post(Rejection(m, "startup-queue-full"))
             /\ UNCHANGED <<queued, senderSeq, senderPending, toFrame>>
    <3>1. RepliesTo(m) /\ queued' = queued
      BY <2>1, <2>5, RejectionEffect
    <3>2. QED
      BY <1>4, <2>1, <2>2, <3>1 DEF Serves
  <2>6. CASE /\ core = "starting" /\ queued' = Append(queued, m)
             /\ UNCHANGED <<toHost, senderSeq, senderPending, toFrame>>
    BY <1>4, <2>1, <2>2, <2>6 DEF Queues
  <2>7. QED
    BY <1>9, <2>3, <2>4, <2>5, <2>6 DEF ReceiveRequest, HasCore
<1>10. QED
  BY <1>5, <1>7, <1>8, <1>9 DEF Receive

LEMMA AckEffect ==
  ASSUME WireInv, WorkerReceivesAck
  PROVE  (\E p : Relays(p)) \/ Rests
<1> DEFINE k == ackRead[frameSender] + 1
           a == acks[frameSender][k]
<1>1. /\ frameSender \in Sessions
      /\ ackRead[frameSender] < Len(acks[frameSender])
      /\ OnAck(a) \/ IgnoreAck(a)
      /\ UNCHANGED clientVars
  BY DEF WorkerReceivesAck, WireInv, PathTypeOK
<1>2. k \in DOMAIN acks[frameSender] /\ a \in Acks
  BY <1>1 DEF WireInv, PathTypeOK
<1>3. a.ok => a.requestId \in ShownBy(frameSender)
  BY <1>2 DEF ShownBy
<1>4. a.ok \in BOOLEAN
  BY <1>2 DEF Acks
<1>5. toWorker' = toWorker
  BY <1>1 DEF clientVars
<1> HIDE DEF a, k
<1>6. CASE OnAck(a)
  <2>1. PICK p \in senderPending :
          /\ a = Ack(p.command, a.ok)
          /\ senderPending' = StillPending(p)
          /\ Post(AckReply([session |-> p.session, requestId |-> a.requestId,
                            generation |-> a.generation], a))
    BY <1>6 DEF OnAck
  <2>2. p \in [command : Commands, session : Sessions]
    BY <2>1 DEF WireInv, PathTypeOK
  <2> DEFINE e == [session |-> p.session, requestId |-> a.requestId,
                   generation |-> a.generation]
             m == AckReply(e, a)
  <2>3. a.requestId = p.command.requestId /\ a.requestId \in Requests
        /\ a.generation \in Generations /\ p.session \in Sessions
    <3>1. a.requestId = Ack(p.command, a.ok).requestId
      BY <2>1
    <3>2. a.requestId = p.command.requestId
      BY <3>1 DEF Ack
    <3>3. QED
      BY <1>2, <2>2, <3>2 DEF Acks
  <2>4. m = IF a.ok THEN RenderedReply(e) ELSE Rejection(e, "rejected")
    BY DEF AckReply
  <2>5. toHost' = Append(toHost, m)
    BY <2>1 DEF Post
  <2>6. /\ e.session = p.session /\ e.requestId = p.command.requestId
        /\ e.generation \in Generations /\ e.requestId \in Requests
        /\ e.session \in Sessions
    BY <2>3
  <2> HIDE DEF m, e
  <2>7. /\ m \in OwnReplies /\ m.session = e.session
         /\ m.requestId = e.requestId
         /\ m.status = (IF a.ok THEN "rendered" ELSE "rejected")
    BY <2>4, <2>6 DEF RenderedReply, Rejection, Reply, OwnReplies, Statuses,
       Rejections, Tokens
  <2>8. m.status = "rendered" => p.command.requestId \in ShownBy(frameSender)
    BY <1>3, <2>3, <2>7
  <2>9. UNCHANGED <<core, queued, draining, frameSender, senderSeq, toFrame>>
    BY <1>6 DEF OnAck
  <2>10. Relays(p)
    BY <1>5, <2>1, <2>5, <2>6, <2>7, <2>8, <2>9 DEF Relays, StillPending
  <2>11. QED
    BY <2>10
<1>7. CASE IgnoreAck(a)
  BY <1>5, <1>7 DEF IgnoreAck, workerVars, Rests
<1>8. QED
  BY <1>1, <1>6, <1>7

LEMMA WorkerStepEffect ==
  ASSUME ClientInv, WireInv, WorkerStep \/ WorkerReceives \/ WorkerReceivesAck
  PROVE  WorkerEffect
<1>1. /\ worker # NoSession
      /\ UNCHANGED <<worker, sessions, generation, frameAttached, handshakeDone,
                     nextRequestId, pending, entry, outcome, awaitingAttach, posting>>
      /\ UNCHANGED frameVars
  BY DEF WorkerStep, WorkerReceives, WorkerReceivesAck, WorkerLives, WorkerTakes,
     clientVars, requestVars, startupVars, stackVars
<1>2. ackRead' \in [Sessions -> Nat]
  BY DEF WorkerStep, WorkerReceives, WorkerReceivesAck, WireInv, PathTypeOK
<1>3. CASE WorkerStep
  BY <1>1, <1>2, <1>3, OwnStepEffect DEF WorkerEffect, WorkerStep, clientVars
<1>4. CASE WorkerReceives
  BY <1>1, <1>2, <1>4, ReceiveEffect DEF WorkerEffect, WorkerReceives
<1>5. CASE WorkerReceivesAck
  BY <1>1, <1>2, <1>5, AckEffect DEF WorkerEffect
<1>6. QED
  BY <1>3, <1>4, <1>5

-----------------------------------------------------------------------------
(***************************************************************************
 What belongs to the Worker is an invariant.
 ***************************************************************************)
LEMMA WireInvInit == SessionInit => WireInv
<1> SUFFICES ASSUME SessionInit PROVE WireInv
  OBVIOUS
<1>1. /\ worker = NoSession /\ sessions = 0 /\ toWorker = <<>>
      /\ core = "boot" /\ queued = <<>> /\ frameSender = NoSession
      /\ senderSeq = 0 /\ senderPending = {} /\ toHost = <<>>
      /\ toFrame = [s \in Sessions |-> <<>>]
      /\ ackRead = [s \in Sessions |-> 0]
      /\ acks = [s \in Sessions |-> <<>>]
      /\ portRead = [s \in Sessions |-> 0]
  BY DEF SessionInit, ClientInit, WorkerInit, FrameInit
<1>2. PathTypeOK
  BY <1>1, BoundsAssumption DEF PathTypeOK
<1>3. OneWorker
  BY <1>1 DEF OneWorker, NoWorkerLeft, Range
<1>4. OnePort
  BY <1>1 DEF OnePort, Attaching
<1>5. QED
  BY <1>2, <1>3, <1>4 DEF WireInv

LEMMA FollowTypes ==
  ASSUME ClientStep \/ HostReceives
  PROVE  /\ core' \in {core, "boot"} /\ senderSeq' \in {senderSeq, 0}
         /\ UNCHANGED <<acks, portRead>>
  BY DEF ClientStep, HostReceives, FollowClient, FreshWorker, HostAttachesPort,
     frameVars, frameSideVars

LEMMA WireClient ==
  ASSUME ClientInv, WireInv, ClientStep \/ HostReceives, ClientInv'
  PROVE  WireInv'
<1>1. ClientEffect
  BY ClientStepEffect
<1>2. /\ core' \in {"boot", "starting", "ready", "failed"} /\ senderSeq' \in Nat
      /\ UNCHANGED <<acks, portRead, toFrame, ackRead>>
  BY <1>1, FollowTypes DEF WireInv, PathTypeOK, ClientEffect
<1>3. CASE Ends
  <2>1. PathTypeOK'
    BY <1>2, <1>3, BoundsAssumption DEF PathTypeOK, WireInv, Ends, NoWorkerLeft
  <2>2. OneWorker'
    BY <1>3 DEF OneWorker, Ends, NoWorkerLeft, Range
  <2>3. OnePort'
    BY <1>3 DEF OnePort, Ends, NoWorkerLeft, Attaching
  <2>4. QED
    BY <2>1, <2>2, <2>3 DEF WireInv
<1>4. CASE Continues
  <2>1. toHost' \in Seq(OwnMessages) /\ Range(toHost)' \subseteq Range(toHost)
    <3>1. toHost \in Seq(OwnMessages)
      BY DEF WireInv, PathTypeOK
    <3>2. toHost' = toHost \/ (toHost # <<>> /\ toHost' = Tail(toHost))
      BY <1>4 DEF Continues, Keeps
    <3> HIDE DEF OwnMessages
    <3>3. toHost # <<>> => /\ Tail(toHost) \in Seq(OwnMessages)
                           /\ Range(Tail(toHost)) \subseteq Range(toHost)
      BY <3>1, RangeTail
    <3>4. CASE toHost' = toHost
      BY <3>1, <3>4
    <3>5. CASE toHost # <<>> /\ toHost' = Tail(toHost)
      BY <3>3, <3>5
    <3>6. QED
      BY <3>2, <3>4, <3>5
  <2>2. UNCHANGED <<queued, frameSender, senderPending>>
    BY <1>4 DEF Continues, Keeps
  <2>3. PathTypeOK'
    BY <1>2, <2>1, <2>2 DEF PathTypeOK, WireInv
  <2>4. core' \in {"ready", "failed"} => draining' \/ queued' = <<>>
    <3>1. UNCHANGED <<core, draining, senderSeq>> \/ core' = "boot"
      BY <1>4 DEF Continues, Keeps
    <3>2. QED
      BY <2>2, <3>1 DEF WireInv, OneWorker
  <2>5. CASE WorkerMade
    <3>1. NoWorkerLeft /\ worker = NoSession
      BY <2>5, NothingWithoutWorker DEF WorkerMade
    <3>2. NoWorkerLeft' /\ toHost' = <<>>
      BY <1>4, <2>2, <3>1 DEF Continues, Keeps, NoWorkerLeft
    <3>3. OneWorker'
      BY <2>4, <2>5, <3>2 DEF OneWorker, NoWorkerLeft, WorkerMade, Range
    <3>4. OnePort'
      BY <2>5, <3>2 DEF OnePort, NoWorkerLeft, WorkerMade, Attaching
    <3>5. QED
      BY <2>3, <3>3, <3>4 DEF WireInv
  <2>6. CASE UNCHANGED <<worker, sessions>>
    <3>1. OneWorker'
      <4>1. worker = NoSession => NoWorkerLeft'
        BY <1>4, <2>2 DEF WireInv, OneWorker, NoWorkerLeft, Continues, Keeps
      <4>2. Range(queued)' = Range(queued)
        BY <2>2
      <4>3. QED
        BY <2>1, <2>2, <2>4, <2>6, <4>1, <4>2 DEF WireInv, OneWorker
    <3>2. ASSUME Attaching' = Attaching, handshakeDone => handshakeDone'
          PROVE  OnePort'
      <4>1. /\ \A i, j \in Attaching' : i = j
            /\ frameSender' \in {NoSession, worker'}
            /\ frameSender' = NoSession => senderPending' = {}
        BY <2>2, <2>6, <3>2 DEF WireInv, OnePort
      <4>2. /\ Attaching' # {} => frameSender' = NoSession
            /\ Attaching' # {} \/ frameSender' # NoSession => HasFrame
        BY <2>2, <3>2 DEF WireInv, OnePort
      <4>3. Attaching' # {} \/ frameSender' # NoSession => handshakeDone'
        BY <2>2, <3>2 DEF WireInv, OnePort
      <4>4. QED
        BY <4>1, <4>2, <4>3 DEF OnePort
    <3>3. ASSUME Attaches
          PROVE  OnePort'
      <4>1. Attaching = {} /\ frameSender = NoSession
        BY <3>3 DEF WireInv, OnePort, Attaches
      <4>2. toWorker \in Seq(HostMessages)
        BY DEF ClientInv, SafetyInv, ClientTypeOK
      <4>3. \A i \in DOMAIN toWorker' :
              (i \in DOMAIN toWorker /\ toWorker'[i] = toWorker[i]) \/ i = Len(toWorker) + 1
        BY <3>3, <4>2 DEF Attaches
      <4>4. Attaching' \subseteq {Len(toWorker) + 1}
        BY <4>1, <4>3 DEF Attaching
      <4>5. QED
        <5>1. frameSender' = NoSession /\ senderPending' = {}
          BY <2>2, <4>1 DEF WireInv, OnePort
        <5>2. \A i, j \in Attaching' : i = j
          BY <4>4
        <5>3. HasFrame /\ handshakeDone'
          BY <3>3 DEF Attaches
        <5>4. QED
          BY <5>1, <5>2, <5>3 DEF OnePort
    <3>4. OnePort'
      <4>1. ~WorkerMade
        BY <2>6, BoundsAssumption DEF WorkerMade, ClientInv, SafetyInv, ClientTypeOK
      <4>2. handshakeDone => handshakeDone'
        BY <1>4, <4>1 DEF Continues, WorkerStays
      <4>3. QED
        BY <1>4, <3>2, <3>3, <4>2 DEF Continues
    <3>5. QED
      BY <2>3, <3>1, <3>4 DEF WireInv
  <2>7. QED
    BY <1>4, <2>5, <2>6 DEF Continues, WorkerStays
<1>5. QED
  BY <1>1, <1>3, <1>4 DEF ClientEffect

\* A startup message and a reply under the Worker's session are what OneWorker
\* asks of the host's queue.
LEMMA PostOwn ==
  ASSUME WireInv, NEW m \in OwnMessages, toHost' = Append(toHost, m),
         IsReply(m) => m.session = worker, worker' = worker
  PROVE  /\ toHost' \in Seq(OwnMessages)
         /\ \A x \in Range(toHost)' : IsReply(x) => x.session = worker'
<1> HIDE DEF OwnMessages
<1>1. toHost \in Seq(OwnMessages)
  BY DEF WireInv, PathTypeOK
<1>2. toHost' \in Seq(OwnMessages) /\ Range(toHost)' = Range(toHost) \cup {m}
  BY <1>1, RangeAppend
<1>3. \A x \in Range(toHost) : IsReply(x) => x.session = worker
  BY DEF WireInv, OneWorker
<1>4. QED
  BY <1>2, <1>3

LEMMA RendersType ==
  ASSUME WireInv, NEW e \in Envelopes, RendersTo(e)
  PROVE  /\ senderSeq' \in Nat
         /\ senderPending' \subseteq [command : Commands, session : Sessions]
         /\ toFrame' \in [Sessions -> Seq(Commands)]
         /\ \A p \in senderPending' : p \in senderPending \/ p.session = e.session
<1> DEFINE c == Command(NextSeq, e.requestId, e.generation)
<1>1. c \in Commands /\ e.session \in Sessions /\ frameSender \in Sessions
      /\ senderSeq \in Nat
  BY DEF Command, Commands, NextSeq, WireInv, PathTypeOK, Envelopes, RendersTo
<1>2. /\ senderPending' = senderPending \cup {[command |-> c, session |-> e.session]}
      /\ toFrame' = [toFrame EXCEPT ![frameSender] = Append(@, c)]
      /\ senderSeq' = senderSeq + 1
  BY DEF RendersTo
<1> HIDE DEF c
<1>3. toFrame \in [Sessions -> Seq(Commands)] /\ Append(toFrame[frameSender], c) \in Seq(Commands)
  BY <1>1, AppendType DEF WireInv, PathTypeOK
<1>4. QED
  BY <1>1, <1>2, <1>3 DEF WireInv, PathTypeOK

LEMMA ChannelTail ==
  ASSUME ClientInv, toWorker # <<>>, toWorker' = Tail(toWorker)
  PROVE  /\ Head(toWorker) \in Range(toWorker)
         /\ Head(toWorker) = toWorker[1] /\ 1 \in DOMAIN toWorker
         /\ Range(toWorker)' \subseteq Range(toWorker)
         /\ Range(toWorker) = Range(toWorker)' \cup {Head(toWorker)}
         /\ \A i \in DOMAIN toWorker' :
              i + 1 \in DOMAIN toWorker /\ toWorker'[i] = toWorker[i + 1]
<1>1. toWorker \in Seq(HostMessages)
  BY DEF ClientInv, SafetyInv, ClientTypeOK
<1> HIDE DEF HostMessages
<1>2. QED
  BY <1>1, RangeTail

\* Taking from the channel brings no second port, and keeps the promise that
\* the only one comes before a sender exists.
LEMMA AttachingTail ==
  ASSUME ClientInv, WireInv, toWorker # <<>>, toWorker' = Tail(toWorker)
  PROVE  /\ \A i, j \in Attaching' : i = j
         /\ Attaching' # {} => Attaching # {}
         /\ Head(toWorker).kind = "attach-frame" => Attaching # {} /\ Attaching' = {}
<1>1. \A i \in Attaching' : i \in Nat /\ i + 1 \in Attaching
  BY ChannelTail DEF Attaching, ClientInv, SafetyInv, ClientTypeOK
<1>2. \A i, j \in Attaching : i = j
  BY DEF WireInv, OnePort
<1>3. \A i, j \in Attaching' : i = j
  BY <1>1, <1>2
<1>4. Head(toWorker).kind = "attach-frame" => 1 \in Attaching
  BY ChannelTail DEF Attaching
<1>5. \A i \in Attaching' : i \in DOMAIN toWorker'
  BY DEF Attaching
<1>6. DOMAIN toWorker' \subseteq Nat \ {0}
  BY DEF ClientInv, SafetyInv, ClientTypeOK
<1>7. QED
  BY <1>1, <1>2, <1>3, <1>4, <1>5, <1>6

LEMMA WireServes ==
  ASSUME ClientInv, WireInv, NEW e \in Envelopes, e.session = worker,
         Serves(e) \/ Queues(e), UNCHANGED <<worker, sessions, handshakeDone, acks, portRead>>,
         worker # NoSession, ackRead' \in [Sessions -> Nat]
  PROVE  WireInv'
<1>1. UNCHANGED <<core, draining, frameSender>>
  BY DEF Serves, Queues
<1>2. /\ queued' \in Seq(Envelopes)
      /\ \A x \in Range(queued)' : x.session = worker
      /\ queued' # <<>> => queued # <<>> \/ core = "starting"
  <2>1. queued \in Seq(Envelopes) /\ \A x \in Range(queued) : x.session = worker
    BY DEF WireInv, PathTypeOK, OneWorker
  <2>2. CASE FromQueue(e)
    BY <2>1, <2>2, RangeTail DEF FromQueue
  <2>3. CASE Queues(e)
    BY <2>1, <2>3, RangeAppend DEF Queues
  <2>4. CASE queued' = queued
    BY <2>1, <2>4
  <2>5. QED
    BY <2>2, <2>3, <2>4 DEF Serves
<1>3. /\ toHost' \in Seq(OwnMessages)
      /\ \A x \in Range(toHost)' : IsReply(x) => x.session = worker'
  <2>1. CASE RepliesTo(e)
    <3>1. PICK m \in OwnReplies : m.session = e.session /\ toHost' = Append(toHost, m)
      BY <2>1 DEF RepliesTo
    <3>2. m \in OwnMessages
      BY DEF OwnMessages
    <3>3. QED
      BY <3>1, <3>2, PostOwn
  <2>2. CASE toHost' = toHost
    BY <2>2 DEF WireInv, PathTypeOK, OneWorker
  <2>3. QED
    BY <2>1, <2>2 DEF Serves, Queues, RendersTo
<1>4. /\ senderSeq' \in Nat
      /\ senderPending' \subseteq [command : Commands, session : Sessions]
      /\ toFrame' \in [Sessions -> Seq(Commands)]
      /\ \A p \in senderPending' : p.session = worker
      /\ frameSender = NoSession => senderPending' = {}
  <2>1. CASE RendersTo(e)
    BY <2>1, RendersType DEF WireInv, OneWorker, RendersTo
  <2>2. CASE UNCHANGED <<senderSeq, senderPending, toFrame>>
    BY <2>2 DEF WireInv, PathTypeOK, OneWorker, OnePort
  <2>3. QED
    BY <2>1, <2>2 DEF Serves, Queues, RepliesTo
<1>5. PathTypeOK'
  BY <1>1, <1>2, <1>3, <1>4 DEF PathTypeOK, WireInv
<1>6. OneWorker'
  BY <1>1, <1>2, <1>3, <1>4 DEF OneWorker, WireInv
<1>7. /\ \A i, j \in Attaching' : i = j
      /\ Attaching' # {} => Attaching # {}
  <2>1. CASE toWorker' = toWorker
    BY <2>1 DEF Attaching, WireInv, OnePort
  <2>2. CASE toWorker # <<>> /\ toWorker' = Tail(toWorker)
    BY <2>2, AttachingTail
  <2>3. QED
    BY <2>1, <2>2 DEF Serves, Queues, FromQueue, FromChannel
<1>8. OnePort'
  <2>1. /\ Attaching' # {} => frameSender' = NoSession
        /\ frameSender' \in {NoSession, worker'}
        /\ frameSender' = NoSession => senderPending' = {}
    BY <1>1, <1>4, <1>7 DEF WireInv, OnePort
  <2>2. Attaching' # {} \/ frameSender' # NoSession => HasFrame /\ handshakeDone
    BY <1>1, <1>7 DEF WireInv, OnePort
  <2>3. QED
    BY <1>7, <2>1, <2>2 DEF OnePort
<1>9. QED
  BY <1>5, <1>6, <1>8 DEF WireInv

LEMMA WireInstalls ==
  ASSUME ClientInv, WireInv, NEW m, m.session = worker, Installs(m),
         UNCHANGED <<worker, sessions, handshakeDone, acks, portRead>>,
         worker # NoSession, ackRead' \in [Sessions -> Nat]
  PROVE  WireInv'
<1>1. worker \in Sessions
  BY DEF ClientInv, SafetyInv, ClientTypeOK
<1>2. /\ toWorker # <<>> /\ m = Head(toWorker) /\ m.kind = "attach-frame"
      /\ toWorker' = Tail(toWorker)
      /\ frameSender' = worker /\ senderSeq' = 0 /\ senderPending' = {}
      /\ toHost' = Append(toHost, FrameAttached(worker))
      /\ UNCHANGED <<core, draining, queued, toFrame>>
  BY DEF Installs
<1>3. FrameAttached(worker) \in OwnMessages /\ ~IsReply(FrameAttached(worker))
  BY <1>1 DEF OwnMessages, FrameAttached, IsReply
<1>4. /\ toHost' \in Seq(OwnMessages)
      /\ \A x \in Range(toHost)' : IsReply(x) => x.session = worker'
  BY <1>2, <1>3, PostOwn
<1>5. PathTypeOK'
  BY <1>1, <1>2, <1>4 DEF PathTypeOK, WireInv
<1>6. OneWorker'
  BY <1>2, <1>4 DEF OneWorker, WireInv
<1>7. Attaching # {} /\ Attaching' = {}
  BY <1>2, AttachingTail
<1>8. OnePort'
  <2>1. HasFrame /\ handshakeDone'
    BY <1>7 DEF WireInv, OnePort
  <2>2. QED
    BY <1>1, <1>2, <1>7, <2>1 DEF OnePort
<1>9. QED
  BY <1>5, <1>6, <1>8 DEF WireInv

LEMMA WireWorker ==
  ASSUME ClientInv, WireInv, WorkerEffect
  PROVE  WireInv'
<1>1. /\ worker # NoSession
      /\ UNCHANGED <<worker, sessions, handshakeDone, acks, portRead>>
      /\ ackRead' \in [Sessions -> Nat]
  BY DEF WorkerEffect, frameVars, frameSideVars
<1>2. ASSUME NEW e \in Envelopes, e.session = worker, Serves(e) \/ Queues(e)
      PROVE  WireInv'
  BY <1>1, <1>2, WireServes
<1>3. ASSUME NEW m, m.session = worker, Installs(m)
      PROVE  WireInv'
  BY <1>1, <1>3, WireInstalls
<1>4. CASE UNCHANGED <<toWorker, queued, frameSender, toFrame>>
           /\ senderSeq' = senderSeq /\ senderPending' \subseteq senderPending
           /\ toHost' \in Seq(OwnMessages)
           /\ (\A x \in Range(toHost)' : IsReply(x) => x.session = worker')
           /\ core' \in {"boot", "starting", "ready", "failed"}
           /\ (core' \in {"ready", "failed"} => draining' \/ queued' = <<>>)
  <2>1. PathTypeOK'
    BY <1>1, <1>4 DEF WireInv, PathTypeOK
  <2>2. OneWorker'
    BY <1>1, <1>4 DEF WireInv, OneWorker
  <2>3. Attaching' = Attaching
    BY <1>4 DEF Attaching
  <2>4. OnePort'
    BY <1>1, <1>4, <2>3 DEF WireInv, OnePort
  <2>5. QED
    BY <2>1, <2>2, <2>4 DEF WireInv
<1>5. CASE Announces
  <2>1. PICK m \in {Ready, Failed, CheckerReady(TRUE)} : toHost' = Append(toHost, m)
    BY <1>5 DEF Announces
  <2>2. m \in OwnMessages /\ ~IsReply(m)
    BY DEF OwnMessages, IsReply, Ready, Failed, CheckerReady
  <2>3. /\ toHost' \in Seq(OwnMessages)
        /\ \A x \in Range(toHost)' : IsReply(x) => x.session = worker'
    BY <1>1, <2>1, <2>2, PostOwn
  <2>4. core' \in {"ready", "failed"} => draining'
    BY <1>5 DEF Announces
  <2>5. /\ UNCHANGED <<toWorker, queued, frameSender, toFrame>>
        /\ senderSeq' = senderSeq /\ senderPending' = senderPending
        /\ core' \in {"boot", "starting", "ready", "failed"}
    BY <1>5 DEF Announces
  <2>6. QED
    BY <1>4, <2>3, <2>4, <2>5
<1>6. ASSUME NEW p, Relays(p)
      PROVE  WireInv'
  <2>1. PICK m \in OwnReplies : m.session = p.session /\ toHost' = Append(toHost, m)
    BY <1>6 DEF Relays
  <2>2. m \in OwnMessages /\ m.session = worker
    BY <1>6, <2>1 DEF OwnMessages, Relays, WireInv, OneWorker
  <2>3. /\ toHost' \in Seq(OwnMessages)
        /\ \A x \in Range(toHost)' : IsReply(x) => x.session = worker'
    BY <1>1, <2>1, <2>2, PostOwn
  <2>4. /\ UNCHANGED <<toWorker, core, draining, queued, frameSender, toFrame>>
        /\ senderSeq' = senderSeq /\ senderPending' \subseteq senderPending
    BY <1>6 DEF Relays
  <2>5. /\ core' \in {"boot", "starting", "ready", "failed"}
        /\ core' \in {"ready", "failed"} => draining' \/ queued' = <<>>
    BY <2>4 DEF WireInv, PathTypeOK, OneWorker
  <2>6. QED
    BY <1>4, <2>3, <2>4, <2>5
<1>7. CASE Rests
  <2>1. /\ UNCHANGED <<toWorker, core, queued, frameSender, toFrame, toHost>>
        /\ senderSeq' = senderSeq /\ senderPending' = senderPending
        /\ draining' = draining \/ queued = <<>>
    BY <1>7 DEF Rests
  <2>2. /\ toHost' \in Seq(OwnMessages)
        /\ \A x \in Range(toHost)' : IsReply(x) => x.session = worker'
        /\ core' \in {"boot", "starting", "ready", "failed"}
        /\ core' \in {"ready", "failed"} => draining' \/ queued' = <<>>
    BY <1>1, <2>1 DEF WireInv, PathTypeOK, OneWorker
  <2>3. QED
    BY <1>4, <2>1, <2>2
<1>8. QED
  BY <1>2, <1>3, <1>5, <1>6, <1>7 DEF WorkerEffect

\* The frame only adds acknowledgements.
LEMMA WireFrame ==
  ASSUME WireInv, UNCHANGED <<clientVars, workerVars, ackRead>>,
         acks' \in [Sessions -> Seq(Acks)], portRead' \in [Sessions -> Nat]
  PROVE  WireInv'
<1>1. UNCHANGED <<worker, sessions, handshakeDone, toWorker, core, queued, draining,
                  frameSender, senderSeq, senderPending, toHost, toFrame, ackRead>>
  BY DEF clientVars, startupVars, workerVars
<1>2. PathTypeOK'
  BY <1>1 DEF WireInv, PathTypeOK
<1>3. OneWorker'
  BY <1>1 DEF WireInv, OneWorker, NoWorkerLeft
<1>4. Attaching' = Attaching
  BY <1>1 DEF Attaching
<1>5. OnePort'
  BY <1>1, <1>4 DEF WireInv, OnePort
<1>6. QED
  BY <1>2, <1>3, <1>5 DEF WireInv

\* The frame takes a command from the port it listens on, and answers it.
Takes(s) ==
  /\ receiver = s /\ portRead[s] < Len(toFrame[s])
  /\ portRead' = [portRead EXCEPT ![s] = @ + 1]
  /\ LET c == toFrame[s][portRead[s] + 1]
     IN \/ UNCHANGED <<display, acks>>
        \/ display' = Shown(s, c) /\ acks' = [acks EXCEPT ![s] = Append(@, Ack(c, TRUE))]
        \/ /\ display' \in {display, Blank}
           /\ acks' = [acks EXCEPT ![s] = Append(@, Ack(c, FALSE))]
  /\ UNCHANGED <<ready, pendingBootstrap, toFrameWindow, receiver>>

\* Everything else the frame and the host's end of it do: ports and the display
\* are lost, the held port is posted once the frame is ready, or the frame takes
\* the oldest port it was posted.
Loses ==
  /\ display' \in {display, Blank}
  /\ receiver' \in {receiver, NoSession}
  /\ pendingBootstrap' \in {pendingBootstrap, NoSession}
  /\ toFrameWindow' \in {toFrameWindow, <<>>}
  /\ ready' = ready

PostsHeldPort ==
  /\ ~ready /\ ready' = TRUE
  /\ pendingBootstrap' = NoSession
  /\ \/ toFrameWindow' = toFrameWindow
     \/ /\ pendingBootstrap # NoSession
        /\ toFrameWindow' = Append(toFrameWindow, pendingBootstrap)
  /\ UNCHANGED <<receiver, display>>

TakesPort ==
  /\ toFrameWindow # <<>>
  /\ toFrameWindow' = Tail(toFrameWindow) /\ receiver' = Head(toFrameWindow)
  /\ UNCHANGED <<ready, pendingBootstrap, display>>

Shifts == UNCHANGED <<portRead, acks>> /\ (Loses \/ PostsHeldPort \/ TakesPort)

LEMMA FrameEffect ==
  ASSUME HostFrameStep \/ FrameStep
  PROVE  /\ UNCHANGED <<clientVars, workerVars, ackRead>>
         /\ Shifts \/ \E s \in Sessions : Takes(s)
<1>1. UNCHANGED <<clientVars, workerVars, ackRead>>
  BY DEF HostFrameStep, FrameStep
<1>2. ASSUME OnLoad \/ OnReadyAgain \/ FrameDestroy
      PROVE  Shifts
  BY <1>2 DEF OnLoad, OnReadyAgain, FrameDestroy, Destroy, Shifts, Loses
<1>3. ASSUME (\E s \in Sessions : OnBound(s)) \/ BootstrapTimeout
      PROVE  Shifts
  BY <1>3 DEF OnBound, BootstrapTimeout, frameSideVars, Shifts, Loses
<1>4. ASSUME OnFrameReady
      PROVE  Shifts
  BY <1>4 DEF OnFrameReady, frameSideVars, Shifts, PostsHeldPort
<1>5. ASSUME FrameStarts \/ FrameNavigates
      PROVE  Shifts
  BY <1>5 DEF FrameStarts, FrameNavigates, hostSideVars, Shifts, Loses
<1>6. ASSUME FrameBootstraps
      PROVE  Shifts
  BY <1>6 DEF FrameBootstraps, hostSideVars, Shifts, TakesPort
<1>7. ASSUME NEW s \in Sessions, FrameReceives(s, toFrame[s])
      PROVE  Takes(s)
  <2> DEFINE c == toFrame[s][portRead[s] + 1]
  <2>1. /\ receiver = s /\ portRead[s] < Len(toFrame[s])
        /\ portRead' = [portRead EXCEPT ![s] = @ + 1]
        /\ UNCHANGED <<ready, pendingBootstrap, toFrameWindow, receiver>>
    BY <1>7 DEF FrameReceives, ListensOn, hostSideVars
  <2>2. \/ UNCHANGED <<display, acks>>
        \/ display' = Shown(s, c) /\ acks' = [acks EXCEPT ![s] = Append(@, Ack(c, TRUE))]
        \/ /\ display' \in {display, Blank}
           /\ acks' = [acks EXCEPT ![s] = Append(@, Ack(c, FALSE))]
    BY <1>7 DEF FrameReceives
  <2> HIDE DEF c
  <2>3. QED
    BY <2>1, <2>2 DEF Takes, c
<1>8. QED
  BY <1>1, <1>2, <1>3, <1>4, <1>5, <1>6, <1>7
  DEF HostFrameStep, FrameStep, HostFrameNext, FrameScriptNext

LEMMA TakesType ==
  ASSUME WireInv, NEW s \in Sessions, Takes(s)
  PROVE  /\ acks' \in [Sessions -> Seq(Acks)] /\ portRead' \in [Sessions -> Nat]
         /\ portRead[s] + 1 \in DOMAIN toFrame[s]
         /\ toFrame[s][portRead[s] + 1] \in Commands
<1>1. /\ toFrame[s] \in Seq(Commands) /\ portRead[s] \in Nat
      /\ portRead[s] < Len(toFrame[s])
  BY DEF WireInv, PathTypeOK, Takes
<1>2. portRead[s] + 1 \in DOMAIN toFrame[s]
      /\ toFrame[s][portRead[s] + 1] \in Commands
  BY <1>1
<1> DEFINE c == toFrame[s][portRead[s] + 1]
<1>3. Ack(c, TRUE) \in Acks /\ Ack(c, FALSE) \in Acks
  BY <1>2 DEF Ack, Acks, Commands
<1>4. acks[s] \in Seq(Acks) /\ acks \in [Sessions -> Seq(Acks)]
  BY DEF WireInv, PathTypeOK
<1>5. /\ Append(acks[s], Ack(c, TRUE)) \in Seq(Acks)
      /\ Append(acks[s], Ack(c, FALSE)) \in Seq(Acks)
  BY <1>3, <1>4, AppendType
<1> HIDE DEF c
<1>6. \/ acks' = acks
      \/ acks' = [acks EXCEPT ![s] = Append(@, Ack(c, TRUE))]
      \/ acks' = [acks EXCEPT ![s] = Append(@, Ack(c, FALSE))]
  BY DEF Takes, c
<1>7. acks' \in [Sessions -> Seq(Acks)]
  BY <1>4, <1>5, <1>6
<1>8. QED
  BY <1>2, <1>7 DEF Takes, WireInv, PathTypeOK

LEMMA WireInvStep ==
  ASSUME ClientInv, WireInv, [SessionNext]_sessionVars
  PROVE  WireInv'
<1>1. ClientInv'
  BY ClientKeepsInSession DEF ClientInv
<1>2. CASE ClientStep \/ HostReceives
  BY <1>1, <1>2, WireClient
<1>3. CASE WorkerStep \/ WorkerReceives \/ WorkerReceivesAck
  BY <1>3, WorkerStepEffect, WireWorker
<1>4. CASE HostFrameStep \/ FrameStep
  <2>1. UNCHANGED <<clientVars, workerVars, ackRead>>
    BY <1>4, FrameEffect
  <2>2. CASE Shifts
    BY <2>1, <2>2, WireFrame DEF Shifts, WireInv, PathTypeOK
  <2>3. ASSUME NEW s \in Sessions, Takes(s)
        PROVE  WireInv'
    BY <2>1, <2>3, WireFrame, TakesType
  <2>4. QED
    BY <1>4, <2>2, <2>3, FrameEffect
<1>5. CASE UNCHANGED sessionVars
  BY <1>5, WireFrame DEF sessionVars, frameVars, frameSideVars, WireInv, PathTypeOK
<1>6. QED
  BY <1>2, <1>3, <1>4, <1>5 DEF SessionNext

LEMMA WireInvHolds == SessionSpec => [](ClientInv /\ WireInv)
<1>1. SessionInit => WireInv
  BY WireInvInit
<1>2. ClientInv /\ WireInv /\ [SessionNext]_sessionVars => WireInv'
  BY WireInvStep
<1>3. SessionSpec => []ClientInv
  BY ClientInvInSession DEF ClientInv
<1>4. QED
  BY <1>1, <1>2, <1>3, PTL DEF SessionSpec

-----------------------------------------------------------------------------
(***************************************************************************
 No thread drops a request.
 ***************************************************************************)
QueuedIds == {e.requestId : e \in Range(queued)}
AwaitedIds == {p.command.requestId : p \in senderPending}
AnsweredIds == {m.requestId : m \in Range(toHost) \cap OwnReplies}

Visible == LineIds \cup QueuedIds \cup AwaitedIds \cup AnsweredIds

InSight == pending \subseteq Visible

\* What the Worker takes from the channel leaves the line, and nothing else does.
LEMMA LineTail ==
  ASSUME ClientInv, toWorker # <<>>, toWorker' = Tail(toWorker),
         UNCHANGED <<awaitingAttach, posting>>
  PROVE  /\ Head(toWorker).kind # "preprocess" => Line' = Line
         /\ Head(toWorker).kind = "preprocess" => Line = Line' \cup {Head(toWorker)}
<1>1. Range(toWorker) = Range(toWorker)' \cup {Head(toWorker)}
  BY ChannelTail
<1>2. CASE Head(toWorker).kind # "preprocess"
  BY <1>1, <1>2 DEF Line, PreprocessIn
<1>3. CASE Head(toWorker).kind = "preprocess"
  BY <1>1, <1>3 DEF Line, PreprocessIn
<1>4. QED
  BY <1>2, <1>3

LEMMA AnsweredAppend ==
  ASSUME WireInv, NEW m \in OwnMessages, toHost' = Append(toHost, m)
  PROVE  /\ Range(toHost)' = Range(toHost) \cup {m}
         /\ AnsweredIds \subseteq AnsweredIds'
         /\ m \in OwnReplies => m.requestId \in AnsweredIds'
<1> HIDE DEF OwnMessages
<1>1. toHost \in Seq(OwnMessages)
  BY DEF WireInv, PathTypeOK
<1>2. Range(toHost)' = Range(toHost) \cup {m}
  BY <1>1, RangeAppend
<1>3. QED
  BY <1>2 DEF AnsweredIds

LEMMA QueueTail ==
  ASSUME WireInv, NEW e, FromQueue(e)
  PROVE  /\ Range(queued) = Range(queued)' \cup {e}
         /\ QueuedIds = QueuedIds' \cup {e.requestId}
<1>1. queued \in Seq(Envelopes) /\ queued # <<>> /\ queued' = Tail(queued)
      /\ e = Head(queued)
  BY DEF WireInv, PathTypeOK, FromQueue
<1>2. Range(queued) = Range(queued)' \cup {e}
  BY <1>1, RangeTail
<1>3. QED
  BY <1>2 DEF QueuedIds

LEMMA LineShrinks ==
  ASSUME ClientInv, NEW e, FromChannel(e), UNCHANGED <<awaitingAttach, posting>>
  PROVE  Line = Line' \cup {e} /\ LineIds = LineIds' \cup {e.requestId}
<1>1. Line = Line' \cup {e}
  BY LineTail DEF FromChannel
<1>2. QED
  BY <1>1 DEF LineIds

LEMMA LineSame ==
  ASSUME UNCHANGED <<awaitingAttach, posting, toWorker>>
  PROVE  Line' = Line /\ LineIds' = LineIds
  BY DEF Line, LineIds

\* Wherever the Worker's steps put a request, it can be seen.
LEMMA WorkerKeepsInSight ==
  ASSUME ClientInv, WireInv, WorkerEffect
  PROVE  Visible \subseteq Visible'
<1>1. UNCHANGED <<awaitingAttach, posting>>
  BY DEF WorkerEffect
<1>2. ASSUME NEW e \in Envelopes, Serves(e)
      PROVE  Visible \subseteq Visible'
  <2>1. /\ LineIds \subseteq LineIds' \cup {e.requestId}
        /\ QueuedIds \subseteq QueuedIds' \cup {e.requestId}
    <3>1. CASE FromQueue(e)
      BY <1>1, <3>1, QueueTail, LineSame DEF FromQueue
    <3>2. CASE FromChannel(e) /\ queued' = queued
      BY <1>1, <3>2, LineShrinks DEF QueuedIds
    <3>3. QED
      BY <1>2, <3>1, <3>2 DEF Serves
  <2>2. /\ AwaitedIds \cup AnsweredIds \subseteq AwaitedIds' \cup AnsweredIds'
        /\ e.requestId \in AwaitedIds' \cup AnsweredIds'
    <3>1. CASE RepliesTo(e)
      <4>1. PICK m \in OwnReplies : m.requestId = e.requestId /\ toHost' = Append(toHost, m)
        BY <3>1 DEF RepliesTo
      <4>2. AnsweredIds \subseteq AnsweredIds' /\ e.requestId \in AnsweredIds'
        BY <4>1, AnsweredAppend DEF OwnMessages
      <4>3. AwaitedIds' = AwaitedIds
        BY <3>1 DEF RepliesTo, AwaitedIds
      <4>4. QED
        BY <4>2, <4>3
    <3>2. CASE RendersTo(e)
      <4> DEFINE c == Command(NextSeq, e.requestId, e.generation)
                 p == [command |-> c, session |-> e.session]
      <4>1. senderPending' = senderPending \cup {p} /\ toHost' = toHost
        BY <3>2 DEF RendersTo
      <4>2. p.command.requestId = e.requestId
        BY DEF Command
      <4> HIDE DEF p
      <4>3. AwaitedIds' = AwaitedIds \cup {e.requestId} /\ AnsweredIds' = AnsweredIds
        BY <4>1, <4>2 DEF AwaitedIds, AnsweredIds
      <4>4. QED
        BY <4>3
    <3>3. QED
      BY <1>2, <3>1, <3>2 DEF Serves
  <2>3. QED
    BY <2>1, <2>2 DEF Visible
<1>3. ASSUME NEW e \in Envelopes, Queues(e)
      PROVE  Visible \subseteq Visible'
  <2>1. LineIds = LineIds' \cup {e.requestId}
    BY <1>1, <1>3, LineShrinks DEF Queues
  <2>2. Range(queued)' = Range(queued) \cup {e}
    BY <1>3, RangeAppend DEF Queues, WireInv, PathTypeOK
  <2>3. QueuedIds' = QueuedIds \cup {e.requestId}
    BY <2>2 DEF QueuedIds
  <2>4. AwaitedIds' = AwaitedIds /\ AnsweredIds' = AnsweredIds
    BY <1>3 DEF Queues, AwaitedIds, AnsweredIds
  <2>5. QED
    BY <2>1, <2>3, <2>4 DEF Visible
<1>4. ASSUME NEW m, m.session = worker, Installs(m)
      PROVE  Visible \subseteq Visible'
  <2>1. Line' = Line
    BY <1>1, <1>4, LineTail DEF Installs
  <2>2. Attaching # {}
    BY <1>4, AttachingTail DEF Installs
  <2>3. senderPending = {} /\ senderPending' = {} /\ queued' = queued
    BY <1>4, <2>2 DEF WireInv, OnePort, Installs
  <2>4. m.session \in Sessions /\ FrameAttached(m.session) \in OwnMessages
    <3>1. worker # NoSession
      BY DEF WorkerEffect
    <3>2. m.session \in Sessions
      BY <1>4, <3>1 DEF ClientInv, SafetyInv, ClientTypeOK
    <3>3. QED
      BY <3>2 DEF OwnMessages
  <2>5. AnsweredIds \subseteq AnsweredIds'
    BY <1>4, <2>4, AnsweredAppend DEF Installs
  <2>6. LineIds' = LineIds /\ AwaitedIds' = AwaitedIds /\ QueuedIds' = QueuedIds
    BY <2>1, <2>3 DEF LineIds, AwaitedIds, QueuedIds
  <2>7. QED
    BY <2>5, <2>6 DEF Visible
<1>5. ASSUME NEW p, Relays(p)
      PROVE  Visible \subseteq Visible'
  <2>1. PICK m \in OwnReplies :
          m.requestId = p.command.requestId /\ toHost' = Append(toHost, m)
    BY <1>5 DEF Relays
  <2>2. AnsweredIds \subseteq AnsweredIds' /\ p.command.requestId \in AnsweredIds'
    BY <2>1, AnsweredAppend DEF OwnMessages
  <2>3. AwaitedIds \subseteq AwaitedIds' \cup {p.command.requestId}
    BY <1>5 DEF Relays, AwaitedIds
  <2>4. LineIds' = LineIds /\ QueuedIds' = QueuedIds
    BY <1>1, <1>5, LineSame DEF Relays, QueuedIds
  <2>5. QED
    BY <2>2, <2>3, <2>4 DEF Visible
<1>6. ASSUME Announces \/ Rests
      PROVE  Visible \subseteq Visible'
  <2>1. LineIds' = LineIds /\ QueuedIds' = QueuedIds /\ AwaitedIds' = AwaitedIds
    BY <1>1, <1>6, LineSame DEF Announces, Rests, QueuedIds, AwaitedIds
  <2>2. CASE Announces
    <3>1. PICK m \in {Ready, Failed, CheckerReady(TRUE)} : toHost' = Append(toHost, m)
      BY <2>2 DEF Announces
    <3>2. AnsweredIds \subseteq AnsweredIds'
      BY <3>1, AnsweredAppend DEF OwnMessages
    <3>3. QED
      BY <2>1, <3>2 DEF Visible
  <2>3. CASE Rests
    BY <2>1, <2>3 DEF Rests, AnsweredIds, Visible
  <2>4. QED
    BY <1>6, <2>2, <2>3
<1>7. QED
  BY <1>2, <1>3, <1>4, <1>5, <1>6 DEF WorkerEffect

LEMMA ClientKeepsInSight ==
  ASSUME InSight, WireInv, ClientEffect
  PROVE  InSight'
<1>1. CASE Ends
  BY <1>1 DEF Ends, InSight
<1>2. CASE Continues
  <2> SUFFICES ASSUME NEW r \in pending'
               PROVE  r \in Visible'
    BY DEF InSight
  <2>1. CASE r \in LineIds'
    BY <2>1 DEF Visible
  <2>2. CASE r \in pending \ LineIds
    <3>1. r \in QueuedIds \cup AwaitedIds \cup AnsweredIds
      BY <2>2 DEF InSight, Visible
    <3>2. QueuedIds' = QueuedIds /\ AwaitedIds' = AwaitedIds
      BY <1>2 DEF Continues, Keeps, QueuedIds, AwaitedIds
    <3>3. CASE r \in AnsweredIds
      <4>1. PICK m \in Range(toHost) : m \in OwnReplies /\ r = m.requestId
        BY <3>3 DEF AnsweredIds
      <4>2. IsReply(m)
        BY <4>1 DEF IsReply, OwnReplies
      <4>3. CASE toHost' = toHost
        BY <4>1, <4>3 DEF AnsweredIds, Visible
      <4>4. CASE toHost # <<>> /\ toHost' = Tail(toHost)
        <5>1. toHost \in Seq(OwnMessages)
          BY DEF WireInv, PathTypeOK
        <5>2. Range(toHost) = Range(toHost)' \cup {Head(toHost)}
          BY <4>4, <5>1, RangeTail
        <5>3. m # Head(toHost) \/ toHost' = toHost
          BY <1>2, <4>1, <4>2 DEF Continues
        <5>4. m \in Range(toHost)'
          BY <4>1, <5>2, <5>3
        <5>5. QED
          BY <4>1, <5>4 DEF AnsweredIds, Visible
      <4>5. QED
        BY <1>2, <4>3, <4>4 DEF Continues, Keeps
    <3>4. QED
      BY <3>1, <3>2, <3>3 DEF Visible
  <2>3. QED
    BY <1>2, <2>1, <2>2 DEF Continues
<1>3. QED
  BY <1>1, <1>2 DEF ClientEffect

LEMMA InSightStep ==
  ASSUME ClientInv, WireInv, InSight, [SessionNext]_sessionVars
  PROVE  InSight'
<1>1. CASE ClientStep \/ HostReceives
  BY <1>1, ClientStepEffect, ClientKeepsInSight
<1>2. CASE WorkerStep \/ WorkerReceives \/ WorkerReceivesAck
  <2>1. WorkerEffect
    BY <1>2, WorkerStepEffect
  <2>2. Visible \subseteq Visible' /\ pending' = pending
    BY <2>1, WorkerKeepsInSight DEF WorkerEffect
  <2>3. QED
    BY <2>2 DEF InSight
<1>3. CASE UNCHANGED <<clientVars, workerVars>>
  <2>1. /\ UNCHANGED <<pending, awaitingAttach, posting, toWorker>>
        /\ UNCHANGED <<queued, senderPending, toHost>>
    BY <1>3 DEF clientVars, requestVars, stackVars, workerVars
  <2>2. QED
    BY <2>1, LineSame DEF InSight, Visible, QueuedIds, AwaitedIds, AnsweredIds
<1>4. QED
  BY <1>1, <1>2, <1>3, FrameEffect DEF SessionNext, sessionVars

\* What is seen is one of the places the property names.
LEMMA VisibleIsSomewhere ==
  ASSUME ClientInv, WireInv, InSight
  PROVE  PendingIsSomewhere
<1>1. LineIds \subseteq Held \cup BeingPosted \cup InFlight(toWorker)
  BY LineIsPlaced DEF Posted, InFlight
<1>2. QueuedIds \subseteq InFlight(queued)
  <2>1. \A i \in DOMAIN queued : queued[i] \in Envelopes
    BY DEF WireInv, PathTypeOK
  <2>2. \A e \in Envelopes : e.kind = "preprocess"
    BY DEF Envelopes
  <2>3. QED
    BY <2>1, <2>2 DEF QueuedIds, InFlight, Range
<1>3. AnsweredIds \subseteq InFlight(toHost)
  <2>1. \A m \in OwnReplies : m.kind \in {"result", "refused"}
    BY DEF OwnReplies
  <2>2. QED
    BY <2>1 DEF AnsweredIds, InFlight, Range
<1>4. QED
  BY <1>1, <1>2, <1>3 DEF InSight, Visible, AwaitedIds, PendingIsSomewhere

\* Whatever the three threads, the guard and the timers do, in any order, a
\* pending request of the session is held for the port, on its way to the
\* Worker, queued there, waiting for the frame, or answered by a reply the host
\* has not read: none is dropped between preprocess() and its result.
THEOREM PendingIsSomewhereHolds == SessionSpec => []PendingIsSomewhere
<1>1. SessionInit => InSight
  BY DEF SessionInit, ClientInit, InSight
<1>2. ClientInv /\ WireInv /\ InSight /\ [SessionNext]_sessionVars => InSight'
  BY InSightStep
<1>3. ClientInv /\ WireInv /\ InSight => PendingIsSomewhere
  BY VisibleIsSomewhere
<1>4. QED
  BY <1>1, <1>2, <1>3, WireInvHolds, PTL DEF SessionSpec

-----------------------------------------------------------------------------
(***************************************************************************
 The order of requests, and of their generations, along the path.
 ***************************************************************************)
SentOn(s) == {c.requestId : c \in Range(toFrame[s])}

\* The newest session whose port was handed out.
NewestPort == IF worker # NoSession /\ ~handshakeDone THEN sessions - 1 ELSE sessions

\* What is posted on a port is older than what still waits for a Worker, ...
QueueOrder ==
  /\ \A i, j \in DOMAIN queued : i < j => queued[i].requestId < queued[j].requestId
  /\ \A q \in QueuedIds : \A r \in LineIds : q < r
  /\ \A s \in Sessions : \A c \in SentOn(s) : \A r \in QueuedIds \cup LineIds : c < r

\* ... each port carries its commands in order, and a port of a later Worker
\* only newer ones.
PortOrder ==
  /\ \A s \in Sessions : \A i, j \in DOMAIN toFrame[s] :
       i < j => toFrame[s][i].requestId < toFrame[s][j].requestId
  /\ \A s, t \in Sessions : s < t => \A c \in SentOn(s) : \A d \in SentOn(t) : c < d
  /\ \A s \in Sessions : s > NewestPort => toFrame[s] = <<>>

Travelling == Line \cup Range(queued) \cup UNION {Range(toFrame[s]) : s \in Sessions}

\* A later request is of no earlier document.
GenerationOrder ==
  /\ \A x \in Travelling : x.requestId < nextRequestId /\ x.generation <= generation
  /\ \A x, y \in Travelling : x.requestId < y.requestId => x.generation <= y.generation

OrderInv == QueueOrder /\ PortOrder /\ GenerationOrder

LEMMA OrderTypes ==
  ASSUME ClientInv, WireInv
  PROVE  /\ \A x \in Travelling : x.requestId \in Requests /\ x.generation \in Nat
         /\ LineIds \subseteq Requests /\ QueuedIds \subseteq Requests
         /\ \A s \in Sessions : SentOn(s) \subseteq Requests
         /\ nextRequestId \in Nat /\ generation \in Nat /\ sessions \in Nat
         /\ Requests \subseteq Nat /\ Sessions \subseteq Nat
<1>1. /\ nextRequestId \in Nat /\ generation \in Nat /\ sessions \in Nat
      /\ Requests \subseteq Nat /\ Sessions \subseteq Nat /\ Generations \subseteq Nat
  BY BoundsAssumption DEF ClientInv, SafetyInv, ClientTypeOK
<1>2. \A x \in Line : x.requestId \in Requests /\ x.generation \in Generations
  BY LineType DEF ClientInv, SafetyInv
<1>3. \A x \in Range(queued) : x.requestId \in Requests /\ x.generation \in Generations
  <2>1. Range(queued) \subseteq Envelopes
    BY RangeType DEF WireInv, PathTypeOK
  <2>2. QED
    BY <2>1 DEF Envelopes
<1>4. \A s \in Sessions : \A x \in Range(toFrame[s]) :
        x.requestId \in Requests /\ x.generation \in Generations
  <2> TAKE s \in Sessions
  <2>1. Range(toFrame[s]) \subseteq Commands
    BY RangeType DEF WireInv, PathTypeOK
  <2>2. QED
    BY <2>1 DEF Commands
<1>5. LineIds \subseteq Requests
  BY <1>2 DEF LineIds
<1>6. QueuedIds \subseteq Requests
  BY <1>3 DEF QueuedIds
<1>7. \A s \in Sessions : SentOn(s) \subseteq Requests
  BY <1>4 DEF SentOn
<1>8. \A x \in Travelling : x.requestId \in Requests /\ x.generation \in Generations
  BY <1>2, <1>3, <1>4 DEF Travelling
<1> HIDE DEF Requests, Generations, Sessions
<1>9. QED
  BY <1>1, <1>5, <1>6, <1>7, <1>8

LEMMA NewestPortType ==
  ASSUME ClientInv
  PROVE  NewestPort \in Int
  BY BoundsAssumption DEF ClientInv, SafetyInv, ClientTypeOK, NewestPort

LEMMA NewestPortNat ==
  ASSUME ClientInv, WireInv
  PROVE  NewestPort \in Nat
  BY BoundsAssumption
  DEF ClientInv, SafetyInv, ClientTypeOK, WireInv, OneWorker, NewestPort

\* The client hands out ports in the order of its Workers.
LEMMA NewestPortGrows ==
  ASSUME ClientInv, WireInv, ClientEffect
  PROVE  NewestPort' >= NewestPort /\ NewestPort \in Int /\ NewestPort' \in Int
<1>1. sessions \in Nat /\ handshakeDone \in BOOLEAN
  BY BoundsAssumption DEF ClientInv, SafetyInv, ClientTypeOK
<1>2. CASE Ends
  BY <1>1, <1>2 DEF Ends, NewestPort
<1>3. CASE Continues /\ WorkerMade
  BY <1>1, <1>3 DEF WorkerMade, NewestPort
<1>4. CASE Continues /\ WorkerStays
  BY <1>1, <1>4 DEF WorkerStays, NewestPort
<1>5. QED
  BY <1>2, <1>3, <1>4 DEF ClientEffect, Continues

LEMMA OrderClient ==
  ASSUME ClientInv, WireInv, OrderInv, ClientEffect, ClientInv'
  PROVE  OrderInv'
<1> USE DEF OrderInv
<1>1. toFrame' = toFrame /\ \A s \in Sessions : SentOn(s)' = SentOn(s)
  BY DEF ClientEffect, SentOn
<1>2. nextRequestId' \in Nat /\ generation' \in Nat
  BY BoundsAssumption DEF ClientInv, SafetyInv, ClientTypeOK
<1>3. PortOrder'
  <2>1. \A s \in Sessions : s > NewestPort' => s > NewestPort
    BY NewestPortGrows, OrderTypes
  <2>2. QED
    BY <1>1, <2>1 DEF PortOrder
<1>4. CASE Ends
  <2>1. /\ Line' = {} /\ queued' = <<>> /\ generation' = generation
        /\ nextRequestId' >= nextRequestId
    BY <1>4 DEF Ends, NoWorkerLeft
  <2>2. LineIds' = {} /\ Range(queued)' = {} /\ QueuedIds' = {}
    BY <2>1 DEF LineIds, QueuedIds, Range
  <2>3. QueueOrder'
    BY <2>1, <2>2 DEF QueueOrder
  <2>4. Travelling' \subseteq Travelling
    BY <1>1, <2>1, <2>2 DEF Travelling
  <2>5. \A x \in Travelling' : x.requestId < nextRequestId'
    <3> TAKE x \in Travelling'
    <3>1. x.requestId < nextRequestId /\ x.requestId \in Nat /\ nextRequestId \in Nat
      BY <2>4, OrderTypes DEF GenerationOrder
    <3>2. QED
      BY <1>2, <2>1, <3>1
  <2>6. GenerationOrder'
    BY <2>1, <2>4, <2>5 DEF GenerationOrder
  <2>7. QED
    BY <1>3, <2>3, <2>6
<1>5. CASE Continues
  <2>1. /\ queued' = queued /\ QueuedIds' = QueuedIds /\ Range(queued)' = Range(queued)
        /\ generation' >= generation
    BY <1>5 DEF Continues, Keeps, QueuedIds
  <2>2. CASE NothingNew
    <3>1. Travelling' \subseteq Travelling /\ LineIds' \subseteq LineIds
      BY <1>1, <2>1, <2>2 DEF NothingNew, Travelling, LineIds
    <3>2. QueueOrder'
      BY <1>1, <2>1, <3>1 DEF QueueOrder
    <3>3. \A x \in Travelling' : x.requestId < nextRequestId' /\ x.generation <= generation'
      <4> TAKE x \in Travelling'
      <4>1. /\ x.requestId < nextRequestId /\ x.generation <= generation
            /\ x.generation \in Nat /\ generation \in Nat
        BY <3>1, OrderTypes DEF GenerationOrder
      <4>2. QED
        BY <1>2, <2>1, <2>2, <4>1 DEF NothingNew
    <3>4. GenerationOrder'
      BY <3>1, <3>3 DEF GenerationOrder
    <3>5. QED
      BY <1>3, <3>2, <3>4
  <2>3. CASE NewRequest
    <3> DEFINE n == nextRequestId
               e == Preprocess(worker', n, generation, Declared)
    <3>1. /\ n \in Requests /\ nextRequestId' = n + 1 /\ Line' = Line \cup {e}
          /\ e.requestId = n /\ e.generation = generation
      BY <2>3 DEF NewRequest, Preprocess
    <3> HIDE DEF e
    <3>2. LineIds' = LineIds \cup {n} /\ Travelling' = Travelling \cup {e}
      BY <1>1, <2>1, <3>1 DEF LineIds, Travelling
    <3>3. /\ \A x \in Travelling : /\ x.requestId < n /\ x.generation <= generation
                                   /\ x.requestId \in Nat /\ x.generation \in Nat
          /\ n \in Nat /\ generation \in Nat
      BY OrderTypes DEF GenerationOrder
    <3>4. /\ \A q \in QueuedIds : q < n
          /\ \A s \in Sessions : \A c \in SentOn(s) : c < n
      BY <3>3 DEF QueuedIds, SentOn, Travelling
    <3>5. QueueOrder'
      BY <1>1, <2>1, <3>2, <3>4 DEF QueueOrder
    <3>6. \A x \in Travelling' : x.requestId < nextRequestId' /\ x.generation <= generation'
      <4> TAKE x \in Travelling'
      <4>1. CASE x = e
        BY <1>2, <2>1, <3>1, <3>3, <4>1
      <4>2. CASE x \in Travelling
        BY <1>2, <2>1, <3>1, <3>3, <4>2
      <4>3. QED
        BY <3>2, <4>1, <4>2
    <3>7. \A x, y \in Travelling' : x.requestId < y.requestId => x.generation <= y.generation
      <4> SUFFICES ASSUME NEW x \in Travelling', NEW y \in Travelling',
                          x.requestId < y.requestId
                   PROVE  x.generation <= y.generation
        OBVIOUS
      <4>1. CASE y = e /\ x \in Travelling
        BY <3>1, <3>3, <4>1
      <4>2. CASE x = e /\ y \in Travelling
        BY <3>1, <3>3, <4>2
      <4>3. CASE x = e /\ y = e
        BY <3>1, <3>3, <4>3
      <4>4. CASE x \in Travelling /\ y \in Travelling
        BY <4>4 DEF GenerationOrder
      <4>5. QED
        BY <3>2, <4>1, <4>2, <4>3, <4>4
    <3>8. GenerationOrder'
      BY <3>6, <3>7 DEF GenerationOrder
    <3>9. QED
      BY <1>3, <3>5, <3>8
  <2>4. QED
    BY <1>5, <2>2, <2>3 DEF Continues
<1>6. QED
  BY <1>4, <1>5 DEF ClientEffect

\* What the Worker takes is the oldest request on its way.
LEMMA ChannelHeadIsOldest ==
  ASSUME ClientInv, NEW e, FromChannel(e), UNCHANGED <<awaitingAttach, posting>>
  PROVE  \A r \in LineIds' : e.requestId < r
<1>1. /\ RequestsInOrder(toWorker)
      /\ \A p \in Posted : \A h \in Held \cup BeingPosted : p < h
  BY DEF ClientInv, PlaceInv, QueuesInOrder
<1>2. /\ toWorker # <<>> /\ e = toWorker[1] /\ 1 \in DOMAIN toWorker
      /\ e.kind = "preprocess" /\ toWorker' = Tail(toWorker)
      /\ \A i \in DOMAIN toWorker' :
           i + 1 \in DOMAIN toWorker /\ toWorker'[i] = toWorker[i + 1]
  BY ChannelTail DEF FromChannel
<1>3. e.requestId \in Posted
  BY <1>2 DEF Posted
<1>4. SUFFICES ASSUME NEW x \in Line'
               PROVE  e.requestId < x.requestId
  BY DEF LineIds
<1>5. CASE x \in Range(awaitingAttach) \cup posting
  BY <1>1, <1>3, <1>5 DEF Held, BeingPosted, Range
<1>6. CASE x \in PreprocessIn(toWorker)'
  <2>1. PICK i \in DOMAIN toWorker' : x = toWorker'[i] /\ x.kind = "preprocess"
    BY <1>6 DEF PreprocessIn, Range
  <2>2. i \in Nat /\ 1 < i + 1
    <3>1. toWorker \in Seq(HostMessages)
      BY DEF ClientInv, SafetyInv, ClientTypeOK
    <3> HIDE DEF HostMessages
    <3>2. toWorker' \in Seq(HostMessages)
      BY <1>2, <3>1
    <3>3. QED
      BY <2>1, <3>2
  <2>3. QED
    BY <1>1, <1>2, <2>1, <2>2 DEF RequestsInOrder
<1>7. QED
  BY <1>5, <1>6 DEF Line

LEMMA QueueHeadIsOldest ==
  ASSUME WireInv, QueueOrder, NEW e, FromQueue(e)
  PROVE  /\ \A q \in QueuedIds' : e.requestId < q
         /\ \A i, j \in DOMAIN queued' :
              i < j => queued'[i].requestId < queued'[j].requestId
<1>1. /\ queued \in Seq(Envelopes) /\ queued # <<>> /\ queued' = Tail(queued)
      /\ e = Head(queued)
  BY DEF WireInv, PathTypeOK, FromQueue
<1> HIDE DEF Envelopes
<1>2. /\ e = queued[1] /\ 1 \in DOMAIN queued
      /\ \A i \in DOMAIN queued' :
           i \in Nat /\ 1 < i + 1 /\ i + 1 \in DOMAIN queued /\ queued'[i] = queued[i + 1]
  BY <1>1
<1>3. \A i, j \in DOMAIN queued : i < j => queued[i].requestId < queued[j].requestId
  BY DEF QueueOrder
<1>4. \A q \in QueuedIds' : e.requestId < q
  BY <1>2, <1>3 DEF QueuedIds, Range
<1>5. \A i, j \in DOMAIN queued' :
        i < j => queued'[i].requestId < queued'[j].requestId
  <2> SUFFICES ASSUME NEW i \in DOMAIN queued', NEW j \in DOMAIN queued', i < j
               PROVE  queued'[i].requestId < queued'[j].requestId
    OBVIOUS
  <2>1. i + 1 < j + 1
    BY <1>2
  <2>2. QED
    BY <1>2, <1>3, <2>1
<1>6. QED
  BY <1>4, <1>5

\* A command goes to the end of the newest port.
LEMMA CommandOrder ==
  ASSUME ClientInv, WireInv, PortOrder, NEW e \in Envelopes, RendersTo(e),
         frameSender = NewestPort, NewestPort' = NewestPort,
         \A s \in Sessions : \A c \in SentOn(s) : c < e.requestId
  PROVE  /\ PortOrder'
         /\ \A s \in Sessions : SentOn(s)' \subseteq SentOn(s) \cup {e.requestId}
         /\ \A s \in Sessions : \A x \in Range(toFrame'[s]) :
              \/ x \in Range(toFrame[s])
              \/ x.requestId = e.requestId /\ x.generation = e.generation
<1> DEFINE f == frameSender
           c == Command(NextSeq, e.requestId, e.generation)
<1>1. /\ f \in Sessions /\ toFrame \in [Sessions -> Seq(Commands)]
      /\ toFrame' = [toFrame EXCEPT ![f] = Append(@, c)]
      /\ c.requestId = e.requestId /\ c.generation = e.generation
  BY DEF WireInv, PathTypeOK, RendersTo, Command
<1>2. c \in Commands
  <2>1. NextSeq \in Nat
    BY DEF NextSeq, WireInv, PathTypeOK
  <2>2. QED
    BY <2>1 DEF Command, Commands, Envelopes
<1>3. f = NewestPort
  OBVIOUS
<1> HIDE DEF c, f, Commands
<1>4. /\ toFrame[f] \in Seq(Commands) /\ toFrame'[f] = Append(toFrame[f], c)
      /\ \A s \in Sessions : s # f => toFrame'[s] = toFrame[s]
  BY <1>1
<1>5. /\ DOMAIN toFrame'[f] = DOMAIN toFrame[f] \cup {Len(toFrame[f]) + 1}
      /\ toFrame'[f][Len(toFrame[f]) + 1] = c
      /\ \A k \in DOMAIN toFrame[f] : toFrame'[f][k] = toFrame[f][k]
      /\ \A k \in DOMAIN toFrame[f] : k <= Len(toFrame[f])
      /\ \A k \in DOMAIN toFrame'[f] : k \in Nat
  BY <1>2, <1>4
<1>6. Range(toFrame'[f]) = Range(toFrame[f]) \cup {c}
  BY <1>2, <1>4, RangeAppend
<1>7. \A s \in Sessions : \A x \in Range(toFrame'[s]) :
        x \in Range(toFrame[s]) \/ (s = f /\ x = c)
  BY <1>4, <1>6
<1>8. \A s \in Sessions : SentOn(s)' \subseteq SentOn(s) \cup (IF s = f THEN {e.requestId} ELSE {})
  BY <1>1, <1>7 DEF SentOn
<1>9. \A s \in Sessions : \A i, j \in DOMAIN toFrame'[s] :
        i < j => toFrame'[s][i].requestId < toFrame'[s][j].requestId
  <2> SUFFICES ASSUME NEW s \in Sessions, NEW i \in DOMAIN toFrame'[s],
                      NEW j \in DOMAIN toFrame'[s], i < j
               PROVE  toFrame'[s][i].requestId < toFrame'[s][j].requestId
    OBVIOUS
  <2>1. CASE s # f
    BY <1>4, <2>1 DEF PortOrder
  <2>2. CASE s = f /\ j \in DOMAIN toFrame[f]
    <3>1. i \in DOMAIN toFrame[f]
      BY <1>5, <2>2
    <3>2. toFrame'[f][i] = toFrame[f][i] /\ toFrame'[f][j] = toFrame[f][j]
      BY <1>5, <2>2, <3>1
    <3>3. QED
      BY <1>1, <2>2, <3>1, <3>2 DEF PortOrder
  <2>3. CASE s = f /\ j \notin DOMAIN toFrame[f]
    <3>1. j = Len(toFrame[f]) + 1 /\ i \in DOMAIN toFrame[f]
      BY <1>5, <2>3
    <3>2. toFrame'[f][i] = toFrame[f][i] /\ toFrame'[f][j] = c
      BY <1>5, <3>1
    <3>3. toFrame[f][i].requestId \in SentOn(f)
      BY <3>1 DEF SentOn, Range
    <3>4. QED
      BY <1>1, <2>3, <3>2, <3>3
  <2>4. QED
    BY <2>1, <2>2, <2>3
<1>10. \A s \in Sessions : s > NewestPort' => toFrame'[s] = <<>>
  BY <1>1, <1>4, <1>3, OrderTypes, NewestPortType DEF PortOrder
<1>11. \A s, t \in Sessions : s < t =>
        \A a \in SentOn(s)' : \A b \in SentOn(t)' : a < b
  <2> SUFFICES ASSUME NEW s \in Sessions, NEW t \in Sessions, s < t,
                      NEW a \in SentOn(s)', NEW b \in SentOn(t)'
               PROVE  a < b
    OBVIOUS
  <2>1. s \in Nat /\ t \in Nat /\ NewestPort \in Int
    BY OrderTypes, NewestPortType
  <2>2. t <= f
    <3>1. toFrame'[t] # <<>>
      BY DEF SentOn, Range
    <3>2. QED
      BY <1>3, <1>10, <2>1, <3>1
  <2>3. s # f /\ a \in SentOn(s)
    BY <1>3, <1>8, <2>1, <2>2
  <2>4. CASE b \in SentOn(t)
    BY <2>3, <2>4 DEF PortOrder
  <2>5. CASE b = e.requestId
    BY <2>3, <2>5
  <2>6. QED
    BY <1>8, <2>4, <2>5
<1>12. PortOrder'
  BY <1>9, <1>10, <1>11 DEF PortOrder
<1>13. QED
  BY <1>1, <1>7, <1>8, <1>12

\* A request that is served leaves only newer ones behind.
LEMMA OrderServes ==
  ASSUME ClientInv, WireInv, OrderInv, NEW e \in Envelopes, e.session = worker,
         Serves(e), UNCHANGED <<worker, sessions, handshakeDone, generation,
                                nextRequestId, awaitingAttach, posting>>
  PROVE  OrderInv'
<1> USE DEF OrderInv
<1>1. /\ Line' \subseteq Line /\ Range(queued)' \subseteq Range(queued)
      /\ e \in Line \cup Range(queued)
      /\ \A s \in Sessions : \A c \in SentOn(s) : c < e.requestId
      /\ \A i, j \in DOMAIN queued' :
           i < j => queued'[i].requestId < queued'[j].requestId
      /\ RendersTo(e) => \A r \in QueuedIds' \cup LineIds' : e.requestId < r
  <2>1. CASE FromQueue(e)
    <3>1. Line' = Line /\ LineIds' = LineIds
      BY <2>1, LineSame DEF FromQueue
    <3>2. Range(queued) = Range(queued)' \cup {e} /\ e.requestId \in QueuedIds
      BY <2>1, QueueTail
    <3>3. QED
      BY <2>1, <3>1, <3>2, QueueHeadIsOldest DEF QueueOrder
  <2>2. CASE FromChannel(e) /\ queued' = queued /\ (RendersTo(e) => queued = <<>>)
    <3>1. Line = Line' \cup {e} /\ e.requestId \in LineIds
      BY <2>2, LineShrinks
    <3>2. \A r \in LineIds' : e.requestId < r
      BY <2>2, ChannelHeadIsOldest
    <3>3. RendersTo(e) => QueuedIds' = {}
      BY <2>2 DEF QueuedIds, Range
    <3>4. QED
      BY <2>2, <3>1, <3>2, <3>3 DEF QueueOrder
  <2>3. RepliesTo(e) => ~RendersTo(e)
    <3>1. RepliesTo(e) => senderSeq' = senderSeq
      BY DEF RepliesTo
    <3>2. RendersTo(e) => senderSeq' = senderSeq + 1
      BY DEF RendersTo
    <3>3. QED
      BY <3>1, <3>2 DEF WireInv, PathTypeOK
  <2>4. QED
    BY <2>1, <2>2, <2>3 DEF Serves
<1>2. LineIds' \subseteq LineIds /\ QueuedIds' \subseteq QueuedIds
  BY <1>1 DEF LineIds, QueuedIds
<1>3. NewestPort' = NewestPort
  BY DEF NewestPort
<1>4. /\ PortOrder'
      /\ \A s \in Sessions : \A c \in SentOn(s)' : \A r \in QueuedIds' \cup LineIds' : c < r
      /\ \A s \in Sessions : \A x \in Range(toFrame'[s]) :
           \/ x \in Range(toFrame[s])
           \/ x.requestId = e.requestId /\ x.generation = e.generation
  <2>1. CASE RepliesTo(e)
    <3>1. toFrame' = toFrame
      BY <2>1 DEF RepliesTo
    <3>2. PortOrder' /\ \A s \in Sessions : SentOn(s)' = SentOn(s)
      BY <1>3, <3>1 DEF PortOrder, SentOn
    <3>3. QED
      BY <1>2, <3>1, <3>2 DEF QueueOrder
  <2>2. CASE RendersTo(e)
    <3>1. frameSender = worker /\ worker # NoSession /\ handshakeDone
      BY <2>2 DEF RendersTo, WireInv, OnePort
    <3>2. frameSender = NewestPort
      BY <3>1 DEF NewestPort, WireInv, OneWorker
    <3>3. /\ PortOrder'
          /\ \A s \in Sessions : SentOn(s)' \subseteq SentOn(s) \cup {e.requestId}
          /\ \A s \in Sessions : \A x \in Range(toFrame'[s]) :
               \/ x \in Range(toFrame[s])
               \/ x.requestId = e.requestId /\ x.generation = e.generation
      BY <1>1, <1>3, <2>2, <3>2, CommandOrder
    <3>4. \A s \in Sessions : \A c \in SentOn(s)' : \A r \in QueuedIds' \cup LineIds' : c < r
      <4> TAKE s \in Sessions
      <4> TAKE c \in SentOn(s)'
      <4>1. CASE c = e.requestId
        BY <1>1, <2>2, <4>1
      <4>2. CASE c \in SentOn(s)
        BY <1>2, <4>2 DEF QueueOrder
      <4>3. QED
        BY <3>3, <4>1, <4>2
    <3>5. QED
      BY <3>3, <3>4
  <2>3. QED
    BY <2>1, <2>2 DEF Serves
<1>5. QueueOrder'
  BY <1>1, <1>2, <1>4 DEF QueueOrder
<1>6. \A x \in Travelling' :
        \E y \in Travelling : y.requestId = x.requestId /\ y.generation = x.generation
  <2> TAKE x \in Travelling'
  <2>1. e \in Travelling
    BY <1>1 DEF Travelling
  <2>2. CASE x \in Line' \cup Range(queued)'
    BY <1>1, <2>2 DEF Travelling
  <2>3. ASSUME NEW s \in Sessions, x \in Range(toFrame'[s])
        PROVE  \E y \in Travelling : y.requestId = x.requestId /\ y.generation = x.generation
    BY <1>4, <2>1, <2>3 DEF Travelling
  <2>4. QED
    BY <2>2, <2>3 DEF Travelling
<1>7. GenerationOrder'
  BY <1>6 DEF GenerationOrder
<1>8. QED
  BY <1>4, <1>5, <1>7

LEMMA OrderQueues ==
  ASSUME ClientInv, WireInv, OrderInv, NEW e \in Envelopes, Queues(e),
         UNCHANGED <<worker, sessions, handshakeDone, generation, nextRequestId,
                     awaitingAttach, posting>>
  PROVE  OrderInv'
<1> USE DEF OrderInv
<1>1. FromChannel(e) /\ queued' = Append(queued, e) /\ toFrame' = toFrame
  BY DEF Queues
<1>2. Line = Line' \cup {e} /\ LineIds = LineIds' \cup {e.requestId}
  BY <1>1, LineShrinks
<1>3. \A r \in LineIds' : e.requestId < r
  BY <1>1, ChannelHeadIsOldest
<1>4. queued \in Seq(Envelopes)
  BY DEF WireInv, PathTypeOK
<1> HIDE DEF Envelopes
<1>5. Range(queued)' = Range(queued) \cup {e}
  BY <1>1, <1>4, RangeAppend
<1>6. QueuedIds' = QueuedIds \cup {e.requestId}
  BY <1>5 DEF QueuedIds
<1>7. \A s \in Sessions : SentOn(s)' = SentOn(s)
  BY <1>1 DEF SentOn
<1>8. \A i, j \in DOMAIN queued' :
        i < j => queued'[i].requestId < queued'[j].requestId
  <2> SUFFICES ASSUME NEW i \in DOMAIN queued', NEW j \in DOMAIN queued', i < j
               PROVE  queued'[i].requestId < queued'[j].requestId
    OBVIOUS
  <2>1. /\ \A k \in DOMAIN queued' :
             (k \in DOMAIN queued /\ queued'[k] = queued[k]) \/ (k = Len(queued) + 1 /\ queued'[k] = e)
        /\ \A k \in DOMAIN queued : k \in Nat /\ k <= Len(queued)
        /\ Len(queued) \in Nat
    BY <1>1, <1>4
  <2>2. i \in DOMAIN queued /\ queued'[i] = queued[i]
    BY <2>1
  <2>3. queued[i].requestId \in QueuedIds
    BY <2>2 DEF QueuedIds, Range
  <2>4. CASE j \in DOMAIN queued /\ queued'[j] = queued[j]
    BY <2>2, <2>4 DEF QueueOrder
  <2>5. CASE queued'[j] = e
    BY <1>2, <2>2, <2>3, <2>5 DEF QueueOrder
  <2>6. QED
    BY <2>1, <2>4, <2>5
<1>9. QueueOrder'
  <2>1. \A q \in QueuedIds' : \A r \in LineIds' : q < r
    BY <1>2, <1>3, <1>6 DEF QueueOrder
  <2>2. \A s \in Sessions : \A c \in SentOn(s)' : \A r \in QueuedIds' \cup LineIds' : c < r
    BY <1>2, <1>6, <1>7 DEF QueueOrder
  <2>3. QED
    BY <1>8, <2>1, <2>2 DEF QueueOrder
<1>10. PortOrder'
  BY <1>1, <1>7 DEF PortOrder, NewestPort
<1>11. Travelling' \subseteq Travelling
  BY <1>1, <1>2, <1>5 DEF Travelling
<1>12. GenerationOrder'
  BY <1>11 DEF GenerationOrder
<1>13. QED
  BY <1>9, <1>10, <1>12

\* Nothing on the path moves, or the channel loses its attach message.
LEMMA OrderStays ==
  ASSUME OrderInv, Line' = Line, UNCHANGED <<queued, toFrame, nextRequestId, generation>>,
         NewestPort' = NewestPort
  PROVE  OrderInv'
<1>1. /\ LineIds' = LineIds /\ QueuedIds' = QueuedIds /\ Travelling' = Travelling
      /\ \A s \in Sessions : SentOn(s)' = SentOn(s)
  BY DEF LineIds, QueuedIds, Travelling, SentOn
<1>2. QueueOrder'
  BY <1>1 DEF OrderInv, QueueOrder
<1>3. PortOrder'
  BY <1>1 DEF OrderInv, PortOrder
<1>4. GenerationOrder'
  BY <1>1 DEF OrderInv, GenerationOrder
<1>5. QED
  BY <1>2, <1>3, <1>4 DEF OrderInv

LEMMA OrderWorker ==
  ASSUME ClientInv, WireInv, OrderInv, WorkerEffect
  PROVE  OrderInv'
<1>1. UNCHANGED <<worker, sessions, handshakeDone, generation, nextRequestId,
                  awaitingAttach, posting>>
  BY DEF WorkerEffect
<1>2. NewestPort' = NewestPort
  BY <1>1 DEF NewestPort
<1>3. ASSUME NEW e \in Envelopes, e.session = worker, Serves(e) \/ Queues(e)
      PROVE  OrderInv'
  BY <1>1, <1>3, OrderServes, OrderQueues
<1>4. ASSUME NEW m, Installs(m)
      PROVE  OrderInv'
  BY <1>1, <1>2, <1>4, LineTail, OrderStays DEF Installs
<1>5. ASSUME Announces \/ Rests \/ \E p : Relays(p)
      PROVE  OrderInv'
  BY <1>1, <1>2, <1>5, LineSame, OrderStays DEF Announces, Rests, Relays
<1>6. QED
  BY <1>3, <1>4, <1>5 DEF WorkerEffect

LEMMA OrderInvStep ==
  ASSUME ClientInv, WireInv, OrderInv, [SessionNext]_sessionVars
  PROVE  OrderInv'
<1>1. CASE ClientStep \/ HostReceives
  BY <1>1, ClientStepEffect, ClientKeepsInSession, OrderClient DEF ClientInv
<1>2. CASE WorkerStep \/ WorkerReceives \/ WorkerReceivesAck
  BY <1>2, WorkerStepEffect, OrderWorker
<1>3. CASE UNCHANGED <<clientVars, workerVars>>
  <2>1. /\ UNCHANGED <<awaitingAttach, posting, toWorker>>
        /\ UNCHANGED <<queued, toFrame, nextRequestId, generation>>
    BY <1>3 DEF clientVars, requestVars, stackVars, workerVars
  <2>2. NewestPort' = NewestPort
    BY <1>3 DEF clientVars, startupVars, NewestPort
  <2>3. QED
    BY <2>1, <2>2, LineSame, OrderStays
<1>4. QED
  BY <1>1, <1>2, <1>3, FrameEffect DEF SessionNext, sessionVars

LEMMA OrderInvInit == SessionInit => OrderInv
<1> SUFFICES ASSUME SessionInit PROVE OrderInv
  OBVIOUS
<1>1. /\ awaitingAttach = <<>> /\ posting = {} /\ toWorker = <<>> /\ queued = <<>>
      /\ toFrame = [s \in Sessions |-> <<>>]
  BY DEF SessionInit, ClientInit, WorkerInit
<1>2. Line = {} /\ Range(queued) = {} /\ \A s \in Sessions : Range(toFrame[s]) = {}
  BY <1>1 DEF Line, PreprocessIn, Range
<1>3. /\ LineIds = {} /\ QueuedIds = {} /\ Travelling = {}
      /\ \A s \in Sessions : SentOn(s) = {} /\ toFrame[s] = <<>>
  BY <1>1, <1>2 DEF LineIds, QueuedIds, Travelling, SentOn
<1>4. QED
  BY <1>1, <1>3 DEF OrderInv, QueueOrder, PortOrder, GenerationOrder

-----------------------------------------------------------------------------
(***************************************************************************
 The order in which ports reach the frame.
 ***************************************************************************)
\* Ports the frame has still to be given: held until it is ready, or posted.
Upcoming == Range(toFrameWindow) \cup ({pendingBootstrap} \ {NoSession})

PortsTypeOK ==
  /\ toFrameWindow \in Seq(Sessions)
  /\ pendingBootstrap \in SessionOrNone
  /\ receiver \in SessionOrNone
  /\ ready \in BOOLEAN

\* The frame is given ports in the order of their sessions, and reads no port
\* of an older session once it listens on a newer one.
PortsInOrder ==
  /\ ready \/ (toFrameWindow = <<>> /\ receiver = NoSession)
  /\ ready => pendingBootstrap = NoSession
  /\ receiver <= NewestPort
  /\ \A u \in Upcoming : u <= NewestPort /\ receiver < u
  /\ \A i, j \in DOMAIN toFrameWindow : i < j => toFrameWindow[i] < toFrameWindow[j]
  /\ \A s \in Sessions : portRead[s] > 0 =>
       /\ s <= NewestPort
       /\ receiver # NoSession => s <= receiver
       /\ \A u \in Upcoming : s < u

PortsInv == PortsTypeOK /\ PortsInOrder

LEMMA UpcomingTypes ==
  ASSUME PortsTypeOK
  PROVE  Upcoming \subseteq Sessions /\ Upcoming \subseteq Nat
<1>1. Range(toFrameWindow) \subseteq Sessions
  BY RangeType DEF PortsTypeOK
<1>2. QED
  BY <1>1, BoundsAssumption DEF Upcoming, PortsTypeOK

\* The client goes on: ports are only added to those handed out.
LEMMA PortsStay ==
  ASSUME ClientInv, PortsInv, NewestPort' >= NewestPort, NewestPort' \in Int,
         UNCHANGED <<ready, toFrameWindow, pendingBootstrap, receiver, portRead>>
  PROVE  PortsInv'
<1>1. Upcoming' = Upcoming
  BY DEF Upcoming
<1>2. PortsTypeOK'
  BY DEF PortsInv, PortsTypeOK
<1>3. /\ NewestPort \in Int /\ receiver \in Nat /\ Upcoming \subseteq Nat
      /\ Sessions \subseteq Nat
  BY NewestPortType, UpcomingTypes, BoundsAssumption DEF PortsInv, PortsTypeOK
<1>4. receiver' <= NewestPort'
  BY <1>3 DEF PortsInv, PortsInOrder
<1>5. \A u \in Upcoming' : u <= NewestPort' /\ receiver' < u
  BY <1>1, <1>3 DEF PortsInv, PortsInOrder
<1>6. \A s \in Sessions : portRead'[s] > 0 =>
        /\ s <= NewestPort'
        /\ receiver' # NoSession => s <= receiver'
        /\ \A u \in Upcoming' : s < u
  BY <1>1, <1>3 DEF PortsInv, PortsInOrder
<1>7. /\ ready' \/ (toFrameWindow' = <<>> /\ receiver' = NoSession)
      /\ ready' => pendingBootstrap' = NoSession
      /\ \A i, j \in DOMAIN toFrameWindow' : i < j => toFrameWindow'[i] < toFrameWindow'[j]
  BY DEF PortsInv, PortsInOrder
<1>8. QED
  BY <1>2, <1>4, <1>5, <1>6, <1>7 DEF PortsInv, PortsInOrder

\* The port of the newest session goes behind every other.
LEMMA PortsAttach ==
  ASSUME ClientInv, WireInv, PortsInv, Attaches
  PROVE  PortsInv'
<1>1. /\ worker # NoSession /\ UNCHANGED <<worker, sessions>>
      /\ ~handshakeDone /\ handshakeDone'
      /\ HostAttachesPort(worker)
  BY DEF Attaches
<1>2. sessions \in Nat /\ worker = sessions /\ worker \in Sessions
  BY <1>1, BoundsAssumption DEF ClientInv, SafetyInv, ClientTypeOK, WireInv, OneWorker
<1>3. NewestPort = worker - 1 /\ NewestPort' = worker
  BY <1>1, <1>2 DEF NewestPort
<1>4. UNCHANGED <<ready, receiver, portRead>>
  BY <1>1 DEF HostAttachesPort, frameSideVars
<1>5. \/ UNCHANGED <<pendingBootstrap, toFrameWindow>>
      \/ ~ready /\ pendingBootstrap' = worker /\ toFrameWindow' = toFrameWindow
      \/ ready /\ pendingBootstrap' = NoSession /\ toFrameWindow' = toFrameWindow
      \/ /\ ready /\ pendingBootstrap' = NoSession
         /\ toFrameWindow' = Append(toFrameWindow, worker)
  BY <1>1 DEF HostAttachesPort, AttachPort
<1>6. /\ toFrameWindow \in Seq(Sessions) /\ receiver \in Nat /\ Upcoming \subseteq Nat
      /\ Sessions \subseteq Nat /\ PortsInOrder
  BY UpcomingTypes, BoundsAssumption DEF PortsInv, PortsTypeOK
<1> HIDE DEF Sessions
<1>7. Range(Append(toFrameWindow, worker)) = Range(toFrameWindow) \cup {worker}
      /\ Append(toFrameWindow, worker) \in Seq(Sessions)
  BY <1>2, <1>6, RangeAppend
<1>8. Upcoming' \subseteq Upcoming \cup {worker}
  BY <1>5, <1>7 DEF Upcoming
<1>9. PortsTypeOK'
  <2>1. toFrameWindow' \in Seq(Sessions)
    BY <1>5, <1>6, <1>7
  <2>2. worker \in SessionOrNone /\ NoSession \in SessionOrNone
    BY <1>2, BoundsAssumption DEF ClientInv, SafetyInv, ClientTypeOK
  <2>3. pendingBootstrap' \in SessionOrNone /\ receiver' \in SessionOrNone /\ ready' \in BOOLEAN
    BY <1>4, <1>5, <2>2 DEF PortsInv, PortsTypeOK
  <2>4. QED
    BY <2>1, <2>3 DEF PortsTypeOK
<1>10. /\ ready' \/ (toFrameWindow' = <<>> /\ receiver' = NoSession)
       /\ ready' => pendingBootstrap' = NoSession
  BY <1>4, <1>5, <1>6 DEF PortsInOrder
<1>11. receiver' <= NewestPort' /\ receiver' < worker
  BY <1>2, <1>3, <1>4, <1>6 DEF PortsInOrder
<1>12. \A u \in Upcoming : u <= NewestPort' /\ receiver' < u /\ u < worker
  BY <1>2, <1>3, <1>4, <1>6 DEF PortsInOrder
<1>13. \A s \in Sessions : portRead'[s] > 0 =>
         /\ s <= NewestPort' /\ s < worker
         /\ receiver' # NoSession => s <= receiver'
         /\ \A u \in Upcoming : s < u
  BY <1>2, <1>3, <1>4, <1>6 DEF PortsInOrder
<1>14. \A i, j \in DOMAIN toFrameWindow' : i < j => toFrameWindow'[i] < toFrameWindow'[j]
  <2>1. CASE toFrameWindow' = toFrameWindow
    BY <1>6, <2>1 DEF PortsInOrder
  <2>2. CASE toFrameWindow' = Append(toFrameWindow, worker)
    <3> SUFFICES ASSUME NEW i \in DOMAIN toFrameWindow', NEW j \in DOMAIN toFrameWindow', i < j
                 PROVE  toFrameWindow'[i] < toFrameWindow'[j]
      OBVIOUS
    <3>1. /\ \A k \in DOMAIN toFrameWindow' :
               \/ k \in DOMAIN toFrameWindow /\ toFrameWindow'[k] = toFrameWindow[k]
               \/ k = Len(toFrameWindow) + 1 /\ toFrameWindow'[k] = worker
          /\ \A k \in DOMAIN toFrameWindow : k \in Nat /\ k <= Len(toFrameWindow)
          /\ Len(toFrameWindow) \in Nat
      BY <1>2, <1>6, <2>2
    <3>2. i \in DOMAIN toFrameWindow /\ toFrameWindow'[i] = toFrameWindow[i]
      BY <3>1
    <3>3. toFrameWindow[i] < worker
      BY <1>12, <3>2 DEF Upcoming, Range
    <3>4. QED
      BY <1>6, <3>1, <3>2, <3>3 DEF PortsInOrder
  <2>3. QED
    BY <1>5, <2>1, <2>2
<1>15. \A u \in Upcoming' : u <= NewestPort' /\ receiver' < u
  BY <1>2, <1>3, <1>6, <1>8, <1>11, <1>12
<1>16. \A s \in Sessions : portRead'[s] > 0 =>
         /\ s <= NewestPort'
         /\ receiver' # NoSession => s <= receiver'
         /\ \A u \in Upcoming' : s < u
  BY <1>8, <1>13
<1>17. QED
  BY <1>9, <1>10, <1>11, <1>14, <1>15, <1>16 DEF PortsInv, PortsInOrder

LEMMA PortsShift ==
  ASSUME ClientInv, WireInv, PortsInv, Shifts, NewestPort' = NewestPort
  PROVE  PortsInv'
<1>1. /\ toFrameWindow \in Seq(Sessions) /\ receiver \in Nat /\ Upcoming \subseteq Nat
      /\ Sessions \subseteq Nat /\ PortsInOrder /\ NewestPort \in Int
      /\ pendingBootstrap \in SessionOrNone
      /\ portRead' = portRead
  BY UpcomingTypes, NewestPortType, BoundsAssumption DEF PortsInv, PortsTypeOK, Shifts
<1>2. CASE Loses
  <2>1. Upcoming' \subseteq Upcoming
    BY <1>2 DEF Loses, Upcoming, Range
  <2>2. PortsTypeOK'
    <3>1. toFrameWindow' \in Seq(Sessions)
      <4> HIDE DEF Sessions
      <4>1. <<>> \in Seq(Sessions)
        OBVIOUS
      <4>2. QED
        BY <1>1, <1>2, <4>1 DEF Loses
    <3>2. NoSession \in SessionOrNone
      BY BoundsAssumption
    <3>3. pendingBootstrap' \in SessionOrNone /\ receiver' \in SessionOrNone /\ ready' \in BOOLEAN
      BY <1>2, <3>2 DEF Loses, PortsInv, PortsTypeOK
    <3>4. QED
      BY <3>1, <3>3 DEF PortsTypeOK
  <2>3. /\ ready' \/ (toFrameWindow' = <<>> /\ receiver' = NoSession)
        /\ ready' => pendingBootstrap' = NoSession
    BY <1>1, <1>2 DEF Loses, PortsInOrder
  <2>4. \A i, j \in DOMAIN toFrameWindow' : i < j => toFrameWindow'[i] < toFrameWindow'[j]
    BY <1>1, <1>2 DEF Loses, PortsInOrder
  <2>5. receiver' <= NewestPort' /\ \A u \in Upcoming' : u <= NewestPort' /\ receiver' < u
    <3>1. NoSession <= NewestPort
      BY NewestPortNat
    <3>2. \A u \in Upcoming : u <= NewestPort /\ receiver < u /\ NoSession < u
      BY <1>1 DEF PortsInOrder
    <3>3. QED
      BY <1>1, <1>2, <2>1, <3>1, <3>2 DEF Loses, PortsInOrder
  <2>6. \A s \in Sessions : portRead'[s] > 0 =>
          /\ s <= NewestPort'
          /\ receiver' # NoSession => s <= receiver'
          /\ \A u \in Upcoming' : s < u
    BY <1>1, <1>2, <2>1 DEF Loses, PortsInOrder
  <2>7. QED
    BY <2>2, <2>3, <2>4, <2>5, <2>6 DEF PortsInv, PortsInOrder
<1>3. CASE PostsHeldPort
  <2>1. /\ ~ready /\ ready' = TRUE /\ pendingBootstrap' = NoSession
        /\ receiver' = receiver /\ toFrameWindow = <<>>
        /\ \/ toFrameWindow' = <<>>
           \/ pendingBootstrap # NoSession /\ toFrameWindow' = <<pendingBootstrap>>
    <3>1. /\ ~ready /\ ready' = TRUE /\ pendingBootstrap' = NoSession
          /\ receiver' = receiver
          /\ \/ toFrameWindow' = toFrameWindow
             \/ /\ pendingBootstrap # NoSession
                /\ toFrameWindow' = Append(toFrameWindow, pendingBootstrap)
      BY <1>3 DEF PostsHeldPort
    <3>2. toFrameWindow = <<>>
      BY <1>1, <3>1 DEF PortsInOrder
    <3>3. Append(<<>>, pendingBootstrap) = <<pendingBootstrap>>
      OBVIOUS
    <3>4. QED
      BY <3>1, <3>2, <3>3
  <2>2. Upcoming' \subseteq Upcoming
    BY <2>1 DEF Upcoming, Range
  <2>3. pendingBootstrap # NoSession => pendingBootstrap \in Sessions
    BY <1>1
  <2>4. PortsTypeOK'
    <3>1. toFrameWindow' \in Seq(Sessions)
      <4> HIDE DEF Sessions
      <4>1. <<>> \in Seq(Sessions)
        OBVIOUS
      <4>2. pendingBootstrap \in Sessions => <<pendingBootstrap>> \in Seq(Sessions)
        OBVIOUS
      <4>3. QED
        BY <2>1, <2>3, <4>1, <4>2
    <3>2. NoSession \in SessionOrNone /\ receiver \in SessionOrNone
      BY BoundsAssumption DEF PortsInv, PortsTypeOK
    <3>3. QED
      BY <2>1, <3>1, <3>2 DEF PortsTypeOK
  <2>5. \A i, j \in DOMAIN toFrameWindow' : i < j => toFrameWindow'[i] < toFrameWindow'[j]
    BY <2>1
  <2>6. /\ receiver' <= NewestPort'
        /\ \A u \in Upcoming' : u <= NewestPort' /\ receiver' < u
        /\ \A s \in Sessions : portRead'[s] > 0 =>
             /\ s <= NewestPort'
             /\ receiver' # NoSession => s <= receiver'
             /\ \A u \in Upcoming' : s < u
    BY <1>1, <2>1, <2>2 DEF PortsInOrder
  <2>7. QED
    BY <2>1, <2>4, <2>5, <2>6 DEF PortsInv, PortsInOrder
<1>4. CASE TakesPort
  <2> DEFINE h == Head(toFrameWindow)
  <2>1. /\ toFrameWindow # <<>> /\ receiver' = h
        /\ toFrameWindow' = Tail(toFrameWindow)
        /\ UNCHANGED <<ready, pendingBootstrap>>
    BY <1>4 DEF TakesPort
  <2> HIDE DEF Sessions
  <2>2. /\ h = toFrameWindow[1] /\ 1 \in DOMAIN toFrameWindow
        /\ h \in Sessions
        /\ toFrameWindow' \in Seq(Sessions)
        /\ \A i \in DOMAIN toFrameWindow' :
             i \in Nat /\ i > 0 /\ i + 1 \in DOMAIN toFrameWindow /\ toFrameWindow'[i] = toFrameWindow[i + 1]
    BY <1>1, <2>1
  <2>3. Range(toFrameWindow) = Range(toFrameWindow)' \cup {h}
    BY <1>1, <2>1, RangeTail
  <2> HIDE DEF h
  <2>4. ready /\ pendingBootstrap = NoSession
    BY <1>1, <2>1 DEF PortsInOrder
  <2>5. Upcoming' \subseteq Upcoming /\ h \in Upcoming /\ Upcoming' = Range(toFrameWindow)'
    BY <2>1, <2>3, <2>4 DEF Upcoming
  <2>6. \A i, j \in DOMAIN toFrameWindow : i < j => toFrameWindow[i] < toFrameWindow[j]
    BY <1>1 DEF PortsInOrder
  <2>7. \A u \in Upcoming' : h < u
    <3> SUFFICES ASSUME NEW i \in DOMAIN toFrameWindow'
                 PROVE  h < toFrameWindow'[i]
      BY <2>5 DEF Range
    <3>1. 1 < i + 1
      BY <2>2
    <3>2. QED
      BY <2>2, <2>6, <3>1
  <2>8. \A i, j \in DOMAIN toFrameWindow' : i < j => toFrameWindow'[i] < toFrameWindow'[j]
    <3> SUFFICES ASSUME NEW i \in DOMAIN toFrameWindow', NEW j \in DOMAIN toFrameWindow', i < j
                 PROVE  toFrameWindow'[i] < toFrameWindow'[j]
      OBVIOUS
    <3>1. i + 1 < j + 1
      BY <2>2
    <3>2. QED
      BY <2>2, <2>6, <3>1
  <2>9. PortsTypeOK'
    <3>1. receiver' \in SessionOrNone
      BY <2>1, <2>2 DEF Sessions
    <3>2. QED
      BY <2>1, <2>2, <3>1 DEF PortsInv, PortsTypeOK
  <2>10. receiver' <= NewestPort' /\ \A u \in Upcoming' : u <= NewestPort' /\ receiver' < u
    BY <1>1, <2>1, <2>5, <2>7 DEF PortsInOrder
  <2>11. \A s \in Sessions : portRead'[s] > 0 =>
           /\ s <= NewestPort'
           /\ receiver' # NoSession => s <= receiver'
           /\ \A u \in Upcoming' : s < u
    BY <1>1, <2>1, <2>5 DEF PortsInOrder
  <2>12. QED
    BY <2>1, <2>4, <2>8, <2>9, <2>10, <2>11 DEF PortsInv, PortsInOrder
<1>5. QED
  BY <1>2, <1>3, <1>4 DEF Shifts

LEMMA PortsTake ==
  ASSUME ClientInv, WireInv, PortsInv, NEW s \in Sessions, Takes(s),
         NewestPort' = NewestPort
  PROVE  PortsInv'
<1>1. /\ receiver = s /\ portRead' = [portRead EXCEPT ![s] = @ + 1]
      /\ UNCHANGED <<ready, pendingBootstrap, toFrameWindow, receiver>>
      /\ portRead \in [Sessions -> Nat]
  BY DEF Takes, WireInv, PathTypeOK
<1>2. Upcoming' = Upcoming
  BY <1>1 DEF Upcoming
<1>3. PortsTypeOK'
  BY <1>1 DEF PortsInv, PortsTypeOK
<1>4. /\ s <= NewestPort /\ (\A u \in Upcoming : s < u)
      /\ s \in Nat
  BY <1>1, BoundsAssumption DEF PortsInv, PortsInOrder
<1>5. \A t \in Sessions : portRead'[t] > 0 =>
        /\ t <= NewestPort'
        /\ receiver' # NoSession => t <= receiver'
        /\ \A u \in Upcoming' : t < u
  <2> TAKE t \in Sessions
  <2>1. CASE t = s
    BY <1>1, <1>2, <1>4, <2>1
  <2>2. CASE t # s
    <3>1. portRead'[t] = portRead[t]
      BY <1>1, <2>2
    <3>2. QED
      BY <1>1, <1>2, <3>1 DEF PortsInv, PortsInOrder
  <2>3. QED
    BY <2>1, <2>2
<1>6. QED
  BY <1>1, <1>2, <1>3, <1>5 DEF PortsInv, PortsInOrder

LEMMA PortsInvStep ==
  ASSUME ClientInv, WireInv, PortsInv, [SessionNext]_sessionVars
  PROVE  PortsInv'
<1>1. CASE ClientStep \/ HostReceives
  <2>1. ClientEffect
    BY <1>1, ClientStepEffect
  <2>2. NewestPort' >= NewestPort /\ NewestPort' \in Int
    BY <2>1, NewestPortGrows
  <2>3. CASE UNCHANGED frameVars
    BY <2>2, <2>3, PortsStay DEF frameVars, hostSideVars, frameSideVars
  <2>4. CASE Attaches
    BY <2>4, PortsAttach
  <2>5. QED
    BY <2>1, <2>3, <2>4 DEF ClientEffect, Ends, Continues
<1>2. NewestPort \in Int
  BY NewestPortType
<1>3. CASE WorkerStep \/ WorkerReceives \/ WorkerReceivesAck
  <2>1. /\ UNCHANGED <<worker, sessions, handshakeDone>>
        /\ UNCHANGED frameVars
    BY <1>3, WorkerStepEffect DEF WorkerEffect
  <2>2. NewestPort' = NewestPort
    BY <2>1 DEF NewestPort
  <2>3. QED
    BY <1>2, <2>1, <2>2, PortsStay DEF frameVars, hostSideVars, frameSideVars
<1>4. CASE HostFrameStep \/ FrameStep
  <2>1. UNCHANGED clientVars /\ (Shifts \/ \E s \in Sessions : Takes(s))
    BY <1>4, FrameEffect
  <2>2. NewestPort' = NewestPort
    BY <2>1 DEF clientVars, startupVars, NewestPort
  <2>3. QED
    BY <2>1, <2>2, PortsShift, PortsTake
<1>5. CASE UNCHANGED sessionVars
  <2>1. NewestPort' = NewestPort
    BY <1>5 DEF sessionVars, clientVars, startupVars, NewestPort
  <2>2. QED
    BY <1>2, <1>5, <2>1, PortsStay DEF sessionVars, frameVars, hostSideVars, frameSideVars
<1>6. QED
  BY <1>1, <1>3, <1>4, <1>5 DEF SessionNext

LEMMA PortsInvInit == SessionInit => PortsInv
<1> SUFFICES ASSUME SessionInit PROVE PortsInv
  OBVIOUS
<1>1. /\ ready = FALSE /\ pendingBootstrap = NoSession /\ toFrameWindow = <<>>
      /\ receiver = NoSession /\ portRead = [s \in Sessions |-> 0]
      /\ worker = NoSession /\ sessions = 0
  BY DEF SessionInit, FrameInit, ClientInit
<1>2. Upcoming = {} /\ NewestPort = 0
  BY <1>1 DEF Upcoming, Range, NewestPort
<1>3. PortsTypeOK
  <2> HIDE DEF Sessions
  <2>1. <<>> \in Seq(Sessions) /\ NoSession \in SessionOrNone
    BY BoundsAssumption
  <2>2. QED
    BY <1>1, <2>1 DEF PortsTypeOK
<1>4. QED
  BY <1>1, <1>2, <1>3 DEF PortsInv, PortsInOrder

-----------------------------------------------------------------------------
(***************************************************************************
 What the frame showed, it read, and in the order of the requests.
 ***************************************************************************)
ReadOn(s) == {toFrame[s][i].requestId : i \in 1..portRead[s]}

ShownWasRead ==
  /\ \A s \in Sessions : portRead[s] <= Len(toFrame[s]) /\ ShownBy(s) \subseteq ReadOn(s)
  /\ display # Blank => \E s \in Sessions : \E i \in 1..portRead[s] :
       /\ display.requestId = toFrame[s][i].requestId
       /\ display.generation = toFrame[s][i].generation

RenderedWasShown ==
  \A m \in Range(toHost) : IsReply(m) /\ m.status = "rendered" => m.requestId \in EverShown

ShownInv == ShownWasRead /\ RenderedWasShown

\* The Worker's log of a port only grows.
PortsGrow ==
  \A s \in Sessions :
    /\ Len(toFrame[s]) <= Len(toFrame'[s])
    /\ \A i \in DOMAIN toFrame[s] : toFrame'[s][i] = toFrame[s][i]

LEMMA WorkerPortsGrow ==
  ASSUME WireInv, WorkerEffect
  PROVE  PortsGrow
<1>1. toFrame \in [Sessions -> Seq(Commands)]
  BY DEF WireInv, PathTypeOK
<1>2. CASE toFrame' = toFrame
  BY <1>1, <1>2 DEF PortsGrow
<1>3. ASSUME NEW e \in Envelopes, RendersTo(e)
      PROVE  PortsGrow
  <2> DEFINE f == frameSender
             c == Command(NextSeq, e.requestId, e.generation)
  <2>1. f \in Sessions /\ toFrame' = [toFrame EXCEPT ![f] = Append(@, c)]
    BY <1>3 DEF RendersTo, WireInv, PathTypeOK
  <2> HIDE DEF f, c, Commands
  <2>2. /\ toFrame[f] \in Seq(Commands) /\ toFrame'[f] = Append(toFrame[f], c)
        /\ \A s \in Sessions : s # f => toFrame'[s] = toFrame[s]
        /\ \A s \in Sessions : Len(toFrame[s]) \in Nat
    BY <1>1, <2>1
  <2>3. /\ Len(toFrame'[f]) = Len(toFrame[f]) + 1
        /\ \A i \in DOMAIN toFrame[f] : toFrame'[f][i] = toFrame[f][i]
    BY <2>2
  <2>4. QED
    BY <2>1, <2>2, <2>3 DEF PortsGrow
<1>4. QED
  BY <1>2, <1>3 DEF WorkerEffect, Announces, Serves, Queues, Installs, Relays,
     Rests, RepliesTo

LEMMA ShownStays ==
  ASSUME WireInv, ShownWasRead, PortsGrow, UNCHANGED <<portRead, acks>>,
         display' \in {display, Blank}
  PROVE  ShownWasRead' /\ EverShown' = EverShown
<1>1. \A s \in Sessions : ShownBy(s)' = ShownBy(s)
  BY DEF ShownBy
<1>2. EverShown' = EverShown
  BY <1>1 DEF EverShown
<1>3. ASSUME NEW s \in Sessions
      PROVE  /\ portRead[s] <= Len(toFrame'[s])
             /\ \A i \in 1..portRead[s] : toFrame'[s][i] = toFrame[s][i]
  <2>1. /\ toFrame[s] \in Seq(Commands) /\ portRead[s] \in Nat
        /\ portRead[s] <= Len(toFrame[s])
    BY DEF WireInv, PathTypeOK, ShownWasRead
  <2> HIDE DEF Commands
  <2>2. \A i \in 1..portRead[s] : i \in DOMAIN toFrame[s]
    BY <2>1
  <2>3. Len(toFrame'[s]) >= Len(toFrame[s]) /\ Len(toFrame[s]) \in Nat
    BY <2>1 DEF PortsGrow
  <2>4. QED
    BY <2>1, <2>2, <2>3 DEF PortsGrow
<1>4. \A s \in Sessions : ReadOn(s)' = ReadOn(s)
  BY <1>3 DEF ReadOn
<1>5. \A s \in Sessions : portRead'[s] <= Len(toFrame'[s]) /\ ShownBy(s)' \subseteq ReadOn(s)'
  BY <1>1, <1>3, <1>4 DEF ShownWasRead
<1>6. display' # Blank =>
        \E s \in Sessions : \E i \in 1..portRead'[s] :
          /\ display'.requestId = toFrame'[s][i].requestId
          /\ display'.generation = toFrame'[s][i].generation
  BY <1>3 DEF ShownWasRead
<1>7. QED
  BY <1>2, <1>5, <1>6 DEF ShownWasRead

\* The command the frame would take next from the port of s.
NextOn(s) == toFrame[s][portRead[s] + 1]

LEMMA AcknowledgedBy ==
  ASSUME WireInv, NEW s \in Sessions, NEW c \in Commands, NEW b \in BOOLEAN,
         acks' = [acks EXCEPT ![s] = Append(@, Ack(c, b))]
  PROVE  /\ ShownBy(s)' = IF b THEN ShownBy(s) \cup {c.requestId} ELSE ShownBy(s)
         /\ \A t \in Sessions : t # s => ShownBy(t)' = ShownBy(t)
<1>1. acks[s] \in Seq(Acks) /\ acks'[s] = Append(acks[s], Ack(c, b))
      /\ \A t \in Sessions : t # s => acks'[t] = acks[t]
  BY DEF WireInv, PathTypeOK
<1>2. Ack(c, b) \in Acks /\ Ack(c, b).ok = b /\ Ack(c, b).requestId = c.requestId
  BY DEF Ack, Acks, Commands
<1> DEFINE n == Len(acks[s])
           a == Ack(c, b)
<1> HIDE DEF Acks, a
<1>3. /\ n \in Nat /\ DOMAIN acks[s] = 1..n /\ DOMAIN acks'[s] = 1..(n + 1)
      /\ acks'[s][n + 1] = a
      /\ \A i \in 1..n : acks'[s][i] = acks[s][i]
  BY <1>1, <1>2 DEF a
<1> HIDE DEF n
<1>4. 1..(n + 1) = (1..n) \cup {n + 1}
  BY <1>3
<1>5. a.ok = b /\ a.requestId = c.requestId
  BY <1>2 DEF a
<1>6. \A t \in Sessions : t # s => ShownBy(t)' = ShownBy(t)
  BY <1>1 DEF ShownBy
<1>7. CASE b
  <2>1. ShownBy(s)' \subseteq ShownBy(s) \cup {c.requestId}
    BY <1>3, <1>4, <1>5 DEF ShownBy
  <2>2. ShownBy(s) \subseteq ShownBy(s)'
    BY <1>3, <1>4 DEF ShownBy
  <2>3. c.requestId \in ShownBy(s)'
    BY <1>3, <1>4, <1>5, <1>7 DEF ShownBy
  <2>4. QED
    BY <1>6, <1>7, <2>1, <2>2, <2>3
<1>8. CASE ~b
  <2>1. ShownBy(s)' \subseteq ShownBy(s)
    BY <1>3, <1>4, <1>5, <1>8 DEF ShownBy
  <2>2. ShownBy(s) \subseteq ShownBy(s)'
    BY <1>3, <1>4 DEF ShownBy
  <2>3. QED
    BY <1>6, <1>8, <2>1, <2>2
<1>9. QED
  BY <1>7, <1>8

LEMMA ShownTakes ==
  ASSUME WireInv, ShownWasRead, NEW s \in Sessions, Takes(s), toFrame' = toFrame
  PROVE  /\ ShownWasRead'
         /\ \/ EverShown' = EverShown /\ display' \in {display, Blank}
            \/ /\ EverShown' = EverShown \cup {NextOn(s).requestId}
               /\ display' = Shown(s, NextOn(s))
<1> DEFINE c == NextOn(s)
<1>1. /\ portRead \in [Sessions -> Nat] /\ portRead[s] < Len(toFrame[s])
      /\ portRead' = [portRead EXCEPT ![s] = @ + 1]
      /\ toFrame[s] \in Seq(Commands)
  BY DEF Takes, WireInv, PathTypeOK
<1>2. c \in Commands
  BY TakesType DEF NextOn
<1>3. \/ UNCHANGED <<display, acks>>
      \/ display' = Shown(s, c) /\ acks' = [acks EXCEPT ![s] = Append(@, Ack(c, TRUE))]
      \/ /\ display' \in {display, Blank}
         /\ acks' = [acks EXCEPT ![s] = Append(@, Ack(c, FALSE))]
  BY DEF Takes, NextOn
<1>4. \/ /\ \A t \in Sessions : ShownBy(t)' = ShownBy(t)
         /\ display' \in {display, Blank}
      \/ /\ ShownBy(s)' = ShownBy(s) \cup {c.requestId}
         /\ \A t \in Sessions : t # s => ShownBy(t)' = ShownBy(t)
         /\ display' = Shown(s, c)
  <2> HIDE DEF c
  <2>1. CASE UNCHANGED <<display, acks>>
    BY <2>1 DEF ShownBy
  <2>2. CASE display' = Shown(s, c) /\ acks' = [acks EXCEPT ![s] = Append(@, Ack(c, TRUE))]
    BY <1>2, <2>2, AcknowledgedBy
  <2>3. CASE display' \in {display, Blank} /\ acks' = [acks EXCEPT ![s] = Append(@, Ack(c, FALSE))]
    BY <1>2, <2>3, AcknowledgedBy
  <2>4. QED
    BY <1>3, <2>1, <2>2, <2>3
<1>5. \/ EverShown' = EverShown /\ display' \in {display, Blank}
      \/ EverShown' = EverShown \cup {c.requestId} /\ display' = Shown(s, c)
  <2> HIDE DEF c
  <2>1. CASE \A t \in Sessions : ShownBy(t)' = ShownBy(t)
    <3>1. EverShown' = EverShown
      BY <2>1 DEF EverShown
    <3>2. ShownBy(s) \subseteq EverShown
      BY DEF EverShown
    <3>3. QED
      BY <1>4, <2>1, <3>1, <3>2
  <2>2. CASE ShownBy(s)' = ShownBy(s) \cup {c.requestId}
             /\ \A t \in Sessions : t # s => ShownBy(t)' = ShownBy(t)
    <3>1. EverShown' = EverShown \cup {c.requestId}
      BY <2>2 DEF EverShown
    <3>2. CASE display' = Shown(s, c)
      BY <3>1, <3>2
    <3>3. CASE \A t \in Sessions : ShownBy(t)' = ShownBy(t)
      BY <2>1, <3>3
    <3>4. QED
      BY <1>4, <3>1, <3>2, <3>3
  <2>3. QED
    BY <1>4, <2>1, <2>2
<1>6. /\ \A t \in Sessions : t # s => portRead'[t] = portRead[t]
      /\ portRead'[s] = portRead[s] + 1 /\ portRead[s] \in Nat
  BY <1>1
<1>7. \A t \in Sessions : portRead[t] <= portRead'[t] /\ portRead[t] \in Nat
      /\ portRead'[t] \in Nat
  BY <1>1, <1>6
<1>8. \A t \in Sessions : ReadOn(t) \subseteq ReadOn(t)'
  BY <1>7 DEF ReadOn
<1>9. c.requestId \in ReadOn(s)' /\ portRead'[s] \in 1..portRead'[s]
      /\ c = toFrame'[s][portRead'[s]]
  BY <1>6 DEF ReadOn, NextOn
<1>10. \A t \in Sessions : portRead'[t] <= Len(toFrame'[t])
  <2>1. Len(toFrame[s]) \in Nat
    BY <1>1
  <2>2. QED
    BY <1>1, <1>6, <2>1 DEF ShownWasRead
<1>11. \A t \in Sessions : ShownBy(t)' \subseteq ReadOn(t)'
  <2> HIDE DEF c
  <2>1. QED
    BY <1>4, <1>8, <1>9 DEF ShownWasRead
<1>12. display' # Blank =>
         \E t \in Sessions : \E i \in 1..portRead'[t] :
           /\ display'.requestId = toFrame'[t][i].requestId
           /\ display'.generation = toFrame'[t][i].generation
  <2>1. CASE display' \in {display, Blank}
    <3>1. \A t \in Sessions : \A i \in 1..portRead[t] : i \in 1..portRead'[t]
      BY <1>7
    <3>2. QED
      BY <2>1, <3>1 DEF ShownWasRead
  <2>2. CASE display' = Shown(s, c)
    <3> HIDE DEF c
    <3>1. display'.requestId = c.requestId /\ display'.generation = c.generation
      BY <2>2 DEF Shown
    <3>2. QED
      BY <1>9, <3>1
  <2>3. QED
    BY <1>5, <2>1, <2>2
<1>13. QED
  BY <1>5, <1>10, <1>11, <1>12 DEF ShownWasRead

LEMMA ShownWorker ==
  ASSUME ClientInv, WireInv, ShownInv, WorkerEffect
  PROVE  ShownInv' /\ EverShown' = EverShown /\ display' = display
<1>1. UNCHANGED <<portRead, acks, display>>
  BY DEF WorkerEffect, frameVars, frameSideVars
<1>2. ShownWasRead' /\ EverShown' = EverShown
  BY <1>1, WorkerPortsGrow, ShownStays DEF ShownInv
<1>3. toHost \in Seq(OwnMessages)
  BY DEF WireInv, PathTypeOK
<1>4. ASSUME NEW m \in OwnMessages, toHost' = Append(toHost, m),
             IsReply(m) /\ m.status = "rendered" => m.requestId \in EverShown
      PROVE  RenderedWasShown'
  <2>1. Range(toHost)' = Range(toHost) \cup {m}
    BY <1>3, <1>4, RangeAppend
  <2>2. QED
    BY <1>2, <1>4, <2>1 DEF ShownInv, RenderedWasShown, IsReply
<1>5. ASSUME toHost' = toHost
      PROVE  RenderedWasShown'
  <2>1. Range(toHost)' = Range(toHost)
    BY <1>5
  <2>2. QED
    BY <1>2, <2>1 DEF ShownInv, RenderedWasShown, IsReply
<1>6. ASSUME Announces
      PROVE  RenderedWasShown'
  <2>1. PICK m \in {Ready, Failed, CheckerReady(TRUE)} : toHost' = Append(toHost, m)
    BY <1>6 DEF Announces
  <2>2. m \in OwnMessages /\ ~IsReply(m)
    BY DEF OwnMessages, IsReply, Ready, Failed, CheckerReady
  <2>3. IsReply(m) /\ m.status = "rendered" => m.requestId \in EverShown
    BY <2>2 DEF IsReply
  <2>4. QED
    BY <1>4, <2>1, <2>2, <2>3
<1>7. ASSUME NEW m, m.session = worker, Installs(m)
      PROVE  RenderedWasShown'
  <2>1. toHost' = Append(toHost, FrameAttached(m.session)) /\ m.session \in Sessions
    <3>1. worker \in SessionOrNone /\ worker # NoSession
      BY DEF ClientInv, SafetyInv, ClientTypeOK, WorkerEffect
    <3>2. QED
      BY <1>7, <3>1 DEF Installs
  <2>2. FrameAttached(m.session) \in OwnMessages /\ ~IsReply(FrameAttached(m.session))
    BY <2>1 DEF OwnMessages, IsReply, FrameAttached
  <2>3. QED
    BY <1>4, <2>1, <2>2
<1>8. ASSUME NEW e, RepliesTo(e)
      PROVE  RenderedWasShown'
  <2>1. PICK m \in OwnReplies : m.status # "rendered" /\ toHost' = Append(toHost, m)
    BY <1>8 DEF RepliesTo
  <2>2. QED
    BY <1>4, <2>1 DEF OwnMessages
<1>9. ASSUME NEW p, Relays(p)
      PROVE  RenderedWasShown'
  <2>1. PICK m \in OwnReplies :
          /\ m.requestId = p.command.requestId
          /\ m.status = "rendered" => p.command.requestId \in ShownBy(frameSender)
          /\ toHost' = Append(toHost, m)
    BY <1>9 DEF Relays
  <2>2. frameSender \in Sessions
    BY <1>9 DEF Relays, WireInv, OnePort, PathTypeOK
  <2>3. ShownBy(frameSender) \subseteq EverShown
    BY <2>2 DEF EverShown
  <2>4. QED
    BY <1>4, <2>1, <2>3 DEF OwnMessages
<1>10. RenderedWasShown'
  BY <1>5, <1>6, <1>7, <1>8, <1>9
  DEF WorkerEffect, Serves, Queues, Rests, RendersTo
<1>11. QED
  BY <1>1, <1>2, <1>10 DEF ShownInv

LEMMA ShownClient ==
  ASSUME WireInv, ShownInv, ClientEffect
  PROVE  ShownInv' /\ EverShown' = EverShown /\ display' = display
<1>1. UNCHANGED <<portRead, acks, display>>
  BY DEF ClientEffect, Ends, Continues, Attaches, HostAttachesPort, frameVars, frameSideVars
<1>2. toFrame' = toFrame
  BY DEF ClientEffect
<1>3. PortsGrow
  BY <1>2 DEF PortsGrow, WireInv, PathTypeOK
<1>4. ShownWasRead' /\ EverShown' = EverShown
  BY <1>1, <1>3, ShownStays DEF ShownInv
<1>5. Range(toHost)' \subseteq Range(toHost)
  <2>1. CASE toHost' = <<>>
    BY <2>1 DEF Range
  <2>2. CASE toHost' = toHost
    BY <2>2
  <2>3. CASE toHost # <<>> /\ toHost' = Tail(toHost)
    <3>1. toHost \in Seq(OwnMessages)
      BY DEF WireInv, PathTypeOK
    <3>2. QED
      BY <2>3, <3>1, RangeTail
  <2>4. QED
    BY <2>1, <2>2, <2>3 DEF ClientEffect, Ends, NoWorkerLeft, Continues, Keeps
<1>6. RenderedWasShown'
  BY <1>4, <1>5 DEF ShownInv, RenderedWasShown, IsReply
<1>7. QED
  BY <1>1, <1>4, <1>6 DEF ShownInv

LEMMA ShownFrame ==
  ASSUME WireInv, ShownInv, UNCHANGED <<clientVars, workerVars, ackRead>>,
         Shifts \/ \E s \in Sessions : Takes(s)
  PROVE  /\ ShownInv'
         /\ \/ EverShown' = EverShown /\ display' \in {display, Blank}
            \/ \E s \in Sessions :
                 /\ Takes(s)
                 /\ EverShown' = EverShown \cup {NextOn(s).requestId}
                 /\ display' = Shown(s, NextOn(s))
<1>1. toFrame' = toFrame /\ toHost' = toHost
  BY DEF workerVars
<1>2. /\ ShownWasRead'
      /\ \/ EverShown' = EverShown /\ display' \in {display, Blank}
         \/ \E s \in Sessions :
              /\ Takes(s)
              /\ EverShown' = EverShown \cup {NextOn(s).requestId}
              /\ display' = Shown(s, NextOn(s))
  <2>1. CASE Shifts
    <3>1. PortsGrow
      BY <1>1 DEF PortsGrow, WireInv, PathTypeOK
    <3>2. UNCHANGED <<portRead, acks>> /\ display' \in {display, Blank}
      BY <2>1 DEF Shifts, Loses, PostsHeldPort, TakesPort
    <3>3. QED
      BY <3>1, <3>2, ShownStays DEF ShownInv
  <2>2. ASSUME NEW s \in Sessions, Takes(s)
        PROVE  /\ ShownWasRead'
               /\ \/ EverShown' = EverShown /\ display' \in {display, Blank}
                  \/ \E t \in Sessions :
                       /\ Takes(t)
                       /\ EverShown' = EverShown \cup {NextOn(t).requestId}
                       /\ display' = Shown(t, NextOn(t))
    BY <1>1, <2>2, ShownTakes DEF ShownInv
  <2>3. QED
    BY <2>1, <2>2
<1>3. EverShown \subseteq EverShown'
  BY <1>2
<1>4. RenderedWasShown'
  BY <1>1, <1>3 DEF ShownInv, RenderedWasShown, IsReply
<1>5. QED
  BY <1>2, <1>4 DEF ShownInv

LEMMA ShownInvStep ==
  ASSUME ClientInv, WireInv, ShownInv, [SessionNext]_sessionVars
  PROVE  ShownInv'
<1>1. CASE ClientStep \/ HostReceives
  BY <1>1, ClientStepEffect, ShownClient
<1>2. CASE WorkerStep \/ WorkerReceives \/ WorkerReceivesAck
  BY <1>2, WorkerStepEffect, ShownWorker
<1>3. CASE HostFrameStep \/ FrameStep
  <2>1. /\ UNCHANGED <<clientVars, workerVars, ackRead>>
        /\ Shifts \/ \E s \in Sessions : Takes(s)
    BY <1>3, FrameEffect
  <2>2. QED
    BY <2>1, ShownFrame
<1>4. CASE UNCHANGED sessionVars
  <2>1. /\ UNCHANGED <<toFrame, toHost, portRead, acks, display>>
    BY <1>4 DEF sessionVars, workerVars, frameVars, frameSideVars
  <2>2. PortsGrow
    BY <2>1 DEF PortsGrow, WireInv, PathTypeOK
  <2>3. ShownWasRead' /\ EverShown' = EverShown
    BY <2>1, <2>2, ShownStays DEF ShownInv
  <2>4. QED
    BY <2>1, <2>3 DEF ShownInv, RenderedWasShown, IsReply
<1>5. QED
  BY <1>1, <1>2, <1>3, <1>4 DEF SessionNext

LEMMA ShownInvInit == SessionInit => ShownInv
<1> SUFFICES ASSUME SessionInit PROVE ShownInv
  OBVIOUS
<1>1. /\ toHost = <<>> /\ toFrame = [s \in Sessions |-> <<>>]
      /\ portRead = [s \in Sessions |-> 0] /\ acks = [s \in Sessions |-> <<>>]
      /\ display = Blank
  BY DEF SessionInit, WorkerInit, FrameInit
<1>2. Range(toHost) = {}
  BY <1>1 DEF Range
<1>3. \A s \in Sessions : ShownBy(s) = {} /\ portRead[s] = 0 /\ Len(toFrame[s]) = 0
  BY <1>1 DEF ShownBy
<1>4. QED
  BY <1>1, <1>2, <1>3 DEF ShownInv, ShownWasRead, RenderedWasShown

\* The inductive invariant of the whole path.
PathInv == ClientInv /\ WireInv /\ OrderInv /\ PortsInv /\ ShownInv

LEMMA PathInvHolds == SessionSpec => []PathInv
<1>1. SessionInit => OrderInv /\ PortsInv /\ ShownInv
  BY OrderInvInit, PortsInvInit, ShownInvInit
<1>2. /\ ClientInv /\ WireInv /\ OrderInv /\ PortsInv /\ ShownInv
      /\ (ClientInv /\ WireInv)'
      /\ [SessionNext]_sessionVars
      => (OrderInv /\ PortsInv /\ ShownInv)'
  BY OrderInvStep, PortsInvStep, ShownInvStep
<1>3. SessionSpec => [](ClientInv /\ WireInv)
  BY WireInvHolds
<1>4. QED
  BY <1>1, <1>2, <1>3, PTL DEF SessionSpec, PathInv

-----------------------------------------------------------------------------
(***************************************************************************
 The display.
 ***************************************************************************)
LEMMA ReadWasSent ==
  ASSUME WireInv, ShownWasRead, NEW t \in Sessions, NEW i \in 1..portRead[t]
  PROVE  /\ portRead[t] \in Nat /\ i \in Nat /\ 0 < i /\ i <= portRead[t]
         /\ i \in DOMAIN toFrame[t]
         /\ toFrame[t][i] \in Commands
<1>1. portRead[t] \in Nat /\ toFrame[t] \in Seq(Commands)
  BY DEF WireInv, PathTypeOK
<1>2. portRead[t] <= Len(toFrame[t])
  BY DEF ShownWasRead
<1> HIDE DEF Commands
<1>3. Len(toFrame[t]) \in Nat /\ DOMAIN toFrame[t] = 1..Len(toFrame[t])
  BY <1>1
<1>4. i \in DOMAIN toFrame[t]
  BY <1>1, <1>2, <1>3
<1>5. QED
  BY <1>1, <1>4

\* The command the frame takes is of a later request than every one it took
\* before, on whatever port, and of no earlier document.
LEMMA NextIsNewest ==
  ASSUME PathInv, NEW s \in Sessions, Takes(s),
         NEW t \in Sessions, NEW i \in 1..portRead[t]
  PROVE  /\ toFrame[t][i].requestId < NextOn(s).requestId
         /\ toFrame[t][i].generation <= NextOn(s).generation
<1> USE DEF PathInv
<1> DEFINE c == NextOn(s)
           d == toFrame[t][i]
<1>1. /\ portRead[t] \in Nat /\ i \in Nat /\ i > 0 /\ i <= portRead[t]
  BY ReadWasSent DEF ShownInv
<1>2. i \in DOMAIN toFrame[t]
  BY ReadWasSent DEF ShownInv
<1>3. /\ portRead[s] + 1 \in DOMAIN toFrame[s] /\ c \in Commands
  BY TakesType DEF NextOn
<1>4. portRead[t] > 0
  BY <1>1
<1>5. receiver = s /\ t <= s
  BY <1>4, BoundsAssumption DEF Takes, PortsInv, PortsInOrder
<1>6. d.requestId \in SentOn(t) /\ c.requestId \in SentOn(s)
  BY <1>2, <1>3 DEF SentOn, Range, NextOn
<1>7. d.requestId < c.requestId
  <2>1. CASE t = s
    <3>1. i < portRead[s] + 1
      BY <1>1, <2>1
    <3>2. QED
      BY <1>2, <1>3, <2>1, <3>1 DEF OrderInv, PortOrder, NextOn
  <2>2. CASE t < s
    BY <1>6, <2>2 DEF OrderInv, PortOrder
  <2>3. QED
    BY <1>5, <2>1, <2>2, BoundsAssumption
<1>8. d \in Travelling /\ c \in Travelling
  BY <1>2, <1>3 DEF Travelling, Range, NextOn
<1>9. d.generation <= c.generation
  BY <1>7, <1>8 DEF OrderInv, GenerationOrder
<1>10. QED
  BY <1>7, <1>9

\* What one step does to the display: it is blanked, or it moves on.
LEMMA DisplayStep ==
  ASSUME PathInv, [SessionNext]_sessionVars
  PROVE  \/ EverShown' = EverShown /\ display' \in {display, Blank}
         \/ /\ HostFrameStep \/ FrameStep
            /\ \E s \in Sessions :
                 /\ Takes(s)
                 /\ EverShown' = EverShown \cup {NextOn(s).requestId}
                 /\ display' = Shown(s, NextOn(s))
<1> USE DEF PathInv
<1>1. CASE ClientStep \/ HostReceives
  BY <1>1, ClientStepEffect, ShownClient
<1>2. CASE WorkerStep \/ WorkerReceives \/ WorkerReceivesAck
  BY <1>2, WorkerStepEffect, ShownWorker
<1>3. CASE HostFrameStep \/ FrameStep
  <2>1. /\ UNCHANGED <<clientVars, workerVars, ackRead>>
        /\ Shifts \/ \E s \in Sessions : Takes(s)
    BY <1>3, FrameEffect
  <2>2. QED
    BY <1>3, <2>1, ShownFrame
<1>4. CASE UNCHANGED sessionVars
  BY <1>4 DEF sessionVars, frameVars, frameSideVars, EverShown, ShownBy
<1>5. QED
  BY <1>1, <1>2, <1>3, <1>4 DEF SessionNext

\* Across Workers, ports and late commands, the display only moves to a newer
\* request and never to an older document (host.js, frame-channel.js and
\* policy-client.js together).
THEOREM DisplayNeverGoesBackHolds == SessionSpec => DisplayNeverGoesBack
<1>1. PathInv /\ [SessionNext]_sessionVars
        => [display' # display /\ display' # Blank =>
              /\ display'.requestId > display.requestId
              /\ display'.generation >= display.generation]_sessionVars
  <2> SUFFICES ASSUME PathInv, [SessionNext]_sessionVars,
                      display' # display, display' # Blank
               PROVE  /\ display'.requestId > display.requestId
                      /\ display'.generation >= display.generation
    OBVIOUS
  <2>1. PICK s \in Sessions : Takes(s) /\ display' = Shown(s, NextOn(s))
    BY DisplayStep
  <2>2. NextOn(s) \in Commands
    BY <2>1, TakesType DEF PathInv, NextOn
  <2>3. /\ NextOn(s).requestId \in Nat /\ NextOn(s).requestId > 0
        /\ NextOn(s).generation \in Nat
    BY <2>2, BoundsAssumption DEF Commands
  <2>4. /\ display'.requestId = NextOn(s).requestId
        /\ display'.generation = NextOn(s).generation
    BY <2>1 DEF Shown
  <2>5. CASE display = Blank
    BY <2>3, <2>4, <2>5 DEF Blank
  <2>6. CASE display # Blank
    <3>1. PICK t \in Sessions : \E i \in 1..portRead[t] :
            /\ display.requestId = toFrame[t][i].requestId
            /\ display.generation = toFrame[t][i].generation
      BY <2>6 DEF PathInv, ShownInv, ShownWasRead
    <3>2. PICK i \in 1..portRead[t] :
            /\ display.requestId = toFrame[t][i].requestId
            /\ display.generation = toFrame[t][i].generation
      BY <3>1
    <3>3. /\ toFrame[t][i].requestId < NextOn(s).requestId
          /\ toFrame[t][i].generation <= NextOn(s).generation
      BY <2>1, NextIsNewest
    <3>4. toFrame[t][i].requestId \in Nat /\ toFrame[t][i].generation \in Nat
      <4>1. toFrame[t][i] \in Commands
        BY ReadWasSent DEF PathInv, ShownInv
      <4>2. QED
        BY <4>1, BoundsAssumption DEF Commands
    <3>5. QED
      BY <2>3, <2>4, <3>2, <3>3, <3>4
  <2>7. QED
    BY <2>5, <2>6
<1>2. QED
  BY <1>1, PathInvHolds, PTL DEF SessionSpec, DisplayNeverGoesBack

-----------------------------------------------------------------------------
(***************************************************************************
 What the callers of preprocess() see of a step.
 ***************************************************************************)
\* The next request is made; it ends at once when no Worker can be created.
Opens ==
  /\ nextRequestId \in Requests
  /\ nextRequestId' = nextRequestId + 1
  /\ outcome'[nextRequestId] \in Endings \cup {Unsettled}
  /\ \A r \in Requests \ {nextRequestId} : outcome'[r] = outcome[r]

\* A session that ends fails every pending request.
AllFail ==
  /\ nextRequestId' = nextRequestId
  /\ \A r \in Requests :
       IF r \in pending THEN outcome'[r] \in Endings ELSE outcome'[r] = outcome[r]

\* A reply settles its request, as rendered only if the frame showed it.
OneSettles(r) ==
  /\ nextRequestId' = nextRequestId
  /\ r \in pending
  /\ outcome'[r] \in Outcomes
  /\ outcome'[r] = "rendered" => r \in EverShown
  /\ \A q \in Requests \ {r} : outcome'[q] = outcome[q]

NothingSettles ==
  nextRequestId' = nextRequestId /\ \A r \in Requests : outcome'[r] = outcome[r]

CallerSees ==
  Opens \/ AllFail \/ NothingSettles \/ \E r \in Requests : OneSettles(r)

\* Whatever takes all pending requests away has failed them.
LEMMA EndingFailsAll ==
  ASSUME SafetyInv, SafetyInv', nextRequestId' = nextRequestId, pending' = {},
         \A r \in Requests :
           \/ outcome'[r] = outcome[r]
           \/ r \in pending \cup {nextRequestId} /\ outcome'[r] \in Endings
  PROVE  AllFail
<1> USE DEF SafetyInv, Bookkeeping, PendingXorSettled
<1>1. nextRequestId \in Nat /\ Requests \subseteq Nat
  BY BoundsAssumption DEF ClientTypeOK
<1>2. \A r \in Requests : Issued(r)' = Issued(r)
  BY DEF Issued
<1>3. Unsettled \notin Endings
  BY DEF Unsettled, Endings
<1>4. SUFFICES ASSUME NEW r \in Requests
               PROVE  IF r \in pending THEN outcome'[r] \in Endings ELSE outcome'[r] = outcome[r]
  BY DEF AllFail
<1>5. CASE r \in pending
  <2>1. Issued(r) /\ outcome[r] = Unsettled
    BY <1>5
  <2>2. outcome'[r] # Unsettled
    BY <1>2, <2>1
  <2>3. QED
    BY <1>5, <2>1, <2>2
<1>6. CASE r \notin pending
  <2>1. r = nextRequestId => ~Issued(r)
    BY <1>1 DEF Issued
  <2>2. r = nextRequestId => outcome'[r] = Unsettled
    BY <1>2, <2>1
  <2>3. QED
    BY <1>3, <1>6, <2>2
<1>7. QED
  BY <1>5, <1>6

LEMMA OwnStepSeen ==
  ASSUME SafetyInv, SafetyInv', CallerNext \/ HostNext
  PROVE  CallerSees
<1>1. \A r \in Requests :
        \/ outcome'[r] = outcome[r]
        \/ r \in pending \cup {nextRequestId} /\ outcome'[r] \in Endings
  BY OwnOutcomeStep
<1>2. CASE nextRequestId' = nextRequestId /\ pending' = {}
  BY <1>1, <1>2, EndingFailsAll DEF CallerSees
<1>3. CASE nextRequestId' = nextRequestId /\ outcome' = outcome
  BY <1>3 DEF CallerSees, NothingSettles
<1>4. CASE PreprocessFails
  <2>1. /\ nextRequestId \in Requests /\ nextRequestId' = nextRequestId + 1
        /\ outcome' = [outcome EXCEPT ![nextRequestId] = "worker-create-failed"]
    BY <1>4 DEF PreprocessFails
  <2>2. outcome \in [Requests -> Outcomes \cup {Unsettled}]
    BY DEF SafetyInv, ClientTypeOK
  <2>3. QED
    BY <2>1, <2>2 DEF CallerSees, Opens, Endings
<1>5. ASSUME NEW g, Preprocesses(g)
      PROVE  CallerSees
  <2>1. /\ nextRequestId \in Requests /\ nextRequestId' = nextRequestId + 1
        /\ outcome' = outcome
    BY <1>5 DEF Preprocesses
  <2>2. outcome[nextRequestId] = Unsettled
    <3>1. ~Issued(nextRequestId)
      BY <2>1, BoundsAssumption DEF Issued
    <3>2. QED
      BY <2>1, <3>1 DEF SafetyInv, Bookkeeping, PendingXorSettled
  <2>3. QED
    BY <2>1, <2>2 DEF CallerSees, Opens
<1>6. CASE CallerNext
  <2>1. CASE PublicStart \/ WhenReady \/ WhenCheckerReady \/ NextGeneration
    BY <1>3, <2>1 DEF PublicStart, WhenReady, WhenCheckerReady, NextGeneration, requestVars
  <2>2. CASE Dispose
    BY <1>2, <2>2 DEF Dispose, Terminate
  <2>3. QED
    BY <1>4, <1>5, <1>6, <2>1, <2>2 DEF CallerNext
<1>7. CASE HostNext
  <2>1. ASSUME NEW e, PostEnvelope(e)
        PROVE  CallerSees
    BY <1>3, <2>1 DEF PostEnvelope
  <2>2. ASSUME NEW e, PostThrows(e)
        PROVE  CallerSees
    BY <1>2, <2>2 DEF PostThrows, Terminate
  <2>3. CASE ReleaseNext \/ ReleaseEnds \/ CallbackReturns
    BY <1>3, <2>3 DEF ReleaseNext, ReleaseEnds, CallbackReturns, requestVars
  <2>4. ASSUME NEW q, RequestTimeout(q)
        PROVE  CallerSees
    BY <1>2, <2>4 DEF RequestTimeout, TerminateAll, Terminate
  <2>5. CASE HandshakeTimeout \/ CheckerTimeout \/ OnWorkerError
    BY <1>2, <2>5 DEF HandshakeTimeout, CheckerTimeout, OnWorkerError, TerminateAll, Terminate
  <2>6. QED
    BY <1>7, <2>1, <2>2, <2>3, <2>4, <2>5 DEF HostNext
<1>8. QED
  BY <1>6, <1>7

LEMMA MessageSeen ==
  ASSUME SafetyInv, SafetyInv', NEW m, OnMessage(m),
         IsReply(m) /\ m.status = "rendered" => m.requestId \in EverShown
  PROVE  CallerSees
<1>1. \A r \in Requests :
        \/ outcome'[r] = outcome[r]
        \/ r \in pending /\ outcome'[r] \in Endings
        \/ r \in pending /\ SettlesBy(r, m)
  BY MessageOutcome
<1>2. ASSUME SettleReply(m)
      PROVE  OneSettles(m.requestId)
  <2> DEFINE r == m.requestId
  <2>1. /\ IsReply(m) /\ r \in pending /\ nextRequestId' = nextRequestId
        /\ outcome' = [outcome EXCEPT ![r] = ReplyOutcome(m)]
    BY <1>2 DEF SettleReply, Matches
  <2>2. /\ outcome \in [Requests -> Outcomes \cup {Unsettled}]
        /\ pending \in SUBSET Requests
    BY DEF SafetyInv, ClientTypeOK
  <2>3. ReplyOutcome(m) \in Outcomes
    BY ReplyOutcomeType
  <2>4. ReplyOutcome(m) = "rendered" => m.status = "rendered"
    <3> SUFFICES ASSUME m.status # "rendered"
                 PROVE  ReplyOutcome(m) # "rendered"
      OBVIOUS
    <3>1. CASE m.status = "accepted"
      BY <3>1 DEF ReplyOutcome, AcceptedOutcome
    <3>2. CASE m.status # "accepted"
      BY <3>2 DEF ReplyOutcome, Rejections
    <3>3. QED
      BY <3>1, <3>2
  <2> HIDE DEF r
  <2>5. outcome'[r] = ReplyOutcome(m) /\ \A q \in Requests \ {r} : outcome'[q] = outcome[q]
    BY <2>1, <2>2
  <2>6. outcome'[r] = "rendered" => r \in EverShown
    BY <2>1, <2>4, <2>5 DEF r
  <2>7. OneSettles(r)
    BY <2>1, <2>3, <2>5, <2>6 DEF OneSettles
  <2>8. QED
    BY <2>7 DEF r
<1>3. CASE SettleReply(m)
  <2>1. m.requestId \in Requests
    BY <1>3 DEF SettleReply, Matches, SafetyInv, ClientTypeOK
  <2>2. QED
    BY <1>2, <1>3, <2>1 DEF CallerSees
<1>4. CASE ~SettleReply(m) /\ nextRequestId' = nextRequestId /\ pending' = {}
  BY <1>1, <1>4, EndingFailsAll DEF CallerSees, SettlesBy
<1>5. CASE nextRequestId' = nextRequestId /\ outcome' = outcome
  BY <1>5 DEF CallerSees, NothingSettles
<1>6. CASE OnReady(m) \/ OnFrameAttached(m) \/ OnCheckerReady(m) \/ Ignored(m)
  BY <1>5, <1>6 DEF OnReady, OnFrameAttached, OnCheckerReady, Ignored, clientVars, requestVars
<1>7. CASE OnReadyAttachFails(m) \/ OnStartupFailure(m) \/ FatalReply(m)
  BY <1>3, <1>4, <1>7 DEF OnReadyAttachFails, OnStartupFailure, FatalReply, TerminateAll, Terminate
<1>8. QED
  BY <1>3, <1>6, <1>7 DEF OnMessage

-----------------------------------------------------------------------------
(***************************************************************************
 The path implements the service.
 ***************************************************************************)
LEMMA ServiceStates ==
  ASSUME NEW r \in Requests
  PROVE  /\ ~Issued(r) => ServiceState(r) = "new"
         /\ Issued(r) /\ outcome[r] = Unsettled => ServiceState(r) = "open"
         /\ Issued(r) /\ outcome[r] # Unsettled =>
              ServiceState(r) = IF outcome[r] = "rendered" THEN "rendered" ELSE "failed"
         /\ ServiceState(r) = "new" => ~Issued(r)
  BY DEF ServiceState, Unsettled

LEMMA ServiceStatesNext ==
  ASSUME NEW r \in Requests
  PROVE  /\ ~Issued(r)' => ServiceState(r)' = "new"
         /\ Issued(r)' /\ outcome'[r] = Unsettled => ServiceState(r)' = "open"
         /\ Issued(r)' /\ outcome'[r] # Unsettled =>
              ServiceState(r)' = IF outcome'[r] = "rendered" THEN "rendered" ELSE "failed"
  BY DEF ServiceState, Unsettled

LEMMA ServiceStateKept ==
  ASSUME NEW r \in Requests, Issued(r)' = Issued(r), outcome'[r] = outcome[r]
  PROVE  ServiceState(r)' = ServiceState(r)
  BY DEF ServiceState

LEMMA ServiceOpens ==
  ASSUME PathInv, Opens, EverShown' = EverShown, display' = display,
         NEW n \in Requests, n = nextRequestId
  PROVE  Service!Submit(n)
<1>1. n \in Nat /\ Requests \subseteq Nat /\ nextRequestId' = n + 1
  BY BoundsAssumption DEF Opens
<1>2. /\ ~Issued(n) /\ Issued(n)'
      /\ \A q \in Requests : q < n => Issued(q)
      /\ \A q \in Requests \ {n} : Issued(q)' = Issued(q)
  BY <1>1 DEF Issued
<1>3. ServiceState(n)' \in {"open", "failed"}
  <2>1. outcome'[n] = Unsettled \/ (outcome'[n] # Unsettled /\ outcome'[n] # "rendered")
    BY DEF Opens, Endings, Unsettled
  <2>2. QED
    BY <1>1, <1>2, <2>1, ServiceStatesNext
<1>4. \A q \in Requests \ {n} : ServiceState(q)' = ServiceState(q)
  BY <1>2, ServiceStateKept DEF Opens
<1>5. /\ ServiceState(n) = "new"
      /\ \A q \in Requests : q < n => ServiceState(q) # "new"
  BY <1>1, <1>2, ServiceStates
<1>6. [r \in Requests |-> ServiceState(r)]' =
        [[r \in Requests |-> ServiceState(r)] EXCEPT ![n] = ServiceState(n)']
  BY <1>1, <1>4
<1>7. QED
  BY <1>3, <1>5, <1>6 DEF Service!Submit

LEMMA ServiceFails ==
  ASSUME PathInv, AllFail, EverShown' = EverShown, display' = display
  PROVE  Service!FailAll
<1>1. \A r \in Requests : Issued(r)' = Issued(r)
  BY DEF AllFail, Issued
<1>2. ASSUME NEW r \in Requests
      PROVE  ServiceState(r)' = IF ServiceState(r) = "open" THEN "failed" ELSE ServiceState(r)
  <2>1. r \in pending <=> Issued(r) /\ outcome[r] = Unsettled
    BY DEF PathInv, ClientInv, SafetyInv, Bookkeeping, PendingXorSettled
  <2>2. CASE r \in pending
    <3>1. outcome'[r] # Unsettled /\ outcome'[r] # "rendered"
      BY <2>2 DEF AllFail, Endings, Unsettled
    <3>2. QED
      BY <1>1, <2>1, <2>2, <3>1, ServiceStates, ServiceStatesNext
  <2>3. CASE r \notin pending
    <3>1. ServiceState(r)' = ServiceState(r)
      BY <1>1, <2>3, ServiceStateKept DEF AllFail
    <3>2. ServiceState(r) # "open"
      BY <2>1, <2>3, ServiceStates
    <3>3. QED
      BY <3>1, <3>2
  <2>4. QED
    BY <2>2, <2>3
<1>3. QED
  BY <1>2 DEF Service!FailAll

LEMMA ServiceSettles ==
  ASSUME PathInv, NEW r \in Requests, OneSettles(r), EverShown' = EverShown, display' = display
  PROVE  Service!Settle(r)
<1>1. \A q \in Requests : Issued(q)' = Issued(q)
  BY DEF OneSettles, Issued
<1>2. Issued(r) /\ outcome[r] = Unsettled
  BY DEF OneSettles, PathInv, ClientInv, SafetyInv, Bookkeeping, PendingXorSettled
<1>3. ServiceState(r) = "open"
  BY <1>2, ServiceStates
<1>4. /\ ServiceState(r)' \in {"rendered", "failed"}
      /\ ServiceState(r)' = "rendered" => r \in EverShown
  <2>1. outcome'[r] # Unsettled
    BY OutcomesSettle DEF OneSettles
  <2>2. ServiceState(r)' = IF outcome'[r] = "rendered" THEN "rendered" ELSE "failed"
    BY <1>1, <1>2, <2>1, ServiceStatesNext
  <2>3. QED
    BY <2>2 DEF OneSettles
<1>5. \A q \in Requests \ {r} : ServiceState(q)' = ServiceState(q)
  BY <1>1, ServiceStateKept DEF OneSettles
<1>6. [q \in Requests |-> ServiceState(q)]' =
        [[q \in Requests |-> ServiceState(q)] EXCEPT ![r] = ServiceState(r)']
  BY <1>5
<1>7. QED
  BY <1>3, <1>4, <1>6 DEF Service!Settle

LEMMA ServiceRests ==
  ASSUME NothingSettles
  PROVE  [r \in Requests |-> ServiceState(r)]' = [r \in Requests |-> ServiceState(r)]
<1>1. \A r \in Requests : Issued(r)' = Issued(r)
  BY DEF NothingSettles, Issued
<1>2. \A r \in Requests : ServiceState(r)' = ServiceState(r)
  BY <1>1, ServiceStateKept DEF NothingSettles
<1>3. QED
  BY <1>2

\* The frame shows the next command: of a request that was made, and newer than
\* every request it ever showed.
LEMMA ServiceShows ==
  ASSUME PathInv, NothingSettles, NEW s \in Sessions, Takes(s),
         EverShown' = EverShown \cup {NextOn(s).requestId},
         display' = Shown(s, NextOn(s))
  PROVE  NextOn(s).requestId \in Requests /\ Service!Show(NextOn(s).requestId)
<1> DEFINE n == NextOn(s).requestId
<1>1. NextOn(s) \in Commands /\ portRead[s] + 1 \in DOMAIN toFrame[s]
  BY TakesType DEF PathInv, NextOn
<1>2. n \in Requests
  BY <1>1 DEF Commands
<1>3. Issued(n)
  <2>1. NextOn(s) \in Travelling
    BY <1>1 DEF Travelling, Range, NextOn
  <2>2. QED
    BY <2>1 DEF PathInv, OrderInv, GenerationOrder, Issued
<1>4. ServiceState(n) # "new"
  BY <1>2, <1>3, ServiceStates
<1>5. \A q \in EverShown : q < n
  <2> SUFFICES ASSUME NEW t \in Sessions, NEW q \in ShownBy(t)
               PROVE  q < n
    BY DEF EverShown
  <2>1. PICK i \in 1..portRead[t] : q = toFrame[t][i].requestId
    BY DEF PathInv, ShownInv, ShownWasRead, ReadOn
  <2>2. QED
    BY <2>1, NextIsNewest
<1>6. display.requestId' = n
  BY DEF Shown
<1>7. [r \in Requests |-> ServiceState(r)]' = [r \in Requests |-> ServiceState(r)]
  BY ServiceRests
<1> HIDE DEF n
<1>8. /\ [r \in Requests |-> ServiceState(r)][n] # "new"
      /\ EverShown' = EverShown \cup {n}
  BY <1>2, <1>4 DEF n
<1>9. Service!Show(n)
  BY <1>5, <1>6, <1>7, <1>8 DEF Service!Show
<1>10. QED
  BY <1>2, <1>9 DEF n

LEMMA ServiceStep ==
  ASSUME PathInv, PathInv', [SessionNext]_sessionVars
  PROVE  [Service!ServiceNext]_(Service!serviceVars)
<1> USE DEF PathInv, ClientInv
<1>1. CASE ClientStep \/ HostReceives
  <2>1. EverShown' = EverShown /\ display' = display
    BY <1>1, ClientStepEffect, ShownClient
  <2>2. CallerSees
    <3>1. CASE ClientStep
      <4>1. generation \in CallerGenerations
        BY DEF CallerGenerations, SafetyInv, ClientTypeOK
      <4>2. CallerNext \/ HostNext
        BY <3>1, <4>1 DEF ClientStep, GuardCalls, CallerNext
      <4>3. QED
        BY <4>2, OwnStepSeen
    <3>2. CASE HostReceives
      <4>1. toHost # <<>> /\ OnMessage(Head(toHost))
        BY <3>2 DEF HostReceives
      <4>2. toHost \in Seq(OwnMessages)
        BY DEF WireInv, PathTypeOK
      <4>3. Head(toHost) \in Range(toHost)
        BY <4>1, <4>2, RangeTail
      <4>4. IsReply(Head(toHost)) /\ Head(toHost).status = "rendered"
              => Head(toHost).requestId \in EverShown
        BY <4>3 DEF ShownInv, RenderedWasShown
      <4>5. QED
        BY <4>1, <4>4, MessageSeen
    <3>3. QED
      BY <1>1, <3>1, <3>2
  <2>3. CASE Opens
    <3>1. PICK n \in Requests : n = nextRequestId
      BY <2>3 DEF Opens
    <3>2. Service!Submit(n)
      BY <2>1, <2>3, <3>1, ServiceOpens
    <3>3. QED
      BY <3>2 DEF Service!ServiceNext
  <2>4. CASE AllFail
    BY <2>1, <2>4, ServiceFails DEF Service!ServiceNext
  <2>5. CASE NothingSettles
    BY <2>1, <2>5, ServiceRests DEF Service!serviceVars
  <2>6. ASSUME NEW r \in Requests, OneSettles(r)
        PROVE  [Service!ServiceNext]_(Service!serviceVars)
    <3>1. Service!Settle(r)
      BY <2>1, <2>6, ServiceSettles
    <3>2. QED
      BY <3>1 DEF Service!ServiceNext
  <2>7. QED
    BY <2>2, <2>3, <2>4, <2>5, <2>6 DEF CallerSees
<1>2. CASE WorkerStep \/ WorkerReceives \/ WorkerReceivesAck
  <2>1. WorkerEffect
    BY <1>2, WorkerStepEffect
  <2>2. EverShown' = EverShown /\ display' = display
    BY <2>1, ShownWorker
  <2>3. NothingSettles
    BY <2>1 DEF WorkerEffect, NothingSettles
  <2>4. QED
    BY <2>2, <2>3, ServiceRests DEF Service!serviceVars
<1>3. CASE (HostFrameStep \/ FrameStep) \/ UNCHANGED sessionVars
  <2>1. NothingSettles
    <3>1. UNCHANGED clientVars
      BY <1>3, FrameEffect DEF sessionVars
    <3>2. QED
      BY <3>1 DEF clientVars, requestVars, NothingSettles
  <2>2. CASE EverShown' = EverShown /\ display' = display
    BY <2>1, <2>2, ServiceRests DEF Service!serviceVars
  <2>3. CASE EverShown' = EverShown /\ display' = Blank
    <3>1. display.requestId' = 0
      BY <2>3 DEF Blank
    <3>2. Service!Clear
      BY <2>1, <2>3, <3>1, ServiceRests DEF Service!Clear
    <3>3. QED
      BY <3>2 DEF Service!ServiceNext
  <2>4. ASSUME NEW s \in Sessions, Takes(s),
               EverShown' = EverShown \cup {NextOn(s).requestId},
               display' = Shown(s, NextOn(s))
        PROVE  [Service!ServiceNext]_(Service!serviceVars)
    <3>1. NextOn(s).requestId \in Requests /\ Service!Show(NextOn(s).requestId)
      BY <2>1, <2>4, ServiceShows
    <3>2. QED
      BY <3>1 DEF Service!ServiceNext
  <2>5. QED
    BY <2>2, <2>3, <2>4, DisplayStep
<1>4. QED
  BY <1>1, <1>2, <1>3 DEF SessionNext

LEMMA ServiceStart == SessionInit => Service!ServiceInit
<1> SUFFICES ASSUME SessionInit PROVE Service!ServiceInit
  OBVIOUS
<1>1. /\ nextRequestId = 1 /\ display = Blank /\ acks = [s \in Sessions |-> <<>>]
  BY DEF SessionInit, ClientInit, FrameInit
<1>2. \A r \in Requests : ServiceState(r) = "new"
  <2>1. \A r \in Requests : ~Issued(r)
    BY <1>1, BoundsAssumption DEF Issued
  <2>2. QED
    BY <2>1, ServiceStates
<1>3. EverShown = {}
  BY <1>1 DEF EverShown, ShownBy
<1>4. QED
  BY <1>1, <1>2, <1>3 DEF Service!ServiceInit, Blank

\* The rendering path does what RenderService promises the callers of
\* preprocess(): requests open in order and settle once, the frame only shows
\* requests that were made, each newer than what it showed before, and a request
\* settles as rendered only if the frame showed it.
THEOREM ImplementsRenderServiceHolds == SessionSpec => ImplementsRenderService
<1>1. SessionInit => Service!ServiceInit
  BY ServiceStart
<1>2. PathInv /\ PathInv' /\ [SessionNext]_sessionVars
        => [Service!ServiceNext]_(Service!serviceVars)
  BY ServiceStep
<1>3. QED
  BY <1>1, <1>2, PathInvHolds, PTL
  DEF SessionSpec, ImplementsRenderService, Service!ServiceSpec

-----------------------------------------------------------------------------
(***************************************************************************
 Holding requests for the port is enough, when onTerminated does not re-enter:
 no Worker is handed a request its port does not fit.
 ***************************************************************************)
DeliveryFits ==
  /\ \A e \in Line \cup Range(queued) : e.delivery = Declared
  /\ HasFrame /\ ~frameAttached => PreprocessIn(toWorker) = {} /\ queued = <<>>
  /\ HasFrame /\ frameAttached => frameSender # NoSession
  /\ \A m \in Range(toHost) : m.kind = "frame-attached" => frameSender # NoSession
  /\ \A m \in Range(toHost) : IsReply(m) => m.status # "undeliverable"

\* Only what is being posted joins the channel, and only terminate() forgets
\* that the port was confirmed.
PostsOnly ==
  \/ worker' = NoSession /\ toWorker' = <<>>
  \/ /\ frameAttached => frameAttached'
     /\ PreprocessIn(toWorker)' \subseteq PreprocessIn(toWorker) \cup posting

LEMMA PostsAppended ==
  ASSUME ClientTypeOK, NEW m \in HostMessages, toWorker' = Append(toWorker, m),
         frameAttached => frameAttached',
         m.kind = "preprocess" => m \in posting
  PROVE  PostsOnly
<1> HIDE DEF HostMessages
<1>1. Range(toWorker)' = Range(toWorker) \cup {m}
  BY RangeAppend DEF ClientTypeOK
<1>2. QED
  BY <1>1 DEF PostsOnly, PreprocessIn

LEMMA OwnStepPosts ==
  ASSUME SafetyInv, CallerNext \/ HostNext
  PROVE  PostsOnly
<1> USE DEF SafetyInv
<1>1. CASE UNCHANGED <<toWorker, frameAttached>>
  BY <1>1 DEF PostsOnly, PreprocessIn
<1>2. CASE CallerNext
  <2>1. CASE Dispose
    BY <2>1 DEF Dispose, Terminate, PostsOnly
  <2>2. CASE ~Dispose
    BY <1>1, <1>2, <2>2 DEF CallerNext, PublicStart, WhenReady, WhenCheckerReady,
       PreprocessFails, Preprocesses, NextGeneration
  <2>3. QED
    BY <2>1, <2>2
<1>3. CASE HostNext
  <2>1. ASSUME NEW e \in posting, PostEnvelope(e)
        PROVE  PostsOnly
    <3>1. e \in HostMessages /\ frameAttached' = frameAttached
      BY <2>1 DEF PostEnvelope, ClientTypeOK, HostMessages
    <3>2. CASE toWorker' = Append(toWorker, e)
      BY <3>1, <3>2, PostsAppended
    <3>3. QED
      BY <1>1, <2>1, <3>1, <3>2 DEF PostEnvelope
  <2>2. ASSUME NEW e \in posting, PostThrows(e)
        PROVE  PostsOnly
    BY <2>2 DEF PostThrows, Terminate, PostsOnly
  <2>3. CASE ReleaseNext \/ ReleaseEnds \/ CallbackReturns
    BY <1>1, <2>3 DEF ReleaseNext, ReleaseEnds, CallbackReturns
  <2>4. CASE \/ \E r \in Requests : RequestTimeout(r)
             \/ HandshakeTimeout \/ CheckerTimeout \/ OnWorkerError
    BY <2>4 DEF RequestTimeout, HandshakeTimeout, CheckerTimeout, OnWorkerError,
       TerminateAll, Terminate, PostsOnly
  <2>5. QED
    BY <1>3, <2>1, <2>2, <2>3, <2>4 DEF HostNext
<1>4. QED
  BY <1>2, <1>3

LEMMA MessagePosts ==
  ASSUME SafetyInv, NEW m, OnMessage(m)
  PROVE  PostsOnly
<1> USE DEF SafetyInv
<1>1. CASE UNCHANGED <<toWorker, frameAttached>>
  BY <1>1 DEF PostsOnly, PreprocessIn
<1>2. CASE OnReady(m)
  <2>1. frameAttached' = frameAttached
    BY <1>2 DEF OnReady
  <2>2. CASE HasFrame
    <3>1. worker \in Sessions /\ toWorker' = Append(toWorker, AttachFrame(worker))
      BY <1>2, <2>2 DEF OnReady, OnMessage, Listening, ClientTypeOK
    <3>2. AttachFrame(worker) \in HostMessages /\ AttachFrame(worker).kind # "preprocess"
      BY <3>1 DEF AttachFrame, HostMessages, AttachMessages
    <3>3. QED
      BY <2>1, <3>1, <3>2, PostsAppended
  <2>3. CASE ~HasFrame
    BY <1>1, <1>2, <2>1, <2>3 DEF OnReady
  <2>4. QED
    BY <2>2, <2>3
<1>3. CASE OnFrameAttached(m)
  BY <1>3 DEF OnFrameAttached, PostsOnly, PreprocessIn
<1>4. CASE OnCheckerReady(m) \/ SettleReply(m) \/ Ignored(m)
  BY <1>1, <1>4 DEF OnCheckerReady, SettleReply, Ignored, clientVars
<1>5. CASE OnReadyAttachFails(m) \/ OnStartupFailure(m) \/ FatalReply(m)
  BY <1>5 DEF OnReadyAttachFails, OnStartupFailure, FatalReply, TerminateAll, Terminate, PostsOnly
<1>6. QED
  BY <1>2, <1>3, <1>4, <1>5 DEF OnMessage

LEMMA DeliveryClient ==
  ASSUME ClientInv, WireInv, WireInv', HeldInv, DeliveryFits, ClientEffect, PostsOnly
  PROVE  DeliveryFits'
<1> USE DEF DeliveryFits
<1>1. CASE Ends
  <2>1. /\ Line' = {} /\ toWorker' = <<>> /\ queued' = <<>> /\ toHost' = <<>>
        /\ frameAttached' => frameAttached /\ worker = NoSession
    BY <1>1 DEF Ends, NoWorkerLeft
  <2>2. worker = NoSession => frameSender = NoSession
    BY DEF WireInv, OneWorker, NoWorkerLeft
  <2>3. Range(queued)' = {} /\ Range(toHost)' = {} /\ PreprocessIn(toWorker)' = {}
    BY <2>1 DEF Range, PreprocessIn
  <2>4. HasFrame => ~frameAttached'
    BY <2>1, <2>2
  <2>5. QED
    BY <2>1, <2>3, <2>4
<1>2. CASE Continues
  <2>1. queued' = queued /\ frameSender' = frameSender
        /\ (toHost' = toHost \/ (toHost # <<>> /\ toHost' = Tail(toHost)))
    BY <1>2 DEF Continues, Keeps
  <2>2. Range(toHost)' \subseteq Range(toHost)
    <3>1. CASE toHost' = toHost
      BY <3>1
    <3>2. CASE toHost # <<>> /\ toHost' = Tail(toHost)
      <4>1. toHost \in Seq(OwnMessages)
        BY DEF WireInv, PathTypeOK
      <4>2. QED
        BY <3>2, <4>1, RangeTail
    <3>3. QED
      BY <2>1, <3>1, <3>2
  <2>3. \A e \in Line' \cup Range(queued)' : e.delivery = Declared
    <3>1. \A e \in Line' : e \in Line \/ e = Preprocess(worker', nextRequestId, generation, Declared)
      BY <1>2 DEF Continues, NothingNew, NewRequest
    <3>2. QED
      BY <2>1, <3>1 DEF Preprocess
  <2>4. HasFrame /\ ~frameAttached' => PreprocessIn(toWorker)' = {} /\ queued' = <<>>
    <3>1. CASE worker' = NoSession /\ toWorker' = <<>>
      <4>1. queued' = <<>>
        BY <3>1 DEF WireInv, OneWorker, NoWorkerLeft
      <4>2. PreprocessIn(toWorker)' = {}
        BY <3>1 DEF PreprocessIn, Range
      <4>3. QED
        BY <4>1, <4>2
    <3>2. CASE /\ frameAttached => frameAttached'
               /\ PreprocessIn(toWorker)' \subseteq PreprocessIn(toWorker) \cup posting
      BY <2>1, <3>2 DEF HeldInv
    <3>3. QED
      BY <3>1, <3>2 DEF PostsOnly
  <2>5. HasFrame /\ frameAttached' => frameSender' # NoSession
    BY <1>2, <2>1 DEF Continues
  <2>6. /\ \A m \in Range(toHost)' : m.kind = "frame-attached" => frameSender' # NoSession
        /\ \A m \in Range(toHost)' : IsReply(m) => m.status # "undeliverable"
    BY <2>1, <2>2
  <2>7. QED
    BY <2>3, <2>4, <2>5, <2>6 DEF IsReply
<1>3. QED
  BY <1>1, <1>2 DEF ClientEffect

\* The Worker never finds a request whose delivery does not fit its port.
LEMMA FittingIsServed ==
  ASSUME ClientInv, WireInv, DeliveryFits, NEW e, FromQueue(e) \/ FromChannel(e)
  PROVE  /\ e.delivery = Declared /\ ~DeliveryRefused(e)
         /\ HasFrame => frameAttached
<1>1. e \in Line \cup Range(queued) /\ (queued # <<>> \/ PreprocessIn(toWorker) # {})
  <2>1. CASE FromQueue(e)
    BY <2>1, QueueTail DEF FromQueue
  <2>2. CASE FromChannel(e)
    BY <2>2, ChannelTail DEF FromChannel, PreprocessIn, Line
  <2>3. QED
    BY <2>1, <2>2
<1>2. e.delivery = Declared /\ (HasFrame => frameAttached)
  BY <1>1 DEF DeliveryFits
<1>3. CASE HasFrame
  <2>1. e.delivery = "frame" /\ frameSender # NoSession
    BY <1>2, <1>3 DEF DeliveryFits, Declared
  <2>2. QED
    BY <1>2, <2>1 DEF DeliveryRefused
<1>4. CASE ~HasFrame
  <2>1. e.delivery = "host" /\ frameSender = NoSession
    BY <1>2, <1>4 DEF WireInv, OnePort, Declared
  <2>2. QED
    BY <1>2, <1>4, <2>1 DEF DeliveryRefused
<1>5. QED
  BY <1>3, <1>4

LEMMA DeliveryWorker ==
  ASSUME ClientInv, WireInv, DeliveryFits, WorkerEffect
  PROVE  DeliveryFits'
<1> USE DEF DeliveryFits
<1>1. UNCHANGED <<awaitingAttach, posting, frameAttached>>
  BY DEF WorkerEffect
<1>2. toHost \in Seq(OwnMessages) /\ queued \in Seq(Envelopes)
  BY DEF WireInv, PathTypeOK
\* What the Worker may do to its inputs ...
<1>3. /\ Line' \subseteq Line /\ PreprocessIn(toWorker)' \subseteq PreprocessIn(toWorker)
      /\ \A x \in Range(queued)' : x.delivery = Declared
      /\ HasFrame /\ ~frameAttached => queued' = <<>>
  <2>1. ASSUME toWorker # <<>>, toWorker' = Tail(toWorker)
        PROVE  /\ Line' \subseteq Line
               /\ PreprocessIn(toWorker)' \subseteq PreprocessIn(toWorker)
    BY <1>1, <2>1, ChannelTail DEF Line, PreprocessIn
  <2>2. ASSUME toWorker' = toWorker
        PROVE  /\ Line' \subseteq Line
               /\ PreprocessIn(toWorker)' \subseteq PreprocessIn(toWorker)
    BY <1>1, <2>2 DEF Line, PreprocessIn
  <2>3. ASSUME queued' = queued
        PROVE  /\ \A x \in Range(queued)' : x.delivery = Declared
               /\ HasFrame /\ ~frameAttached => queued' = <<>>
    BY <2>3
  <2>4. ASSUME NEW e \in Envelopes, Serves(e)
        PROVE  /\ Line' \subseteq Line /\ PreprocessIn(toWorker)' \subseteq PreprocessIn(toWorker)
               /\ \A x \in Range(queued)' : x.delivery = Declared
               /\ HasFrame /\ ~frameAttached => queued' = <<>>
    <3>1. HasFrame => frameAttached
      BY <2>4, FittingIsServed DEF Serves
    <3>2. CASE FromQueue(e)
      BY <2>2, <3>1, <3>2, QueueTail DEF FromQueue
    <3>3. CASE FromChannel(e) /\ queued' = queued
      BY <2>1, <2>3, <3>3 DEF FromChannel
    <3>4. QED
      BY <2>4, <3>2, <3>3 DEF Serves
  <2>5. ASSUME NEW e \in Envelopes, Queues(e)
        PROVE  /\ Line' \subseteq Line /\ PreprocessIn(toWorker)' \subseteq PreprocessIn(toWorker)
               /\ \A x \in Range(queued)' : x.delivery = Declared
               /\ HasFrame /\ ~frameAttached => queued' = <<>>
    <3>1. FromChannel(e) /\ queued' = Append(queued, e)
      BY <2>5 DEF Queues
    <3>2. Range(queued)' = Range(queued) \cup {e}
      BY <1>2, <3>1, RangeAppend
    <3>3. QED
      BY <2>1, <3>1, <3>2, FittingIsServed DEF FromChannel
  <2>6. QED
    BY <2>1, <2>2, <2>3, <2>4, <2>5 DEF WorkerEffect, Announces, Installs, Relays, Rests
\* ... and what it may tell the host.
<1> DEFINE Tells ==
             /\ frameSender' = frameSender \/ frameSender' # NoSession
             /\ \A x \in Range(toHost)' : x.kind = "frame-attached" => frameSender' # NoSession
             /\ \A x \in Range(toHost)' : IsReply(x) => x.status # "undeliverable"
<1>4. Tells
  <2>1. ASSUME NEW m \in OwnMessages, toHost' = Append(toHost, m),
               frameSender' = frameSender \/ frameSender' # NoSession,
               m.kind = "frame-attached" => frameSender' # NoSession,
               IsReply(m) => m.status # "undeliverable"
        PROVE  Tells
    <3>1. Range(toHost)' = Range(toHost) \cup {m}
      BY <1>2, <2>1, RangeAppend
    <3>2. QED
      BY <2>1, <3>1
  <2>2. ASSUME toHost' = toHost, frameSender' = frameSender
        PROVE  Tells
    BY <2>2
  <2>3. ASSUME Announces
        PROVE  Tells
    <3>1. PICK m \in {Ready, Failed, CheckerReady(TRUE)} : toHost' = Append(toHost, m)
      BY <2>3 DEF Announces
    <3>2. m \in OwnMessages /\ ~IsReply(m) /\ m.kind # "frame-attached"
      BY DEF OwnMessages, IsReply, Ready, Failed, CheckerReady
    <3>3. frameSender' = frameSender
      BY <2>3 DEF Announces
    <3>4. QED
      BY <2>1, <3>1, <3>2, <3>3
  <2>4. ASSUME NEW m, m.session = worker, Installs(m)
        PROVE  Tells
    <3>1. worker \in Sessions /\ worker # NoSession
      BY DEF ClientInv, SafetyInv, ClientTypeOK, WorkerEffect
    <3>2. toHost' = Append(toHost, FrameAttached(worker)) /\ frameSender' = worker
      BY <2>4 DEF Installs
    <3>3. FrameAttached(worker) \in OwnMessages /\ ~IsReply(FrameAttached(worker))
      BY <3>1 DEF OwnMessages, IsReply, FrameAttached
    <3>4. QED
      BY <2>1, <3>1, <3>2, <3>3
  <2>5. ASSUME NEW m \in OwnReplies, toHost' = Append(toHost, m),
               m.status # "undeliverable", frameSender' = frameSender
        PROVE  Tells
    <3>1. m \in OwnMessages /\ m.kind # "frame-attached"
      BY DEF OwnMessages, OwnReplies
    <3>2. QED
      BY <2>1, <2>5, <3>1
  <2>6. ASSUME NEW e \in Envelopes, Serves(e)
        PROVE  Tells
    <3>1. ~DeliveryRefused(e) /\ frameSender' = frameSender
      BY <2>6, FittingIsServed DEF Serves
    <3>2. CASE RepliesTo(e)
      <4>1. PICK m \in OwnReplies : toHost' = Append(toHost, m) /\ m.status # "undeliverable"
        BY <3>1, <3>2 DEF RepliesTo
      <4>2. QED
        BY <2>5, <3>1, <4>1
    <3>3. CASE RendersTo(e)
      BY <2>2, <3>1, <3>3 DEF RendersTo
    <3>4. QED
      BY <2>6, <3>2, <3>3 DEF Serves
  <2>7. ASSUME NEW p, Relays(p)
        PROVE  Tells
    <3>1. PICK m \in OwnReplies : toHost' = Append(toHost, m) /\ m.status # "undeliverable"
      BY <2>7 DEF Relays
    <3>2. frameSender' = frameSender
      BY <2>7 DEF Relays
    <3>3. QED
      BY <2>5, <3>1, <3>2
  <2>8. QED
    BY <2>2, <2>3, <2>4, <2>6, <2>7 DEF WorkerEffect, Queues, Rests
<1>5. QED
  BY <1>1, <1>3, <1>4 DEF IsReply

LEMMA DeliveryStays ==
  ASSUME DeliveryFits, UNCHANGED clientVars, UNCHANGED workerVars
  PROVE  DeliveryFits'
<1>1. /\ UNCHANGED <<awaitingAttach, posting, toWorker, frameAttached>>
      /\ UNCHANGED <<queued, frameSender, toHost>>
  BY DEF clientVars, requestVars, stackVars, workerVars
<1>2. Line' = Line
  BY <1>1, LineSame
<1>3. QED
  BY <1>1, <1>2 DEF DeliveryFits, PreprocessIn, IsReply

LEMMA HeldInSession ==
  ASSUME SafetyInv, HeldInv, CallbackReenters = FALSE, [SessionNext]_sessionVars
  PROVE  HeldInv'
<1>1. CASE UNCHANGED clientVars
  BY <1>1 DEF clientVars, requestVars, stackVars, HeldInv
<1>2. CASE WorkerTakes
  BY <1>2 DEF WorkerTakes, requestVars, stackVars, HeldInv
<1>3. CASE CallerNext
  BY <1>3, CallerHeld, Zenon
<1>4. CASE HostNext
  BY <1>4, HostHeld, Zenon
<1>5. ASSUME NEW m, OnMessage(m)
      PROVE  HeldInv'
  BY <1>5, MessageHeld, Zenon
<1>6. CASE UNCHANGED sessionVars
  BY <1>1, <1>6 DEF sessionVars
<1>7. QED
  BY <1>1, <1>2, <1>3, <1>4, <1>5, <1>6, ClientOfStep

LEMMA DeliveryStep ==
  ASSUME ClientInv, WireInv, WireInv', HeldInv, DeliveryFits, [SessionNext]_sessionVars
  PROVE  DeliveryFits'
<1>1. CASE ClientStep
  <2>1. CallerNext \/ HostNext
    <3>1. generation \in CallerGenerations
      BY DEF CallerGenerations, ClientInv, SafetyInv, ClientTypeOK
    <3>2. QED
      BY <1>1, <3>1 DEF ClientStep, GuardCalls, CallerNext
  <2>2. QED
    BY <1>1, <2>1, OwnStepPosts, ClientStepEffect, DeliveryClient DEF ClientInv
<1>2. CASE HostReceives
  <2>1. PostsOnly
    BY <1>2, MessagePosts DEF HostReceives, ClientInv
  <2>2. QED
    BY <1>2, <2>1, ClientStepEffect, DeliveryClient
<1>3. CASE WorkerStep \/ WorkerReceives \/ WorkerReceivesAck
  BY <1>3, WorkerStepEffect, DeliveryWorker
<1>4. CASE (HostFrameStep \/ FrameStep) \/ UNCHANGED sessionVars
  BY <1>4, FrameEffect, DeliveryStays DEF sessionVars
<1>5. QED
  BY <1>1, <1>2, <1>3, <1>4 DEF SessionNext

LEMMA UndeliverableStep ==
  ASSUME ClientInv, WireInv, DeliveryFits, NoneUndeliverable, [SessionNext]_sessionVars
  PROVE  NoneUndeliverable'
<1> SUFFICES ASSUME NEW r \in Requests
             PROVE  outcome'[r] # "undeliverable"
  BY DEF NoneUndeliverable
<1> USE DEF ClientInv
<1>1. outcome[r] # "undeliverable" /\ "undeliverable" \notin Endings
  BY DEF NoneUndeliverable, Endings
<1>2. CASE ClientStep
  <2>1. generation \in CallerGenerations
    BY DEF CallerGenerations, SafetyInv, ClientTypeOK
  <2>2. CallerNext \/ HostNext
    BY <1>2, <2>1 DEF ClientStep, GuardCalls, CallerNext
  <2>3. QED
    BY <1>1, <2>2, OwnOutcomeStep
<1>3. CASE HostReceives
  <2> DEFINE m == Head(toHost)
  <2>1. toHost # <<>> /\ OnMessage(m)
    BY <1>3 DEF HostReceives
  <2>2. m \in Range(toHost)
    <3>1. toHost \in Seq(OwnMessages)
      BY DEF WireInv, PathTypeOK
    <3>2. QED
      BY <2>1, <3>1, RangeTail
  <2>3. IsReply(m) => m.status # "undeliverable"
    BY <2>2 DEF DeliveryFits
  <2>4. m.status # "undeliverable" => ReplyOutcome(m) # "undeliverable"
    <3>1. CASE m.status = "rendered"
      BY <3>1 DEF ReplyOutcome, RenderedOutcome
    <3>2. CASE m.status = "accepted"
      BY <3>2 DEF ReplyOutcome, AcceptedOutcome
    <3>3. CASE m.status \notin {"rendered", "accepted"}
      BY <3>3 DEF ReplyOutcome
    <3>4. QED
      BY <3>1, <3>2, <3>3
  <2> HIDE DEF m
  <2>5. SettlesBy(r, m) => IsReply(m)
    BY DEF SettlesBy, SettleReply, Matches
  <2>6. QED
    BY <1>1, <2>1, <2>3, <2>4, <2>5, MessageOutcome
<1>4. CASE WorkerStep \/ WorkerReceives \/ WorkerReceivesAck
  <2>1. outcome' = outcome
    BY <1>4, WorkerStepEffect DEF WorkerEffect
  <2>2. QED
    BY <1>1, <2>1
<1>5. CASE (HostFrameStep \/ FrameStep) \/ UNCHANGED sessionVars
  <2>1. UNCHANGED clientVars
    BY <1>5, FrameEffect DEF sessionVars
  <2>2. QED
    BY <1>1, <2>1 DEF clientVars, requestVars
<1>6. QED
  BY <1>2, <1>3, <1>4, <1>5 DEF SessionNext

LEMMA DeliveryStart == SessionInit => HeldInv /\ DeliveryFits /\ NoneUndeliverable
<1> SUFFICES ASSUME SessionInit PROVE HeldInv /\ DeliveryFits /\ NoneUndeliverable
  OBVIOUS
<1>1. HeldInv
  BY HeldInvInit DEF SessionInit
<1>2. /\ awaitingAttach = <<>> /\ posting = {} /\ toWorker = <<>> /\ queued = <<>>
      /\ toHost = <<>> /\ frameAttached = FALSE
      /\ outcome = [r \in Requests |-> Unsettled]
  BY DEF SessionInit, ClientInit, WorkerInit
<1>3. /\ PreprocessIn(toWorker) = {} /\ Line = {} /\ Range(queued) = {} /\ Range(toHost) = {}
  BY <1>2 DEF PreprocessIn, Line, Range
<1>4. QED
  BY <1>1, <1>2, <1>3 DEF DeliveryFits, NoneUndeliverable, Unsettled

\* Unless onTerminated calls back into the session, no request is answered
\* "undeliverable": held requests reach only a Worker whose port is installed,
\* whatever terminations, restarts and late confirmations come in between.
THEOREM NoneUndeliverableHolds ==
  ASSUME CallbackReenters = FALSE
  PROVE  SessionSpec => []NoneUndeliverable
<1>1. SessionInit => HeldInv /\ DeliveryFits /\ NoneUndeliverable
  BY DeliveryStart
<1>2. /\ ClientInv /\ WireInv /\ (ClientInv /\ WireInv)'
      /\ HeldInv /\ DeliveryFits /\ NoneUndeliverable /\ [SessionNext]_sessionVars
      => (HeldInv /\ DeliveryFits /\ NoneUndeliverable)'
  BY HeldInSession, DeliveryStep, UndeliverableStep, Zenon DEF ClientInv
<1>3. SessionSpec => [](ClientInv /\ WireInv)
  BY WireInvHolds
<1>4. QED
  BY <1>1, <1>2, <1>3, PTL DEF SessionSpec
=============================================================================
