------------------------- MODULE PolicyClientProofs -------------------------
(***************************************************************************
 Proofs about PolicyClient's open specification: whatever messages the
 Worker sends, for every number of requests, Workers and generations, with or
 without a frame, with or without a re-entrant callback.
 ***************************************************************************)
EXTENDS PolicyClient, TLAPS

USE DEF NoSession, Sessions, SessionOrNone, Requests, Generations

-----------------------------------------------------------------------------
(***************************************************************************
 Facts about the operators the handlers are built from.
 ***************************************************************************)

\* Appending keeps a sequence over its set.
LEMMA AppendType ==
  ASSUME NEW S, NEW s \in Seq(S), NEW e \in S
  PROVE  Append(s, e) \in Seq(S)
  OBVIOUS

\* Every way a reply settles a request is one of the client's outcomes.
LEMMA ReplyOutcomeType ==
  ASSUME NEW m
  PROVE  ReplyOutcome(m) \in Outcomes /\ FatalOutcome(m) \in Outcomes
  BY DEF ReplyOutcome, FatalOutcome, RenderedOutcome, AcceptedOutcome, Outcomes,
         Rejections

\* terminate() leaves the variables it assigns in their types.
LEMMA TerminateType ==
  ASSUME ClientTypeOK,
         NEW live \in SUBSET Requests,
         NEW settled \in [Requests -> Outcomes \cup {Unsettled}],
         NEW ready \in PromiseStates,
         Terminate(live, settled, ready)
  PROVE  /\ worker' \in SessionOrNone
         /\ frameAttached' \in BOOLEAN
         /\ awaitingAttach' \in Seq(Envelopes)
         /\ handshakeTimer' \in SessionOrNone
         /\ checkerTimer' \in SessionOrNone
         /\ readyPromise' \in PromiseStates
         /\ checkerReadyPromise' \in PromiseStates
         /\ pending' \in SUBSET Requests
         /\ requestTimers' \in SUBSET Requests
         /\ outcome' \in [Requests -> Outcomes \cup {Unsettled}]
         /\ toWorker' \in Seq(HostMessages)
         /\ posting' \in SUBSET Envelopes
         /\ inCallback' \in BOOLEAN
<1>1. /\ worker' = NoSession
      /\ frameAttached' = FALSE
      /\ awaitingAttach' = <<>>
      /\ handshakeTimer' = NoSession
      /\ checkerTimer' = NoSession
      /\ toWorker' = <<>>
      /\ posting' = {}
      /\ pending' = {}
  BY DEF Terminate
<1>2. readyPromise' \in PromiseStates /\ checkerReadyPromise' \in PromiseStates
  BY DEF ClientTypeOK, Terminate, FailUnless, PromiseStates
<1>3. requestTimers' \in SUBSET Requests
  BY DEF ClientTypeOK, Terminate, TimersLeft
<1>4. outcome' \in [Requests -> Outcomes \cup {Unsettled}]
  BY DEF Terminate, SettledByTermination, Outcomes, Rejections
<1>5. inCallback' \in BOOLEAN
  BY ClientAssumption DEF ClientTypeOK, Terminate
<1>6. NoSession \in SessionOrNone
  BY BoundsAssumption
<1>7. awaitingAttach' \in Seq(Envelopes) /\ toWorker' \in Seq(HostMessages)
  BY <1>1
<1>8. QED
  BY <1>1, <1>2, <1>3, <1>4, <1>5, <1>6, <1>7

LEMMA TerminateAllType ==
  ASSUME ClientTypeOK,
         NEW live \in SUBSET Requests,
         NEW settled \in [Requests -> Outcomes \cup {Unsettled}],
         TerminateAll(live, settled)
  PROVE  ClientTypeOK'
<1>1. FailUnless(handshakeDone, readyPromise) \in PromiseStates
  BY DEF ClientTypeOK, FailUnless, PromiseStates
<1>2. QED
  BY <1>1, TerminateType DEF ClientTypeOK, TerminateAll

-----------------------------------------------------------------------------
(***************************************************************************
 Type correctness.
 ***************************************************************************)
LEMMA StartType ==
  ASSUME ClientTypeOK, StartWorker \/ StartFails
  PROVE  /\ worker' \in SessionOrNone
         /\ sessions' \in SessionOrNone
         /\ handshakeDone' \in BOOLEAN
         /\ checkerIdentity' \in BOOLEAN
         /\ handshakeTimer' \in SessionOrNone
         /\ checkerTimer' \in SessionOrNone
         /\ readyPromise' \in PromiseStates
         /\ checkerReadyPromise' \in PromiseStates
<1>1. Renewed(readyPromise) \in PromiseStates
      /\ Renewed(checkerReadyPromise) \in PromiseStates
      /\ "rejected" \in PromiseStates
  BY DEF Renewed, ClientTypeOK, PromiseStates
<1>2. sessions < MaxSessions => sessions + 1 \in SessionOrNone
  BY BoundsAssumption DEF ClientTypeOK
<1>3. NoSession \in SessionOrNone
  BY BoundsAssumption
<1>4. CASE StartWorker
  BY <1>1, <1>2, <1>4 DEF StartWorker
<1>5. CASE StartFails
  BY <1>1, <1>2, <1>3, <1>5 DEF StartFails, ClientTypeOK
<1>6. QED
  BY <1>4, <1>5

LEMMA CallerType ==
  ASSUME ClientTypeOK, CallerNext
  PROVE  ClientTypeOK'
<1>1. CASE PublicStart
  <2>1. StartWorker \/ StartFails
    BY <1>1 DEF PublicStart
  <2>2. /\ worker' \in SessionOrNone
        /\ sessions' \in SessionOrNone
        /\ handshakeDone' \in BOOLEAN
        /\ checkerIdentity' \in BOOLEAN
        /\ handshakeTimer' \in SessionOrNone
        /\ checkerTimer' \in SessionOrNone
        /\ readyPromise' \in PromiseStates
        /\ checkerReadyPromise' \in PromiseStates
    BY <2>1, StartType
  <2>3. UNCHANGED <<generation, disposed, frameAttached, requestVars,
                    stackVars, toWorker, portsAttached>>
    BY <1>1 DEF PublicStart
  <2>4. QED
    BY <2>2, <2>3 DEF ClientTypeOK, requestVars, stackVars
<1>2. CASE WhenReady \/ WhenCheckerReady
  BY <1>2 DEF WhenReady, WhenCheckerReady, ClientTypeOK, requestVars,
              stackVars, PromiseStates
<1>3. CASE PreprocessFails
  <2>1. nextRequestId' \in 1..(MaxRequests + 1)
    BY <1>3, BoundsAssumption DEF PreprocessFails, ClientTypeOK
  <2>2. outcome' \in [Requests -> Outcomes \cup {Unsettled}]
    BY <1>3 DEF PreprocessFails, ClientTypeOK, Outcomes, Rejections
  <2>3. QED
    BY <1>3, <2>1, <2>2, StartType
    DEF PreprocessFails, ClientTypeOK, stackVars
<1>4. ASSUME NEW g \in CallerGenerations, Preprocesses(g)
      PROVE  ClientTypeOK'
  <2>1. g \in Generations
    BY DEF ClientTypeOK, CallerGenerations
  <2>2. worker' \in Sessions
    BY <1>4, BoundsAssumption DEF Preprocesses, StartWorker, ClientTypeOK
  <2> DEFINE envelope == Preprocess(worker', nextRequestId, g, Declared)
  <2>3. envelope \in Envelopes
    BY <1>4, <2>1, <2>2
    DEF Preprocesses, Preprocess, Envelopes, Declared, Deliveries
  <2>4. /\ awaitingAttach' \in Seq(Envelopes)
        /\ posting' \in SUBSET Envelopes
    <3>1. \/ awaitingAttach' = Append(awaitingAttach, envelope)
             /\ posting' = posting
          \/ awaitingAttach' = awaitingAttach /\ posting' = {envelope}
      BY <1>4 DEF Preprocesses
    <3>2. QED
      BY <2>3, <3>1, AppendType DEF ClientTypeOK
  <2>5. /\ pending' \in SUBSET Requests
        /\ requestTimers' \in SUBSET Requests
    BY <1>4 DEF Preprocesses, ClientTypeOK
  <2>6. entry' \in [Requests -> Entries]
    BY <1>4, <2>1 DEF Preprocesses, ClientTypeOK, Entries
  <2>7. nextRequestId' \in 1..(MaxRequests + 1)
    BY <1>4, BoundsAssumption DEF Preprocesses, ClientTypeOK
  <2>8. /\ worker' \in SessionOrNone
        /\ sessions' \in SessionOrNone
        /\ handshakeDone' \in BOOLEAN
        /\ checkerIdentity' \in BOOLEAN
        /\ handshakeTimer' \in SessionOrNone
        /\ checkerTimer' \in SessionOrNone
        /\ readyPromise' \in PromiseStates
        /\ checkerReadyPromise' \in PromiseStates
    <3>1. CASE worker = NoSession
      <4>1. StartWorker
        BY <1>4, <3>1 DEF Preprocesses
      <4>2. QED
        BY <4>1, StartType
    <3>2. CASE worker # NoSession
      BY <1>4, <3>2 DEF Preprocesses, ClientTypeOK, startupVars
    <3>3. QED
      BY <3>1, <3>2
  <2>9. UNCHANGED <<generation, disposed, frameAttached, outcome, inCallback,
                    releasing, toWorker, portsAttached>>
    BY <1>4 DEF Preprocesses
  <2>10. QED
    BY <2>4, <2>5, <2>6, <2>7, <2>8, <2>9 DEF ClientTypeOK
<1>5. CASE NextGeneration
  BY <1>5, BoundsAssumption
  DEF NextGeneration, ClientTypeOK, requestVars, startupVars, stackVars
<1>6. CASE Dispose
  <2>1. FailUnless(handshakeDone, readyPromise) \in PromiseStates
    BY DEF ClientTypeOK, FailUnless, PromiseStates
  <2>2. pending \in SUBSET Requests
        /\ outcome \in [Requests -> Outcomes \cup {Unsettled}]
    BY DEF ClientTypeOK
  <2>3. QED
    BY <1>6, <2>1, <2>2, TerminateType DEF Dispose, ClientTypeOK
<1>7. QED
  BY <1>1, <1>2, <1>3, <1>4, <1>5, <1>6 DEF CallerNext

LEMMA HostType ==
  ASSUME ClientTypeOK, HostNext
  PROVE  ClientTypeOK'
<1> USE DEF ClientTypeOK
<1>1. ASSUME NEW e \in posting, PostEnvelope(e)
      PROVE  ClientTypeOK'
  <2>1. e \in Envelopes /\ e \in HostMessages /\ e.requestId \in Requests
    BY DEF Envelopes, HostMessages
  <2>2. entry' \in [Requests -> Entries]
    <3>1. CASE e.requestId \in pending
      <4>1. entry' = [entry EXCEPT ![e.requestId].posted = TRUE]
        BY <1>1, <3>1 DEF PostEnvelope
      <4>2. QED
        BY <3>1, <4>1 DEF Entries
    <3>2. CASE e.requestId \notin pending
      BY <1>1, <3>2 DEF PostEnvelope
    <3>3. QED
      BY <3>1, <3>2
  <2>3. toWorker' \in Seq(HostMessages)
    <3>1. toWorker' = Append(toWorker, e) \/ toWorker' = toWorker
      BY <1>1 DEF PostEnvelope
    <3>2. QED
      BY <2>1, <3>1, AppendType
  <2>4. /\ posting' = {}
        /\ UNCHANGED <<worker, sessions, generation, disposed, frameAttached,
                       nextRequestId, pending, requestTimers, outcome,
                       awaitingAttach, startupVars, inCallback, releasing,
                       portsAttached>>
    BY <1>1 DEF PostEnvelope
  <2>5. QED
    BY <2>2, <2>3, <2>4 DEF startupVars
<1>2. ASSUME NEW e \in posting, PostThrows(e)
      PROVE  ClientTypeOK'
  <2>1. FailUnless(handshakeDone, readyPromise) \in PromiseStates
    BY DEF FailUnless, PromiseStates
  <2>2. entry' \in [Requests -> Entries]
    BY <1>2 DEF PostThrows, Entries
  <2>3. QED
    BY <1>2, <2>1, <2>2, TerminateType DEF PostThrows
<1>3. CASE ReleaseNext
  <2>1. Oldest(awaitingAttach) \in Envelopes
        /\ Tail(awaitingAttach) \in Seq(Envelopes)
    BY <1>3 DEF ReleaseNext, Oldest
  <2>2. QED
    BY <1>3, <2>1 DEF ReleaseNext, startupVars
<1>4. CASE ReleaseEnds \/ CallbackReturns
  BY <1>4 DEF ReleaseEnds, CallbackReturns, requestVars, startupVars
<1>5. ASSUME NEW r \in Requests, RequestTimeout(r)
      PROVE  ClientTypeOK'
  <2> DEFINE settled == IF r \in pending
       THEN [outcome EXCEPT ![r] =
               IF entry[r].posted THEN "timeout" ELSE "frame-attach-timeout"]
       ELSE outcome
  <2>1. settled \in [Requests -> Outcomes \cup {Unsettled}]
    BY DEF Outcomes, Rejections
  <2>2. pending \ {r} \in SUBSET Requests
    OBVIOUS
  <2>3. TerminateAll(pending \ {r}, settled)
    BY <1>5 DEF RequestTimeout
  <2>4. QED
    BY <2>1, <2>2, <2>3, TerminateAllType
<1>6. CASE HandshakeTimeout \/ CheckerTimeout \/ OnWorkerError
  <2>1. TerminateAll(pending, outcome)
    BY <1>6 DEF HandshakeTimeout, CheckerTimeout, OnWorkerError
  <2>2. QED
    BY <2>1, TerminateAllType
<1>7. QED
  BY <1>1, <1>2, <1>3, <1>4, <1>5, <1>6 DEF HostNext

\* Whatever m is: the session composed with its own Worker reads other messages.
LEMMA MessageType ==
  ASSUME ClientTypeOK, NEW m, OnMessage(m)
  PROVE  ClientTypeOK'
<1> USE DEF ClientTypeOK
<1>1. worker \in Sessions
  BY DEF OnMessage, Listening
<1>2. CASE OnReady(m)
  <2>1. /\ toWorker' \in Seq(HostMessages)
        /\ portsAttached' \in Seq(Sessions)
    <3>1. AttachFrame(worker) \in HostMessages
      BY <1>1 DEF HostMessages, AttachMessages, AttachFrame
    <3>2. CASE HasFrame
      <4>1. /\ toWorker' = Append(toWorker, AttachFrame(worker))
            /\ portsAttached' = Append(portsAttached, worker)
        BY <1>2, <3>2 DEF OnReady
      <4>2. QED
        BY <1>1, <3>1, <4>1, AppendType
    <3>3. CASE ~HasFrame
      BY <1>2, <3>3 DEF OnReady
    <3>4. QED
      BY <3>2, <3>3
  <2>2. /\ handshakeDone' = TRUE
        /\ handshakeTimer' = NoSession
        /\ readyPromise' = "resolved"
        /\ UNCHANGED <<worker, sessions, generation, disposed, frameAttached,
                       requestVars, checkerIdentity, checkerTimer,
                       checkerReadyPromise, stackVars>>
    BY <1>2 DEF OnReady
  <2>3. NoSession \in SessionOrNone /\ "resolved" \in PromiseStates
    BY BoundsAssumption DEF PromiseStates
  <2>4. QED
    BY <2>1, <2>2, <2>3 DEF requestVars, stackVars
<1>3. CASE OnReadyAttachFails(m)
  <2>1. "resolved" \in PromiseStates
    BY DEF PromiseStates
  <2>2. QED
    BY <1>3, <2>1, TerminateType DEF OnReadyAttachFails
<1>4. CASE OnFrameAttached(m)
  BY <1>4 DEF OnFrameAttached, requestVars, startupVars
<1>5. CASE OnCheckerReady(m)
  BY <1>5, BoundsAssumption
  DEF OnCheckerReady, requestVars, stackVars, PromiseStates
<1>6. CASE OnStartupFailure(m)
  BY <1>6, TerminateAllType DEF OnStartupFailure
<1>7. CASE SettleReply(m)
  <2>1. outcome' \in [Requests -> Outcomes \cup {Unsettled}]
    BY <1>7, ReplyOutcomeType DEF SettleReply, Matches
  <2>2. pending' \in SUBSET Requests /\ requestTimers' \in SUBSET Requests
    BY <1>7 DEF SettleReply
  <2>3. QED
    BY <1>7, <2>1, <2>2 DEF SettleReply, startupVars, stackVars
<1>8. CASE FatalReply(m)
  <2> DEFINE settled == [outcome EXCEPT ![m.requestId] = FatalOutcome(m)]
  <2>1. settled \in [Requests -> Outcomes \cup {Unsettled}]
    BY ReplyOutcomeType
  <2>2. pending \ {m.requestId} \in SUBSET Requests
    OBVIOUS
  <2>3. TerminateAll(pending \ {m.requestId}, settled)
    BY <1>8 DEF FatalReply
  <2>4. QED
    BY <2>1, <2>2, <2>3, TerminateAllType
<1>9. CASE Ignored(m)
  BY <1>9 DEF Ignored, clientVars, requestVars, startupVars, stackVars
<1>10. QED
  BY <1>2, <1>3, <1>4, <1>5, <1>6, <1>7, <1>8, <1>9 DEF OnMessage

LEMMA TakeType ==
  ASSUME ClientTypeOK, WorkerTakes
  PROVE  ClientTypeOK'
<1>1. Tail(toWorker) \in Seq(HostMessages)
  BY DEF WorkerTakes, ClientTypeOK
<1>2. QED
  BY <1>1 DEF WorkerTakes, ClientTypeOK, requestVars, startupVars, stackVars

LEMMA ClientTypeInit == ClientInit => ClientTypeOK
<1> SUFFICES ASSUME ClientInit
             PROVE  ClientTypeOK
  OBVIOUS
<1>1. entry \in [Requests -> Entries]
  BY BoundsAssumption DEF ClientInit, Entries
<1>2. /\ awaitingAttach \in Seq(Envelopes)
      /\ toWorker \in Seq(HostMessages)
      /\ portsAttached \in Seq(Sessions)
  BY DEF ClientInit
<1>3. 1 \in 1..(MaxRequests + 1) /\ NoSession \in SessionOrNone
      /\ 0 \in Generations
  BY BoundsAssumption
<1>4. QED
  BY <1>1, <1>2, <1>3 DEF ClientInit, ClientTypeOK, PromiseStates

\* Every variable of the session keeps its type.
THEOREM ClientTypeCorrect == OpenSpec => []ClientTypeOK
<1>1. ClientInit => ClientTypeOK
  BY ClientTypeInit
<1>2. ClientTypeOK /\ [OpenNext]_clientVars => ClientTypeOK'
  <2>1. ASSUME ClientTypeOK, UNCHANGED clientVars
        PROVE  ClientTypeOK'
    BY <2>1 DEF ClientTypeOK, clientVars, requestVars, startupVars, stackVars
  <2>2. QED
    BY <2>1, CallerType, HostType, MessageType, TakeType DEF OpenNext
<1>3. QED
  BY <1>1, <1>2, PTL DEF OpenSpec

=============================================================================
