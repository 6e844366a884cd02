------------------------- MODULE PolicyClientSafety --------------------------
(***************************************************************************
 The bookkeeping of PolicyClient: an issued request is pending or settled and
 never both, a result never changes, timers watch only what lives, and a
 session without a Worker strands nothing.  Together with the types these
 invariants are inductive: each handler restores all of them because each
 relies on the others (a timer fires only for a pending request, and a
 request is posted only while there is a Worker).

 On top of them, how a result comes about, where a request is between
 preprocess() and the Worker, and what is held until the port is confirmed.
 ***************************************************************************)
EXTENDS PolicyClientProofs

USE DEF NoSession, Sessions, SessionOrNone, Requests

Bookkeeping ==
  PendingXorSettled /\ TimersWatchTheLiving /\ NothingWithoutAWorker

SafetyInv == ClientTypeOK /\ Bookkeeping

-----------------------------------------------------------------------------
\* A reply or a timer settles with something: no outcome reads as unsettled.
LEMMA OutcomesSettle == Unsettled \notin Outcomes
  BY DEF Unsettled, Outcomes, Rejections

\* terminate() settles every pending request, disarms every timer and leaves
\* nothing behind, provided its caller settled what it takes out of `live`.
LEMMA TerminateKeeps ==
  ASSUME SafetyInv,
         NEW live \in SUBSET pending,
         NEW settled \in [Requests -> Outcomes \cup {Unsettled}],
         NEW ready,
         \A r \in pending \ live : settled[r] # Unsettled,
         \A r \in Requests \ pending : settled[r] = outcome[r],
         Terminate(live, settled, ready),
         UNCHANGED nextRequestId
  PROVE  Bookkeeping'
<1> USE DEF SafetyInv, Bookkeeping
<1>1. /\ worker' = NoSession
      /\ pending' = {}
      /\ awaitingAttach' = <<>>
      /\ posting' = {}
      /\ toWorker' = <<>>
      /\ handshakeTimer' = NoSession
      /\ checkerTimer' = NoSession
  BY DEF Terminate
<1>2. requestTimers' = {}
  BY DEF Terminate, TimersLeft, TimersWatchTheLiving
<1>3. ASSUME NEW r \in Requests
      PROVE  /\ Issued(r) => outcome'[r] # Unsettled
             /\ ~Issued(r) => outcome'[r] = Unsettled
  <2>1. outcome'[r] = IF r \in live THEN "session-terminated" ELSE settled[r]
    BY DEF Terminate, SettledByTermination
  <2>2. CASE r \in pending
    BY <2>1, <2>2 DEF PendingXorSettled, Unsettled
  <2>3. CASE r \notin pending
    BY <2>1, <2>3 DEF PendingXorSettled
  <2>4. QED
    BY <2>2, <2>3
<1>4. PendingXorSettled'
  BY <1>1, <1>3 DEF PendingXorSettled, Issued
<1>5. TimersWatchTheLiving'
  BY <1>1, <1>2 DEF TimersWatchTheLiving
<1>6. NothingWithoutAWorker'
  BY <1>1 DEF NothingWithoutAWorker
<1>7. QED
  BY <1>4, <1>5, <1>6

LEMMA TerminateAllKeeps ==
  ASSUME SafetyInv,
         NEW live \in SUBSET pending,
         NEW settled \in [Requests -> Outcomes \cup {Unsettled}],
         \A r \in pending \ live : settled[r] # Unsettled,
         \A r \in Requests \ pending : settled[r] = outcome[r],
         TerminateAll(live, settled)
  PROVE  Bookkeeping'
  BY TerminateKeeps DEF TerminateAll

\* Terminating without settling anything first.
LEMMA TerminatePendingKeeps ==
  ASSUME SafetyInv,
         NEW ready,
         Terminate(pending, outcome, ready),
         UNCHANGED nextRequestId
  PROVE  Bookkeeping'
<1>1. outcome \in [Requests -> Outcomes \cup {Unsettled}]
  BY DEF SafetyInv, ClientTypeOK
<1>2. QED
  BY <1>1, TerminateKeeps

-----------------------------------------------------------------------------
LEMMA CallerKeeps ==
  ASSUME SafetyInv, CallerNext
  PROVE  Bookkeeping'
<1> USE DEF SafetyInv, Bookkeeping, Issued
<1>1. CASE PublicStart
  <2>1. /\ worker = NoSession
        /\ ~disposed
        /\ UNCHANGED <<disposed, requestVars, stackVars, toWorker>>
        /\ StartWorker \/ StartFails
    BY <1>1 DEF PublicStart
  <2>2. /\ handshakeTimer' \in {NoSession, worker'}
        /\ checkerTimer' \in {NoSession, worker'}
    BY <2>1 DEF StartWorker, StartFails, TimersWatchTheLiving
  <2>3. QED
    BY <2>1, <2>2 DEF requestVars, stackVars, PendingXorSettled,
       TimersWatchTheLiving, NothingWithoutAWorker
<1>2. CASE WhenReady \/ WhenCheckerReady \/ NextGeneration
  BY <1>2 DEF WhenReady, WhenCheckerReady, NextGeneration, requestVars,
     startupVars, stackVars, PendingXorSettled, TimersWatchTheLiving,
     NothingWithoutAWorker
<1>3. CASE PreprocessFails
  <2>1. /\ worker = NoSession
        /\ worker' = NoSession
        /\ nextRequestId \in Requests
        /\ nextRequestId' = nextRequestId + 1
        /\ outcome' = [outcome EXCEPT ![nextRequestId] = "worker-create-failed"]
        /\ UNCHANGED <<disposed, pending, requestTimers, awaitingAttach,
                       stackVars, toWorker, handshakeTimer, checkerTimer>>
    BY <1>3 DEF PreprocessFails, StartFails
  <2>2. PendingXorSettled'
    <3>1. SUFFICES ASSUME NEW r \in Requests
                   PROVE  /\ r < nextRequestId + 1 =>
                               (r \in pending <=> outcome'[r] = Unsettled)
                          /\ ~(r < nextRequestId + 1) =>
                               r \notin pending /\ outcome'[r] = Unsettled
      BY <2>1 DEF PendingXorSettled
    <3>2. CASE r = nextRequestId
      BY <2>1, <3>2 DEF PendingXorSettled, ClientTypeOK, Unsettled
    <3>3. CASE r # nextRequestId
      <4>1. outcome'[r] = outcome[r]
        BY <2>1, <3>3 DEF ClientTypeOK
      <4>2. r < nextRequestId + 1 <=> r < nextRequestId
        BY <3>3, BoundsAssumption DEF ClientTypeOK
      <4>3. QED
        BY <4>1, <4>2 DEF PendingXorSettled
    <3>4. QED
      BY <3>2, <3>3
  <2>3. QED
    BY <2>1, <2>2 DEF stackVars, TimersWatchTheLiving, NothingWithoutAWorker
<1>4. ASSUME NEW g \in CallerGenerations, Preprocesses(g)
      PROVE  Bookkeeping'
  <2>1. /\ ~disposed
        /\ nextRequestId \in Requests
        /\ nextRequestId' = nextRequestId + 1
        /\ pending' = pending \cup {nextRequestId}
        /\ requestTimers' = requestTimers \cup {nextRequestId}
        /\ UNCHANGED <<disposed, outcome>>
    BY <1>4 DEF Preprocesses
  <2>2. /\ worker' # NoSession
        /\ handshakeTimer' \in {NoSession, worker'}
        /\ checkerTimer' \in {NoSession, worker'}
    <3>1. CASE worker = NoSession
      BY <1>4, <3>1, BoundsAssumption DEF Preprocesses, StartWorker, ClientTypeOK
    <3>2. CASE worker # NoSession
      BY <1>4, <3>2 DEF Preprocesses, startupVars, TimersWatchTheLiving
    <3>3. QED
      BY <3>1, <3>2
  <2>3. PendingXorSettled'
    <3>1. SUFFICES ASSUME NEW r \in Requests
                   PROVE  /\ r < nextRequestId + 1 =>
                               (r \in pending' <=> outcome[r] = Unsettled)
                          /\ ~(r < nextRequestId + 1) =>
                               r \notin pending' /\ outcome[r] = Unsettled
      BY <2>1 DEF PendingXorSettled
    <3>2. CASE r = nextRequestId
      BY <2>1, <3>2 DEF PendingXorSettled, ClientTypeOK
    <3>3. CASE r # nextRequestId
      <4>1. r < nextRequestId + 1 <=> r < nextRequestId
        BY <3>3, BoundsAssumption DEF ClientTypeOK
      <4>2. QED
        BY <2>1, <3>3, <4>1 DEF PendingXorSettled
    <3>4. QED
      BY <3>2, <3>3
  <2>4. QED
    BY <2>1, <2>2, <2>3 DEF TimersWatchTheLiving, NothingWithoutAWorker
<1>5. CASE Dispose
  BY <1>5, TerminatePendingKeeps DEF Dispose
<1>6. QED
  BY <1>1, <1>2, <1>3, <1>4, <1>5 DEF CallerNext

LEMMA HostKeeps ==
  ASSUME SafetyInv, HostNext
  PROVE  Bookkeeping'
<1> USE DEF SafetyInv, Bookkeeping, Issued
<1>1. ASSUME NEW e \in posting, PostEnvelope(e)
      PROVE  Bookkeeping'
  <2>1. worker # NoSession
    BY DEF NothingWithoutAWorker
  <2>2. UNCHANGED <<worker, disposed, nextRequestId, pending, requestTimers,
                    outcome, handshakeTimer, checkerTimer>>
    BY <1>1 DEF PostEnvelope, startupVars
  <2>3. QED
    BY <2>1, <2>2
    DEF PendingXorSettled, TimersWatchTheLiving, NothingWithoutAWorker
<1>2. ASSUME NEW e \in posting, PostThrows(e)
      PROVE  Bookkeeping'
  BY <1>2, TerminatePendingKeeps DEF PostThrows
<1>3. CASE ReleaseNext \/ ReleaseEnds \/ CallbackReturns
  BY <1>3 DEF ReleaseNext, ReleaseEnds, CallbackReturns, requestVars,
     startupVars, PendingXorSettled, TimersWatchTheLiving,
     NothingWithoutAWorker
<1>4. ASSUME NEW r \in Requests, RequestTimeout(r)
      PROVE  Bookkeeping'
  <2>1. r \in pending
    BY <1>4 DEF RequestTimeout, TimersWatchTheLiving
  <2> DEFINE code == IF entry[r].posted THEN "timeout" ELSE "frame-attach-timeout"
             settled == [outcome EXCEPT ![r] = code]
  <2>2. TerminateAll(pending \ {r}, settled)
    BY <1>4, <2>1 DEF RequestTimeout
  <2>3. code \in Outcomes
    BY DEF Outcomes
  <2>4. /\ settled \in [Requests -> Outcomes \cup {Unsettled}]
        /\ settled[r] # Unsettled
        /\ \A q \in Requests \ {r} : settled[q] = outcome[q]
    BY <2>3, OutcomesSettle DEF ClientTypeOK
  <2>5. \A q \in pending \ (pending \ {r}) : settled[q] # Unsettled
    BY <2>4
  <2>6. \A q \in Requests \ pending : settled[q] = outcome[q]
    BY <2>1, <2>4
  <2>7. pending \ {r} \in SUBSET pending
    OBVIOUS
  <2> HIDE DEF settled
  <2>8. QED
    BY <2>2, <2>4, <2>5, <2>6, <2>7, TerminateAllKeeps
<1>5. CASE HandshakeTimeout \/ CheckerTimeout \/ OnWorkerError
  <2>1. TerminateAll(pending, outcome)
    BY <1>5 DEF HandshakeTimeout, CheckerTimeout, OnWorkerError
  <2>2. QED
    BY <2>1, TerminatePendingKeeps DEF TerminateAll
<1>6. QED
  BY <1>1, <1>2, <1>3, <1>4, <1>5 DEF HostNext

LEMMA MessageKeeps ==
  ASSUME SafetyInv, NEW m, OnMessage(m)
  PROVE  Bookkeeping'
<1> USE DEF SafetyInv, Bookkeeping, Issued
<1>1. worker # NoSession /\ ~disposed
  BY DEF OnMessage, Listening
<1>2. CASE OnReady(m)
  <2>1. /\ handshakeTimer' = NoSession
        /\ UNCHANGED <<worker, disposed, requestVars, checkerTimer>>
    BY <1>2 DEF OnReady
  <2>2. QED
    BY <1>1, <2>1 DEF requestVars, PendingXorSettled, TimersWatchTheLiving,
       NothingWithoutAWorker
<1>3. CASE OnReadyAttachFails(m)
  BY <1>3, TerminatePendingKeeps DEF OnReadyAttachFails
<1>4. CASE OnFrameAttached(m) \/ OnCheckerReady(m) \/ Ignored(m)
  <2>1. /\ checkerTimer' \in {NoSession, checkerTimer}
        /\ UNCHANGED <<worker, disposed, requestVars, handshakeTimer>>
    BY <1>4 DEF OnFrameAttached, OnCheckerReady, Ignored, clientVars,
       startupVars
  <2>2. QED
    BY <1>1, <2>1 DEF requestVars, PendingXorSettled, TimersWatchTheLiving,
       NothingWithoutAWorker
<1>5. CASE OnStartupFailure(m)
  BY <1>5, TerminatePendingKeeps DEF OnStartupFailure, TerminateAll
<1>6. CASE SettleReply(m)
  <2> DEFINE r == m.requestId
  <2>1. /\ r \in pending
        /\ pending' = pending \ {r}
        /\ requestTimers' = requestTimers \ {r}
        /\ outcome' = [outcome EXCEPT ![r] = ReplyOutcome(m)]
        /\ UNCHANGED <<worker, disposed, nextRequestId, handshakeTimer,
                       checkerTimer>>
    BY <1>6 DEF SettleReply, Matches, startupVars
  <2>2. ReplyOutcome(m) # Unsettled
    BY ReplyOutcomeType, OutcomesSettle
  <2>3. PendingXorSettled'
    BY <2>1, <2>2 DEF PendingXorSettled, ClientTypeOK
  <2>4. QED
    BY <1>1, <2>1, <2>3 DEF TimersWatchTheLiving, NothingWithoutAWorker
<1>7. CASE FatalReply(m)
  <2> DEFINE r == m.requestId
             settled == [outcome EXCEPT ![r] = FatalOutcome(m)]
  <2>1. r \in pending /\ TerminateAll(pending \ {r}, settled)
    BY <1>7 DEF FatalReply, Matches
  <2>2. /\ settled \in [Requests -> Outcomes \cup {Unsettled}]
        /\ settled[r] # Unsettled
        /\ \A q \in Requests \ {r} : settled[q] = outcome[q]
    BY <2>1, ReplyOutcomeType, OutcomesSettle DEF ClientTypeOK
  <2>3. \A q \in pending \ (pending \ {r}) : settled[q] # Unsettled
    BY <2>2
  <2>4. \A q \in Requests \ pending : settled[q] = outcome[q]
    BY <2>1, <2>2
  <2>5. pending \ {r} \in SUBSET pending
    OBVIOUS
  <2> HIDE DEF settled
  <2>6. QED
    BY <2>1, <2>2, <2>3, <2>4, <2>5, TerminateAllKeeps
<1>8. QED
  BY <1>2, <1>3, <1>4, <1>5, <1>6, <1>7 DEF OnMessage

-----------------------------------------------------------------------------
LEMMA SafetyInvStep == SafetyInv /\ [OpenNext]_clientVars => SafetyInv'
<1> SUFFICES ASSUME SafetyInv, [OpenNext]_clientVars
             PROVE  SafetyInv'
  OBVIOUS
<1>1. CASE UNCHANGED clientVars
  BY <1>1 DEF SafetyInv, Bookkeeping, ClientTypeOK, clientVars, requestVars,
     startupVars, stackVars, PendingXorSettled, TimersWatchTheLiving,
     NothingWithoutAWorker, Issued
<1>2. CASE OpenNext
  <2>1. CASE WorkerTakes
    <3>1. toWorker # <<>>
      BY <2>1 DEF WorkerTakes
    <3>2. UNCHANGED <<worker, disposed, requestVars, startupVars, stackVars>>
      BY <2>1 DEF WorkerTakes
    <3>3. Bookkeeping'
      BY <3>1, <3>2 DEF SafetyInv, Bookkeeping, requestVars, startupVars,
         stackVars, PendingXorSettled, TimersWatchTheLiving,
         NothingWithoutAWorker, Issued
    <3>4. ClientTypeOK'
      BY <1>2, <2>1, TakeType DEF SafetyInv
    <3>5. QED
      BY <3>3, <3>4 DEF SafetyInv
  <2>2. QED
    BY <1>2, <2>1, CallerType, HostType, MessageType, CallerKeeps, HostKeeps,
       MessageKeeps DEF OpenNext, SafetyInv
<1>3. QED
  BY <1>1, <1>2

LEMMA SafetyInvInit == ClientInit => SafetyInv
<1>1. ClientInit => Bookkeeping
  BY DEF ClientInit, Bookkeeping, PendingXorSettled, TimersWatchTheLiving,
     NothingWithoutAWorker, Issued
<1>2. QED
  BY <1>1, ClientTypeInit DEF SafetyInv

LEMMA SafetyInvHolds == OpenSpec => []SafetyInv
  BY SafetyInvInit, SafetyInvStep, PTL DEF OpenSpec

\* No request is lost and none is settled twice: an issued request is pending
\* or settled, whatever the Worker says and whoever calls the session when.
THEOREM PendingXorSettledHolds == OpenSpec => []PendingXorSettled
  BY SafetyInvHolds, PTL DEF SafetyInv, Bookkeeping

\* Timers belong to the requests and the Worker that live.
THEOREM TimersWatchTheLivingHolds == OpenSpec => []TimersWatchTheLiving
  BY SafetyInvHolds, PTL DEF SafetyInv, Bookkeeping

\* A session without a Worker strands nothing, and a disposed one has none.
THEOREM NothingWithoutAWorkerHolds == OpenSpec => []NothingWithoutAWorker
  BY SafetyInvHolds, PTL DEF SafetyInv, Bookkeeping

-----------------------------------------------------------------------------
(***************************************************************************
 How a result comes about.
 ***************************************************************************)
Successes == {"rendered", "accepted"}

\* What the session settles a request as by itself.
Endings ==
  {"session-terminated", "timeout", "frame-attach-timeout",
   "worker-create-failed", "checker-poisoned", "authority-path-mismatch"}

\* m gives request r its result: a reply to it that is neither wrong nor fatal.
SettlesBy(r, m) == m.requestId = r /\ SettleReply(m)

\* terminate() changes no result that was given, and settles the rest as ended.
LEMMA TerminateSettles ==
  ASSUME NEW live \in SUBSET pending,
         NEW settled,
         NEW ready,
         NEW r \in Requests,
         settled[r] = outcome[r] \/ (r \in pending /\ settled[r] \in Endings),
         Terminate(live, settled, ready)
  PROVE  \/ outcome'[r] = outcome[r]
         \/ r \in pending /\ outcome'[r] \in Endings
<1>1. outcome'[r] = IF r \in live THEN "session-terminated" ELSE settled[r]
  BY DEF Terminate, SettledByTermination
<1>2. QED
  BY <1>1 DEF Endings

\* The session's own steps settle pending requests only, the next one when no
\* Worker can be created, and only with the codes of their own.
LEMMA OwnOutcomeStep ==
  ASSUME SafetyInv, CallerNext \/ HostNext, NEW r \in Requests
  PROVE  \/ outcome'[r] = outcome[r]
         \/ r \in pending \cup {nextRequestId} /\ outcome'[r] \in Endings
<1> USE DEF SafetyInv, Bookkeeping
<1>1. outcome \in [Requests -> Outcomes \cup {Unsettled}]
      /\ pending \in SUBSET Requests
  BY DEF ClientTypeOK
<1>2. CASE CallerNext
  <2>1. CASE Dispose
    BY <2>1, TerminateSettles DEF Dispose
  <2>2. CASE PreprocessFails
    BY <1>1, <2>2 DEF PreprocessFails, Endings
  <2>3. CASE ~Dispose /\ ~PreprocessFails
    BY <1>2, <2>3 DEF CallerNext, PublicStart, WhenReady, WhenCheckerReady,
       Preprocesses, NextGeneration, requestVars
  <2>4. QED
    BY <2>1, <2>2, <2>3
<1>3. CASE HostNext
  <2>1. ASSUME NEW e \in posting, PostEnvelope(e) \/ PostThrows(e)
        PROVE  \/ outcome'[r] = outcome[r]
               \/ r \in pending /\ outcome'[r] \in Endings
    BY <2>1, TerminateSettles DEF PostEnvelope, PostThrows
  <2>2. CASE ReleaseNext \/ ReleaseEnds \/ CallbackReturns
    BY <2>2 DEF ReleaseNext, ReleaseEnds, CallbackReturns, requestVars
  <2>3. ASSUME NEW q \in Requests, RequestTimeout(q)
        PROVE  \/ outcome'[r] = outcome[r]
               \/ r \in pending /\ outcome'[r] \in Endings
    <3> DEFINE code == IF entry[q].posted THEN "timeout" ELSE "frame-attach-timeout"
               settled == IF q \in pending THEN [outcome EXCEPT ![q] = code]
                          ELSE outcome
    <3>1. TerminateAll(pending \ {q}, settled)
      BY <2>3 DEF RequestTimeout
    <3>2. settled[r] = outcome[r] \/ (r \in pending /\ settled[r] \in Endings)
      BY <1>1 DEF Endings
    <3> HIDE DEF settled
    <3>3. QED
      BY <3>1, <3>2, TerminateSettles DEF TerminateAll
  <2>4. CASE HandshakeTimeout \/ CheckerTimeout \/ OnWorkerError
    BY <2>4, TerminateSettles
    DEF HandshakeTimeout, CheckerTimeout, OnWorkerError, TerminateAll
  <2>5. QED
    BY <1>3, <2>1, <2>2, <2>3, <2>4 DEF HostNext
<1>4. QED
  BY <1>2, <1>3

\* A message settles what is pending, and only a reply to it with what it says.
LEMMA MessageOutcome ==
  ASSUME SafetyInv, NEW m, OnMessage(m), NEW r \in Requests
  PROVE  \/ outcome'[r] = outcome[r]
         \/ r \in pending /\ outcome'[r] \in Endings
         \/ /\ r \in pending
            /\ SettlesBy(r, m) /\ outcome'[r] = ReplyOutcome(m)
<1> USE DEF SafetyInv, Bookkeeping
<1>1. outcome \in [Requests -> Outcomes \cup {Unsettled}]
      /\ pending \in SUBSET Requests
  BY DEF ClientTypeOK
<1>2. CASE OnReady(m) \/ OnFrameAttached(m) \/ OnCheckerReady(m) \/ Ignored(m)
  BY <1>2 DEF OnReady, OnFrameAttached, OnCheckerReady, Ignored, clientVars,
     requestVars
<1>3. CASE OnReadyAttachFails(m) \/ OnStartupFailure(m)
  BY <1>3, TerminateSettles
  DEF OnReadyAttachFails, OnStartupFailure, TerminateAll
<1>4. CASE SettleReply(m)
  BY <1>1, <1>4 DEF SettleReply, Matches, SettlesBy
<1>5. CASE FatalReply(m)
  <2> DEFINE settled == [outcome EXCEPT ![m.requestId] = FatalOutcome(m)]
  <2>1. /\ m.requestId \in pending
        /\ TerminateAll(pending \ {m.requestId}, settled)
    BY <1>5 DEF FatalReply, Matches
  <2>2. settled[r] = outcome[r] \/ (r \in pending /\ settled[r] \in Endings)
    BY <1>1, <2>1 DEF Endings, FatalOutcome
  <2> HIDE DEF settled
  <2>3. QED
    BY <2>1, <2>2, TerminateSettles DEF TerminateAll
<1>6. QED
  BY <1>2, <1>3, <1>4, <1>5 DEF OnMessage

\* Together, for the open specification.
LEMMA OutcomeStep ==
  ASSUME SafetyInv, OpenNext, NEW r \in Requests
  PROVE  \/ outcome'[r] = outcome[r]
         \/ r \in pending \cup {nextRequestId} /\ outcome'[r] \notin Successes
         \/ /\ r \in pending
            /\ \E m \in WorkerSays :
                 SettlesBy(r, m) /\ outcome'[r] = ReplyOutcome(m)
<1>1. CASE CallerNext \/ HostNext
  BY <1>1, OwnOutcomeStep DEF Endings, Successes
<1>2. CASE WorkerTakes
  BY <1>2 DEF WorkerTakes, requestVars
<1>3. ASSUME NEW m \in WorkerSays, OnMessage(m)
      PROVE  \/ outcome'[r] = outcome[r]
             \/ r \in pending /\ outcome'[r] \notin Successes
             \/ /\ r \in pending
                /\ SettlesBy(r, m) /\ outcome'[r] = ReplyOutcome(m)
  BY <1>3, MessageOutcome DEF Endings, Successes
<1>4. QED
  BY <1>1, <1>2, <1>3 DEF OpenNext

\* What a successful reply must have been.
LEMMA SuccessfulReply ==
  ASSUME NEW m, SettleReply(m), ReplyOutcome(m) \in Successes
  PROVE  /\ ~StaleEntry(m)
         /\ ReplyOutcome(m) = "accepted" => ~HasFrame
<1>1. /\ ~WrongGeneration(m)
      /\ m.kind # "refused"
      /\ ~StaleEntry(m)
  BY DEF ReplyOutcome, Successes
<1>2. ReplyOutcome(m) = "accepted" => m.status = "accepted"
  <2>1. CASE m.status = "rendered"
    BY <1>1, <2>1 DEF ReplyOutcome, RenderedOutcome
  <2>2. CASE m.status \in Rejections
    BY <1>1, <2>2 DEF ReplyOutcome, Rejections
  <2>3. CASE m.status \notin Rejections \cup {"rendered", "accepted"}
    BY <1>1, <2>3 DEF ReplyOutcome
  <2>4. QED
    BY <2>1, <2>2, <2>3
<1>3. m.kind = "result"
  BY <1>1 DEF SettleReply, Matches, IsReply, UnknownKind
<1>4. QED
  BY <1>1, <1>2, <1>3 DEF SettleReply, EndsSession

\* The other half of "exactly once": a result that was given never changes.
THEOREM OutcomeFinalHolds == OpenSpec => OutcomeFinal
<1>1. SafetyInv /\ [OpenNext]_clientVars =>
        [\A r \in Requests : outcome[r] # Unsettled =>
           outcome'[r] = outcome[r]]_clientVars
  <2> SUFFICES ASSUME SafetyInv, OpenNext, NEW r \in Requests,
                      outcome[r] # Unsettled
               PROVE  outcome'[r] = outcome[r]
    OBVIOUS
  <2>1. r \notin pending \cup {nextRequestId}
    BY BoundsAssumption DEF SafetyInv, Bookkeeping, PendingXorSettled, Issued,
       ClientTypeOK
  <2>2. QED
    BY <2>1, OutcomeStep
<1>2. QED
  BY <1>1, SafetyInvHolds, PTL DEF OpenSpec, OutcomeFinal

\* Only a request of the current document succeeds, at the moment it does.
THEOREM OnlyCurrentSucceedsHolds == OpenSpec => OnlyCurrentSucceeds
<1>1. SafetyInv /\ [OpenNext]_clientVars =>
        [\A r \in Requests :
           /\ outcome[r] = Unsettled
           /\ outcome'[r] \in {"rendered", "accepted"}
           => entry[r].generation = generation]_clientVars
  <2> SUFFICES ASSUME SafetyInv, OpenNext, NEW r \in Requests,
                      outcome[r] = Unsettled, outcome'[r] \in Successes
               PROVE  entry[r].generation = generation
    BY DEF Successes
  <2>1. PICK m \in WorkerSays : SettlesBy(r, m) /\ outcome'[r] = ReplyOutcome(m)
    BY OutcomeStep DEF Successes, Unsettled
  <2>2. ~StaleEntry(m)
    BY <2>1, SuccessfulReply DEF SettlesBy
  <2>3. QED
    BY <2>1, <2>2 DEF StaleEntry, SettlesBy
<1>2. QED
  BY <1>1, SafetyInvHolds, PTL DEF OpenSpec, OnlyCurrentSucceeds

\* A session with a frame never hands its caller a tree.
THEOREM NoTreeToAFrameSessionHolds == OpenSpec => []NoTreeToAFrameSession
<1>1. ClientInit => NoTreeToAFrameSession
  BY DEF ClientInit, NoTreeToAFrameSession, Unsettled
<1>2. SafetyInv /\ NoTreeToAFrameSession /\ [OpenNext]_clientVars
        => NoTreeToAFrameSession'
  <2> SUFFICES ASSUME SafetyInv, NoTreeToAFrameSession, [OpenNext]_clientVars,
                      HasFrame, NEW r \in Requests
               PROVE  outcome'[r] # "accepted"
    BY DEF NoTreeToAFrameSession
  <2>1. outcome[r] # "accepted"
    BY DEF NoTreeToAFrameSession
  <2>2. CASE UNCHANGED clientVars
    BY <2>1, <2>2 DEF clientVars, requestVars
  <2>3. CASE OpenNext
    BY <2>1, <2>3, OutcomeStep, SuccessfulReply DEF SettlesBy, Successes
  <2>4. QED
    BY <2>2, <2>3
<1>3. QED
  BY <1>1, <1>2, SafetyInvHolds, PTL DEF OpenSpec

-----------------------------------------------------------------------------
(***************************************************************************
 Where a request is on its way to the Worker: held, being posted or posted, in
 the order the requests were made.
 ***************************************************************************)
Posted ==
  {toWorker[i].requestId : i \in {k \in DOMAIN toWorker : toWorker[k].kind = "preprocess"}}

\* The queues, and what is between them, are in the order of the requests and
\* belong to the Worker that lives.
QueuesInOrder ==
  /\ RequestsInOrder(toWorker)
  /\ RequestsInOrder(awaitingAttach)
  /\ \A p \in Posted : \A h \in Held \cup BeingPosted : p < h
  /\ \A b \in BeingPosted : \A h \in Held : b < h
  /\ \A r \in Posted \cup Held \cup BeingPosted : r < nextRequestId
  /\ \A i \in DOMAIN toWorker : toWorker[i].session = worker
  /\ \A i \in DOMAIN awaitingAttach : awaitingAttach[i].session = worker
  /\ \A e, f \in posting : e = f /\ e.session = worker

\* While the port is confirmed only the release loop leaves anything held, and
\* no callback runs.
HeldForThePort ==
  /\ frameAttached => ~inCallback /\ (releasing \/ awaitingAttach = <<>>)
  /\ ~HasFrame => awaitingAttach = <<>>

EntriesTellThePlace ==
  \A r \in pending : entry[r].posted <=> r \notin Held \cup BeingPosted

PlaceInv == QueuesInOrder /\ HeldForThePort /\ EntriesTellThePlace

LEMMA PlaceOfNothing ==
  ASSUME awaitingAttach' = <<>>, toWorker' = <<>>, posting' = {}, pending' = {},
         frameAttached' => ~inCallback'
  PROVE  PlaceInv'
<1>1. Held' = {} /\ BeingPosted' = {} /\ Posted' = {}
  BY DEF Held, BeingPosted, Posted
<1>2. QueuesInOrder'
  BY <1>1 DEF QueuesInOrder, RequestsInOrder
<1>3. HeldForThePort'
  BY DEF HeldForThePort
<1>4. EntriesTellThePlace'
  BY DEF EntriesTellThePlace
<1>5. QED
  BY <1>2, <1>3, <1>4 DEF PlaceInv

\* Nothing moves, and requests settle.
LEMMA PlaceStays ==
  ASSUME PlaceInv, UNCHANGED <<worker, nextRequestId, awaitingAttach, toWorker, posting, entry>>,
         pending' \subseteq pending, HeldForThePort'
  PROVE  PlaceInv'
<1>1. Held' = Held /\ BeingPosted' = BeingPosted /\ Posted' = Posted
  BY DEF Held, BeingPosted, Posted
<1>2. QueuesInOrder'
  BY <1>1 DEF PlaceInv, QueuesInOrder, RequestsInOrder
<1>3. EntriesTellThePlace'
  BY <1>1 DEF PlaceInv, EntriesTellThePlace
<1>4. QED
  BY <1>2, <1>3 DEF PlaceInv

\* The types of what is on its way.
LEMMA PlaceTypes ==
  ASSUME ClientTypeOK
  PROVE  /\ awaitingAttach \in Seq(Envelopes) /\ toWorker \in Seq(HostMessages)
         /\ \A i \in DOMAIN awaitingAttach :
              /\ awaitingAttach[i] \in Envelopes
              /\ awaitingAttach[i].kind = "preprocess"
              /\ awaitingAttach[i].requestId \in Requests
         /\ \A i \in DOMAIN toWorker :
              toWorker[i].kind = "preprocess" => toWorker[i].requestId \in Requests
         /\ \A e \in posting : e.kind = "preprocess" /\ e.requestId \in Requests
         /\ nextRequestId \in Nat
         /\ Held \subseteq Requests /\ BeingPosted \subseteq Requests
         /\ Posted \subseteq Requests
<1>1. /\ awaitingAttach \in Seq(Envelopes) /\ toWorker \in Seq(HostMessages)
      /\ posting \subseteq Envelopes /\ nextRequestId \in Nat
  BY BoundsAssumption DEF ClientTypeOK
<1>2. \A e \in Envelopes : e.kind = "preprocess" /\ e.requestId \in Requests
  BY DEF Envelopes
<1>3. \A m \in HostMessages : m.kind = "preprocess" => m.requestId \in Requests
  BY DEF HostMessages, Envelopes, AttachMessages
<1>4. \A i \in DOMAIN awaitingAttach : awaitingAttach[i] \in Envelopes
  BY <1>1
<1>5. \A i \in DOMAIN toWorker : toWorker[i] \in HostMessages
  BY <1>1
<1>6. \A e \in posting : e \in Envelopes
  BY <1>1
<1>7. Held \subseteq Requests /\ BeingPosted \subseteq Requests /\ Posted \subseteq Requests
  BY <1>2, <1>3, <1>4, <1>5, <1>6 DEF Held, BeingPosted, Posted
<1>8. QED
  BY <1>1, <1>2, <1>3, <1>4, <1>5, <1>6, <1>7

LEMMA OrderAppend ==
  ASSUME NEW S, NEW msgs \in Seq(S), NEW m \in S, RequestsInOrder(msgs),
         m.kind = "preprocess" =>
           \A i \in DOMAIN msgs :
             msgs[i].kind = "preprocess" => msgs[i].requestId < m.requestId
  PROVE  RequestsInOrder(Append(msgs, m))
<1>1. \A i \in DOMAIN Append(msgs, m) :
        \/ i \in DOMAIN msgs /\ Append(msgs, m)[i] = msgs[i]
        \/ i = Len(msgs) + 1 /\ Append(msgs, m)[i] = m
  OBVIOUS
<1>2. \A i \in DOMAIN msgs : i \in Nat /\ i <= Len(msgs)
  OBVIOUS
<1>3. Len(msgs) \in Nat
  OBVIOUS
<1> DEFINE after == Append(msgs, m)
<1> HIDE DEF after
<1>4. ASSUME NEW i \in DOMAIN after, NEW j \in DOMAIN after, i < j,
             after[i].kind = "preprocess", after[j].kind = "preprocess"
      PROVE  after[i].requestId < after[j].requestId
  <2>1. i \in DOMAIN msgs /\ after[i] = msgs[i]
    BY <1>1, <1>2, <1>3, <1>4 DEF after
  <2>2. CASE j \in DOMAIN msgs /\ after[j] = msgs[j]
    BY <1>4, <2>1, <2>2 DEF RequestsInOrder
  <2>3. CASE after[j] = m
    BY <1>4, <2>1, <2>3
  <2>4. QED
    BY <1>1, <2>2, <2>3 DEF after
<1>5. QED
  BY <1>4 DEF RequestsInOrder, after

LEMMA OrderTail ==
  ASSUME NEW S, NEW msgs \in Seq(S), msgs # <<>>, RequestsInOrder(msgs)
  PROVE  RequestsInOrder(Tail(msgs))
<1>1. \A i \in DOMAIN Tail(msgs) :
        i \in Nat /\ i + 1 \in DOMAIN msgs /\ Tail(msgs)[i] = msgs[i + 1]
  OBVIOUS
<1> DEFINE rest == Tail(msgs)
<1>2. \A i \in DOMAIN rest : i \in Nat /\ i + 1 \in DOMAIN msgs /\ rest[i] = msgs[i + 1]
  BY <1>1
<1> HIDE DEF rest
<1>3. QED
  BY <1>2 DEF RequestsInOrder, rest

LEMMA OrderConcat ==
  ASSUME NEW S, NEW s \in Seq(S), NEW t \in Seq(S),
         RequestsInOrder(s), RequestsInOrder(t),
         \A i \in DOMAIN s : \A j \in DOMAIN t :
           s[i].kind = "preprocess" /\ t[j].kind = "preprocess"
             => s[i].requestId < t[j].requestId
  PROVE  RequestsInOrder(s \o t)
<1>1. \A i \in DOMAIN (s \o t) :
        \/ i \in DOMAIN s /\ (s \o t)[i] = s[i]
        \/ /\ i > Len(s) /\ i - Len(s) \in DOMAIN t
           /\ (s \o t)[i] = t[i - Len(s)]
  OBVIOUS
<1>2. /\ Len(s) \in Nat
      /\ \A i \in DOMAIN s : i \in Nat /\ i <= Len(s)
      /\ \A i \in DOMAIN (s \o t) : i \in Nat
  OBVIOUS
<1> DEFINE both == s \o t
<1> HIDE DEF both
<1>3. ASSUME NEW i \in DOMAIN both, NEW j \in DOMAIN both, i < j,
             both[i].kind = "preprocess", both[j].kind = "preprocess"
      PROVE  both[i].requestId < both[j].requestId
  <2>1. i \in Nat /\ j \in Nat /\ Len(s) \in Nat
    BY <1>2 DEF both
  <2>2. CASE i \in DOMAIN s /\ both[i] = s[i]
    BY <1>1, <1>3, <2>2 DEF RequestsInOrder, both
  <2>3. CASE i > Len(s) /\ i - Len(s) \in DOMAIN t /\ both[i] = t[i - Len(s)]
    <3>1. j - Len(s) \in DOMAIN t /\ both[j] = t[j - Len(s)]
      BY <1>1, <1>2, <1>3, <2>1, <2>3 DEF both
    <3>2. i - Len(s) < j - Len(s)
      BY <1>3, <2>1
    <3>3. QED
      BY <1>3, <2>3, <3>1, <3>2 DEF RequestsInOrder
  <2>4. QED
    BY <1>1, <2>2, <2>3 DEF both
<1>4. QED
  BY <1>3 DEF RequestsInOrder, both

\* A held envelope comes last, and the first one leaves.
LEMMA HeldAppend ==
  ASSUME ClientTypeOK, QueuesInOrder, NEW e \in Envelopes,
         awaitingAttach' = Append(awaitingAttach, e),
         \A h \in Held : h < e.requestId
  PROVE  Held' = Held \cup {e.requestId} /\ RequestsInOrder(awaitingAttach')
<1>1. awaitingAttach \in Seq(Envelopes)
  BY PlaceTypes
<1>2. /\ DOMAIN awaitingAttach' = DOMAIN awaitingAttach \cup {Len(awaitingAttach) + 1}
      /\ awaitingAttach'[Len(awaitingAttach) + 1] = e
      /\ \A i \in DOMAIN awaitingAttach : awaitingAttach'[i] = awaitingAttach[i]
  BY <1>1
<1>3. Held' = Held \cup {e.requestId}
  BY <1>2 DEF Held
<1>4. \A i \in DOMAIN awaitingAttach : awaitingAttach[i].requestId \in Held
  BY DEF Held
<1>5. RequestsInOrder(awaitingAttach)
  BY DEF QueuesInOrder
<1>6. QED
  BY <1>1, <1>3, <1>4, <1>5, OrderAppend

LEMMA HeldTail ==
  ASSUME ClientTypeOK, QueuesInOrder, awaitingAttach # <<>>,
         awaitingAttach' = Tail(awaitingAttach)
  PROVE  /\ Held = Held' \cup {Head(awaitingAttach).requestId}
         /\ RequestsInOrder(awaitingAttach')
         /\ \A h \in Held' : Head(awaitingAttach).requestId < h
         /\ Head(awaitingAttach).session = worker
         /\ \A i \in DOMAIN awaitingAttach' : awaitingAttach'[i].session = worker
<1>1. awaitingAttach \in Seq(Envelopes)
      /\ \A i \in DOMAIN awaitingAttach : awaitingAttach[i].kind = "preprocess"
  BY PlaceTypes
<1>2. /\ 1 \in DOMAIN awaitingAttach /\ Head(awaitingAttach) = awaitingAttach[1]
      /\ \A i \in DOMAIN awaitingAttach' :
           /\ i + 1 \in DOMAIN awaitingAttach /\ 1 < i + 1
           /\ awaitingAttach'[i] = awaitingAttach[i + 1]
      /\ \A i \in DOMAIN awaitingAttach :
           i = 1 \/ (i - 1 \in DOMAIN awaitingAttach' /\ awaitingAttach'[i - 1] = awaitingAttach[i])
  BY <1>1
<1>3. RequestsInOrder(awaitingAttach)
  BY DEF QueuesInOrder
<1>4. RequestsInOrder(awaitingAttach')
  BY <1>1, <1>3, OrderTail
<1>5. Held = Held' \cup {Head(awaitingAttach).requestId}
  BY <1>2 DEF Held
<1>6. \A h \in Held' : Head(awaitingAttach).requestId < h
  BY <1>1, <1>2, <1>3 DEF Held, RequestsInOrder
<1>7. /\ Head(awaitingAttach).session = worker
      /\ \A i \in DOMAIN awaitingAttach' : awaitingAttach'[i].session = worker
  BY <1>2 DEF QueuesInOrder
<1>8. QED
  BY <1>4, <1>5, <1>6, <1>7

LEMMA PostedAppend ==
  ASSUME ClientTypeOK, QueuesInOrder, NEW m \in HostMessages, m.session = worker,
         toWorker' = Append(toWorker, m),
         m.kind = "preprocess" => \A p \in Posted : p < m.requestId
  PROVE  /\ Posted' = IF m.kind = "preprocess" THEN Posted \cup {m.requestId} ELSE Posted
         /\ RequestsInOrder(toWorker')
         /\ \A i \in DOMAIN toWorker' : toWorker'[i].session = worker
<1>1. toWorker \in Seq(HostMessages)
  BY PlaceTypes
<1>2. /\ DOMAIN toWorker' = DOMAIN toWorker \cup {Len(toWorker) + 1}
      /\ toWorker'[Len(toWorker) + 1] = m
      /\ \A i \in DOMAIN toWorker : toWorker'[i] = toWorker[i]
  BY <1>1
<1>3. Posted' = IF m.kind = "preprocess" THEN Posted \cup {m.requestId} ELSE Posted
  BY <1>2 DEF Posted
<1>4. \A i \in DOMAIN toWorker :
        toWorker[i].kind = "preprocess" => toWorker[i].requestId \in Posted
  BY DEF Posted
<1>5. RequestsInOrder(toWorker) /\ (\A i \in DOMAIN toWorker : toWorker[i].session = worker)
  BY DEF QueuesInOrder
<1>6. RequestsInOrder(toWorker')
  BY <1>1, <1>4, <1>5, OrderAppend
<1>7. \A i \in DOMAIN toWorker' : toWorker'[i].session = worker
  BY <1>2, <1>5
<1>8. QED
  BY <1>3, <1>6, <1>7

LEMMA PostedTail ==
  ASSUME ClientTypeOK, QueuesInOrder, toWorker # <<>>, toWorker' = Tail(toWorker)
  PROVE  /\ Posted' \subseteq Posted
         /\ RequestsInOrder(toWorker')
         /\ \A i \in DOMAIN toWorker' : toWorker'[i].session = worker
<1>1. toWorker \in Seq(HostMessages)
  BY PlaceTypes
<1>2. \A i \in DOMAIN toWorker' :
        i + 1 \in DOMAIN toWorker /\ toWorker'[i] = toWorker[i + 1]
  BY <1>1
<1>3. RequestsInOrder(toWorker)
  BY DEF QueuesInOrder
<1>4. RequestsInOrder(toWorker')
  BY <1>1, <1>3, OrderTail
<1>5. Posted' \subseteq Posted
  BY <1>2 DEF Posted
<1>6. \A i \in DOMAIN toWorker' : toWorker'[i].session = worker
  BY <1>2 DEF QueuesInOrder
<1>7. QED
  BY <1>4, <1>5, <1>6

-----------------------------------------------------------------------------
\* preprocess() puts the newest request last: behind what is held, or alone on
\* its way because nothing is held once the port is confirmed.
LEMMA PreprocessPlace ==
  ASSUME SafetyInv, PlaceInv, NEW g \in CallerGenerations, Preprocesses(g)
  PROVE  PlaceInv'
<1> DEFINE n == nextRequestId
           envelope == Preprocess(worker', n, g, Declared)
<1>1. ClientTypeOK /\ QueuesInOrder /\ HeldForThePort /\ EntriesTellThePlace
  BY DEF SafetyInv, PlaceInv
<1>2. /\ CallerRuns
      /\ n \in Requests
      /\ nextRequestId' = n + 1
      /\ pending' = pending \cup {n}
      /\ entry' = [entry EXCEPT ![n] = [generation |-> g, posted |-> FALSE]]
      /\ UNCHANGED <<frameAttached, inCallback, releasing, toWorker>>
  BY DEF Preprocesses
<1>3. n \notin pending
  BY <1>2, BoundsAssumption
  DEF SafetyInv, Bookkeeping, PendingXorSettled, Issued, ClientTypeOK
<1>4. g \in Generations /\ worker' \in Sessions
  BY BoundsAssumption, <1>1
  DEF CallerGenerations, Preprocesses, StartWorker, ClientTypeOK, Generations
<1>5. /\ envelope \in Envelopes
      /\ envelope.requestId = n /\ envelope.session = worker'
  BY <1>2, <1>4 DEF Preprocess, Envelopes, Declared, Deliveries
<1>6. posting = {} /\ BeingPosted = {}
  BY <1>2 DEF CallerRuns, BeingPosted
<1>7. worker' = worker \/ (awaitingAttach = <<>> /\ toWorker = <<>>)
  BY DEF Preprocesses, SafetyInv, Bookkeeping, NothingWithoutAWorker
<1>8. /\ \A r \in Posted \cup Held : r < n
      /\ n \in Nat /\ Posted \subseteq Requests /\ Held \subseteq Requests
  BY <1>1, PlaceTypes DEF QueuesInOrder
<1>9. \A r \in Posted \cup Held \cup {n} : r < n + 1
  BY <1>8 DEF Requests
<1>10. /\ entry'[n].posted = FALSE
       /\ \A r \in pending : entry'[r].posted = entry[r].posted
  BY <1>1, <1>2, <1>3 DEF ClientTypeOK
<1>11. Posted' = Posted
  BY <1>2 DEF Posted
<1>12. n \notin Held
  BY <1>8
<1> HIDE DEF envelope
<1>13. CASE MustHold
  <2>1. awaitingAttach' = Append(awaitingAttach, envelope) /\ posting' = posting
    BY <1>13 DEF Preprocesses, envelope
  <2>2. BeingPosted' = {}
    BY <1>6, <2>1 DEF BeingPosted
  <2>3. Held' = Held \cup {n} /\ RequestsInOrder(awaitingAttach')
    BY <1>1, <1>5, <1>8, <2>1, HeldAppend
  <2>4. \A i \in DOMAIN awaitingAttach' : awaitingAttach'[i].session = worker'
    <3>1. awaitingAttach \in Seq(Envelopes)
      BY <1>1, PlaceTypes
    <3>2. \A i \in DOMAIN awaitingAttach' :
            \/ awaitingAttach'[i] = envelope
            \/ i \in DOMAIN awaitingAttach /\ awaitingAttach'[i] = awaitingAttach[i]
      BY <2>1, <3>1, <1>5
    <3>3. QED
      BY <1>1, <1>5, <1>7, <3>2 DEF QueuesInOrder
  <2>5. QueuesInOrder'
    BY <1>1, <1>2, <1>6, <1>7, <1>8, <1>9, <1>11, <2>1, <2>2, <2>3, <2>4
    DEF QueuesInOrder
  <2>6. HeldForThePort'
    BY <1>1, <1>2, <1>13 DEF HeldForThePort, MustHold
  <2>7. EntriesTellThePlace'
    BY <1>1, <1>2, <1>3, <1>6, <1>10, <2>2, <2>3 DEF EntriesTellThePlace
  <2>8. QED
    BY <2>5, <2>6, <2>7 DEF PlaceInv
<1>14. CASE ~MustHold
  <2>1. posting' = {envelope} /\ awaitingAttach' = awaitingAttach
    BY <1>14 DEF Preprocesses, envelope
  <2>2. awaitingAttach = <<>>
    BY <1>1, <1>2, <1>14 DEF HeldForThePort, MustHold, CallerRuns
  <2>3. Held = {} /\ Held' = {} /\ BeingPosted' = {n}
    BY <1>5, <2>1, <2>2 DEF Held, BeingPosted
  <2>4. \A e, f \in posting' : e = f /\ e.session = worker'
    BY <1>5, <2>1
  <2>5. QueuesInOrder'
    BY <1>1, <1>2, <1>7, <1>8, <1>9, <1>11, <2>1, <2>2, <2>3, <2>4
    DEF QueuesInOrder
  <2>6. HeldForThePort'
    BY <1>1, <1>2, <2>1 DEF HeldForThePort
  <2>7. EntriesTellThePlace'
    BY <1>1, <1>2, <1>3, <1>6, <1>10, <2>3 DEF EntriesTellThePlace
  <2>8. QED
    BY <2>5, <2>6, <2>7 DEF PlaceInv
<1>15. QED
  BY <1>13, <1>14

\* postEnvelope() moves the envelope behind what was posted, or drops it when
\* its request settled meanwhile.
LEMMA PostPlace ==
  ASSUME SafetyInv, PlaceInv, NEW e \in posting, PostEnvelope(e)
  PROVE  PlaceInv'
<1> DEFINE n == e.requestId
<1>1. ClientTypeOK /\ QueuesInOrder /\ HeldForThePort /\ EntriesTellThePlace
  BY DEF SafetyInv, PlaceInv
<1>2. /\ posting' = {}
      /\ UNCHANGED <<worker, frameAttached, nextRequestId, pending,
                     awaitingAttach, inCallback, releasing>>
  BY DEF PostEnvelope
<1>3. /\ e \in Envelopes /\ e \in HostMessages
      /\ e.kind = "preprocess" /\ n \in Requests /\ e.session = worker
  BY <1>1, PlaceTypes DEF QueuesInOrder, HostMessages, ClientTypeOK
<1>4. BeingPosted = {n} /\ BeingPosted' = {} /\ Held' = Held
  BY <1>1, <1>2 DEF BeingPosted, Held, QueuesInOrder
<1>5. /\ \A p \in Posted : p < n
      /\ \A h \in Held : n < h
      /\ n < nextRequestId
  BY <1>1, <1>4 DEF QueuesInOrder
<1>6. n \notin Held
  BY <1>3, <1>5
<1>7. HeldForThePort'
  BY <1>1, <1>2 DEF HeldForThePort
<1>8. CASE n \in pending
  <2>1. /\ entry' = [entry EXCEPT ![n].posted = TRUE]
        /\ toWorker' = Append(toWorker, e)
    BY <1>8 DEF PostEnvelope
  <2>2. /\ Posted' = Posted \cup {n}
        /\ RequestsInOrder(toWorker')
        /\ \A i \in DOMAIN toWorker' : toWorker'[i].session = worker
    BY <1>1, <1>3, <1>5, <2>1, PostedAppend
  <2>3. QueuesInOrder'
    BY <1>1, <1>2, <1>4, <1>5, <2>2 DEF QueuesInOrder
  <2>4. /\ entry'[n].posted = TRUE
        /\ \A r \in Requests \ {n} : entry'[r] = entry[r]
    BY <1>1, <1>3, <2>1 DEF ClientTypeOK, Entries
  <2>5. EntriesTellThePlace'
    BY <1>1, <1>2, <1>4, <1>6, <2>4 DEF EntriesTellThePlace, ClientTypeOK
  <2>6. QED
    BY <1>7, <2>3, <2>5 DEF PlaceInv
<1>9. CASE n \notin pending
  <2>1. UNCHANGED <<entry, toWorker>>
    BY <1>9 DEF PostEnvelope
  <2>2. Posted' = Posted
    BY <2>1 DEF Posted
  <2>3. QueuesInOrder'
    BY <1>1, <1>2, <1>4, <2>1, <2>2 DEF QueuesInOrder
  <2>4. EntriesTellThePlace'
    BY <1>1, <1>2, <1>4, <1>9, <2>1 DEF EntriesTellThePlace
  <2>5. QED
    BY <1>7, <2>3, <2>4 DEF PlaceInv
<1>10. QED
  BY <1>8, <1>9

\* A turn of the release loop takes the oldest held envelope.
LEMMA ReleasePlace ==
  ASSUME SafetyInv, PlaceInv, ReleaseNext
  PROVE  PlaceInv'
<1> DEFINE first == Head(awaitingAttach)
<1>1. ClientTypeOK /\ QueuesInOrder /\ HeldForThePort /\ EntriesTellThePlace
  BY DEF SafetyInv, PlaceInv
<1>2. /\ releasing /\ posting = {} /\ awaitingAttach # <<>>
      /\ posting' = {first}
      /\ awaitingAttach' = Tail(awaitingAttach)
      /\ UNCHANGED <<worker, frameAttached, nextRequestId, pending, entry,
                     inCallback, releasing, toWorker>>
  BY DEF ReleaseNext, Oldest
<1>3. /\ Held = Held' \cup {first.requestId}
      /\ RequestsInOrder(awaitingAttach')
      /\ \A h \in Held' : first.requestId < h
      /\ first.session = worker
      /\ \A i \in DOMAIN awaitingAttach' : awaitingAttach'[i].session = worker
  BY <1>1, <1>2, HeldTail
<1> HIDE DEF first
<1>4. BeingPosted = {} /\ BeingPosted' = {first.requestId} /\ Posted' = Posted
  BY <1>2 DEF BeingPosted, Posted
<1>5. QueuesInOrder'
  BY <1>1, <1>2, <1>3, <1>4 DEF QueuesInOrder
<1>6. HeldForThePort'
  <2>1. awaitingAttach' = <<>> \/ HasFrame
    BY <1>1, <1>2 DEF HeldForThePort
  <2>2. QED
    BY <1>1, <1>2, <2>1 DEF HeldForThePort
<1>7. EntriesTellThePlace'
  BY <1>1, <1>2, <1>3, <1>4 DEF EntriesTellThePlace
<1>8. QED
  BY <1>5, <1>6, <1>7 DEF PlaceInv

\* terminate() leaves nothing on its way.
LEMMA TerminatePlace ==
  ASSUME NEW live, NEW settled, NEW ready, Terminate(live, settled, ready)
  PROVE  PlaceInv'
<1>1. /\ awaitingAttach' = <<>> /\ toWorker' = <<>>
      /\ posting' = {} /\ pending' = {} /\ frameAttached' = FALSE
  BY DEF Terminate
<1>2. QED
  BY <1>1, PlaceOfNothing

LEMMA CallerPlace ==
  ASSUME SafetyInv, PlaceInv, CallerNext
  PROVE  PlaceInv'
<1>1. CASE PublicStart \/ PreprocessFails
  <2>1. /\ worker = NoSession
        /\ UNCHANGED <<awaitingAttach, toWorker, posting, pending,
                       frameAttached, inCallback>>
    BY <1>1 DEF PublicStart, PreprocessFails, requestVars, stackVars
  <2>2. /\ awaitingAttach = <<>> /\ toWorker = <<>>
        /\ posting = {} /\ pending = {}
    BY <2>1 DEF SafetyInv, Bookkeeping, NothingWithoutAWorker
  <2>3. frameAttached => ~inCallback
    BY DEF PlaceInv, HeldForThePort
  <2>4. QED
    BY <2>1, <2>2, <2>3, PlaceOfNothing
<1>2. CASE WhenReady \/ WhenCheckerReady \/ NextGeneration
  <2>1. UNCHANGED <<worker, nextRequestId, awaitingAttach, toWorker, posting,
                    entry, pending, frameAttached, inCallback, releasing>>
    BY <1>2 DEF WhenReady, WhenCheckerReady, NextGeneration, requestVars,
       stackVars
  <2>2. HeldForThePort'
    BY <2>1 DEF PlaceInv, HeldForThePort
  <2>3. QED
    BY <2>1, <2>2, PlaceStays
<1>3. CASE Dispose
  BY <1>3, TerminatePlace DEF Dispose
<1>4. QED
  BY <1>1, <1>2, <1>3, PreprocessPlace DEF CallerNext

LEMMA HostPlace ==
  ASSUME SafetyInv, PlaceInv, HostNext
  PROVE  PlaceInv'
<1>1. CASE ReleaseEnds \/ CallbackReturns
  <2>1. UNCHANGED <<worker, nextRequestId, awaitingAttach, toWorker, posting,
                    entry, pending, frameAttached>>
    BY <1>1 DEF ReleaseEnds, CallbackReturns, requestVars
  <2>2. HeldForThePort'
    <3>1. CASE ReleaseEnds
      BY <2>1, <3>1 DEF ReleaseEnds, SafetyInv, Bookkeeping,
         NothingWithoutAWorker, PlaceInv, HeldForThePort
    <3>2. CASE CallbackReturns
      BY <2>1, <3>2 DEF CallbackReturns, PlaceInv, HeldForThePort
    <3>3. QED
      BY <1>1, <3>1, <3>2
  <2>3. QED
    BY <2>1, <2>2, PlaceStays
<1>2. CASE \/ \E e \in posting : PostThrows(e)
           \/ \E r \in Requests : RequestTimeout(r)
           \/ HandshakeTimeout \/ CheckerTimeout \/ OnWorkerError
  BY <1>2, TerminatePlace DEF PostThrows, RequestTimeout, HandshakeTimeout,
     CheckerTimeout, OnWorkerError, TerminateAll
<1>3. QED
  BY <1>1, <1>2, PostPlace, ReleasePlace DEF HostNext

LEMMA MessagePlace ==
  ASSUME SafetyInv, PlaceInv, NEW m, OnMessage(m)
  PROVE  PlaceInv'
<1>1. ClientTypeOK /\ QueuesInOrder /\ HeldForThePort /\ EntriesTellThePlace
  BY DEF SafetyInv, PlaceInv
<1>2. ~inCallback /\ worker # NoSession
  BY DEF OnMessage, Listening, HostIdle
<1>3. CASE OnReady(m)
  <2>1. UNCHANGED <<worker, nextRequestId, awaitingAttach, posting, entry,
                    pending, frameAttached, inCallback, releasing>>
    BY <1>3 DEF OnReady, requestVars, stackVars
  <2>2. Held' = Held /\ BeingPosted' = BeingPosted
    BY <2>1 DEF Held, BeingPosted
  <2>3. /\ Posted' = Posted
        /\ RequestsInOrder(toWorker')
        /\ \A i \in DOMAIN toWorker' : toWorker'[i].session = worker
    <3>1. CASE HasFrame
      <4>1. /\ AttachFrame(worker) \in HostMessages
            /\ AttachFrame(worker).kind # "preprocess"
            /\ AttachFrame(worker).session = worker
        BY <1>1, <1>2, BoundsAssumption
        DEF AttachFrame, HostMessages, AttachMessages, ClientTypeOK
      <4>2. toWorker' = Append(toWorker, AttachFrame(worker))
        BY <1>3, <3>1 DEF OnReady
      <4>3. QED
        BY <1>1, <4>1, <4>2, PostedAppend
    <3>2. CASE ~HasFrame
      <4>1. toWorker' = toWorker
        BY <1>3, <3>2 DEF OnReady
      <4>2. QED
        BY <1>1, <4>1 DEF Posted, QueuesInOrder
    <3>3. QED
      BY <3>1, <3>2
  <2>4. QueuesInOrder'
    BY <1>1, <2>1, <2>2, <2>3 DEF QueuesInOrder
  <2>5. HeldForThePort' /\ EntriesTellThePlace'
    BY <1>1, <2>1, <2>2 DEF HeldForThePort, EntriesTellThePlace
  <2>6. QED
    BY <2>4, <2>5 DEF PlaceInv
<1>4. CASE OnReadyAttachFails(m) \/ OnStartupFailure(m) \/ FatalReply(m)
  BY <1>4, TerminatePlace
  DEF OnReadyAttachFails, OnStartupFailure, FatalReply, TerminateAll
<1>5. CASE OnFrameAttached(m) \/ OnCheckerReady(m) \/ SettleReply(m) \/ Ignored(m)
  <2>1. /\ UNCHANGED <<worker, nextRequestId, awaitingAttach, toWorker,
                       posting, entry, inCallback>>
        /\ pending' \subseteq pending
    BY <1>5 DEF OnFrameAttached, OnCheckerReady, SettleReply, Ignored,
       clientVars, requestVars, stackVars
  <2>2. releasing' = TRUE \/ UNCHANGED <<frameAttached, releasing>>
    BY <1>5 DEF OnFrameAttached, OnCheckerReady, SettleReply, Ignored,
       clientVars, stackVars
  <2>3. HeldForThePort'
    BY <1>1, <1>2, <2>1, <2>2 DEF HeldForThePort
  <2>4. QED
    BY <2>1, <2>3, PlaceStays
<1>6. QED
  BY <1>3, <1>4, <1>5 DEF OnMessage

LEMMA TakePlace ==
  ASSUME SafetyInv, PlaceInv, WorkerTakes
  PROVE  PlaceInv'
<1>1. ClientTypeOK /\ QueuesInOrder /\ HeldForThePort /\ EntriesTellThePlace
  BY DEF SafetyInv, PlaceInv
<1>2. /\ toWorker # <<>> /\ toWorker' = Tail(toWorker)
      /\ UNCHANGED <<worker, nextRequestId, awaitingAttach, posting, entry,
                     pending, frameAttached, inCallback, releasing>>
  BY DEF WorkerTakes, requestVars, stackVars
<1>3. Held' = Held /\ BeingPosted' = BeingPosted
  BY <1>2 DEF Held, BeingPosted
<1>4. /\ Posted' \subseteq Posted
      /\ RequestsInOrder(toWorker')
      /\ \A i \in DOMAIN toWorker' : toWorker'[i].session = worker
  BY <1>1, <1>2, PostedTail
<1>5. QueuesInOrder'
  BY <1>1, <1>2, <1>3, <1>4 DEF QueuesInOrder
<1>6. HeldForThePort' /\ EntriesTellThePlace'
  BY <1>1, <1>2, <1>3 DEF HeldForThePort, EntriesTellThePlace
<1>7. QED
  BY <1>5, <1>6 DEF PlaceInv

LEMMA PlaceInvInit == ClientInit => PlaceInv
<1> SUFFICES ASSUME ClientInit PROVE PlaceInv
  OBVIOUS
<1>1. Held = {} /\ BeingPosted = {} /\ Posted = {}
  BY DEF ClientInit, Held, BeingPosted, Posted
<1>2. QED
  BY <1>1 DEF ClientInit, PlaceInv, QueuesInOrder, RequestsInOrder,
     HeldForThePort, EntriesTellThePlace

LEMMA PlaceInvHolds == OpenSpec => []PlaceInv
<1>1. ClientInit => PlaceInv
  BY PlaceInvInit
<1>2. SafetyInv /\ PlaceInv /\ [OpenNext]_clientVars => PlaceInv'
  <2> SUFFICES ASSUME SafetyInv, PlaceInv, [OpenNext]_clientVars
               PROVE  PlaceInv'
    OBVIOUS
  <2>1. CASE UNCHANGED clientVars
    <3>1. UNCHANGED <<worker, nextRequestId, awaitingAttach, toWorker, posting,
                      entry, pending, frameAttached, inCallback, releasing>>
      BY <2>1 DEF clientVars, requestVars, stackVars
    <3>2. HeldForThePort'
      BY <3>1 DEF PlaceInv, HeldForThePort
    <3>3. QED
      BY <3>1, <3>2, PlaceStays
  <2>2. CASE OpenNext
    BY <2>2, CallerPlace, HostPlace, MessagePlace, TakePlace DEF OpenNext
  <2>3. QED
    BY <2>1, <2>2
<1>3. QED
  BY <1>1, <1>2, SafetyInvHolds, PTL DEF OpenSpec

\* A pending request is posted, held or being posted, and never two of these;
\* nothing stays held once the port is confirmed; and the Worker receives the
\* requests in the order preprocess() was called, under its own sessionId.
THEOREM EveryRequestInPlaceHolds == OpenSpec => []EveryRequestInPlace
<1>1. SafetyInv /\ PlaceInv => EveryRequestInPlace
  <2> SUFFICES ASSUME SafetyInv, PlaceInv
               PROVE  EveryRequestInPlace
    OBVIOUS
  <2>1. ClientTypeOK /\ QueuesInOrder /\ HeldForThePort /\ EntriesTellThePlace
    BY DEF SafetyInv, PlaceInv
  <2>2. ASSUME NEW r \in pending
        PROVE  entry[r].posted # (r \in Held \cup BeingPosted)
    <3>1. entry[r].posted \in BOOLEAN
      BY <2>1 DEF ClientTypeOK, Entries
    <3>2. entry[r].posted <=> r \notin Held \cup BeingPosted
      BY <2>1 DEF EntriesTellThePlace
    <3>3. QED
      BY <3>1, <3>2, Zenon
  <2>3. ASSUME NEW r \in pending
        PROVE  r \notin Held \cap BeingPosted
    BY <2>1, PlaceTypes DEF QueuesInOrder
  <2>4. NoRequestForgotten
    BY <2>1, <2>2, <2>3 DEF NoRequestForgotten, HeldForThePort
  <2>5. /\ toWorker \in Seq(HostMessages)
        /\ awaitingAttach \in Seq(HostMessages)
    BY <2>1, PlaceTypes DEF HostMessages
  <2>6. \A i \in DOMAIN toWorker : \A j \in DOMAIN awaitingAttach :
          toWorker[i].kind = "preprocess" /\ awaitingAttach[j].kind = "preprocess"
            => toWorker[i].requestId < awaitingAttach[j].requestId
    BY <2>1 DEF QueuesInOrder, Posted, Held
  <2>7. RequestsInOrder(toWorker \o awaitingAttach)
    BY <2>1, <2>5, <2>6, OrderConcat DEF QueuesInOrder
  <2>8. PostedInOrder
    BY <2>1, <2>7 DEF PostedInOrder, QueuesInOrder
  <2>9. QED
    BY <2>4, <2>8 DEF EveryRequestInPlace
<1>2. QED
  BY <1>1, SafetyInvHolds, PlaceInvHolds, PTL

-----------------------------------------------------------------------------
(***************************************************************************
 Holding until the port is confirmed, when onTerminated does not re-enter.
 ***************************************************************************)
\* A frame session that waits for its port posts nothing, and its release loop
\* can only be the end of one whose Worker is gone.
HeldInv ==
  /\ ~inCallback
  /\ HasFrame /\ ~frameAttached =>
       /\ \A r \in pending : ~entry[r].posted
       /\ posting = {}
       /\ releasing => worker = NoSession

LEMMA TerminateHeld ==
  ASSUME HeldInv, CallbackReenters = FALSE,
         NEW live, NEW settled, NEW ready, Terminate(live, settled, ready)
  PROVE  HeldInv'
<1>1. /\ posting' = {} /\ pending' = {} /\ worker' = NoSession
      /\ inCallback' = (inCallback \/ CallbackReenters)
  BY DEF Terminate
<1>2. ~inCallback'
  BY <1>1 DEF HeldInv
<1>3. QED
  BY <1>1, <1>2 DEF HeldInv

LEMMA CallerHeld ==
  ASSUME SafetyInv, HeldInv, CallbackReenters = FALSE, CallerNext
  PROVE  HeldInv'
<1>1. CASE PublicStart \/ PreprocessFails
  <2>1. /\ worker = NoSession /\ CallerRuns
        /\ UNCHANGED <<posting, pending, inCallback, releasing>>
    BY <1>1 DEF PublicStart, PreprocessFails, requestVars, stackVars
  <2>2. posting = {} /\ pending = {} /\ ~releasing
    BY <2>1 DEF SafetyInv, Bookkeeping, NothingWithoutAWorker, CallerRuns,
       HeldInv
  <2>3. QED
    BY <2>1, <2>2 DEF HeldInv
<1>2. CASE WhenReady \/ WhenCheckerReady \/ NextGeneration
  BY <1>2 DEF WhenReady, WhenCheckerReady, NextGeneration, requestVars,
     stackVars, HeldInv
<1>3. ASSUME NEW g \in CallerGenerations, Preprocesses(g)
      PROVE  HeldInv'
  <2>1. /\ CallerRuns
        /\ nextRequestId \in Requests
        /\ pending' = pending \cup {nextRequestId}
        /\ entry' = [entry EXCEPT ![nextRequestId] =
                       [generation |-> g, posted |-> FALSE]]
        /\ MustHold => posting' = posting
        /\ UNCHANGED <<frameAttached, inCallback, releasing>>
    BY <1>3 DEF Preprocesses
  <2>2. \A r \in pending' : entry'[r].posted => r \in pending /\ entry[r].posted
    BY <2>1 DEF SafetyInv, ClientTypeOK
  <2>3. ~inCallback' /\ ~releasing'
    BY <2>1 DEF HeldInv, CallerRuns
  <2>4. QED
    BY <2>1, <2>2, <2>3 DEF HeldInv, MustHold
<1>4. CASE Dispose
  <2>1. Terminate(pending, outcome, FailUnless(handshakeDone, readyPromise))
    BY <1>4 DEF Dispose
  <2>2. QED
    BY <2>1, TerminateHeld, Zenon
<1>5. QED
  BY <1>1, <1>2, <1>3, <1>4 DEF CallerNext

LEMMA HostHeld ==
  ASSUME HeldInv, CallbackReenters = FALSE, HostNext
  PROVE  HeldInv'
<1>1. ASSUME NEW e \in posting, PostEnvelope(e)
      PROVE  HeldInv'
  BY <1>1 DEF PostEnvelope, HeldInv
<1>2. CASE ReleaseNext \/ ReleaseEnds \/ CallbackReturns
  BY <1>2 DEF ReleaseNext, ReleaseEnds, CallbackReturns, requestVars, HeldInv
<1>3. CASE \/ \E e \in posting : PostThrows(e)
           \/ \E r \in Requests : RequestTimeout(r)
           \/ HandshakeTimeout \/ CheckerTimeout \/ OnWorkerError
  BY <1>3, TerminateHeld DEF PostThrows, RequestTimeout, HandshakeTimeout,
     CheckerTimeout, OnWorkerError, TerminateAll
<1>4. QED
  BY <1>1, <1>2, <1>3 DEF HostNext

LEMMA MessageHeld ==
  ASSUME HeldInv, CallbackReenters = FALSE, NEW m, OnMessage(m)
  PROVE  HeldInv'
<1>1. CASE OnReady(m) \/ OnCheckerReady(m) \/ SettleReply(m) \/ Ignored(m)
  <2>1. /\ pending' \subseteq pending
        /\ UNCHANGED <<entry, posting, worker, frameAttached, inCallback,
                       releasing>>
    BY <1>1 DEF OnReady, OnCheckerReady, SettleReply, Ignored, clientVars,
       requestVars, stackVars
  <2>2. QED
    BY <2>1 DEF HeldInv
<1>2. CASE OnFrameAttached(m)
  BY <1>2 DEF OnFrameAttached, HeldInv
<1>3. CASE OnReadyAttachFails(m) \/ OnStartupFailure(m) \/ FatalReply(m)
  BY <1>3, TerminateHeld
  DEF OnReadyAttachFails, OnStartupFailure, FatalReply, TerminateAll
<1>4. QED
  BY <1>1, <1>2, <1>3 DEF OnMessage

LEMMA HeldInvInit == ClientInit => HeldInv
  BY DEF ClientInit, HeldInv

\* Unless onTerminated calls back into the session, no request of a session
\* with a frame is posted to a Worker that has not confirmed its port.
THEOREM HeldUntilAttachedHolds ==
  ASSUME CallbackReenters = FALSE
  PROVE  OpenSpec => []HeldUntilAttached
<1>1. ClientInit => HeldInv
  BY HeldInvInit
<1>2. SafetyInv /\ HeldInv /\ [OpenNext]_clientVars => HeldInv'
  <2> SUFFICES ASSUME SafetyInv, HeldInv, [OpenNext]_clientVars
               PROVE  HeldInv'
    OBVIOUS
  <2>1. CASE UNCHANGED clientVars
    BY <2>1 DEF clientVars, requestVars, stackVars, HeldInv
  <2>2. CASE WorkerTakes
    BY <2>2 DEF WorkerTakes, requestVars, stackVars, HeldInv
  <2>3. QED
    BY <2>1, <2>2, CallerHeld, HostHeld, MessageHeld DEF OpenNext
<1>3. HeldInv => HeldUntilAttached
  BY DEF HeldInv, HeldUntilAttached
<1>4. QED
  BY <1>1, <1>2, <1>3, SafetyInvHolds, PTL DEF OpenSpec
=============================================================================
