---------------------------- MODULE PolicyClient -----------------------------
(***************************************************************************
 createPolicySession (src/policy-client.js): the host end of the policy
 Worker channel.  It creates Workers lazily, holds the requests of a frame
 session until the Worker confirmed the private port, settles every request
 once and terminates the Worker when anything goes wrong.

 The host is one JavaScript thread: a handler runs to completion.  A handler
 that calls out in the middle (worker.postMessage may throw, onTerminated is
 the embedder's callback and may call the session again) is split at those
 calls, and `posting`, `inCallback` and `releasing` are the frames of its call
 stack, innermost first.  While the stack is not empty no other event handler
 and no timer runs; only the callback may call the public operations.

 OpenSpec runs the client against an arbitrary Worker: any message of
 WorkerSays, at any time, in any order, any number of times.  PolicySession runs it against
 the Worker of this build.
 ***************************************************************************)
EXTENDS PolicyChannel

CONSTANTS
  CallbackReenters,   \* onTerminated calls back into the session
  ExplicitGeneration, \* callers pass options.generation of another document
  WorkerSays          \* the messages the open Worker may send

ASSUME ClientAssumption ==
  /\ CallbackReenters \in BOOLEAN
  /\ ExplicitGeneration \in BOOLEAN
  /\ WorkerSays \subseteq WorkerMessages

VARIABLES
  worker,               \* the live Worker (its sessionId), or NoSession
  sessions,             \* sessionIds handed out
  generation,           \* of the current document
  nextRequestId,
  disposed,
  handshakeDone,        \* policy/ready of the latest Worker was seen
  checkerIdentity,      \* policy/checker-ready of the latest Worker was seen
  frameAttached,        \* the Worker confirmed it holds the frame port
  pending,              \* keys of the pending map
  entry,                \* what the pending map holds for a request
  requestTimers,        \* requests whose setTimeout is armed
  outcome,              \* what each promise of preprocess() resolved with
  awaitingAttach,       \* envelopes held for the port, oldest first
  handshakeTimer,       \* the Worker whose handshake timer is armed
  checkerTimer,         \* the Worker whose wasm-init timer is armed
  readyPromise,         \* state of the promise whenReady() returns
  checkerReadyPromise,  \* state of the promise whenCheckerReady() returns
  posting,              \* envelopes handed to postEnvelope(): none or one
  inCallback,           \* onTerminated is running
  releasing,            \* the loop over awaitingAttach is running
  toWorker,             \* messages posted to the live Worker
  portsAttached         \* sessions passed to frame.attachPort(), in order

requestVars == <<nextRequestId, pending, entry, requestTimers, outcome,
                 awaitingAttach>>
startupVars == <<handshakeDone, checkerIdentity, handshakeTimer,
                 checkerTimer, readyPromise, checkerReadyPromise>>
stackVars == <<posting, inCallback, releasing>>
clientVars == <<worker, sessions, generation, disposed, frameAttached,
                requestVars, startupVars, stackVars, toWorker, portsAttached>>

Unsettled == "unsettled"

\* result.status, or result.reason.code of a rejection.
Outcomes ==
  Rejections \cup
  {"rendered", "accepted", "superseded", "refused",
   "generation-mismatch", "checker-poisoned", "authority-not-lean",
   "acceptance-malformed", "acceptance-identity-mismatch",
   "acceptance-checker-version", "rendered-with-tree",
   "authority-path-mismatch", "malformed-reply", "timeout",
   "frame-attach-timeout", "session-terminated", "worker-create-failed"}

PromiseStates == {"none", "pending", "resolved", "rejected"}

Entries == [generation : Generations, posted : BOOLEAN]

ClientTypeOK ==
  /\ worker \in SessionOrNone
  /\ sessions \in SessionOrNone
  /\ generation \in Generations
  /\ nextRequestId \in 1..(MaxRequests + 1)
  /\ disposed \in BOOLEAN
  /\ handshakeDone \in BOOLEAN
  /\ checkerIdentity \in BOOLEAN
  /\ frameAttached \in BOOLEAN
  /\ pending \in SUBSET Requests
  /\ entry \in [Requests -> Entries]
  /\ requestTimers \in SUBSET Requests
  /\ outcome \in [Requests -> Outcomes \cup {Unsettled}]
  /\ awaitingAttach \in Seq(Envelopes)
  /\ handshakeTimer \in SessionOrNone
  /\ checkerTimer \in SessionOrNone
  /\ readyPromise \in PromiseStates
  /\ checkerReadyPromise \in PromiseStates
  /\ posting \in SUBSET Envelopes
  /\ inCallback \in BOOLEAN
  /\ releasing \in BOOLEAN
  /\ toWorker \in Seq(HostMessages)
  /\ portsAttached \in Seq(Sessions)

ClientInit ==
  /\ worker = NoSession
  /\ sessions = 0
  /\ generation = 0
  /\ nextRequestId = 1
  /\ disposed = FALSE
  /\ handshakeDone = FALSE
  /\ checkerIdentity = FALSE
  /\ frameAttached = FALSE
  /\ pending = {}
  /\ entry = [r \in Requests |-> [generation |-> 0, posted |-> FALSE]]
  /\ requestTimers = {}
  /\ outcome = [r \in Requests |-> Unsettled]
  /\ awaitingAttach = <<>>
  /\ handshakeTimer = NoSession
  /\ checkerTimer = NoSession
  /\ readyPromise = "none"
  /\ checkerReadyPromise = "none"
  /\ posting = {}
  /\ inCallback = FALSE
  /\ releasing = FALSE
  /\ toWorker = <<>>
  /\ portsAttached = <<>>

\* No handler is on the host's stack: the event loop may run the next one.
HostIdle == posting = {} /\ ~inCallback /\ ~releasing

\* The embedder's code runs between handlers, or inside onTerminated.
CallerRuns == posting = {} /\ (inCallback \/ ~releasing)

-----------------------------------------------------------------------------
(***************************************************************************
 terminate(): `live` and `settled` are the pending map and the outcomes when
 it is called, `ready` the state of the startup promise.  The request that
 timed out was settled by the caller of this operator, every other pending
 request settles as session-terminated.
 ***************************************************************************)
FailUnless(done, promise) ==
  IF ~done /\ promise = "pending" THEN "rejected" ELSE promise

\* Seeded bug: requests that are still held are not settled.
Bug_SettlePostedOnly(live, settled) ==
  [r \in Requests |-> IF r \in live /\ entry[r].posted
                     THEN "session-terminated" ELSE settled[r]]

SettledByTermination(live, settled) ==
  [r \in Requests |-> IF r \in live THEN "session-terminated" ELSE settled[r]]

\* Seeded bug: settling a request does not clear its timer.
Bug_KeepTimers == requestTimers

TimersLeft == requestTimers \ pending

Terminate(live, settled, ready) ==
  /\ worker' = NoSession
  /\ frameAttached' = FALSE
  /\ awaitingAttach' = <<>>
  /\ handshakeTimer' = NoSession
  /\ checkerTimer' = NoSession
  /\ readyPromise' = ready
  /\ checkerReadyPromise' = FailUnless(FALSE, checkerReadyPromise)
  /\ pending' = {}
  /\ requestTimers' = TimersLeft
  /\ outcome' = SettledByTermination(live, settled)
  /\ toWorker' = <<>>
  /\ posting' = {}
  /\ inCallback' = (inCallback \/ CallbackReenters)

\* terminate() as the only effect of a handler.
TerminateAll(live, settled) ==
  /\ Terminate(live, settled, FailUnless(handshakeDone, readyPromise))
  /\ UNCHANGED <<sessions, generation, nextRequestId, disposed, entry,
                 handshakeDone, checkerIdentity, releasing, portsAttached>>

-----------------------------------------------------------------------------
(***************************************************************************
 Startup: the internal start(), and what it leaves when createWorker throws.
 ***************************************************************************)
Renewed(promise) == IF promise = "pending" THEN promise ELSE "pending"

StartWorker ==
  /\ sessions < MaxSessions
  /\ sessions' = sessions + 1
  /\ worker' = sessions + 1
  /\ handshakeDone' = FALSE
  /\ checkerIdentity' = FALSE
  /\ readyPromise' = Renewed(readyPromise)
  /\ checkerReadyPromise' = Renewed(checkerReadyPromise)
  /\ handshakeTimer' = sessions + 1
  /\ checkerTimer' = sessions + 1

StartFails ==
  /\ sessions < MaxSessions
  /\ sessions' = sessions + 1
  /\ worker' = NoSession
  /\ handshakeDone' = FALSE
  /\ checkerIdentity' = FALSE
  /\ readyPromise' = "rejected"
  /\ checkerReadyPromise' = Renewed(checkerReadyPromise)
  /\ UNCHANGED <<handshakeTimer, checkerTimer>>

\* The public start(): idempotent while a Worker lives.
PublicStart ==
  /\ CallerRuns
  /\ ~disposed
  /\ worker = NoSession
  /\ StartWorker \/ StartFails
  /\ UNCHANGED <<generation, disposed, frameAttached, requestVars, stackVars,
                 toWorker, portsAttached>>

WhenReady ==
  /\ CallerRuns
  /\ readyPromise = "none"
  /\ readyPromise' = "pending"
  /\ UNCHANGED <<worker, sessions, generation, disposed, frameAttached,
                 requestVars, handshakeDone, checkerIdentity, handshakeTimer,
                 checkerTimer, checkerReadyPromise, stackVars, toWorker,
                 portsAttached>>

WhenCheckerReady ==
  /\ CallerRuns
  /\ checkerReadyPromise = "none"
  /\ checkerReadyPromise' = "pending"
  /\ UNCHANGED <<worker, sessions, generation, disposed, frameAttached,
                 requestVars, handshakeDone, checkerIdentity, handshakeTimer,
                 checkerTimer, readyPromise, stackVars, toWorker,
                 portsAttached>>

-----------------------------------------------------------------------------
(***************************************************************************
 preprocess().  `g` is the generation the caller asked for; without one the
 request belongs to the current document.
 ***************************************************************************)
CallerGenerations ==
  IF ExplicitGeneration THEN Generations ELSE {generation}

Declared == IF HasFrame THEN "frame" ELSE "host"

\* Seeded bug: the handshake is taken for the confirmation of the port.
Bug_HoldUntilHandshake == HasFrame /\ ~handshakeDone

\* Seeded bug: a request is posted as soon as a Worker exists.
Bug_NeverHold == FALSE

MustHold == HasFrame /\ ~frameAttached

\* start() threw: the request settles at once and is never pending.
PreprocessFails ==
  /\ CallerRuns
  /\ ~disposed
  /\ nextRequestId \in Requests
  /\ worker = NoSession
  /\ StartFails
  /\ outcome' = [outcome EXCEPT ![nextRequestId] = "worker-create-failed"]
  /\ nextRequestId' = nextRequestId + 1
  /\ UNCHANGED <<generation, disposed, frameAttached, pending, entry,
                 requestTimers, awaitingAttach, stackVars, toWorker,
                 portsAttached>>

\* The request is registered with its timer armed, and its envelope is held
\* for the port or handed to postEnvelope().
Preprocesses(g) ==
  /\ CallerRuns
  /\ ~disposed
  /\ nextRequestId \in Requests
  /\ IF worker = NoSession
     THEN StartWorker
     ELSE UNCHANGED <<worker, sessions, startupVars>>
  /\ nextRequestId' = nextRequestId + 1
  /\ pending' = pending \cup {nextRequestId}
  /\ entry' = [entry EXCEPT ![nextRequestId] =
                 [generation |-> g, posted |-> FALSE]]
  /\ requestTimers' = requestTimers \cup {nextRequestId}
  /\ LET envelope == Preprocess(worker', nextRequestId, g, Declared)
     IN IF MustHold
        THEN /\ awaitingAttach' = Append(awaitingAttach, envelope)
             /\ UNCHANGED posting
        ELSE /\ posting' = {envelope}
             /\ UNCHANGED awaitingAttach
  /\ UNCHANGED <<generation, disposed, frameAttached, outcome, inCallback,
                 releasing, toWorker, portsAttached>>

\* postEnvelope(): the request may have settled while its envelope was held.
PostEnvelope(e) ==
  /\ e \in posting
  /\ posting' = {}
  /\ IF e.requestId \in pending
     THEN /\ entry' = [entry EXCEPT ![e.requestId].posted = TRUE]
          /\ toWorker' = Append(toWorker, e)
     ELSE UNCHANGED <<entry, toWorker>>
  /\ UNCHANGED <<worker, sessions, generation, disposed, frameAttached,
                 nextRequestId, pending, requestTimers, outcome,
                 awaitingAttach, startupVars, inCallback, releasing,
                 portsAttached>>

\* worker.postMessage throws: the envelope cannot be cloned.
PostThrows(e) ==
  /\ e \in posting
  /\ e.requestId \in pending
  /\ entry' = [entry EXCEPT ![e.requestId].posted = TRUE]
  /\ Terminate(pending, outcome, FailUnless(handshakeDone, readyPromise))
  /\ UNCHANGED <<sessions, generation, nextRequestId, disposed,
                 handshakeDone, checkerIdentity, releasing, portsAttached>>

\* Seeded bug: the loop pops the newest envelope instead of the oldest.
Bug_Newest(held) == held[Len(held)]

Oldest(held) == Head(held)

\* One turn of the loop in the frame-attached handler.
ReleaseNext ==
  /\ releasing
  /\ posting = {}
  /\ ~inCallback
  /\ awaitingAttach # <<>>
  /\ worker # NoSession
  /\ posting' = {Oldest(awaitingAttach)}
  /\ awaitingAttach' = Tail(awaitingAttach)
  /\ UNCHANGED <<worker, sessions, generation, disposed, frameAttached,
                 nextRequestId, pending, entry, requestTimers, outcome,
                 startupVars, inCallback, releasing, toWorker, portsAttached>>

ReleaseEnds ==
  /\ releasing
  /\ posting = {}
  /\ ~inCallback
  /\ awaitingAttach = <<>> \/ worker = NoSession
  /\ releasing' = FALSE
  /\ UNCHANGED <<worker, sessions, generation, disposed, frameAttached,
                 requestVars, startupVars, posting, inCallback, toWorker,
                 portsAttached>>

CallbackReturns ==
  /\ inCallback
  /\ posting = {}
  /\ inCallback' = FALSE
  /\ UNCHANGED <<worker, sessions, generation, disposed, frameAttached,
                 requestVars, startupVars, posting, releasing, toWorker,
                 portsAttached>>

NextGeneration ==
  /\ CallerRuns
  /\ generation < MaxGeneration
  /\ generation' = generation + 1
  /\ UNCHANGED <<worker, sessions, disposed, frameAttached, requestVars,
                 startupVars, stackVars, toWorker, portsAttached>>

\* Seeded bug: dispose() leaves the Worker to the garbage collector.
Bug_DisposeFlagOnly ==
  /\ CallerRuns
  /\ ~disposed
  /\ disposed' = TRUE
  /\ UNCHANGED <<worker, sessions, generation, frameAttached, requestVars,
                 startupVars, stackVars, toWorker, portsAttached>>

Dispose ==
  /\ CallerRuns
  /\ ~disposed
  /\ disposed' = TRUE
  /\ Terminate(pending, outcome, FailUnless(handshakeDone, readyPromise))
  /\ UNCHANGED <<sessions, generation, nextRequestId, entry, handshakeDone,
                 checkerIdentity, releasing, portsAttached>>

-----------------------------------------------------------------------------
(***************************************************************************
 Timers and the Worker's error event.
 ***************************************************************************)
\* Seeded bug: the budget starts when the envelope is posted.
Bug_TimeoutPostedOnly(r) ==
  /\ HostIdle
  /\ r \in requestTimers
  /\ r \in pending
  /\ entry[r].posted
  /\ TerminateAll(pending \ {r}, [outcome EXCEPT ![r] = "timeout"])

RequestTimeout(r) ==
  /\ HostIdle
  /\ r \in requestTimers
  /\ TerminateAll(pending \ {r},
       IF r \in pending
       THEN [outcome EXCEPT ![r] =
               IF entry[r].posted THEN "timeout" ELSE "frame-attach-timeout"]
       ELSE outcome)

HandshakeTimeout ==
  /\ HostIdle
  /\ handshakeTimer # NoSession
  /\ ~handshakeDone
  /\ TerminateAll(pending, outcome)

CheckerTimeout ==
  /\ HostIdle
  /\ checkerTimer # NoSession
  /\ ~checkerIdentity
  /\ TerminateAll(pending, outcome)

OnWorkerError ==
  /\ HostIdle
  /\ worker # NoSession
  /\ TerminateAll(pending, outcome)

-----------------------------------------------------------------------------
(***************************************************************************
 onMessage(): what the host does with a message `m` of the live Worker.  The
 listener is removed when the Worker is terminated, so nothing arrives while
 worker = NoSession.
 ***************************************************************************)
Listening == HostIdle /\ ~disposed /\ worker # NoSession

\* attachFrameToWorker() hands one end of a new channel to the Worker and the
\* other to the frame; if either refuses, the session is terminated.
OnReady(m) ==
  /\ m.kind = "ready"
  /\ ~handshakeDone
  /\ handshakeDone' = TRUE
  /\ handshakeTimer' = NoSession
  /\ readyPromise' = "resolved"
  /\ IF HasFrame
     THEN /\ toWorker' = Append(toWorker, AttachFrame(worker))
          /\ portsAttached' = Append(portsAttached, worker)
     ELSE UNCHANGED <<toWorker, portsAttached>>
  /\ UNCHANGED <<worker, sessions, generation, disposed, frameAttached,
                 requestVars, checkerIdentity, checkerTimer,
                 checkerReadyPromise, stackVars>>

OnReadyAttachFails(m) ==
  /\ m.kind = "ready"
  /\ ~handshakeDone
  /\ HasFrame
  /\ handshakeDone' = TRUE
  /\ Terminate(pending, outcome, "resolved")
  /\ UNCHANGED <<sessions, generation, nextRequestId, disposed, entry,
                 checkerIdentity, releasing, portsAttached>>

\* Seeded bug: the confirmation releases nothing.
Bug_AttachOnly(m) ==
  /\ m.kind = "frame-attached"
  /\ m.session = worker
  /\ frameAttached' = TRUE
  /\ UNCHANGED <<worker, sessions, generation, disposed, requestVars,
                 startupVars, stackVars, toWorker, portsAttached>>

OnFrameAttached(m) ==
  /\ m.kind = "frame-attached"
  /\ m.session = worker
  /\ frameAttached' = TRUE
  /\ releasing' = TRUE
  /\ UNCHANGED <<worker, sessions, generation, disposed, requestVars,
                 startupVars, posting, inCallback, toWorker, portsAttached>>

OnCheckerReady(m) ==
  /\ m.kind = "checker-ready"
  /\ m.version
  /\ checkerIdentity' = TRUE
  /\ checkerTimer' = NoSession
  /\ checkerReadyPromise' = "resolved"
  /\ UNCHANGED <<worker, sessions, generation, disposed, frameAttached,
                 requestVars, handshakeDone, handshakeTimer, readyPromise,
                 stackVars, toWorker, portsAttached>>

\* The Worker reports another checker, or that it could not start one.
OnStartupFailure(m) ==
  /\ m.kind = "failed" \/ (m.kind = "checker-ready" /\ ~m.version)
  /\ TerminateAll(pending, outcome)

-----------------------------------------------------------------------------
(***************************************************************************
 Replies.  The checks are made in this order; the first that applies settles
 the request.
 ***************************************************************************)
IsReply(m) == m.kind \in {"result", "refused", "other"}

\* Seeded bug: the pending map is not consulted.
Bug_MatchesSession(m) == IsReply(m) /\ m.session = worker

\* isPolicyEnvelope for this session, and a request still pending.
Matches(m) == IsReply(m) /\ m.session = worker /\ m.requestId \in pending

WrongGeneration(m) == m.generation # entry[m.requestId].generation

PoisonedReply(m) == m.kind = "result" /\ m.status = "checker-poisoned"

\* Seeded bug: the comparison looks the wrong way.
Bug_NewerEntry(m) == entry[m.requestId].generation > generation

\* The request belongs to a document that was replaced meanwhile.
StaleEntry(m) == entry[m.requestId].generation # generation

RenderedOutcome(m) ==
  IF ~m.lean THEN "authority-not-lean"
  ELSE IF m.token # "matches" THEN "acceptance-identity-mismatch"
  ELSE IF m.tree THEN "rendered-with-tree"
  ELSE "rendered"

AcceptedOutcome(m) ==
  IF ~m.lean THEN "authority-not-lean"
  ELSE CASE m.token = "malformed" -> "acceptance-malformed"
         [] m.token = "foreign" -> "acceptance-identity-mismatch"
         [] m.token = "other-version" -> "acceptance-checker-version"
         [] OTHER -> "accepted"

ReplyOutcome(m) ==
  IF WrongGeneration(m) THEN "generation-mismatch"
  ELSE IF m.kind = "refused" THEN "refused"
  ELSE IF StaleEntry(m) THEN "superseded"
  ELSE CASE m.status = "rendered" -> RenderedOutcome(m)
         [] m.status = "accepted" -> AcceptedOutcome(m)
         [] m.status \in Rejections -> m.status
         [] OTHER -> "malformed-reply"

\* Seeded bug: a tree sent to a frame session is an ordinary result.
Bug_PoisonOnlyEnds(m) == ~WrongGeneration(m) /\ PoisonedReply(m)

\* A reply that also ends the session, with what it settles its request as.
EndsSession(m) ==
  /\ ~WrongGeneration(m)
  /\ \/ PoisonedReply(m)
     \/ HasFrame /\ m.kind = "result" /\ m.status = "accepted" /\ ~StaleEntry(m)

FatalOutcome(m) ==
  IF PoisonedReply(m) THEN "checker-poisoned" ELSE "authority-path-mismatch"

\* A reply of no known kind is ignored once its generation matched.
UnknownKind(m) == m.kind = "other" /\ ~WrongGeneration(m)

SettleReply(m) ==
  /\ Matches(m)
  /\ ~EndsSession(m)
  /\ ~UnknownKind(m)
  /\ pending' = pending \ {m.requestId}
  /\ requestTimers' = requestTimers \ {m.requestId}
  /\ outcome' = [outcome EXCEPT ![m.requestId] = ReplyOutcome(m)]
  /\ UNCHANGED <<worker, sessions, generation, disposed, frameAttached,
                 nextRequestId, entry, awaitingAttach, startupVars, stackVars,
                 toWorker, portsAttached>>

FatalReply(m) ==
  /\ Matches(m)
  /\ EndsSession(m)
  /\ TerminateAll(pending \ {m.requestId},
                  [outcome EXCEPT ![m.requestId] = FatalOutcome(m)])

\* Duplicates, strangers and late replies change nothing.
Ignored(m) ==
  /\ \/ m.kind = "ready" /\ handshakeDone
     \/ m.kind = "frame-attached" /\ m.session # worker
     \/ IsReply(m) /\ (~Matches(m) \/ UnknownKind(m))
  /\ UNCHANGED clientVars

OnMessage(m) ==
  /\ Listening
  /\ \/ OnReady(m)
     \/ OnReadyAttachFails(m)
     \/ OnFrameAttached(m)
     \/ OnCheckerReady(m)
     \/ OnStartupFailure(m)
     \/ SettleReply(m)
     \/ FatalReply(m)
     \/ Ignored(m)

-----------------------------------------------------------------------------
\* What the embedder does: the public operations of the session.
CallerNext ==
  \/ PublicStart
  \/ WhenReady
  \/ WhenCheckerReady
  \/ PreprocessFails
  \/ \E g \in CallerGenerations : Preprocesses(g)
  \/ NextGeneration
  \/ Dispose

\* What the host's own event loop and call stack do.
HostNext ==
  \/ \E e \in posting : PostEnvelope(e) \/ PostThrows(e)
  \/ ReleaseNext
  \/ ReleaseEnds
  \/ CallbackReturns
  \/ \E r \in Requests : RequestTimeout(r)
  \/ HandshakeTimeout
  \/ CheckerTimeout
  \/ OnWorkerError

\* The Worker's event loop takes the oldest message posted to it.
WorkerTakes ==
  /\ toWorker # <<>>
  /\ toWorker' = Tail(toWorker)
  /\ UNCHANGED <<worker, sessions, generation, disposed, frameAttached,
                 requestVars, startupVars, stackVars, portsAttached>>

OpenNext ==
  \/ CallerNext
  \/ HostNext
  \/ WorkerTakes
  \/ \E m \in WorkerSays : OnMessage(m)

(***************************************************************************
 Fairness: a JavaScript handler that started finishes, and a timer that
 stays armed fires.  An expired timer is a queued task: a message handler
 that runs meanwhile delays it and does not cancel it, so a timer that is
 runnable again and again runs (SF).  Nothing is assumed of the Worker or of
 the callers.
 ***************************************************************************)
HostFairness ==
  /\ WF_clientVars(\E e \in posting : PostEnvelope(e) \/ PostThrows(e))
  /\ WF_clientVars(ReleaseNext \/ ReleaseEnds)
  /\ WF_clientVars(CallbackReturns)
  /\ \A r \in Requests : SF_clientVars(RequestTimeout(r))
  /\ SF_clientVars(HandshakeTimeout)
  /\ SF_clientVars(CheckerTimeout)

OpenSpec == ClientInit /\ [][OpenNext]_clientVars

FairOpenSpec == OpenSpec /\ HostFairness

-----------------------------------------------------------------------------
(***************************************************************************
 Safety.
 ***************************************************************************)
Issued(r) == r < nextRequestId

\* An issued request is pending or settled, never both and never neither: no
\* handler drops an entry without resolving its promise, and a reply can only
\* settle what is still pending ("preprocess() always settles exactly once").
PendingXorSettled ==
  \A r \in Requests :
    /\ Issued(r) => (r \in pending <=> outcome[r] = Unsettled)
    /\ ~Issued(r) => r \notin pending /\ outcome[r] = Unsettled

\* The other half of "exactly once": no later reply, timer, termination or
\* callback changes the result a caller was given.
OutcomeFinal ==
  [][\A r \in Requests :
       outcome[r] # Unsettled => outcome'[r] = outcome[r]]_clientVars

\* Timers belong to what they watch.  A timer that outlived its request or its
\* Worker would terminate the innocent session that replaced it.
TimersWatchTheLiving ==
  /\ requestTimers = pending
  /\ handshakeTimer \in {NoSession, worker}
  /\ checkerTimer \in {NoSession, worker}

\* Without a Worker nothing is pending or held, and a disposed session has no
\* Worker: terminate() settles everything it strands.
NothingWithoutAWorker ==
  /\ worker = NoSession =>
       pending = {} /\ awaitingAttach = <<>> /\ posting = {} /\ toWorker = <<>>
  /\ disposed => worker = NoSession

Held == {awaitingAttach[i].requestId : i \in DOMAIN awaitingAttach}
BeingPosted == {e.requestId : e \in posting}

\* A pending request was posted, or waits for the port, or is being posted,
\* and never two of these; once the port is confirmed and the release loop is
\* over, nothing waits any more, however requests and the confirmation raced.
NoRequestForgotten ==
  /\ \A r \in pending :
       /\ entry[r].posted # (r \in Held \cup BeingPosted)
       /\ r \notin Held \cap BeingPosted
  /\ frameAttached /\ ~releasing => awaitingAttach = <<>>

RequestsInOrder(msgs) ==
  \A i, j \in DOMAIN msgs :
    i < j /\ msgs[i].kind = "preprocess" /\ msgs[j].kind = "preprocess"
      => msgs[i].requestId < msgs[j].requestId

\* The Worker receives requests in the order they were made, each once and
\* under its own sessionId; holding and releasing does not reorder.
PostedInOrder ==
  /\ RequestsInOrder(toWorker \o awaitingAttach)
  /\ \A i \in DOMAIN toWorker : toWorker[i].session = worker

\* Between preprocess() and the Worker every request keeps its place.
EveryRequestInPlace == NoRequestForgotten /\ PostedInOrder

\* "A session with a frame HOLDS its requests until the Worker confirms it
\* installed the port": no request of a frame session is posted to a Worker
\* that has not confirmed its port.  It holds unless a callback re-enters.
HeldUntilAttached ==
  HasFrame /\ ~frameAttached => \A r \in pending : ~entry[r].posted

\* Only the current document's request settles as rendered or accepted, at
\* the moment it does: an answer that raced nextGeneration() is superseded.
OnlyCurrentSucceeds ==
  [][\A r \in Requests :
       /\ outcome[r] = Unsettled
       /\ outcome'[r] \in {"rendered", "accepted"}
       => entry[r].generation = generation]_clientVars

\* A frame session never hands its caller a tree, whatever the Worker says.
NoTreeToAFrameSession ==
  HasFrame => \A r \in Requests : outcome[r] # "accepted"

(***************************************************************************
 Liveness, against a Worker that may never answer.
 ***************************************************************************)
\* Every request settles, for whatever reason: held, posted to a Worker that
\* hangs, or caught in a termination.
EveryRequestSettles ==
  \A r \in Requests : r \in pending ~> r \notin pending

\* Both startup stages of a created Worker end: the Worker reports, or the
\* stage's own timer terminates it.
StartupEnds ==
  /\ worker # NoSession ~> readyPromise # "pending"
  /\ worker # NoSession ~> checkerReadyPromise # "pending"

\* Nobody who called the session waits for ever.
NobodyWaitsForever == EveryRequestSettles /\ StartupEnds
=============================================================================
