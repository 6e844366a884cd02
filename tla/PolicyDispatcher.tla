-------------------------- MODULE PolicyDispatcher --------------------------
(***************************************************************************
 The policy Worker: createPolicyDispatcher (src/policy-dispatcher.js) as
 src/policy-worker.js runs it, with the sending end of the private port to
 the frame, createFrameSender (src/frame-channel.js).

 A Worker is one thread too: receive(), ready(), fail() and an
 acknowledgement run to completion.  drain() posts one reply per turn of its
 loop, which the host may read before the loop ends, so each turn is a step
 and `draining` keeps other handlers out.  A port is named by the session of
 the attach-frame message that carried it.

 What core.preprocess() decides is a choice here; a checker that trapped once
 answers nothing any more.
 ***************************************************************************)
EXTENDS PolicyChannel, FiniteSets

CONSTANT QueueMax    \* POLICY_STARTUP_QUEUE_MAX

ASSUME QueueAssumption == QueueMax \in Nat

VARIABLES
  core,           \* "boot", "starting", then "ready" or "failed"
  closed,         \* dispose() was called
  poisoned,       \* the Lean instance trapped
  queued,         \* requests received before the checker was ready
  draining,       \* drain() is running
  frameSender,    \* the port of the installed sender, or NoSession
  senderSeq,      \* last sequence number the sender used
  senderPending,  \* renders waiting for the frame's acknowledgement
  toHost,         \* messages posted to the host
  toFrame         \* per port: render commands posted on it

workerVars == <<core, closed, poisoned, queued, draining, frameSender,
                senderSeq, senderPending, toHost, toFrame>>

\* What else a host could send: an unknown kind, an undeclared delivery.
ForeignEnvelopes ==
  [kind : {"preprocess", "other"}, session : Sessions, requestId : Requests,
   generation : Generations, delivery : Deliveries \cup {"unspecified"}]

\* A reply to what is not an envelope carries no identity.
BadAttach == Reply("refused", NoSession, 0, 0, "other", FALSE, "malformed", FALSE)

WorkerTypeOK ==
  /\ core \in {"boot", "starting", "ready", "failed"}
  /\ closed \in BOOLEAN
  /\ poisoned \in BOOLEAN
  /\ queued \in Seq(ForeignEnvelopes)
  /\ Len(queued) <= QueueMax
  /\ draining \in BOOLEAN
  /\ frameSender \in SessionOrNone
  /\ senderSeq \in Nat
  /\ senderPending \subseteq
       [command : Commands, session : Sessions]
  /\ toHost \in Seq(WorkerMessages \cup {BadAttach})
  /\ toFrame \in [Sessions -> Seq(Commands)]

WorkerInit ==
  /\ core = "boot"
  /\ closed = FALSE
  /\ poisoned = FALSE
  /\ queued = <<>>
  /\ draining = FALSE
  /\ frameSender = NoSession
  /\ senderSeq = 0
  /\ senderPending = {}
  /\ toHost = <<>>
  /\ toFrame = [s \in Sessions |-> <<>>]

WorkerIdle == core # "boot" /\ ~draining /\ ~closed

Post(msg) == toHost' = Append(toHost, msg)

-----------------------------------------------------------------------------
(***************************************************************************
 Replies of the Worker to an envelope e.
 ***************************************************************************)
Rejection(e, status) ==
  Reply("result", e.session, e.requestId, e.generation, status, FALSE,
        "malformed", FALSE)
Refusal(e) ==
  Reply("refused", e.session, e.requestId, e.generation, "other", FALSE,
        "malformed", FALSE)
AcceptedReply(e) ==
  Reply("result", e.session, e.requestId, e.generation, "accepted", TRUE,
        "matches", TRUE)
RenderedReply(e) ==
  Reply("result", e.session, e.requestId, e.generation, "rendered", TRUE,
        "matches", FALSE)

\* deliveryRefusal(): the declared delivery must fit the port's state.
DeliveryRefused(e) ==
  CASE e.delivery = "frame" -> frameSender = NoSession
    [] e.delivery = "host" -> frameSender # NoSession
    [] OTHER -> TRUE

\* Seeded bug: the flag is not consulted before the next document.
Bug_UsePoisoned == {"accepted", "rejected", "checker-poisoned"}

\* core.preprocess(): a poisoned checker refuses before it parses.
Verdicts ==
  IF poisoned THEN {"checker-poisoned"}
  ELSE {"accepted", "rejected", "checker-poisoned"}

HostGetsTree == frameSender = NoSession

\* serve() without a tree for the frame: one reply, at once.
Answers(e) ==
  IF DeliveryRefused(e) THEN {Rejection(e, "undeliverable")}
  ELSE IF e.kind # "preprocess" THEN {Refusal(e)}
  ELSE {Rejection(e, v) : v \in Verdicts \ {"accepted"}}
       \cup (IF "accepted" \in Verdicts /\ HostGetsTree
             THEN {AcceptedReply(e)} ELSE {})

ServeAnswers(e) ==
  \E reply \in Answers(e) :
    /\ Post(reply)
    /\ poisoned' = (poisoned \/ reply.status = "checker-poisoned")
    /\ UNCHANGED <<senderSeq, senderPending, toFrame>>

NextSeq == senderSeq + 1

\* serve() of an accepted document over the port: the reply waits for the ack.
ServeRenders(e) ==
  /\ ~DeliveryRefused(e)
  /\ e.kind = "preprocess"
  /\ "accepted" \in Verdicts
  /\ frameSender # NoSession
  /\ LET c == Command(NextSeq, e.requestId, e.generation)
     IN /\ senderPending' = senderPending \cup {[command |-> c, session |-> e.session]}
        /\ toFrame' = [toFrame EXCEPT ![frameSender] = Append(@, c)]
  /\ senderSeq' = senderSeq + 1
  /\ UNCHANGED <<poisoned, toHost>>

Serve(e) == ServeAnswers(e) \/ ServeRenders(e)

-----------------------------------------------------------------------------
\* The payload loaded: start() reports the channel.
Start ==
  /\ core = "boot"
  /\ core' = "starting"
  /\ Post(Ready)
  /\ UNCHANGED <<closed, poisoned, queued, draining, frameSender, senderSeq,
                 senderPending, toFrame>>

\* ready(): the checker exists; the queue is drained in the same handler.
CheckerStarts ==
  /\ core = "starting"
  /\ ~closed
  /\ core' = "ready"
  /\ Post(CheckerReady(TRUE))
  /\ draining' = TRUE
  /\ UNCHANGED <<closed, poisoned, queued, frameSender, senderSeq,
                 senderPending, toFrame>>

\* fail(): no fallback, everything queued and later is refused.
CheckerFails ==
  /\ core = "starting"
  /\ ~closed
  /\ core' = "failed"
  /\ Post(Failed)
  /\ draining' = TRUE
  /\ UNCHANGED <<closed, poisoned, queued, frameSender, senderSeq,
                 senderPending, toFrame>>

DrainNext ==
  /\ draining
  /\ queued # <<>>
  /\ queued' = Tail(queued)
  /\ IF core = "failed"
     THEN /\ Post(Rejection(Head(queued), "rejected"))
          /\ UNCHANGED <<poisoned, senderSeq, senderPending, toFrame>>
     ELSE Serve(Head(queued))
  /\ UNCHANGED <<core, closed, draining, frameSender>>

DrainEnds ==
  /\ draining
  /\ queued = <<>>
  /\ draining' = FALSE
  /\ UNCHANGED <<core, closed, poisoned, queued, frameSender, senderSeq,
                 senderPending, toHost, toFrame>>

-----------------------------------------------------------------------------
(***************************************************************************
 receive(m).
 ***************************************************************************)
\* A port without an identity is refused.
ReceiveBadAttach(m) ==
  /\ m.kind = "attach-frame"
  /\ m.session = NoSession
  /\ Post(BadAttach)
  /\ UNCHANGED <<core, closed, poisoned, queued, draining, frameSender,
                 senderSeq, senderPending, toFrame>>

\* A new port replaces the installed one; the old sender is disposed and what
\* it was waiting for is dropped, because it is no longer the installed one.
ReceiveAttach(m) ==
  /\ m.kind = "attach-frame"
  /\ m.session # NoSession
  /\ frameSender' = m.session
  /\ senderSeq' = 0
  /\ senderPending' = {}
  /\ Post(FrameAttached(m.session))
  /\ UNCHANGED <<core, closed, poisoned, queued, draining, toFrame>>

QueueFull == Len(queued) >= QueueMax
HasCore == core = "ready"

ReceiveRequest(m) ==
  /\ m.kind # "attach-frame"
  /\ \/ /\ core = "failed"
        /\ Post(Rejection(m, "rejected"))
        /\ UNCHANGED <<poisoned, queued, senderSeq, senderPending, toFrame>>
     \/ /\ HasCore
        /\ Serve(m)
        /\ UNCHANGED queued
     \/ /\ core = "starting"
        /\ QueueFull
        /\ Post(Rejection(m, "startup-queue-full"))
        /\ UNCHANGED <<poisoned, queued, senderSeq, senderPending, toFrame>>
     \/ /\ core = "starting"
        /\ ~QueueFull
        /\ queued' = Append(queued, m)
        /\ UNCHANGED <<poisoned, toHost, senderSeq, senderPending, toFrame>>
  /\ UNCHANGED <<core, closed, draining, frameSender>>

Receive(m) ==
  /\ WorkerIdle
  /\ ReceiveBadAttach(m) \/ ReceiveAttach(m) \/ ReceiveRequest(m)

(***************************************************************************
 The sender's port: an acknowledgement must name a pending command by its
 sequence number, generation and request; anything else is ignored.
 ***************************************************************************)
\* Seeded bug: the settled entry stays in the map.
Bug_StillPending(p) == senderPending

\* Seeded bug: the map is cleared instead of the entry.
Bug_ForgetAll(p) == {}

StillPending(p) == senderPending \ {p}

\* Seeded bug: an answer of the frame is taken for a rendered document.
Bug_AnyAckRendered(e, a) == RenderedReply(e)

AckReply(e, a) == IF a.ok THEN RenderedReply(e) ELSE Rejection(e, "rejected")

OnAck(a) ==
  /\ WorkerIdle
  /\ \E p \in senderPending :
       /\ a = Ack(p.command, a.ok)
       /\ senderPending' = StillPending(p)
       /\ Post(AckReply([session |-> p.session, requestId |-> a.requestId,
                         generation |-> a.generation], a))
  /\ UNCHANGED <<core, closed, poisoned, queued, draining, frameSender,
                 senderSeq, toFrame>>

IgnoreAck(a) ==
  /\ WorkerIdle
  /\ \A p \in senderPending : a # Ack(p.command, a.ok)
  /\ UNCHANGED workerVars

\* dispose(): nothing is posted any more.
DispatcherDispose ==
  /\ ~closed
  /\ ~draining
  /\ closed' = TRUE
  /\ queued' = <<>>
  /\ senderPending' = {}
  /\ UNCHANGED <<core, poisoned, draining, frameSender, senderSeq, toHost,
                 toFrame>>

\* The steps the Worker takes by itself.
WorkerNext ==
  \/ Start
  \/ CheckerStarts
  \/ CheckerFails
  \/ DrainNext
  \/ DrainEnds

-----------------------------------------------------------------------------
(***************************************************************************
 Properties that hold whatever the host and the frame send.
 ***************************************************************************)
Answered == {i \in DOMAIN toHost : toHost[i].kind = "result"}

\* A checker that trapped accepts nothing more, whatever is queued or arrives:
\* no document is accepted and no tree is posted to a frame.
PoisonIsFinal ==
  [][poisoned =>
       /\ poisoned'
       /\ toFrame' = toFrame
       /\ \A i \in Answered' \ Answered : toHost'[i].status # "accepted"]_workerVars
=============================================================================
