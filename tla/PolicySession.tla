---------------------------- MODULE PolicySession ----------------------------
(***************************************************************************
 The rendering path as a whole: the session of PolicyClient, the Worker of
 PolicyDispatcher it creates and terminates, and the frame of SandboxFrame it
 wires to that Worker.

   host   --toWorker-->  Worker  --toFrame[s]-->  frame      (port of s)
   host   <--toHost----  Worker  <--acks[s]-----  frame
   host   --toFrameWindow-->  frame,  frame --fromFrame-->  host

 The host, the Worker and the frame are three threads: their handlers
 interleave, and every queue above is first in, first out.  Terminating a
 Worker ends it and what it had not delivered to the host; what it already
 posted on the frame's port stays there.
 ***************************************************************************)
EXTENDS PolicyClient, PolicyDispatcher, SandboxFrame

VARIABLE ackRead   \* per port: acknowledgements the Worker has taken

sessionVars == <<clientVars, workerVars, frameVars, ackRead>>

SessionInit ==
  /\ ClientInit
  /\ WorkerInit
  /\ FrameInit
  /\ ackRead = [s \in Sessions |-> 0]

-----------------------------------------------------------------------------
\* A new Worker starts from nothing; the ports of the dead one keep their log.
FreshWorker ==
  /\ core' = "boot"
  /\ closed' = FALSE
  /\ poisoned' = FALSE
  /\ queued' = <<>>
  /\ draining' = FALSE
  /\ frameSender' = NoSession
  /\ senderSeq' = 0
  /\ senderPending' = {}
  /\ toHost' = <<>>
  /\ UNCHANGED toFrame

\* What a step of the client does to the Worker and to the frame: a Worker it
\* ends is gone, and a port it attaches goes to attachPort().
FollowClient(undelivered) ==
  /\ IF worker' # worker
     THEN FreshWorker
     ELSE /\ toHost' = undelivered
          /\ UNCHANGED <<core, closed, poisoned, queued, draining,
                         frameSender, senderSeq, senderPending, toFrame>>
  /\ IF portsAttached' # portsAttached
     THEN HostAttachesPort(worker)
     ELSE UNCHANGED frameVars
  /\ UNCHANGED ackRead

\* The guard's calls (src/guard.js): once the frame is ready it starts the
\* session, preprocesses for the current document and moves on to the next one;
\* it may dispose at any time.
GuardCalls ==
  \/ /\ frameReady = "true"
     /\ \/ PublicStart
        \/ PreprocessFails
        \/ Preprocesses(generation)
        \/ NextGeneration
  \/ Dispose

ClientStep == (GuardCalls \/ HostNext) /\ FollowClient(toHost)

HostReceives ==
  /\ toHost # <<>>
  /\ OnMessage(Head(toHost))
  /\ FollowClient(Tail(toHost))

WorkerLives == worker # NoSession

WorkerStep ==
  /\ WorkerLives
  /\ WorkerNext
  /\ UNCHANGED <<clientVars, frameVars, ackRead>>

WorkerReceives ==
  /\ WorkerLives
  /\ WorkerTakes
  /\ Receive(Head(toWorker))
  /\ UNCHANGED <<frameVars, ackRead>>

WorkerReceivesAck ==
  /\ WorkerLives
  /\ frameSender # NoSession
  /\ ackRead[frameSender] < Len(acks[frameSender])
  /\ LET a == acks[frameSender][ackRead[frameSender] + 1]
     IN OnAck(a) \/ IgnoreAck(a)
  /\ ackRead' = [ackRead EXCEPT ![frameSender] = @ + 1]
  /\ UNCHANGED <<clientVars, frameVars>>

\* The frame object shares the host's thread with the client; the guard
\* destroys it after it disposed the session.
HostFrameStep ==
  /\ HostIdle
  /\ HostFrameNext \/ (disposed /\ FrameDestroy)
  /\ UNCHANGED <<clientVars, workerVars, ackRead>>

FrameStep ==
  /\ FrameScriptNext \/ \E s \in Sessions : FrameReceives(s, toFrame[s])
  /\ UNCHANGED <<clientVars, workerVars, ackRead>>

SessionNext ==
  \/ ClientStep
  \/ HostReceives
  \/ WorkerStep
  \/ WorkerReceives
  \/ WorkerReceivesAck
  \/ HostFrameStep
  \/ FrameStep

SessionSpec == SessionInit /\ [][SessionNext]_sessionVars

-----------------------------------------------------------------------------
(***************************************************************************
 Properties of the whole path.
 ***************************************************************************)
\* What the frame ever showed: it acknowledges exactly that.
ShownBy(s) == {acks[s][i].requestId : i \in {j \in DOMAIN acks[s] : acks[s][j].ok}}
EverShown == UNION {ShownBy(s) : s \in Sessions}

\* "A superseded generation never renders after a newer one has": across
\* Workers, ports and late commands, the display only moves to a newer request
\* and never to an older generation.
DisplayNeverGoesBack ==
  [][display' # display /\ display' # Blank =>
       /\ display'.requestId > display.requestId
       /\ display'.generation >= display.generation]_sessionVars

\* Holding requests for the port is enough: none of them ever reaches a Worker
\* whose port does not fit the delivery it declares.
NoneUndeliverable == \A r \in Requests : outcome[r] # "undeliverable"

InFlight(msgs) == {msgs[i].requestId : i \in {j \in DOMAIN msgs :
                     msgs[j].kind \in {"preprocess", "result", "refused"}}}

\* No thread drops a request: a pending one is held, on its way, queued,
\* waiting for the frame, or answered by a reply the host has not read.
PendingIsSomewhere ==
  pending \subseteq
    Held \cup BeingPosted \cup InFlight(toWorker) \cup InFlight(queued)
    \cup {p.command.requestId : p \in senderPending} \cup InFlight(toHost)

\* "Replies for a superseded generation settle as 'superseded' and are never
\* rendered."
SupersededNeverShown ==
  \A r \in Requests : outcome[r] = "superseded" => r \notin EverShown

(***************************************************************************
 Refinement: what callers of preprocess() may rely on.
 ***************************************************************************)
ServiceState(r) ==
  IF ~Issued(r) THEN "new"
  ELSE CASE outcome[r] = Unsettled -> "open"
         [] outcome[r] = "rendered" -> "rendered"
         [] OTHER -> "failed"

Service == INSTANCE RenderService
  WITH Calls <- Requests,
       state <- [r \in Requests |-> ServiceState(r)],
       shown <- EverShown,
       display <- display.requestId

ImplementsRenderService == Service!ServiceSpec
=============================================================================
