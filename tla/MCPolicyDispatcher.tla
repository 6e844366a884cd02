------------------------- MODULE MCPolicyDispatcher -------------------------
\* The policy Worker against a host that sends anything and a frame that
\* acknowledges whatever was posted to it, in any order and repeatedly.
EXTENDS PolicyDispatcher

ASSUME OwnSessionAssumption == MaxSessions >= 1

VARIABLES
  received,  \* requests the Worker was sent: ids are never reused
  dropped    \* ids of those the frame was rendering when its port was replaced

mcVars == <<workerVars, received, dropped>>

QueuedIds == {queued[i].requestId : i \in DOMAIN queued}
RenderingIds == {p.command.requestId : p \in senderPending}

HostSendsRequest ==
  /\ Len(received) < MaxRequests
  /\ \E k \in {"preprocess", "other"}, g \in Generations,
        d \in Deliveries \cup {"unspecified"} :
       LET e == [kind |-> k, session |-> 1, requestId |-> Len(received) + 1,
                 generation |-> g, delivery |-> d]
       IN /\ Receive(e)
          /\ received' = Append(received, e)
  /\ UNCHANGED dropped

HostAttaches ==
  /\ \E s \in SessionOrNone :
       /\ s # NoSession => s = frameSender + 1
       /\ s = NoSession => Len(toHost) < 2
       /\ Receive(AttachFrame(s))
       /\ dropped' = IF s = NoSession THEN dropped ELSE dropped \cup RenderingIds
  /\ UNCHANGED received

FrameAnswers ==
  /\ \E s \in Sessions : \E i \in DOMAIN toFrame[s] : \E b \in BOOLEAN :
       \/ s = frameSender /\ OnAck(Ack(toFrame[s][i], b))
       \/ IgnoreAck(Ack(toFrame[s][i], b))
  /\ UNCHANGED <<received, dropped>>

MCInit == WorkerInit /\ received = <<>> /\ dropped = {}

MCNext ==
  \/ WorkerNext /\ UNCHANGED <<received, dropped>>
  \/ HostSendsRequest
  \/ HostAttaches
  \/ FrameAnswers
  \/ DispatcherDispose /\ UNCHANGED <<received, dropped>>

MCSpec == MCInit /\ [][MCNext]_mcVars

AnswersTo(r) == {i \in DOMAIN toHost :
                   toHost[i].kind \in {"result", "refused"} /\ toHost[i].requestId = r}
\* Every request the Worker was sent is answered once, or it is queued, or the
\* frame still owes its acknowledgement, or owed it when its port was replaced; what
\* is answered is at none of these, and only a disposed Worker leaves a request at
\* none without an answer.
EveryRequestAccounted ==
  WorkerTypeOK /\ \A r \in DOMAIN received :
    /\ \A i, j \in AnswersTo(r) : i = j
    /\ AnswersTo(r) # {} => r \notin QueuedIds \cup RenderingIds \cup dropped
    /\ AnswersTo(r) = {} => r \in QueuedIds \cup RenderingIds \cup dropped \/ closed
=============================================================================
