----------------------- MODULE PolicyDispatcherProofs -----------------------
(***************************************************************************
 Proofs about the policy Worker against any host and any frame (MCSpec of
 MCPolicyDispatcher): for every number of requests and ports and every length
 of the startup queue.
 ***************************************************************************)
EXTENDS MCPolicyDispatcher, SequenceTheorems, TLAPS

USE DEF NoSession, Sessions, SessionOrNone, Requests, Generations

IsAnswer(m) == m.kind \in {"result", "refused"}

ReceivedTypeOK ==
  /\ received \in Seq(ForeignEnvelopes)
  /\ Len(received) <= MaxRequests

\* A request is at one place at a time: at one place of the queue, or with the
\* frame, and only what was received is anywhere.
EachAtOnePlace ==
  /\ \A i, j \in DOMAIN queued :
       queued[i].requestId = queued[j].requestId => i = j
  /\ \A p, q \in senderPending :
       p.command.requestId = q.command.requestId => p = q
  /\ \A i \in DOMAIN queued : \A p \in senderPending :
       queued[i].requestId # p.command.requestId
  /\ \A i \in DOMAIN queued : queued[i].requestId <= Len(received)
  /\ \A p \in senderPending : p.command.requestId <= Len(received)
  /\ \A i \in DOMAIN toHost :
       IsAnswer(toHost[i]) => toHost[i].requestId \in 0..Len(received)

\* What was dropped with its port was received, and has left the queue and the frame.
DroppedHasLeft ==
  /\ dropped \subseteq 1..Len(received)
  /\ dropped \cap (QueuedIds \cup RenderingIds) = {}

DispatcherInv ==
  /\ ReceivedTypeOK
  /\ EveryRequestAccounted
  /\ EachAtOnePlace
  /\ DroppedHasLeft

-----------------------------------------------------------------------------
(***************************************************************************
 The replies.
 ***************************************************************************)
LEMMA RejectionType ==
  ASSUME NEW e, e.session \in SessionOrNone, e.requestId \in Requests,
         e.generation \in Generations,
         NEW status \in Statuses \ {"rendered", "accepted"}
  PROVE  /\ Rejection(e, status) \in WorkerMessages
         /\ IsAnswer(Rejection(e, status))
         /\ Rejection(e, status).requestId = e.requestId
         /\ Rejection(e, status).status = status
<1> DEFINE b == [kind |-> "result", status |-> status, lean |-> FALSE,
                 token |-> "malformed", tree |-> FALSE]
<1>1. b \in ReplyBodies
  BY DEF ReplyBodies
<1>2. Rejection(e, status) = Reply(b.kind, e.session, e.requestId, e.generation,
                                   b.status, b.lean, b.token, b.tree)
  BY DEF Rejection
<1>3. \E x \in ReplyBodies :
        Rejection(e, status) = Reply(x.kind, e.session, e.requestId,
                                     e.generation, x.status, x.lean, x.token,
                                     x.tree)
  BY <1>1, <1>2
<1>4. Rejection(e, status) \in Replies
  BY <1>3 DEF Replies
<1>5. QED
  BY <1>4 DEF WorkerMessages, Rejection, Reply, IsAnswer

LEMMA OtherRepliesType ==
  ASSUME NEW e, e.session \in SessionOrNone, e.requestId \in Requests,
         e.generation \in Generations,
         NEW m \in {Refusal(e), AcceptedReply(e), RenderedReply(e)}
  PROVE  /\ m \in WorkerMessages
         /\ IsAnswer(m)
         /\ m.requestId = e.requestId
<1> DEFINE b(k, st, lean, tok, tree) ==
      [kind |-> k, status |-> st, lean |-> lean, token |-> tok, tree |-> tree]
<1>1. /\ b("refused", "other", FALSE, "malformed", FALSE) \in ReplyBodies
      /\ b("result", "accepted", TRUE, "matches", TRUE) \in ReplyBodies
      /\ b("result", "rendered", TRUE, "matches", FALSE) \in ReplyBodies
  BY DEF ReplyBodies, Statuses, Rejections, Tokens
<1>2. \E x \in ReplyBodies :
        m = Reply(x.kind, e.session, e.requestId, e.generation, x.status,
                  x.lean, x.token, x.tree)
  <2>1. CASE m = Refusal(e)
    BY <1>1, <2>1 DEF Refusal
  <2>2. CASE m = AcceptedReply(e)
    BY <1>1, <2>2 DEF AcceptedReply
  <2>3. CASE m = RenderedReply(e)
    BY <1>1, <2>3 DEF RenderedReply
  <2>4. QED
    BY <2>1, <2>2, <2>3
<1>3. m \in Replies
  BY <1>2 DEF Replies
<1>4. QED
  BY <1>3 DEF WorkerMessages, Refusal, AcceptedReply, RenderedReply, Reply,
     IsAnswer

\* What taking up a request does: one answer, or a command on the port and an
\* entry for its acknowledgement.
AnsweredAtOnce(e) ==
  /\ \E m \in WorkerMessages :
       /\ IsAnswer(m)
       /\ m.requestId = e.requestId
       /\ toHost' = Append(toHost, m)
  /\ poisoned' \in BOOLEAN
  /\ UNCHANGED <<senderPending, senderSeq, toFrame>>

HandedToFrame(e) ==
  /\ \E c \in Commands :
       /\ c.requestId = e.requestId
       /\ senderPending' =
            senderPending \cup {[command |-> c, session |-> e.session]}
  /\ frameSender # NoSession
  /\ senderSeq' \in Nat
  /\ toFrame' \in [Sessions -> Seq(Commands)]
  /\ UNCHANGED <<poisoned, toHost>>

\* serve(): one answer, or a command on the port and an entry for its
\* acknowledgement.
LEMMA ServeEffect ==
  ASSUME WorkerTypeOK, NEW e \in ForeignEnvelopes, Serve(e)
  PROVE  AnsweredAtOnce(e) \/ HandedToFrame(e)
<1>1. /\ e.session \in Sessions
      /\ e.session \in SessionOrNone
      /\ e.requestId \in Requests
      /\ e.generation \in Generations
  BY DEF ForeignEnvelopes
<1>2. CASE ServeAnswers(e)
  <2>1. PICK m \in Answers(e) :
          /\ toHost' = Append(toHost, m)
          /\ poisoned' = (poisoned \/ m.status = "checker-poisoned")
          /\ UNCHANGED <<senderSeq, senderPending, toFrame>>
    BY <1>2 DEF ServeAnswers, Post
  <2>2. \/ \E st \in {"undeliverable", "rejected", "checker-poisoned"} :
             m = Rejection(e, st)
        \/ m \in {Refusal(e), AcceptedReply(e)}
    BY <2>1 DEF Answers, Verdicts
  <2>3. {"undeliverable", "rejected", "checker-poisoned"}
          \subseteq Statuses \ {"rendered", "accepted"}
    BY DEF Statuses, Rejections
  <2>4. m \in WorkerMessages /\ IsAnswer(m) /\ m.requestId = e.requestId
    BY <1>1, <2>2, <2>3, RejectionType, OtherRepliesType
  <2>5. poisoned' \in BOOLEAN
    BY <2>1, Zenon
  <2>6. QED
    BY <2>1, <2>4, <2>5 DEF AnsweredAtOnce
<1>3. CASE ServeRenders(e)
  <2> DEFINE c == Command(NextSeq, e.requestId, e.generation)
  <2>1. c \in Commands /\ c.requestId = e.requestId
    BY <1>1 DEF Command, Commands, NextSeq, WorkerTypeOK
  <2>2. /\ frameSender # NoSession
        /\ senderPending' =
             senderPending \cup {[command |-> c, session |-> e.session]}
        /\ senderSeq' = senderSeq + 1
        /\ toFrame' = [toFrame EXCEPT ![frameSender] = Append(toFrame[frameSender], c)]
        /\ UNCHANGED <<poisoned, toHost>>
    BY <1>3 DEF ServeRenders
  <2> HIDE DEF c
  <2>3. toFrame' \in [Sessions -> Seq(Commands)]
    BY <2>1, <2>2, AppendProperties DEF WorkerTypeOK
  <2>4. senderSeq' \in Nat
    BY <2>2 DEF WorkerTypeOK
  <2>5. QED
    BY <2>1, <2>2, <2>3, <2>4 DEF HandedToFrame
<1>4. QED
  BY <1>2, <1>3 DEF Serve

-----------------------------------------------------------------------------
(***************************************************************************
 Where a request is.
 ***************************************************************************)

\* Posting a message adds its own place to the answers to its request.
LEMMA AnswersAfterPost ==
  ASSUME WorkerTypeOK, NEW m, toHost' = Append(toHost, m),
         toHost' \in Seq(WorkerMessages \cup {BadAttach})
  PROVE  /\ DOMAIN toHost' = DOMAIN toHost \cup {Len(toHost) + 1}
         /\ toHost'[Len(toHost) + 1] = m
         /\ Len(toHost) + 1 \notin DOMAIN toHost
         /\ \A i \in DOMAIN toHost : toHost'[i] = toHost[i]
         /\ \A r : AnswersTo(r)' =
              AnswersTo(r) \cup {i \in {Len(toHost) + 1} : IsAnswer(m) /\ m.requestId = r}
<1>1. /\ Len(toHost) \in Nat
      /\ DOMAIN toHost = 1..Len(toHost)
  BY DEF WorkerTypeOK
<1>2. /\ DOMAIN toHost' = 1..(Len(toHost) + 1)
      /\ toHost'[Len(toHost) + 1] = m
      /\ \A i \in 1..Len(toHost) : toHost'[i] = toHost[i]
  BY DEF WorkerTypeOK
<1>3. /\ DOMAIN toHost' = DOMAIN toHost \cup {Len(toHost) + 1}
      /\ Len(toHost) + 1 \notin DOMAIN toHost
  BY <1>1, <1>2
<1>4. ASSUME NEW r
      PROVE  AnswersTo(r)' =
               AnswersTo(r) \cup {i \in {Len(toHost) + 1} : IsAnswer(m) /\ m.requestId = r}
  BY <1>1, <1>2, <1>3 DEF AnswersTo, IsAnswer
<1>5. QED
  BY <1>1, <1>2, <1>3, <1>4

\* Only request r changed its place, and it is at one place again.
LEMMA AccountedAfter ==
  ASSUME EveryRequestAccounted,
         WorkerTypeOK',
         NEW r,
         DOMAIN received' \subseteq DOMAIN received \cup {r},
         \A q \in DOMAIN received' \ {r} :
           /\ AnswersTo(q)' = AnswersTo(q)
           /\ q \in QueuedIds' <=> q \in QueuedIds
           /\ q \in RenderingIds' <=> q \in RenderingIds,
         closed => closed',
         dropped' = dropped,
         r \notin dropped,
         \A i, j \in AnswersTo(r)' : i = j,
         AnswersTo(r)' # {} <=> r \notin QueuedIds' \cup RenderingIds'
  PROVE  EveryRequestAccounted'
<1>1. SUFFICES ASSUME NEW q \in DOMAIN received'
               PROVE  /\ \A i, j \in AnswersTo(q)' : i = j
                      /\ AnswersTo(q)' # {} =>
                           q \notin QueuedIds' \cup RenderingIds' \cup dropped'
                      /\ AnswersTo(q)' = {} =>
                           q \in QueuedIds' \cup RenderingIds' \cup dropped' \/ closed'
  BY DEF EveryRequestAccounted
<1>2. CASE q = r
  BY <1>2
<1>3. CASE q # r
  <2>1. q \in DOMAIN received
    BY <1>1, <1>3
  <2>2. QED
    BY <1>1, <1>3, <2>1 DEF EveryRequestAccounted
<1>4. QED
  BY <1>2, <1>3

\* A request that is at no place (it just arrived, or just left the queue) is
\* taken up.
LEMMA TakenUpKeeps ==
  ASSUME DispatcherInv,
         NEW e \in ForeignEnvelopes,
         AnsweredAtOnce(e) \/ HandedToFrame(e),
         AnswersTo(e.requestId) = {},
         \A p \in senderPending : p.command.requestId # e.requestId,
         e.requestId \notin dropped,
         e.requestId <= Len(received'),
         ReceivedTypeOK',
         Len(received) <= Len(received'),
         DOMAIN received' \subseteq DOMAIN received \cup {e.requestId},
         queued' \in Seq(ForeignEnvelopes),
         Len(queued') <= QueueMax,
         e.requestId \notin QueuedIds',
         QueuedIds \ {e.requestId} = QueuedIds',
         \A i, j \in DOMAIN queued' :
           queued'[i].requestId = queued'[j].requestId => i = j,
         UNCHANGED <<core, closed, draining, frameSender, dropped>>
  PROVE  DispatcherInv'
<1> USE DEF DispatcherInv
<1> DEFINE r == e.requestId
<1>0. /\ r \in Nat
      /\ Len(received) \in Nat
      /\ Len(received') \in Nat
      /\ \A i \in DOMAIN queued : queued[i].requestId \in Nat
      /\ \A i \in DOMAIN queued' : queued'[i].requestId \in Nat
      /\ \A p \in senderPending : p.command.requestId \in Nat
      /\ e.session \in Sessions
  <2>1. r \in Nat /\ e.session \in Sessions
    BY DEF ForeignEnvelopes
  <2>2. Len(received) \in Nat /\ Len(received') \in Nat
    BY DEF ReceivedTypeOK
  <2>3. \A i \in DOMAIN queued : queued[i] \in ForeignEnvelopes
    BY ElementOfSeq DEF EveryRequestAccounted, WorkerTypeOK
  <2>4. \A i \in DOMAIN queued' : queued'[i] \in ForeignEnvelopes
    BY ElementOfSeq
  <2>5. \A p \in senderPending : p.command \in Commands
    BY DEF EveryRequestAccounted, WorkerTypeOK
  <2>6. QED
    BY <2>1, <2>2, <2>3, <2>4, <2>5 DEF ForeignEnvelopes, Commands
<1>1. /\ WorkerTypeOK
      /\ dropped' = dropped
  BY DEF EveryRequestAccounted
<1> HIDE DEF r
<1>2. \A i \in DOMAIN queued' : \E j \in DOMAIN queued :
        queued[j].requestId = queued'[i].requestId
  <2>1. ASSUME NEW i \in DOMAIN queued'
        PROVE  queued'[i].requestId \in QueuedIds
    BY DEF QueuedIds
  <2>2. QED
    BY <2>1 DEF QueuedIds
<1>3. \A i \in DOMAIN queued' : queued'[i].requestId <= Len(received')
                                /\ queued'[i].requestId # r
  <2>1. ASSUME NEW i \in DOMAIN queued'
        PROVE  queued'[i].requestId <= Len(received')
    <3>1. PICK j \in DOMAIN queued : queued[j].requestId = queued'[i].requestId
      BY <1>2
    <3>2. QED
      BY <1>0, <3>1 DEF EachAtOnePlace
  <2>2. QED
    BY <2>1 DEF QueuedIds, r
<1>4. ASSUME NEW q, q # r
      PROVE  q \in QueuedIds' <=> q \in QueuedIds
  BY <1>4 DEF r
<1>5. dropped' \subseteq 1..Len(received') /\ r \notin dropped'
  BY <1>0, <1>1 DEF DroppedHasLeft, r
<1>6. CASE AnsweredAtOnce(e)
  <2>1. PICK m \in WorkerMessages : /\ IsAnswer(m)
                                    /\ m.requestId = r
                                    /\ toHost' = Append(toHost, m)
    BY <1>6 DEF AnsweredAtOnce, r
  <2>2. /\ poisoned' \in BOOLEAN
        /\ UNCHANGED <<senderPending, senderSeq, toFrame>>
    BY <1>6 DEF AnsweredAtOnce
  <2>3. toHost' \in Seq(WorkerMessages \cup {BadAttach})
    BY <1>1, <2>1, AppendProperties DEF WorkerTypeOK
  <2>4. WorkerTypeOK'
    BY <1>1, <2>2, <2>3 DEF WorkerTypeOK
  <2>5. /\ \A q : AnswersTo(q)' = AnswersTo(q) \cup
                    {i \in {Len(toHost) + 1} : m.requestId = q}
        /\ DOMAIN toHost' = DOMAIN toHost \cup {Len(toHost) + 1}
        /\ toHost'[Len(toHost) + 1] = m
        /\ \A i \in DOMAIN toHost : toHost'[i] = toHost[i]
    BY <1>1, <2>1, <2>3, AnswersAfterPost
  <2>6. AnswersTo(r)' = {Len(toHost) + 1}
    BY <2>1, <2>5 DEF r
  <2>7. EachAtOnePlace'
    <3>1. \A i \in DOMAIN queued' : \A p \in senderPending :
            queued'[i].requestId # p.command.requestId
      BY <1>2 DEF EachAtOnePlace
    <3>2. \A p \in senderPending : p.command.requestId <= Len(received')
      BY <1>0 DEF EachAtOnePlace
    <3>3. ASSUME NEW i \in DOMAIN toHost, IsAnswer(toHost[i])
          PROVE  toHost[i].requestId \in 0..Len(received')
      BY <1>0, <3>3 DEF EachAtOnePlace
    <3>4. \A i \in DOMAIN toHost' : IsAnswer(toHost'[i]) =>
            toHost'[i].requestId \in 0..Len(received')
      BY <1>0, <2>1, <2>5, <3>3 DEF r, IsAnswer
    <3>5. QED
      BY <1>3, <2>2, <3>1, <3>2, <3>4 DEF EachAtOnePlace
  <2>8. EveryRequestAccounted'
    <3>1. \A q \in DOMAIN received' \ {r} :
            /\ AnswersTo(q)' = AnswersTo(q)
            /\ q \in QueuedIds' <=> q \in QueuedIds
            /\ q \in RenderingIds' <=> q \in RenderingIds
      BY <1>4, <2>1, <2>2, <2>5 DEF RenderingIds
    <3>2. r \notin QueuedIds' \cup RenderingIds'
      BY <2>2 DEF RenderingIds, r
    <3>3. /\ \A i, j \in AnswersTo(r)' : i = j
          /\ AnswersTo(r)' # {} <=> r \notin QueuedIds' \cup RenderingIds'
      BY <2>6, <3>2
    <3>4. DOMAIN received' \subseteq DOMAIN received \cup {r}
      BY DEF r
    <3>5. (closed => closed') /\ dropped' = dropped /\ r \notin dropped
      BY <1>1, <1>5, Zenon
    <3>6. QED
      BY <2>4, <3>1, <3>3, <3>4, <3>5, AccountedAfter
  <2>9. DroppedHasLeft'
    <3>1. QueuedIds' \subseteq QueuedIds /\ RenderingIds' = RenderingIds
      BY <2>2 DEF RenderingIds
    <3>2. QED
      BY <1>1, <1>5, <3>1 DEF DroppedHasLeft
  <2>10. QED
    BY <2>7, <2>8, <2>9
<1>7. CASE HandedToFrame(e)
  <2>1. PICK c \in Commands :
          /\ c.requestId = r
          /\ senderPending' =
               senderPending \cup {[command |-> c, session |-> e.session]}
    BY <1>7 DEF HandedToFrame, r
  <2>2. /\ frameSender # NoSession
        /\ senderSeq' \in Nat
        /\ toFrame' \in [Sessions -> Seq(Commands)]
        /\ UNCHANGED <<poisoned, toHost>>
    BY <1>7 DEF HandedToFrame
  <2> DEFINE p == [command |-> c, session |-> e.session]
  <2>3. /\ p.command.requestId = r
        /\ p \in [command : Commands, session : Sessions]
        /\ senderPending' = senderPending \cup {p}
    BY <1>0, <2>1
  <2> HIDE DEF p
  <2>4. WorkerTypeOK'
    <3>1. senderPending' \subseteq [command : Commands, session : Sessions]
      BY <1>1, <2>3 DEF WorkerTypeOK
    <3>2. QED
      BY <1>1, <2>2, <3>1 DEF WorkerTypeOK
  <2>5. \A q : AnswersTo(q)' = AnswersTo(q)
    BY <2>2 DEF AnswersTo
  <2>6. EachAtOnePlace'
    <3>1. \A x, y \in senderPending' :
            x.command.requestId = y.command.requestId => x = y
      BY <2>3 DEF EachAtOnePlace, r
    <3>2. \A i \in DOMAIN queued' : \A x \in senderPending' :
            queued'[i].requestId # x.command.requestId
      BY <1>2, <1>3, <2>3 DEF EachAtOnePlace
    <3>3. \A x \in senderPending' : x.command.requestId <= Len(received')
      BY <1>0, <2>3 DEF EachAtOnePlace, r
    <3>4. ASSUME NEW i \in DOMAIN toHost', IsAnswer(toHost'[i])
          PROVE  toHost'[i].requestId \in 0..Len(received')
      BY <1>0, <2>2, <3>4 DEF EachAtOnePlace
    <3>5. QED
      BY <1>3, <3>1, <3>2, <3>3, <3>4 DEF EachAtOnePlace
  <2>7. EveryRequestAccounted'
    <3>1. \A q \in DOMAIN received' \ {r} :
            /\ AnswersTo(q)' = AnswersTo(q)
            /\ q \in QueuedIds' <=> q \in QueuedIds
            /\ q \in RenderingIds' <=> q \in RenderingIds
      BY <1>4, <2>3, <2>5 DEF RenderingIds
    <3>2. r \in RenderingIds'
      BY <2>3 DEF RenderingIds
    <3>3. AnswersTo(r)' = {}
      BY <2>5 DEF r
    <3>4. DOMAIN received' \subseteq DOMAIN received \cup {r}
      BY DEF r
    <3>5. (closed => closed') /\ dropped' = dropped /\ r \notin dropped
      BY <1>1, <1>5, Zenon
    <3>6. QED
      BY <2>4, <3>1, <3>2, <3>3, <3>4, <3>5, AccountedAfter
  <2>8. DroppedHasLeft'
    <3>1. QueuedIds' \subseteq QueuedIds /\ RenderingIds' \subseteq RenderingIds \cup {r}
      BY <2>3 DEF RenderingIds
    <3>2. QED
      BY <1>1, <1>5, <3>1 DEF DroppedHasLeft
  <2>9. QED
    BY <2>6, <2>7, <2>8
<1>8. QED
  BY <1>6, <1>7

-----------------------------------------------------------------------------
(***************************************************************************
 The handlers.
 ***************************************************************************)

\* A message that answers no request leaves every request where it is.
LEMMA OtherPostKeeps ==
  ASSUME DispatcherInv,
         NEW m \in WorkerMessages \cup {BadAttach},
         IsAnswer(m) => m.requestId = 0,
         toHost' = Append(toHost, m),
         core' \in {"boot", "starting", "ready", "failed"},
         draining' \in BOOLEAN,
         UNCHANGED <<closed, poisoned, queued, frameSender, senderSeq,
                     senderPending, toFrame, received, dropped>>
  PROVE  DispatcherInv'
<1> USE DEF DispatcherInv
<1>1. WorkerTypeOK
  BY DEF EveryRequestAccounted
<1>2. toHost' \in Seq(WorkerMessages \cup {BadAttach})
  BY <1>1, AppendProperties DEF WorkerTypeOK
<1>3. WorkerTypeOK'
  BY <1>1, <1>2 DEF WorkerTypeOK
<1>4. /\ \A q : AnswersTo(q)' = AnswersTo(q) \cup
                  {i \in {Len(toHost) + 1} : IsAnswer(m) /\ m.requestId = q}
      /\ DOMAIN toHost' = DOMAIN toHost \cup {Len(toHost) + 1}
      /\ toHost'[Len(toHost) + 1] = m
      /\ \A i \in DOMAIN toHost : toHost'[i] = toHost[i]
  BY <1>1, <1>2, AnswersAfterPost
<1>5. Len(received) \in Nat /\ DOMAIN received = 1..Len(received)
  BY DEF ReceivedTypeOK
<1>6. ASSUME NEW q \in DOMAIN received
      PROVE  AnswersTo(q)' = AnswersTo(q)
  <2>1. ~(IsAnswer(m) /\ m.requestId = q)
    BY <1>5
  <2>2. QED
    BY <1>4, <2>1
<1>7. EveryRequestAccounted'
  BY <1>3, <1>6 DEF EveryRequestAccounted, QueuedIds, RenderingIds
<1>8. EachAtOnePlace'
  BY <1>4, <1>5 DEF EachAtOnePlace, IsAnswer
<1>9. QED
  BY <1>7, <1>8 DEF ReceivedTypeOK, DroppedHasLeft, QueuedIds, RenderingIds

\* Start, ready() and fail() post what answers no request.
LEMMA StartupKeeps ==
  ASSUME DispatcherInv, Start \/ CheckerStarts \/ CheckerFails,
         UNCHANGED <<received, dropped>>
  PROVE  DispatcherInv'
<1>1. \A m \in {Ready, Failed, CheckerReady(TRUE)} :
        m \in WorkerMessages \cup {BadAttach} /\ ~IsAnswer(m)
  <2>1. {Ready, Failed, CheckerReady(TRUE)} \subseteq WorkerMessages
    BY Zenon DEF WorkerMessages, StartupMessages
  <2>2. \A m \in {Ready, Failed, CheckerReady(TRUE)} : ~IsAnswer(m)
    BY DEF Ready, Failed, CheckerReady, IsAnswer
  <2>3. QED
    BY <2>1, <2>2
<1>2. /\ \E m \in {Ready, Failed, CheckerReady(TRUE)} : toHost' = Append(toHost, m)
      /\ core' \in {"boot", "starting", "ready", "failed"}
      /\ UNCHANGED <<closed, poisoned, queued, frameSender, senderSeq,
                     senderPending, toFrame, received, dropped>>
  BY DEF Start, CheckerStarts, CheckerFails, Post
<1>3. draining' \in BOOLEAN
  BY Zenon DEF Start, CheckerStarts, CheckerFails, DispatcherInv,
     EveryRequestAccounted, WorkerTypeOK
<1>4. QED
  BY <1>1, <1>2, <1>3, OtherPostKeeps

\* One turn of drain(): the head of the queue is taken up.
LEMMA DrainKeeps ==
  ASSUME DispatcherInv, DrainNext, UNCHANGED <<received, dropped>>
  PROVE  DispatcherInv'
<1> USE DEF DispatcherInv
<1> DEFINE e == Head(queued)
<1>1. /\ queued \in Seq(ForeignEnvelopes)
      /\ queued # <<>>
      /\ Len(queued) <= QueueMax
      /\ queued' = Tail(queued)
      /\ WorkerTypeOK
      /\ QueueMax \in Nat
  BY QueueAssumption DEF DrainNext, EveryRequestAccounted, WorkerTypeOK
<1>2. /\ Len(queued) \in Nat \ {0}
      /\ DOMAIN queued = 1..Len(queued)
      /\ e = queued[1]
      /\ e \in ForeignEnvelopes
      /\ queued' \in Seq(ForeignEnvelopes)
      /\ Len(queued') = Len(queued) - 1
      /\ DOMAIN queued' = 1..(Len(queued) - 1)
      /\ \A i \in DOMAIN queued' : queued'[i] = queued[i + 1]
  BY <1>1, EmptySeq, LenProperties, ElementOfSeq, HeadTailProperties
<1>3. \A i \in DOMAIN queued' : i + 1 \in DOMAIN queued /\ i + 1 # 1
  BY <1>2
<1>4. 1 \in DOMAIN queued
  BY <1>2
<1>5. \A i, j \in DOMAIN queued' :
        queued'[i].requestId = queued'[j].requestId => i = j
  <2>1. ASSUME NEW i \in DOMAIN queued', NEW j \in DOMAIN queued',
               queued'[i].requestId = queued'[j].requestId
        PROVE  i = j
    <3>1. i + 1 = j + 1
      BY <1>2, <1>3, <2>1 DEF EachAtOnePlace
    <3>2. QED
      BY <1>2, <2>1, <3>1
  <2>2. QED
    BY <2>1
<1>6. e.requestId \notin QueuedIds'
  BY <1>2, <1>3, <1>4 DEF QueuedIds, EachAtOnePlace
<1>7. QueuedIds \ {e.requestId} = QueuedIds'
  <2>1. ASSUME NEW i \in DOMAIN queued, i # 1
        PROVE  i - 1 \in DOMAIN queued' /\ queued'[i - 1] = queued[i]
    BY <1>2, <2>1
  <2>2. QueuedIds \ {e.requestId} \subseteq QueuedIds'
    BY <1>2, <2>1 DEF QueuedIds
  <2>3. QueuedIds' \subseteq QueuedIds
    BY <1>2, <1>3 DEF QueuedIds
  <2>4. QED
    BY <1>6, <2>2, <2>3
<1>8. AnswersTo(e.requestId) = {} /\ e.requestId <= Len(received)
  <2>1. e.requestId \in QueuedIds /\ e.requestId <= Len(received)
    BY <1>2, <1>4 DEF QueuedIds, EachAtOnePlace
  <2>2. e.requestId \in DOMAIN received
    BY <1>2, <2>1 DEF ReceivedTypeOK, ForeignEnvelopes
  <2>3. QED
    BY <2>1, <2>2 DEF EveryRequestAccounted
<1>9. /\ \A p \in senderPending : p.command.requestId # e.requestId
      /\ e.requestId \notin dropped
  BY <1>2, <1>4 DEF EachAtOnePlace, DroppedHasLeft, QueuedIds
<1>10. AnsweredAtOnce(e) \/ HandedToFrame(e)
  <2>1. CASE core = "failed"
    <3>1. /\ toHost' = Append(toHost, Rejection(e, "rejected"))
          /\ UNCHANGED <<poisoned, senderSeq, senderPending, toFrame>>
      BY <2>1 DEF DrainNext, Post
    <3>2. /\ Rejection(e, "rejected") \in WorkerMessages
          /\ IsAnswer(Rejection(e, "rejected"))
          /\ Rejection(e, "rejected").requestId = e.requestId
      <4>1. /\ e.session \in SessionOrNone
            /\ e.requestId \in Requests
            /\ e.generation \in Generations
        BY <1>2 DEF ForeignEnvelopes
      <4>2. "rejected" \in Statuses \ {"rendered", "accepted"}
        BY DEF Statuses, Rejections
      <4>3. QED
        BY <4>1, <4>2, RejectionType
    <3>3. QED
      BY <1>1, <3>1, <3>2 DEF AnsweredAtOnce, WorkerTypeOK
  <2>2. CASE core # "failed"
    BY <1>1, <1>2, <2>2, ServeEffect DEF DrainNext
  <2>3. QED
    BY <2>1, <2>2
<1> HIDE DEF e
<1>11. /\ ReceivedTypeOK'
       /\ Len(received) <= Len(received')
       /\ DOMAIN received' \subseteq DOMAIN received \cup {e.requestId}
  BY DEF ReceivedTypeOK
<1>12. UNCHANGED <<core, closed, draining, frameSender, dropped>>
  BY DEF DrainNext
<1>13. Len(queued') <= QueueMax
  BY <1>1, <1>2
<1>14. QED
  BY <1>2, <1>5, <1>6, <1>7, <1>8, <1>9, <1>10, <1>11, <1>12, <1>13, TakenUpKeeps

\* A request arrives: it is answered, taken up or queued.
LEMMA SendsRequestKeeps ==
  ASSUME DispatcherInv, HostSendsRequest
  PROVE  DispatcherInv'
<1> USE DEF DispatcherInv
<1>1. PICK e :
        /\ \E k \in {"preprocess", "other"}, g \in Generations,
              d \in Deliveries \cup {"unspecified"} :
             e = [kind |-> k, session |-> 1, requestId |-> Len(received) + 1,
                  generation |-> g, delivery |-> d]
        /\ Receive(e)
        /\ received' = Append(received, e)
  BY DEF HostSendsRequest
<1>2. /\ Len(received) \in Nat
      /\ Len(received) < MaxRequests
      /\ DOMAIN received = 1..Len(received)
  BY DEF HostSendsRequest, ReceivedTypeOK
<1>3. e \in ForeignEnvelopes
  BY <1>1, <1>2, BoundsAssumption, OwnSessionAssumption DEF ForeignEnvelopes
<1>4. /\ e.requestId = Len(received) + 1
      /\ e.kind # "attach-frame"
      /\ e.session \in SessionOrNone
      /\ e.requestId \in Requests
      /\ e.generation \in Generations
  BY <1>1, <1>2, BoundsAssumption, OwnSessionAssumption
<1>5. Receive(e) /\ received' = Append(received, e) /\ dropped' = dropped
  BY <1>1 DEF HostSendsRequest
<1>6. /\ received' \in Seq(ForeignEnvelopes)
      /\ Len(received') = Len(received) + 1
      /\ DOMAIN received' = DOMAIN received \cup {e.requestId}
  <2>1. received \in Seq(ForeignEnvelopes)
    BY DEF ReceivedTypeOK
  <2>2. /\ received' \in Seq(ForeignEnvelopes)
        /\ Len(received') = Len(received) + 1
        /\ DOMAIN received' = 1..(Len(received) + 1)
    BY <1>3, <1>5, <2>1, AppendProperties, LenProperties
  <2>3. QED
    BY <1>2, <1>4, <2>2
<1>7. ReceivedTypeOK' /\ e.requestId <= Len(received') /\ Len(received) <= Len(received')
  BY <1>2, <1>4, <1>6, BoundsAssumption DEF ReceivedTypeOK
<1>8. /\ WorkerTypeOK
      /\ queued \in Seq(ForeignEnvelopes)
      /\ Len(queued) <= QueueMax
  BY DEF EveryRequestAccounted, WorkerTypeOK
<1>9. /\ AnswersTo(e.requestId) = {}
      /\ e.requestId \notin QueuedIds
      /\ \A p \in senderPending : p.command.requestId # e.requestId
      /\ e.requestId \notin dropped
  <2>1. \A i \in DOMAIN queued : queued[i].requestId \in Nat
                                 /\ queued[i].requestId <= Len(received)
    <3>1. \A i \in DOMAIN queued : queued[i] \in ForeignEnvelopes
      BY <1>8, ElementOfSeq, LenProperties
    <3>2. QED
      BY <3>1 DEF EachAtOnePlace, ForeignEnvelopes
  <2>2. \A p \in senderPending : p.command.requestId \in Nat
                                 /\ p.command.requestId <= Len(received)
    BY <1>8 DEF EachAtOnePlace, WorkerTypeOK, Commands
  <2>3. AnswersTo(e.requestId) = {}
    BY <1>2, <1>4 DEF AnswersTo, EachAtOnePlace, IsAnswer
  <2>4. e.requestId \notin QueuedIds
    BY <1>2, <1>4, <2>1 DEF QueuedIds
  <2>5. \A p \in senderPending : p.command.requestId # e.requestId
    BY <1>2, <1>4, <2>2
  <2>6. e.requestId \notin dropped
    BY <1>2, <1>4 DEF DroppedHasLeft
  <2>7. QED
    BY <2>3, <2>4, <2>5, <2>6
<1>10. /\ ReceiveRequest(e)
       /\ UNCHANGED <<core, closed, draining, frameSender, dropped>>
  BY <1>4, <1>5 DEF Receive, ReceiveBadAttach, ReceiveAttach, ReceiveRequest
<1>11. CASE (AnsweredAtOnce(e) \/ HandedToFrame(e)) /\ UNCHANGED queued
  <2>1. QueuedIds' = QueuedIds
    BY <1>11 DEF QueuedIds
  <2>2. \A i, j \in DOMAIN queued' :
          queued'[i].requestId = queued'[j].requestId => i = j
    BY <1>11 DEF EachAtOnePlace
  <2>3. /\ queued' \in Seq(ForeignEnvelopes)
        /\ Len(queued') <= QueueMax
        /\ e.requestId \notin QueuedIds'
        /\ QueuedIds \ {e.requestId} = QueuedIds'
        /\ DOMAIN received' \subseteq DOMAIN received \cup {e.requestId}
    BY <1>6, <1>8, <1>9, <1>11, <2>1
  <2>4. QED
    BY <1>3, <1>7, <1>9, <1>10, <1>11, <2>2, <2>3, TakenUpKeeps
<1>12. ASSUME NEW st \in {"rejected", "startup-queue-full"},
              Post(Rejection(e, st)),
              UNCHANGED <<poisoned, queued, senderSeq, senderPending, toFrame>>
       PROVE  AnsweredAtOnce(e) /\ UNCHANGED queued
  <2>1. st \in Statuses \ {"rendered", "accepted"}
    BY DEF Statuses, Rejections
  <2>2. /\ Rejection(e, st) \in WorkerMessages
        /\ IsAnswer(Rejection(e, st))
        /\ Rejection(e, st).requestId = e.requestId
    BY <1>4, <2>1, RejectionType
  <2>3. toHost' = Append(toHost, Rejection(e, st))
    BY <1>12 DEF Post
  <2>4. QED
    BY <1>8, <1>12, <2>2, <2>3 DEF AnsweredAtOnce, WorkerTypeOK
<1>13. CASE /\ ~QueueFull
            /\ queued' = Append(queued, e)
            /\ UNCHANGED <<poisoned, toHost, senderSeq, senderPending, toFrame>>
  <2>1. /\ queued' \in Seq(ForeignEnvelopes)
        /\ Len(queued) \in Nat
        /\ Len(queued') = Len(queued) + 1
        /\ DOMAIN queued = 1..Len(queued)
        /\ DOMAIN queued' = 1..(Len(queued) + 1)
        /\ queued'[Len(queued) + 1] = e
        /\ \A i \in 1..Len(queued) : queued'[i] = queued[i]
    BY <1>3, <1>8, <1>13, AppendProperties, LenProperties
  <2>2. /\ DOMAIN queued' = DOMAIN queued \cup {Len(queued) + 1}
        /\ Len(queued') <= QueueMax
    BY <1>8, <1>13, <2>1, QueueAssumption DEF QueueFull
  <2>3. WorkerTypeOK'
    BY <1>8, <1>10, <1>13, <2>1, <2>2 DEF WorkerTypeOK
  <2>4. \A i \in DOMAIN queued : queued[i].requestId # e.requestId
    BY <1>9 DEF QueuedIds
  <2>5. EachAtOnePlace'
    <3>1. \A i, j \in DOMAIN queued' :
            queued'[i].requestId = queued'[j].requestId => i = j
      BY <2>1, <2>2, <2>4 DEF EachAtOnePlace
    <3>2. \A i \in DOMAIN queued' : \A p \in senderPending :
            queued'[i].requestId # p.command.requestId
      BY <1>9, <2>1, <2>2 DEF EachAtOnePlace
    <3>3. \A i \in DOMAIN queued' : queued'[i].requestId <= Len(received')
      <4>1. \A i \in DOMAIN queued : queued[i].requestId \in Nat
        <5>1. \A i \in DOMAIN queued : queued[i] \in ForeignEnvelopes
          BY <1>8, ElementOfSeq, LenProperties
        <5>2. QED
          BY <5>1 DEF ForeignEnvelopes
      <4>2. QED
        BY <1>2, <1>6, <1>7, <2>1, <2>2, <4>1 DEF EachAtOnePlace
    <3>4. \A p \in senderPending : p.command.requestId <= Len(received')
      <4>1. \A p \in senderPending : p.command.requestId \in Nat
        BY <1>8 DEF WorkerTypeOK, Commands
      <4>2. QED
        BY <1>2, <1>6, <4>1 DEF EachAtOnePlace
    <3>5. \A i \in DOMAIN toHost : IsAnswer(toHost[i]) =>
            toHost[i].requestId \in 0..Len(received')
      BY <1>2, <1>6 DEF EachAtOnePlace
    <3>6. QED
      BY <1>13, <3>1, <3>2, <3>3, <3>4, <3>5 DEF EachAtOnePlace
  <2>6. EveryRequestAccounted'
    <3>1. QueuedIds' = QueuedIds \cup {e.requestId}
      BY <2>1, <2>2 DEF QueuedIds
    <3>2. \A q : AnswersTo(q)' = AnswersTo(q)
      BY <1>13 DEF AnswersTo
    <3>3. RenderingIds' = RenderingIds
      BY <1>13 DEF RenderingIds
    <3>4. (closed => closed') /\ dropped' = dropped /\ e.requestId \notin dropped
      BY <1>9, <1>10, Zenon
    <3>5. DOMAIN received' \subseteq DOMAIN received \cup {e.requestId}
      BY <1>6
    <3>6. /\ \A i, j \in AnswersTo(e.requestId)' : i = j
          /\ AnswersTo(e.requestId)' # {} <=>
               e.requestId \notin QueuedIds' \cup RenderingIds'
      BY <1>9, <3>1, <3>2
    <3>7. \A q \in DOMAIN received' \ {e.requestId} :
            /\ AnswersTo(q)' = AnswersTo(q)
            /\ q \in QueuedIds' <=> q \in QueuedIds
            /\ q \in RenderingIds' <=> q \in RenderingIds
      BY <3>1, <3>2, <3>3
    <3>8. QED
      BY <2>3, <3>4, <3>5, <3>6, <3>7, AccountedAfter
  <2>7. DroppedHasLeft'
    <3>1. QueuedIds' = QueuedIds \cup {e.requestId} /\ RenderingIds' = RenderingIds
      BY <1>13, <2>1, <2>2 DEF QueuedIds, RenderingIds
    <3>2. QED
      BY <1>2, <1>5, <1>6, <1>9, <3>1 DEF DroppedHasLeft
  <2>8. QED
    BY <1>7, <2>5, <2>6, <2>7
<1>14. QED
  BY <1>3, <1>8, <1>10, <1>11, <1>12, <1>13, ServeEffect DEF ReceiveRequest

\* A port is installed: what the old one was waiting for is dropped.
LEMMA AttachKeeps ==
  ASSUME DispatcherInv, HostAttaches
  PROVE  DispatcherInv'
<1> USE DEF DispatcherInv
<1>1. PICK s \in SessionOrNone :
        /\ s # NoSession => s = frameSender + 1
        /\ Receive(AttachFrame(s))
        /\ dropped' = IF s = NoSession THEN dropped ELSE dropped \cup RenderingIds
  BY DEF HostAttaches
<1>2. /\ WorkerTypeOK
      /\ received' = received
      /\ AttachFrame(s).kind = "attach-frame"
      /\ AttachFrame(s).session = s
  BY DEF HostAttaches, EveryRequestAccounted, AttachFrame
<1>3. CASE ReceiveBadAttach(AttachFrame(s))
  <2>1. BadAttach.requestId = 0
    BY DEF BadAttach, Reply
  <2>2. QED
    BY <1>1, <1>2, <1>3, <2>1, OtherPostKeeps DEF ReceiveBadAttach, Post, WorkerTypeOK
<1>4. CASE ReceiveAttach(AttachFrame(s))
  <2> DEFINE m == FrameAttached(s)
  <2>1. /\ frameSender' = s
        /\ s # NoSession
        /\ s = frameSender + 1
        /\ senderSeq' = 0
        /\ senderPending' = {}
        /\ toHost' = Append(toHost, m)
        /\ UNCHANGED <<core, closed, poisoned, queued, draining, toFrame>>
    BY <1>1, <1>2, <1>4 DEF ReceiveAttach, Post
  <2>2. m \in WorkerMessages /\ ~IsAnswer(m)
    <3>1. m \in WorkerMessages
      BY <1>1, Zenon DEF WorkerMessages, StartupMessages
    <3>2. ~IsAnswer(m)
      BY DEF FrameAttached, IsAnswer
    <3>3. QED
      BY <3>1, <3>2
  <2> HIDE DEF m
  <2>3. toHost' \in Seq(WorkerMessages \cup {BadAttach})
    BY <1>2, <2>1, <2>2, AppendProperties DEF WorkerTypeOK
  <2>4. WorkerTypeOK'
    BY <1>1, <1>2, <2>1, <2>3 DEF WorkerTypeOK
  <2>5. /\ \A q : AnswersTo(q)' = AnswersTo(q)
        /\ DOMAIN toHost' = DOMAIN toHost \cup {Len(toHost) + 1}
        /\ toHost'[Len(toHost) + 1] = m
        /\ \A i \in DOMAIN toHost : toHost'[i] = toHost[i]
    <3>1. toHost' = Append(toHost, m)
      BY <2>1
    <3>2. /\ \A q : AnswersTo(q)' = AnswersTo(q) \cup
                       {i \in {Len(toHost) + 1} : IsAnswer(m) /\ m.requestId = q}
          /\ DOMAIN toHost' = DOMAIN toHost \cup {Len(toHost) + 1}
          /\ toHost'[Len(toHost) + 1] = m
          /\ \A i \in DOMAIN toHost : toHost'[i] = toHost[i]
      BY <1>2, <2>3, <3>1, AnswersAfterPost
    <3>3. QED
      BY <2>2, <3>2
  <2>6. /\ QueuedIds' = QueuedIds
        /\ RenderingIds' = {}
        /\ dropped' = dropped \cup RenderingIds
    BY <1>1, <2>1 DEF QueuedIds, RenderingIds
  <2>7. EveryRequestAccounted'
    <3>1. SUFFICES ASSUME NEW r \in DOMAIN received
                   PROVE  /\ \A i, j \in AnswersTo(r)' : i = j
                          /\ AnswersTo(r)' # {} =>
                               r \notin QueuedIds' \cup RenderingIds' \cup dropped'
                          /\ AnswersTo(r)' = {} =>
                               r \in QueuedIds' \cup RenderingIds' \cup dropped' \/ closed'
      BY <1>2, <2>4 DEF EveryRequestAccounted
    <3>2. closed' = closed
      BY <2>1
    <3>3. QED
      BY <2>5, <2>6, <3>2 DEF EveryRequestAccounted
  <2>8. EachAtOnePlace'
    BY <1>2, <2>1, <2>2, <2>5 DEF EachAtOnePlace, IsAnswer
  <2>9. DroppedHasLeft'
    <3>1. QueuedIds \cap RenderingIds = {}
      BY DEF QueuedIds, RenderingIds, EachAtOnePlace
    <3>2. RenderingIds \subseteq 1..Len(received)
      BY <1>2 DEF RenderingIds, EachAtOnePlace, WorkerTypeOK, Commands
    <3>3. QED
      BY <1>2, <2>6, <3>1, <3>2 DEF DroppedHasLeft
  <2>10. QED
    BY <1>2, <2>7, <2>8, <2>9 DEF ReceivedTypeOK
<1>5. ~ReceiveRequest(AttachFrame(s))
  BY <1>2 DEF ReceiveRequest
<1>6. QED
  BY <1>1, <1>3, <1>4, <1>5 DEF Receive

\* An acknowledgement answers the request of the one entry it names.
LEMMA AckKeeps ==
  ASSUME DispatcherInv, FrameAnswers
  PROVE  DispatcherInv'
<1> USE DEF DispatcherInv
<1>1. received' = received /\ dropped' = dropped /\ WorkerTypeOK
  BY DEF FrameAnswers, EveryRequestAccounted
<1>2. CASE UNCHANGED workerVars
  BY <1>1, <1>2 DEF workerVars, ReceivedTypeOK, EveryRequestAccounted,
     EachAtOnePlace, DroppedHasLeft, WorkerTypeOK, QueuedIds, RenderingIds,
     AnswersTo
<1>3. ASSUME NEW a, OnAck(a)
      PROVE  DispatcherInv'
  <2>1. PICK p \in senderPending :
          /\ a = Ack(p.command, a.ok)
          /\ senderPending' = senderPending \ {p}
          /\ toHost' = Append(toHost,
               AckReply([session |-> p.session, requestId |-> a.requestId,
                         generation |-> a.generation], a))
    BY <1>3 DEF OnAck, StillPending, Post
  <2> DEFINE e == [session |-> p.session, requestId |-> a.requestId,
                   generation |-> a.generation]
             r == p.command.requestId
             m == AckReply(e, a)
  <2>2. /\ p.session \in SessionOrNone
        /\ r \in Requests
        /\ p.command.generation \in Generations
        /\ \A q \in senderPending : q.command.requestId \in Nat
    BY <1>1 DEF WorkerTypeOK, Commands
  <2>3. a.requestId = r /\ a.generation = p.command.generation
    BY <2>1 DEF Ack
  <2>4. m \in WorkerMessages /\ IsAnswer(m) /\ m.requestId = r
    <3>1. "rejected" \in Statuses \ {"rendered", "accepted"}
      BY DEF Statuses, Rejections
    <3>2. CASE a.ok
      BY <2>2, <2>3, <3>2, OtherRepliesType DEF AckReply
    <3>3. CASE ~a.ok
      BY <2>2, <2>3, <3>1, <3>3, RejectionType DEF AckReply
    <3>4. QED
      BY <3>2, <3>3
  <2>5. /\ toHost' = Append(toHost, m)
        /\ UNCHANGED <<core, closed, poisoned, queued, draining, frameSender,
                       senderSeq, toFrame>>
    BY <1>3, <2>1 DEF OnAck
  <2> HIDE DEF m, r, e
  <2>6. toHost' \in Seq(WorkerMessages \cup {BadAttach})
    BY <1>1, <2>4, <2>5, AppendProperties DEF WorkerTypeOK
  <2>7. WorkerTypeOK'
    BY <1>1, <2>1, <2>5, <2>6 DEF WorkerTypeOK
  <2>8. /\ \A q : AnswersTo(q)' = AnswersTo(q) \cup
                    {i \in {Len(toHost) + 1} : r = q}
        /\ DOMAIN toHost' = DOMAIN toHost \cup {Len(toHost) + 1}
        /\ toHost'[Len(toHost) + 1] = m
        /\ \A i \in DOMAIN toHost : toHost'[i] = toHost[i]
    BY <1>1, <2>4, <2>5, <2>6, AnswersAfterPost
  <2>9. /\ r \in DOMAIN received
        /\ r \in RenderingIds
        /\ Len(received) \in Nat
        /\ r \in 0..Len(received)
    BY <2>2 DEF ReceivedTypeOK, EachAtOnePlace, RenderingIds, r
  <2>10. AnswersTo(r)' = {Len(toHost) + 1}
    BY <2>8, <2>9 DEF EveryRequestAccounted
  <2>11. /\ RenderingIds' = RenderingIds \ {r}
         /\ QueuedIds' = QueuedIds
         /\ r \notin QueuedIds
    BY <2>1, <2>5 DEF RenderingIds, QueuedIds, EachAtOnePlace, r
  <2>12. EveryRequestAccounted'
    <3>1. \A q \in DOMAIN received' \ {r} :
            /\ AnswersTo(q)' = AnswersTo(q)
            /\ q \in QueuedIds' <=> q \in QueuedIds
            /\ q \in RenderingIds' <=> q \in RenderingIds
      BY <2>8, <2>11
    <3>2. /\ \A i, j \in AnswersTo(r)' : i = j
          /\ AnswersTo(r)' # {} <=> r \notin QueuedIds' \cup RenderingIds'
      BY <2>10, <2>11
    <3>3. (closed => closed') /\ dropped' = dropped /\ r \notin dropped
      BY <1>1, <2>5, <2>9 DEF DroppedHasLeft
    <3>4. DOMAIN received' \subseteq DOMAIN received \cup {r}
      BY <1>1
    <3>5. QED
      BY <2>7, <3>1, <3>2, <3>3, <3>4, AccountedAfter
  <2>13. EachAtOnePlace'
    BY <1>1, <2>1, <2>4, <2>5, <2>8, <2>9 DEF EachAtOnePlace, IsAnswer
  <2>14. DroppedHasLeft'
    BY <1>1, <2>11 DEF DroppedHasLeft
  <2>15. QED
    BY <1>1, <2>12, <2>13, <2>14 DEF ReceivedTypeOK
<1>4. QED
  BY <1>2, <1>3 DEF FrameAnswers, IgnoreAck

\* dispose() drops what is queued and what the frame owes.
LEMMA DisposeKeeps ==
  ASSUME DispatcherInv, DispatcherDispose, UNCHANGED <<received, dropped>>
  PROVE  DispatcherInv'
<1> USE DEF DispatcherInv
<1>1. /\ closed' = TRUE
      /\ queued' = <<>>
      /\ senderPending' = {}
      /\ UNCHANGED <<core, poisoned, draining, frameSender, senderSeq, toHost,
                     toFrame, received, dropped>>
      /\ WorkerTypeOK
  BY DEF DispatcherDispose, EveryRequestAccounted
<1>2. WorkerTypeOK'
  BY <1>1, QueueAssumption DEF WorkerTypeOK
<1>3. QueuedIds' = {} /\ RenderingIds' = {} /\ \A r : AnswersTo(r)' = AnswersTo(r)
  BY <1>1 DEF QueuedIds, RenderingIds, AnswersTo
<1>4. EveryRequestAccounted'
  BY <1>1, <1>2, <1>3 DEF EveryRequestAccounted
<1>5. QED
  BY <1>1, <1>3, <1>4 DEF ReceivedTypeOK, EachAtOnePlace, DroppedHasLeft

LEMMA DrainEndsKeeps ==
  ASSUME DispatcherInv, DrainEnds, UNCHANGED <<received, dropped>>
  PROVE  DispatcherInv'
<1>1. UNCHANGED <<core, closed, poisoned, queued, frameSender, senderSeq,
                  senderPending, toHost, toFrame, received, dropped>>
      /\ draining' \in BOOLEAN
  BY DEF DrainEnds
<1>2. WorkerTypeOK'
  BY <1>1 DEF DispatcherInv, EveryRequestAccounted, WorkerTypeOK
<1>3. QED
  BY <1>1, <1>2 DEF DispatcherInv, EveryRequestAccounted, ReceivedTypeOK,
     EachAtOnePlace, DroppedHasLeft, QueuedIds, RenderingIds, AnswersTo

-----------------------------------------------------------------------------
\* The invariant holds of the Worker against any host and any frame.
THEOREM DispatcherInvariant == MCSpec => []DispatcherInv
<1>1. MCInit => DispatcherInv
  <2> SUFFICES ASSUME MCInit PROVE DispatcherInv
    OBVIOUS
  <2>1. WorkerTypeOK
    <3> USE DEF MCInit, WorkerInit
    <3>1. /\ queued \in Seq(ForeignEnvelopes)
          /\ Len(queued) <= QueueMax
          /\ toHost \in Seq(WorkerMessages \cup {BadAttach})
          /\ toFrame \in [Sessions -> Seq(Commands)]
      BY EmptySeq, QueueAssumption
    <3>2. /\ closed \in BOOLEAN
          /\ poisoned \in BOOLEAN
          /\ draining \in BOOLEAN
      OBVIOUS
    <3>3. /\ core \in {"boot", "starting", "ready", "failed"}
          /\ frameSender \in SessionOrNone
          /\ senderSeq \in Nat
          /\ senderPending \subseteq [command : Commands, session : Sessions]
      BY BoundsAssumption
    <3> HIDE DEF MCInit, WorkerInit
    <3>4. QED
      BY <3>1, <3>2, <3>3 DEF WorkerTypeOK
  <2>2. QED
    BY <2>1, BoundsAssumption DEF MCInit, WorkerInit, DispatcherInv,
       ReceivedTypeOK, EveryRequestAccounted, EachAtOnePlace, DroppedHasLeft,
       QueuedIds, RenderingIds
<1>2. DispatcherInv /\ [MCNext]_mcVars => DispatcherInv'
  <2> SUFFICES ASSUME DispatcherInv, [MCNext]_mcVars PROVE DispatcherInv'
    OBVIOUS
  <2>1. CASE WorkerNext /\ UNCHANGED <<received, dropped>>
    BY <2>1, StartupKeeps, DrainKeeps, DrainEndsKeeps DEF WorkerNext
  <2>2. CASE HostSendsRequest
    BY <2>2, SendsRequestKeeps
  <2>3. CASE HostAttaches
    BY <2>3, AttachKeeps
  <2>4. CASE FrameAnswers
    BY <2>4, AckKeeps
  <2>5. CASE DispatcherDispose /\ UNCHANGED <<received, dropped>>
    BY <2>5, DisposeKeeps
  <2>6. CASE UNCHANGED mcVars
    BY <2>6 DEF mcVars, workerVars, DispatcherInv, ReceivedTypeOK,
       EveryRequestAccounted, EachAtOnePlace, DroppedHasLeft, WorkerTypeOK,
       QueuedIds, RenderingIds, AnswersTo
  <2>7. QED
    BY <2>1, <2>2, <2>3, <2>4, <2>5, <2>6 DEF MCNext
<1>3. QED
  BY <1>1, <1>2, PTL DEF MCSpec

\* Every request the Worker was sent is answered at most once, and has its
\* answer unless it is queued, with the frame, was with the frame when its port
\* was replaced, or the Worker was disposed (policy-dispatcher.js: receive, drain, serve, onAck).
THEOREM EveryRequestAccountedHolds == MCSpec => []EveryRequestAccounted
<1>1. DispatcherInv => EveryRequestAccounted
  BY DEF DispatcherInv
<1>2. QED
  BY <1>1, DispatcherInvariant, PTL

\* What a handler does once the checker trapped: at most one message, and none
\* that accepts.
Harmless ==
  /\ poisoned'
  /\ toFrame' = toFrame
  /\ \/ toHost' = toHost
     \/ \E m : toHost' = Append(toHost, m) /\ (m.kind = "result" => m.status # "accepted")

LEMMA PoisonedServeHarmless ==
  ASSUME poisoned, NEW e \in ForeignEnvelopes, Serve(e)
  PROVE  Harmless
<1>1. Verdicts = {"checker-poisoned"}
  BY DEF Verdicts
<1>2. ServeAnswers(e)
  BY <1>1 DEF Serve, ServeRenders
<1>3. PICK m \in Answers(e) :
        /\ toHost' = Append(toHost, m)
        /\ poisoned' = (poisoned \/ m.status = "checker-poisoned")
        /\ toFrame' = toFrame
  BY <1>2 DEF ServeAnswers, Post
<1>4. m.kind = "result" => m.status # "accepted"
  BY <1>1 DEF Answers, Rejection, Refusal, Reply
<1>5. poisoned'
  BY <1>3, Zenon
<1>6. QED
  BY <1>3, <1>4, <1>5 DEF Harmless

\* A trapped checker accepts nothing more and sends no tree to the frame
\* (policy-core.js: a poisoned checker refuses before it parses).
THEOREM PoisonIsFinalHolds == MCSpec => PoisonIsFinal
<1>1. ASSUME DispatcherInv, [MCNext]_mcVars, poisoned
      PROVE  Harmless
  <2>1. WorkerTypeOK
    BY <1>1 DEF DispatcherInv, EveryRequestAccounted
  <2>2. ASSUME NEW m, toHost' = Append(toHost, m), m.kind # "result",
               UNCHANGED <<poisoned, toFrame>>
        PROVE  Harmless
    BY <1>1, <2>2, Zenon DEF Harmless
  <2>3. CASE UNCHANGED <<poisoned, toFrame, toHost>>
    BY <1>1, <2>3, Zenon DEF Harmless
  <2>4. CASE Start \/ CheckerStarts \/ CheckerFails
    <3>1. \A m \in {Ready, Failed, CheckerReady(TRUE)} : m.kind # "result"
      BY DEF Ready, Failed, CheckerReady
    <3>2. QED
      BY <2>2, <2>4, <3>1 DEF Start, CheckerStarts, CheckerFails, Post
  <2>5. ASSUME NEW e, NEW st \in {"rejected", "startup-queue-full"},
               Post(Rejection(e, st)), UNCHANGED <<poisoned, toFrame>>
        PROVE  Harmless
    <3>1. Rejection(e, st).status # "accepted"
      BY DEF Rejection, Reply
    <3>2. QED
      BY <1>1, <2>5, <3>1, Zenon DEF Harmless, Post
  <2>6. CASE DrainNext
    <3>1. Head(queued) \in ForeignEnvelopes
      <4>1. queued \in Seq(ForeignEnvelopes) /\ queued # <<>>
        BY <2>1, <2>6 DEF DrainNext, WorkerTypeOK
      <4>2. QED
        BY <4>1, HeadTailProperties
    <3>2. QED
      BY <1>1, <2>5, <2>6, <3>1, PoisonedServeHarmless DEF DrainNext
  <2>7. CASE HostSendsRequest
    <3>1. PICK e : /\ e \in ForeignEnvelopes
                   /\ e.kind # "attach-frame"
                   /\ Receive(e)
      <4>1. Len(received) + 1 \in Requests
        BY <1>1, <2>7, BoundsAssumption DEF HostSendsRequest, DispatcherInv,
           ReceivedTypeOK
      <4>2. QED
        BY <2>7, <4>1, OwnSessionAssumption, BoundsAssumption
           DEF HostSendsRequest, ForeignEnvelopes
    <3>2. ReceiveRequest(e)
      BY <3>1 DEF Receive, ReceiveBadAttach, ReceiveAttach
    <3>3. QED
      BY <1>1, <2>3, <2>5, <3>1, <3>2, PoisonedServeHarmless DEF ReceiveRequest
  <2>8. CASE HostAttaches
    <3>1. PICK s \in SessionOrNone : Receive(AttachFrame(s))
      BY <2>8 DEF HostAttaches
    <3>2. BadAttach.kind # "result" /\ FrameAttached(s).kind # "result"
      BY DEF BadAttach, Reply, FrameAttached
    <3>3. AttachFrame(s).kind = "attach-frame" /\ AttachFrame(s).session = s
      BY DEF AttachFrame
    <3>4. QED
      BY <2>2, <3>1, <3>2, <3>3 DEF Receive, ReceiveBadAttach, ReceiveAttach,
         ReceiveRequest, Post
  <2>9. CASE FrameAnswers
    <3>1. CASE UNCHANGED workerVars
      BY <2>3, <3>1 DEF workerVars
    <3>2. ASSUME NEW a, OnAck(a)
          PROVE  Harmless
      <4>1. PICK e : /\ toHost' = Append(toHost, AckReply(e, a))
                     /\ UNCHANGED <<poisoned, toFrame>>
        BY <3>2 DEF OnAck, Post
      <4>2. AckReply(e, a).status # "accepted"
        BY DEF AckReply, RenderedReply, Rejection, Reply
      <4>3. QED
        BY <1>1, <4>1, <4>2, Zenon DEF Harmless
    <3>3. QED
      BY <2>9, <3>1, <3>2 DEF FrameAnswers, IgnoreAck
  <2>10. CASE DrainEnds \/ DispatcherDispose \/ UNCHANGED mcVars
    BY <2>3, <2>10 DEF DrainEnds, DispatcherDispose, mcVars, workerVars
  <2>11. QED
    BY <1>1, <2>4, <2>6, <2>7, <2>8, <2>9, <2>10 DEF MCNext, WorkerNext
<1>2. ASSUME DispatcherInv, Harmless
      PROVE  /\ poisoned'
             /\ toFrame' = toFrame
             /\ \A i \in Answered' \ Answered : toHost'[i].status # "accepted"
  <2>1. toHost \in Seq(WorkerMessages \cup {BadAttach})
    BY <1>2 DEF DispatcherInv, EveryRequestAccounted, WorkerTypeOK
  <2>2. CASE toHost' = toHost
    BY <1>2, <2>2 DEF Harmless, Answered
  <2>3. CASE \E m : /\ toHost' = Append(toHost, m)
                    /\ m.kind = "result" => m.status # "accepted"
    <3>1. PICK m : /\ toHost' = Append(toHost, m)
                   /\ m.kind = "result" => m.status # "accepted"
      BY <2>3
    <3>2. /\ Len(toHost) \in Nat
          /\ DOMAIN toHost = 1..Len(toHost)
          /\ DOMAIN toHost' = 1..(Len(toHost) + 1)
          /\ toHost'[Len(toHost) + 1] = m
          /\ \A i \in 1..Len(toHost) : toHost'[i] = toHost[i]
      BY <2>1, <3>1
    <3>3. \A i \in Answered' \ Answered : i = Len(toHost) + 1
      BY <3>2 DEF Answered
    <3>4. ASSUME NEW i \in Answered' \ Answered
          PROVE  toHost'[i].status # "accepted"
      <4>1. toHost'[i] = m /\ m.kind = "result"
        BY <3>2, <3>3 DEF Answered
      <4>2. QED
        BY <3>1, <4>1
    <3>5. poisoned' /\ toFrame' = toFrame
      BY <1>2, Zenon DEF Harmless
    <3>6. QED
      BY <3>4, <3>5, Zenon
  <2>4. QED
    BY <1>2, <2>2, <2>3 DEF Harmless
<1>3. DispatcherInv /\ [MCNext]_mcVars =>
        [poisoned =>
           /\ poisoned'
           /\ toFrame' = toFrame
           /\ \A i \in Answered' \ Answered : toHost'[i].status # "accepted"]_workerVars
  BY <1>1, <1>2
<1>4. QED
  BY <1>3, DispatcherInvariant, PTL DEF MCSpec, PoisonIsFinal
=============================================================================
