------------------------- MODULE SandboxFrameProofs -------------------------
(***************************************************************************
 Proofs about SandboxFrame between any host and any senders (MCSpec): for
 every number of ports, documents and commands, whatever is posted on a port.
 ***************************************************************************)
EXTENDS MCSandboxFrame, SequenceTheorems, TLAPS

USE DEF NoSession, Sessions, SessionOrNone, Requests, Generations

SenderTypeOK ==
  /\ attached \in SessionOrNone
  /\ sent \in [Sessions -> Seq(Commands)]

\* Before the script reported, nothing was posted to it; afterwards nothing
\* is held back for it.
HeldUntilReady ==
  /\ ~ready => /\ toFrameWindow = <<>>
               /\ receiver = NoSession
  /\ ready => pendingBootstrap = NoSession

\* Ports reach the frame in the order they were attached, each once: one that
\* is on its way is newer than the one the frame listens on.
PortsArriveInOrder ==
  /\ receiver <= attached
  /\ pendingBootstrap <= attached
  /\ bootstrapResolve <= attached
  /\ \A i \in DOMAIN toFrameWindow :
       /\ receiver < toFrameWindow[i]
       /\ toFrameWindow[i] <= attached
  /\ \A i, j \in DOMAIN toFrameWindow :
       i < j => toFrameWindow[i] < toFrameWindow[j]

\* A port is not answered before it arrived, and then up to lastSeq.
AnsweredUpToLastSeq ==
  /\ \A s \in Sessions : ~ready \/ s > attached => acks[s] = <<>>
  /\ \A i \in DOMAIN toFrameWindow : acks[toFrameWindow[i]] = <<>>
  /\ receiver # NoSession =>
       \A i \in DOMAIN acks[receiver] : acks[receiver][i].seq <= lastSeq

\* What is displayed came from the port the frame listens on, or an older one.
DisplayIsReceivers == display.session <= receiver

FrameInv ==
  /\ SenderTypeOK
  /\ AttachNeverForgotten
  /\ HeldUntilReady
  /\ PortsArriveInOrder
  /\ AnsweredUpToLastSeq
  /\ AnswersOnce
  /\ DisplayIsReceivers

-----------------------------------------------------------------------------
LEMMA FrameInvInit == MCInit => FrameInv
<1> SUFFICES ASSUME MCInit PROVE FrameInv
  OBVIOUS
<1> USE BoundsAssumption, DocumentsAssumption
<1>1. FrameTypeOK
  <2> USE DEF MCInit, FrameInit
  <2>1. loads \in 0..MaxDocuments /\ documents \in 1..MaxDocuments
    OBVIOUS
  <2>2. /\ attachResult \in [Sessions -> Promises]
        /\ boundPromise \in Promises
        /\ frameReady \in Promises
    BY DEF Promises
  <2>3. /\ toFrameWindow \in Seq(Sessions)
        /\ fromFrame \in Seq(FrameMessages)
    OBVIOUS
  <2>4. portRead \in [Sessions -> Nat] /\ acks \in [Sessions -> Seq(Acks)]
    OBVIOUS
  <2>5. /\ ready \in BOOLEAN
        /\ destroyed \in BOOLEAN
        /\ portBound \in BOOLEAN
        /\ bootstrapTimer \in BOOLEAN
        /\ scriptRuns \in BOOLEAN
    OBVIOUS
  <2>6. /\ pendingBootstrap \in SessionOrNone
        /\ bootstrapResolve \in SessionOrNone
        /\ receiver \in SessionOrNone
        /\ lastSeq \in Nat
        /\ display \in {Blank}
    OBVIOUS
  <2> HIDE DEF MCInit, FrameInit
  <2>7. QED
    BY <2>1, <2>2, <2>3, <2>4, <2>5, <2>6 DEF FrameTypeOK
<1>2. SenderTypeOK
  BY DEF MCInit, SenderTypeOK
<1>3. AttachNeverForgotten
  BY <1>1 DEF MCInit, FrameInit, AttachNeverForgotten
<1>4. QED
  BY <1>1, <1>2, <1>3 DEF MCInit, FrameInit, FrameInv, HeldUntilReady,
     PortsArriveInOrder, AnsweredUpToLastSeq, AnswersOnce, DisplayIsReceivers,
     Blank

-----------------------------------------------------------------------------
(***************************************************************************
 The host's end.
 ***************************************************************************)

\* destroy() resolves whatever waits and ends the document, so that nothing is
\* on its way any more; it is part of three handlers.
LEMMA DestroyKeeps ==
  ASSUME FrameInv,
         Destroy,
         UNCHANGED <<ready, documents, lastSeq, portRead, acks, sent, attached>>,
         loads' \in 0..MaxDocuments
  PROVE  FrameInv'
<1> USE BoundsAssumption DEF FrameInv
<1>1. FrameTypeOK'
  <2> USE DEF AttachNeverForgotten, FrameTypeOK
  <2>1. /\ attachResult' \in [Sessions -> Promises]
        /\ boundPromise' \in Promises
        /\ frameReady' \in Promises
    BY DEF Destroy, Resolving, SettleIf, FrameReadyWhenDestroyed, Promises
  <2>2. /\ ready' \in BOOLEAN
        /\ destroyed' \in BOOLEAN
        /\ portBound' \in BOOLEAN
        /\ bootstrapTimer' \in BOOLEAN
        /\ scriptRuns' \in BOOLEAN
    BY DEF Destroy
  <2>3. /\ pendingBootstrap' \in SessionOrNone
        /\ bootstrapResolve' \in SessionOrNone
        /\ receiver' \in SessionOrNone
        /\ display' \in {Blank}
        /\ toFrameWindow' \in Seq(Sessions)
        /\ fromFrame' \in Seq(FrameMessages)
    BY DEF Destroy
  <2>4. QED
    BY <2>1, <2>2, <2>3
<1>2. AttachNeverForgotten'
  BY <1>1 DEF AttachNeverForgotten, FrameTypeOK, Destroy, Resolving, Waiting
<1>3. SenderTypeOK'
  BY DEF SenderTypeOK
<1>4. HeldUntilReady' /\ PortsArriveInOrder' /\ DisplayIsReceivers'
  BY DEF Destroy, HeldUntilReady, PortsArriveInOrder, DisplayIsReceivers,
         Blank, SenderTypeOK
<1>5. AnsweredUpToLastSeq' /\ AnswersOnce'
  BY DEF Destroy, AnsweredUpToLastSeq, AnswersOnce
<1>6. QED
  BY <1>1, <1>2, <1>3, <1>4, <1>5

\* attachPort(): the new port is newer than every port on its way.
LEMMA HostAttachesKeeps ==
  ASSUME FrameInv, HostAttaches
  PROVE  FrameInv'
<1> USE BoundsAssumption DEF FrameInv
<1> DEFINE s == attached + 1
<1>0. /\ attached \in SessionOrNone
      /\ receiver \in SessionOrNone
      /\ pendingBootstrap \in SessionOrNone
      /\ bootstrapResolve \in SessionOrNone
      /\ toFrameWindow \in Seq(Sessions)
      /\ attachResult \in [Sessions -> Promises]
  BY DEF SenderTypeOK, AttachNeverForgotten, FrameTypeOK
<1>1. /\ attached' = s
      /\ s \in Sessions
      /\ AttachPort(s)
      /\ UNCHANGED <<ready, destroyed, loads, portBound, boundPromise,
                     frameReady, bootstrapTimer, fromFrame, documents,
                     scriptRuns, receiver, lastSeq, portRead, display, acks,
                     sent>>
  BY DEF HostAttaches, HostAttachesPort, frameSideVars, SenderTypeOK
<1>2. CASE destroyed
  <2>1. /\ attachResult' = [t \in Sessions |-> IF t = s THEN "false"
                                               ELSE attachResult[t]]
        /\ UNCHANGED <<pendingBootstrap, bootstrapResolve, toFrameWindow>>
    BY <1>1, <1>2 DEF AttachPort, Resolving
  <2>2. s # pendingBootstrap /\ s # bootstrapResolve
    BY DEF PortsArriveInOrder, SenderTypeOK, AttachNeverForgotten, FrameTypeOK
  <2>3. FrameTypeOK'
    BY <1>1, <2>1 DEF AttachNeverForgotten, FrameTypeOK, Promises
  <2>4. AttachNeverForgotten'
    BY <1>1, <2>1, <2>2, <2>3 DEF AttachNeverForgotten, FrameTypeOK
  <2>5. SenderTypeOK' /\ HeldUntilReady' /\ AnswersOnce' /\ DisplayIsReceivers'
    BY <1>1, <2>1 DEF SenderTypeOK, HeldUntilReady, AnswersOnce,
       DisplayIsReceivers
  <2>6. PortsArriveInOrder' /\ AnsweredUpToLastSeq'
    <3>1. attached <= s /\ \A t \in Sessions : t > s => t > attached
      BY <1>0
    <3>2. QED
      BY <1>0, <1>1, <2>1, <3>1 DEF PortsArriveInOrder, AnsweredUpToLastSeq
  <2>7. QED
    BY <2>3, <2>4, <2>5, <2>6
<1> DEFINE Resolved(promise) ==
      attachResult' = [t \in Sessions |->
        IF t = s THEN promise
        ELSE IF t \in Waiting THEN "false" ELSE attachResult[t]]
    Held ==
      /\ Resolved("pending")
      /\ pendingBootstrap' = s
      /\ bootstrapResolve' = NoSession
      /\ toFrameWindow' = toFrameWindow
    Posted ==
      /\ Resolved("pending")
      /\ pendingBootstrap' = NoSession
      /\ bootstrapResolve' = s
      /\ toFrameWindow' = Append(toFrameWindow, s)
    PostThrew ==
      /\ Resolved("false")
      /\ pendingBootstrap' = NoSession
      /\ bootstrapResolve' = NoSession
      /\ toFrameWindow' = toFrameWindow
<1>3. ASSUME ~destroyed
      PROVE  (Held \/ Posted \/ PostThrew) /\ HeldUntilReady'
  <2>1. PICK throws \in {FALSE, ready} :
          /\ attachResult' =
               [Resolving(Superseded, "false") EXCEPT
                  ![s] = IF throws THEN "false" ELSE "pending"]
          /\ pendingBootstrap' = IF ready THEN NoSession ELSE s
          /\ bootstrapResolve' = IF ready /\ ~throws THEN s ELSE NoSession
          /\ toFrameWindow' = IF ready /\ ~throws THEN Append(toFrameWindow, s)
                              ELSE toFrameWindow
    BY <1>1, <1>3, Zenon DEF AttachPort
  <2>2. throws => ready
    BY <2>1, Zenon
  <2>3. Resolved(IF throws THEN "false" ELSE "pending")
    BY <1>1, <2>1 DEF Resolving, Superseded
  <2>4. HeldUntilReady'
    BY <1>1, <2>1, <2>2, Zenon DEF HeldUntilReady
  <2>5. CASE throws
    BY <2>1, <2>2, <2>3, <2>4, <2>5, Zenon
  <2>6. CASE ~throws /\ ready
    BY <2>1, <2>3, <2>4, <2>6, Zenon
  <2>7. CASE ~throws /\ ~ready
    BY <2>1, <2>3, <2>4, <2>7, Zenon
  <2>8. QED
    BY <2>5, <2>6, <2>7, Zenon
<1>4. CASE ~destroyed
  <2> HIDE DEF s
  <2>1. Held \/ Posted \/ PostThrew
    BY <1>3, <1>4
  <2>2. /\ attachResult' \in [Sessions -> Promises]
        /\ pendingBootstrap' \in SessionOrNone
        /\ bootstrapResolve' \in SessionOrNone
        /\ toFrameWindow' \in Seq(Sessions)
    <3>1. attachResult' \in [Sessions -> Promises]
      BY <1>0, <2>1 DEF Promises
    <3>2. pendingBootstrap' \in SessionOrNone /\ bootstrapResolve' \in SessionOrNone
      BY <1>0, <1>1, <2>1
    <3>3. toFrameWindow' \in Seq(Sessions)
      BY <1>0, <1>1, <2>1
    <3>4. QED
      BY <3>1, <3>2, <3>3
  <2>3. FrameTypeOK'
    BY <1>1, <2>2 DEF AttachNeverForgotten, FrameTypeOK
  <2>4. AttachNeverForgotten'
    BY <1>0, <1>1, <2>1, <2>3 DEF AttachNeverForgotten, Waiting
  <2>5. SenderTypeOK' /\ HeldUntilReady' /\ AnswersOnce' /\ DisplayIsReceivers'
    BY <1>1, <1>3, <1>4 DEF SenderTypeOK, AnswersOnce, DisplayIsReceivers
  <2>6. attached < s /\ \A t \in Sessions : t > s => t > attached
    BY <1>0 DEF s
  <2>7. CASE Held \/ PostThrew
    <3>1. PortsArriveInOrder'
      BY <1>0, <1>1, <2>6, <2>7 DEF PortsArriveInOrder
    <3>2. AnsweredUpToLastSeq'
      BY <1>0, <1>1, <2>6, <2>7 DEF AnsweredUpToLastSeq
    <3>3. QED
      BY <2>3, <2>4, <2>5, <3>1, <3>2
  <2>8. CASE Posted
    <3>1. \A i \in DOMAIN toFrameWindow' :
            \/ i \in DOMAIN toFrameWindow /\ toFrameWindow'[i] = toFrameWindow[i]
            \/ i = Len(toFrameWindow) + 1 /\ toFrameWindow'[i] = s
      BY <1>0, <1>1, <2>8
    <3>2. DOMAIN toFrameWindow = 1..Len(toFrameWindow)
          /\ Len(toFrameWindow) \in Nat
          /\ \A i \in DOMAIN toFrameWindow : toFrameWindow[i] \in Sessions
      BY <1>0
    <3>3. PortsArriveInOrder'
      BY <1>0, <1>1, <2>6, <2>8, <3>1, <3>2 DEF PortsArriveInOrder
    <3>4. AnsweredUpToLastSeq'
      BY <1>0, <1>1, <2>6, <2>8, <3>1 DEF AnsweredUpToLastSeq
    <3>5. QED
      BY <2>3, <2>4, <2>5, <3>3, <3>4
  <2>9. QED
    BY <2>1, <2>7, <2>8
<1>5. QED
  BY <1>2, <1>4 DEF AttachNeverForgotten, FrameTypeOK

\* The events of the host's frame object.
LEMMA HostFrameKeeps ==
  ASSUME FrameInv, HostFrameNext, UNCHANGED <<sent, attached>>
  PROVE  FrameInv'
<1> USE BoundsAssumption DEF FrameInv, hostSideVars, frameSideVars
<1>0. /\ attached \in SessionOrNone
      /\ receiver \in SessionOrNone
      /\ pendingBootstrap \in SessionOrNone
      /\ bootstrapResolve \in SessionOrNone
      /\ toFrameWindow \in Seq(Sessions)
      /\ fromFrame \in Seq(FrameMessages)
      /\ loads \in 0..MaxDocuments
      /\ documents \in 1..MaxDocuments
      /\ attachResult \in [Sessions -> Promises]
  BY DEF SenderTypeOK, AttachNeverForgotten, FrameTypeOK
<1>1. CASE OnLoad
  <2>1. loads' \in 0..MaxDocuments
    BY <1>0, <1>1, DocumentsAssumption DEF OnLoad
  <2>2. CASE Navigated(loads + 1)
    BY <1>1, <2>1, <2>2, DestroyKeeps DEF OnLoad
  <2>3. CASE ~Navigated(loads + 1)
    <3>1. UNCHANGED <<ready, destroyed, portBound, pendingBootstrap,
                      bootstrapResolve, attachResult, boundPromise, frameReady,
                      bootstrapTimer, toFrameWindow, fromFrame, documents,
                      scriptRuns, receiver, lastSeq, portRead, display, acks>>
      BY <1>1, <2>3 DEF OnLoad
    <3>2. AttachNeverForgotten'
      BY <2>1, <3>1 DEF AttachNeverForgotten, FrameTypeOK
    <3>3. QED
      BY <3>1, <3>2 DEF SenderTypeOK, HeldUntilReady, PortsArriveInOrder,
         AnsweredUpToLastSeq, AnswersOnce, DisplayIsReceivers
  <2>4. QED
    BY <2>2, <2>3
<1>2. CASE OnReadyAgain
  BY <1>0, <1>2, DestroyKeeps DEF OnReadyAgain
<1>3. CASE BootstrapTimeout
  <2>1. frameReady' \in Promises
    BY <1>3 DEF BootstrapTimeout, SettleIf, AttachNeverForgotten, FrameTypeOK,
       Promises
  <2>2. QED
    BY <1>3, <2>1 DEF BootstrapTimeout, AttachNeverForgotten, FrameTypeOK,
       SenderTypeOK, HeldUntilReady, PortsArriveInOrder, AnsweredUpToLastSeq,
       AnswersOnce, DisplayIsReceivers
<1>4. ASSUME NEW s \in Sessions, OnBound(s)
      PROVE  FrameInv'
  <2>1. /\ attachResult' = Resolving({bootstrapResolve}, "true")
        /\ bootstrapResolve' = NoSession
        /\ portBound' = TRUE
        /\ boundPromise' = SettleIf(boundPromise, "true")
        /\ fromFrame' = Tail(fromFrame)
        /\ fromFrame # <<>>
        /\ UNCHANGED <<ready, destroyed, loads, pendingBootstrap, frameReady,
                       bootstrapTimer, toFrameWindow, documents, scriptRuns,
                       receiver, lastSeq, portRead, display, acks>>
    BY <1>4 DEF OnBound, HostReads
  <2>2. /\ attachResult' \in [Sessions -> Promises]
        /\ boundPromise' \in Promises
        /\ fromFrame' \in Seq(FrameMessages)
    BY <1>0, <2>1 DEF Resolving, SettleIf, Promises, AttachNeverForgotten,
       FrameTypeOK
  <2>3. FrameTypeOK'
    BY <2>1, <2>2 DEF AttachNeverForgotten, FrameTypeOK
  <2>4. AttachNeverForgotten'
    BY <1>0, <2>1, <2>3 DEF AttachNeverForgotten, Resolving
  <2>5. QED
    BY <2>1, <2>3, <2>4 DEF SenderTypeOK, HeldUntilReady, PortsArriveInOrder,
       AnsweredUpToLastSeq, AnswersOnce, DisplayIsReceivers
<1>5. CASE OnFrameReady
  <2>1. /\ ready' = TRUE
        /\ ~ready
        /\ bootstrapTimer' = FALSE
        /\ frameReady' = SettleIf(frameReady, "true")
        /\ pendingBootstrap' = NoSession
        /\ fromFrame' = Tail(fromFrame)
        /\ fromFrame # <<>>
        /\ UNCHANGED <<destroyed, loads, portBound, boundPromise, documents,
                       scriptRuns, receiver, lastSeq, portRead, display, acks>>
    BY <1>5 DEF OnFrameReady, HostReads
  <2>2. \/ /\ pendingBootstrap # NoSession
           /\ bootstrapResolve' = pendingBootstrap
           /\ toFrameWindow' = Append(toFrameWindow, pendingBootstrap)
           /\ UNCHANGED attachResult
        \/ /\ bootstrapResolve' = IF pendingBootstrap = NoSession
                                  THEN bootstrapResolve ELSE NoSession
           /\ attachResult' = Resolving({pendingBootstrap}, "false")
           /\ UNCHANGED toFrameWindow
    BY <1>5 DEF OnFrameReady
  <2>3. toFrameWindow = <<>> /\ receiver = NoSession
        /\ \A s \in Sessions : acks[s] = <<>>
    BY <2>1 DEF HeldUntilReady, AnsweredUpToLastSeq
  <2>4. /\ toFrameWindow' \in Seq(Sessions)
        /\ \A i \in DOMAIN toFrameWindow' :
             /\ i = 1
             /\ toFrameWindow'[i] = pendingBootstrap
             /\ pendingBootstrap \in Sessions
    <3>1. CASE toFrameWindow' = toFrameWindow
      BY <1>0, <2>3, <3>1
    <3>2. CASE /\ pendingBootstrap # NoSession
               /\ toFrameWindow' = Append(toFrameWindow, pendingBootstrap)
      <4>1. pendingBootstrap \in Sessions
        BY <1>0, <3>2
      <4>2. DOMAIN toFrameWindow' = {1} /\ toFrameWindow'[1] = pendingBootstrap
        BY <1>0, <2>3, <3>2, <4>1
      <4>3. QED
        BY <1>0, <3>2, <4>1, <4>2
    <3>3. QED
      BY <2>2, <3>1, <3>2
  <2>5. FrameTypeOK'
    <3>1. frameReady' \in Promises /\ fromFrame' \in Seq(FrameMessages)
      BY <1>0, <2>1 DEF SettleIf, Promises, AttachNeverForgotten, FrameTypeOK
    <3>2. attachResult' \in [Sessions -> Promises]
      BY <1>0, <2>2 DEF Resolving, Promises
    <3>3. toFrameWindow' \in Seq(Sessions)
      BY <2>4
    <3>4. bootstrapResolve' \in SessionOrNone
      BY <1>0, <2>2
    <3>5. QED
      BY <2>1, <3>1, <3>2, <3>3, <3>4 DEF AttachNeverForgotten, FrameTypeOK
  <2>6. AttachNeverForgotten'
    BY <1>0, <2>1, <2>2, <2>5 DEF AttachNeverForgotten, Resolving
  <2>7. PortsArriveInOrder'
    BY <1>0, <2>1, <2>2, <2>3, <2>4 DEF PortsArriveInOrder
  <2>8. AnsweredUpToLastSeq' /\ HeldUntilReady'
    BY <2>1, <2>3, <2>4 DEF AnsweredUpToLastSeq, HeldUntilReady
  <2>9. QED
    BY <2>1, <2>5, <2>6, <2>7, <2>8 DEF SenderTypeOK, AnswersOnce,
       DisplayIsReceivers
<1>6. QED
  BY <1>1, <1>2, <1>3, <1>4, <1>5 DEF HostFrameNext

-----------------------------------------------------------------------------
(***************************************************************************
 The frame.
 ***************************************************************************)

\* A command is answered only if it is newer than everything answered on its
\* port.
LEMMA FrameReceivesKeeps ==
  ASSUME FrameInv, FrameTakes
  PROVE  FrameInv'
<1> USE BoundsAssumption DEF FrameInv
<1>0. /\ receiver \in SessionOrNone
      /\ acks \in [Sessions -> Seq(Acks)]
      /\ portRead \in [Sessions -> Nat]
      /\ lastSeq \in Nat
      /\ FrameTypeOK
  BY DEF AttachNeverForgotten, FrameTypeOK
<1>1. PICK s \in Sessions : FrameReceives(s, sent[s])
  BY DEF FrameTakes
<1> DEFINE c == sent[s][portRead[s] + 1]
<1>2. /\ receiver = s
      /\ c \in Commands
      /\ portRead' \in [Sessions -> Nat]
      /\ UNCHANGED <<ready, destroyed, loads, portBound, pendingBootstrap,
                     bootstrapResolve, attachResult, boundPromise, frameReady,
                     bootstrapTimer, toFrameWindow, fromFrame, documents,
                     scriptRuns, receiver, sent, attached>>
  <2>1. receiver = s /\ portRead[s] < Len(sent[s])
    BY <1>1 DEF FrameReceives, ListensOn
  <2>2. sent[s] \in Seq(Commands) /\ portRead[s] + 1 \in 1..Len(sent[s])
    BY <1>0, <2>1 DEF SenderTypeOK
  <2>3. c \in Commands
    BY <2>2, ElementOfSeq
  <2>4. portRead' = [portRead EXCEPT ![s] = portRead[s] + 1]
    BY <1>1 DEF FrameReceives
  <2>5. QED
    BY <1>0, <1>1, <2>1, <2>3, <2>4 DEF FrameReceives, FrameTakes, hostSideVars
<1> HIDE DEF c
<1>3. CASE UNCHANGED <<lastSeq, display, acks>>
  BY <1>2, <1>3 DEF SenderTypeOK, AttachNeverForgotten, FrameTypeOK,
     HeldUntilReady, PortsArriveInOrder, AnsweredUpToLastSeq, AnswersOnce,
     DisplayIsReceivers
<1>4. ASSUME NEW ok \in BOOLEAN,
             IsNewer(c),
             lastSeq' = c.seq,
             display' \in {display, Blank, Shown(s, c)},
             acks' = [acks EXCEPT ![s] = Append(acks[s], Ack(c, ok))]
      PROVE  FrameInv'
  <2> DEFINE a == Ack(c, ok)
  <2>1. a \in Acks /\ a.seq = c.seq /\ c.seq \in Nat /\ c.seq > lastSeq
    BY <1>2, <1>4 DEF Ack, Acks, Commands, IsNewer
  <2> HIDE DEF a
  <2>2. Shown(s, c) \in [session : Sessions, requestId : Requests,
                         generation : Generations, seq : Nat]
        /\ Shown(s, c).session = s
    BY <1>2 DEF Shown, Commands
  <2>3. FrameTypeOK'
    <3>1. acks' \in [Sessions -> Seq(Acks)]
      BY <1>0, <1>4, <2>1 DEF a
    <3>2. display' \in {Blank} \cup [session : Sessions, requestId : Requests,
                                     generation : Generations, seq : Nat]
      BY <1>0, <1>4, <2>2 DEF FrameTypeOK
    <3>3. lastSeq' \in Nat
      BY <1>4, <2>1
    <3>4. QED
      BY <1>0, <1>2, <3>1, <3>2, <3>3 DEF FrameTypeOK
  <2>4. AttachNeverForgotten' /\ SenderTypeOK' /\ PortsArriveInOrder'
        /\ HeldUntilReady'
    BY <1>2, <2>3 DEF AttachNeverForgotten, SenderTypeOK, PortsArriveInOrder,
       HeldUntilReady
  <2>5. /\ \A t \in Sessions \ {s} : acks'[t] = acks[t]
        /\ acks'[s] = Append(acks[s], a)
        /\ Len(acks[s]) \in Nat
        /\ DOMAIN acks[s] = 1..Len(acks[s])
        /\ DOMAIN acks'[s] = 1..(Len(acks[s]) + 1)
        /\ acks'[s][Len(acks[s]) + 1] = a
        /\ \A i \in DOMAIN acks[s] : acks'[s][i] = acks[s][i]
    BY <1>0, <1>4, <2>1 DEF a
  <2>6. \A i \in DOMAIN acks[s] : acks[s][i].seq \in Nat /\ acks[s][i].seq <= lastSeq
    <3>1. \A i \in DOMAIN acks[s] : acks[s][i] \in Acks
      BY <1>0, <2>5, ElementOfSeq
    <3>2. \A i \in DOMAIN acks[s] : acks[s][i].seq <= lastSeq
      BY <1>2 DEF AnsweredUpToLastSeq
    <3>3. QED
      BY <3>1, <3>2 DEF Acks
  <2>7. AnsweredUpToLastSeq'
    <3>1. ready /\ s <= attached
      BY <1>2 DEF HeldUntilReady, PortsArriveInOrder
    <3>2. \A i \in DOMAIN toFrameWindow : toFrameWindow[i] \in Sessions \ {s}
      <4>1. toFrameWindow \in Seq(Sessions)
        BY <1>0 DEF FrameTypeOK
      <4>2. \A i \in DOMAIN toFrameWindow : toFrameWindow[i] \in Sessions
        BY <4>1
      <4>3. \A i \in DOMAIN toFrameWindow : s < toFrameWindow[i]
        BY <1>2 DEF PortsArriveInOrder
      <4>4. QED
        BY <4>2, <4>3
    <3>3. \A i \in DOMAIN acks'[s] : acks'[s][i].seq <= c.seq
      BY <1>0, <2>1, <2>5, <2>6
    <3>4. QED
      BY <1>2, <1>4, <2>5, <3>1, <3>2, <3>3 DEF AnsweredUpToLastSeq, SenderTypeOK
  <2>8. AnswersOnce'
    <3>1. \A i, j \in DOMAIN acks'[s] : i < j => acks'[s][i].seq < acks'[s][j].seq
      <4>1. ASSUME NEW i \in DOMAIN acks'[s], NEW j \in DOMAIN acks'[s], i < j
            PROVE  acks'[s][i].seq < acks'[s][j].seq
        <5>1. i \in DOMAIN acks[s] /\ acks'[s][i] = acks[s][i]
          BY <2>5, <4>1
        <5>2. CASE j \in DOMAIN acks[s]
          BY <2>5, <4>1, <5>1, <5>2 DEF AnswersOnce
        <5>3. CASE j = Len(acks[s]) + 1
          <6>1. acks'[s][j].seq = c.seq
            BY <2>1, <2>5, <5>3
          <6>2. acks[s][i].seq \in Nat /\ acks[s][i].seq <= lastSeq
            BY <2>6, <5>1
          <6>3. QED
            BY <1>0, <2>1, <5>1, <6>1, <6>2
        <5>4. QED
          BY <2>5, <4>1, <5>2, <5>3
      <4>2. QED
        BY <4>1
    <3>2. QED
      BY <2>5, <3>1 DEF AnswersOnce
  <2>9. DisplayIsReceivers'
    BY <1>0, <1>2, <1>4, <2>2 DEF DisplayIsReceivers, Blank
  <2>10. QED
    BY <2>3, <2>4, <2>7, <2>8, <2>9
<1>5. QED
  BY <1>1, <1>3, <1>4 DEF FrameReceives, c

\* What the frame does by itself: it starts, navigates, and takes the newest
\* port.
LEMMA FrameScriptKeeps ==
  ASSUME FrameInv, FrameScriptNext, UNCHANGED <<sent, attached>>
  PROVE  FrameInv'
<1> USE BoundsAssumption DEF FrameInv, hostSideVars
<1>0. /\ receiver \in SessionOrNone
      /\ attached \in SessionOrNone
      /\ toFrameWindow \in Seq(Sessions)
      /\ fromFrame \in Seq(FrameMessages)
      /\ FrameTypeOK
  BY DEF SenderTypeOK, AttachNeverForgotten, FrameTypeOK
<1>1. CASE FrameStarts
  <2>1. fromFrame' \in Seq(FrameMessages)
    BY <1>0, <1>1, AppendProperties DEF FrameStarts, FrameMessages
  <2>2. FrameTypeOK'
    BY <1>0, <1>1, <2>1 DEF FrameStarts, FrameTypeOK
  <2>3. QED
    BY <1>1, <2>2 DEF FrameStarts, AttachNeverForgotten, SenderTypeOK,
       HeldUntilReady, PortsArriveInOrder, AnsweredUpToLastSeq, AnswersOnce,
       DisplayIsReceivers
<1>2. CASE FrameNavigates
  <2>1. /\ documents' \in 1..MaxDocuments
        /\ receiver' = NoSession
        /\ display' = Blank
        /\ toFrameWindow' = toFrameWindow \/ toFrameWindow' = <<>>
        /\ UNCHANGED <<ready, destroyed, loads, portBound, pendingBootstrap,
                       bootstrapResolve, attachResult, boundPromise,
                       frameReady, bootstrapTimer, fromFrame, portRead, acks>>
    BY <1>0, <1>2, DocumentsAssumption DEF FrameNavigates, FrameTypeOK
  <2>2. FrameTypeOK'
    <3>1. toFrameWindow' \in Seq(Sessions)
      BY <1>0, <2>1, EmptySeq
    <3>2. lastSeq' = 0 /\ scriptRuns' = FALSE
      BY <1>2 DEF FrameNavigates
    <3>3. receiver' \in SessionOrNone /\ display' \in {Blank}
      BY <2>1
    <3>4. lastSeq' \in Nat /\ scriptRuns' \in BOOLEAN
      BY <3>2
    <3>5. QED
      BY <1>0, <2>1, <3>1, <3>3, <3>4 DEF FrameTypeOK
  <2>3. PortsArriveInOrder'
    <3>1. \A i \in DOMAIN toFrameWindow : toFrameWindow[i] > 0
      BY <1>0
    <3>2. CASE toFrameWindow' = toFrameWindow
      BY <1>0, <2>1, <3>1, <3>2 DEF PortsArriveInOrder
    <3>3. CASE toFrameWindow' = <<>>
      BY <1>0, <2>1, <3>3 DEF PortsArriveInOrder
    <3>4. QED
      BY <2>1, <3>2, <3>3
  <2>4. QED
    BY <2>1, <2>2, <2>3 DEF AttachNeverForgotten, SenderTypeOK,
       HeldUntilReady, AnsweredUpToLastSeq, AnswersOnce, DisplayIsReceivers,
       Blank
<1>3. CASE FrameBootstraps
  <2>1. /\ toFrameWindow # <<>>
        /\ toFrameWindow' = Tail(toFrameWindow)
        /\ receiver' = Head(toFrameWindow)
        /\ lastSeq' = 0
        /\ fromFrame' = Append(fromFrame, Bound(Head(toFrameWindow)))
        /\ UNCHANGED <<ready, destroyed, loads, portBound, pendingBootstrap,
                       bootstrapResolve, attachResult, boundPromise,
                       frameReady, bootstrapTimer, documents, scriptRuns,
                       portRead, display, acks>>
    BY <1>3 DEF FrameBootstraps
  <2>2. /\ Head(toFrameWindow) = toFrameWindow[1]
        /\ 1 \in DOMAIN toFrameWindow
        /\ receiver' \in Sessions
        /\ toFrameWindow' \in Seq(Sessions)
        /\ \A i \in DOMAIN toFrameWindow' :
             /\ i + 1 \in DOMAIN toFrameWindow
             /\ 1 < i + 1
             /\ toFrameWindow'[i] = toFrameWindow[i + 1]
             /\ \A j \in DOMAIN toFrameWindow' : i < j => i + 1 < j + 1
    <3>1. /\ Len(toFrameWindow) \in Nat \ {0}
          /\ DOMAIN toFrameWindow = 1..Len(toFrameWindow)
          /\ \A i \in 1..Len(toFrameWindow) : toFrameWindow[i] \in Sessions
      <4>1. Len(toFrameWindow) \in Nat \ {0}
        BY <1>0, <2>1, EmptySeq
      <4>2. QED
        BY <1>0, <4>1, LenProperties, ElementOfSeq
    <3>2. /\ Head(toFrameWindow) = toFrameWindow[1]
          /\ Tail(toFrameWindow) \in Seq(Sessions)
          /\ DOMAIN Tail(toFrameWindow) = 1..(Len(toFrameWindow) - 1)
          /\ \A i \in 1..(Len(toFrameWindow) - 1) :
               Tail(toFrameWindow)[i] = toFrameWindow[i + 1]
      BY <1>0, <2>1, <3>1, HeadTailProperties
    <3>3. ASSUME NEW i \in 1..(Len(toFrameWindow) - 1)
          PROVE  /\ i + 1 \in 1..Len(toFrameWindow)
                 /\ 1 < i + 1
                 /\ \A j \in 1..(Len(toFrameWindow) - 1) : i < j => i + 1 < j + 1
      BY <3>1
    <3>4. 1 \in 1..Len(toFrameWindow)
      BY <3>1
    <3>5. QED
      BY <2>1, <3>1, <3>2, <3>3, <3>4
  <2>3. Bound(Head(toFrameWindow)) \in FrameMessages
    BY <2>1, <2>2 DEF FrameMessages
  <2>4. FrameTypeOK'
    <3>1. fromFrame' \in Seq(FrameMessages)
      BY <1>0, <2>1, <2>3, AppendProperties
    <3>2. receiver' \in SessionOrNone /\ lastSeq' \in Nat
      BY <2>1, <2>2
    <3>3. QED
      BY <1>0, <2>1, <2>2, <3>1, <3>2 DEF FrameTypeOK
  <2>5. receiver < receiver' /\ receiver' <= attached /\ acks[receiver'] = <<>>
    BY <2>1, <2>2 DEF PortsArriveInOrder, AnsweredUpToLastSeq
  <2>6. PortsArriveInOrder'
    BY <2>1, <2>2, <2>5 DEF PortsArriveInOrder
  <2>7. AnsweredUpToLastSeq'
    BY <2>1, <2>2, <2>5 DEF AnsweredUpToLastSeq
  <2>8. HeldUntilReady'
    BY <2>1 DEF HeldUntilReady
  <2>9. DisplayIsReceivers'
    <3>1. display.session \in SessionOrNone
      BY <1>0 DEF FrameTypeOK, Blank
    <3>2. QED
      BY <1>0, <2>1, <2>2, <2>5, <3>1 DEF DisplayIsReceivers
  <2>10. QED
    BY <2>1, <2>4, <2>6, <2>7, <2>8, <2>9 DEF AttachNeverForgotten,
       SenderTypeOK, AnswersOnce
<1>4. QED
  BY <1>1, <1>2, <1>3 DEF FrameScriptNext

\* A sender posts on a port it was given: the frame's state is untouched.
LEMMA SenderPostsKeeps ==
  ASSUME FrameInv, SenderPosts
  PROVE  FrameInv'
<1>1. SenderTypeOK'
  <2>1. PICK s \in 1..attached, n \in 0..MaxSeq, r \in Requests, g \in Generations :
          sent' = [sent EXCEPT ![s] = Append(sent[s], Command(n, r, g))]
    BY DEF SenderPosts
  <2>2. Command(n, r, g) \in Commands
    BY SenderAssumption DEF Command, Commands
  <2>3. QED
    BY <2>1, <2>2, AppendProperties DEF SenderPosts, FrameInv, SenderTypeOK
<1>2. QED
  BY <1>1 DEF SenderPosts, frameVars, hostSideVars, frameSideVars, FrameInv,
     AttachNeverForgotten, FrameTypeOK, SenderTypeOK, HeldUntilReady,
     PortsArriveInOrder, AnsweredUpToLastSeq, AnswersOnce, DisplayIsReceivers

-----------------------------------------------------------------------------
\* The invariant holds of the frame between any host and any senders.
THEOREM FrameInvariant == MCSpec => []FrameInv
<1>1. MCInit => FrameInv
  BY FrameInvInit
<1>2. FrameInv /\ [MCNext]_mcVars => FrameInv'
  <2> SUFFICES ASSUME FrameInv, [MCNext]_mcVars PROVE FrameInv'
    OBVIOUS
  <2>1. CASE HostFrameNext /\ UNCHANGED <<sent, attached>>
    BY <2>1, HostFrameKeeps
  <2>2. CASE FrameScriptNext /\ UNCHANGED <<sent, attached>>
    BY <2>2, FrameScriptKeeps
  <2>3. CASE FrameDestroy /\ UNCHANGED <<sent, attached>>
    BY <2>3, DestroyKeeps DEF FrameDestroy, FrameInv, AttachNeverForgotten,
       FrameTypeOK
  <2>4. CASE HostAttaches
    BY <2>4, HostAttachesKeeps
  <2>5. CASE SenderPosts
    BY <2>5, SenderPostsKeeps
  <2>6. CASE FrameTakes
    BY <2>6, FrameReceivesKeeps
  <2>7. CASE UNCHANGED mcVars
    BY <2>7 DEF mcVars, frameVars, hostSideVars, frameSideVars, FrameInv,
       AttachNeverForgotten, FrameTypeOK, SenderTypeOK, HeldUntilReady,
       PortsArriveInOrder, AnsweredUpToLastSeq, AnswersOnce,
       DisplayIsReceivers
  <2>8. QED
    BY <2>1, <2>2, <2>3, <2>4, <2>5, <2>6, <2>7 DEF MCNext
<1>3. QED
  BY <1>1, <1>2, PTL DEF MCSpec

\* A promise of attachPort() (host.js:244-290) is open exactly while the frame
\* object holds its resolver, whatever the frame does.
THEOREM AttachNeverForgottenHolds == MCSpec => []AttachNeverForgotten
<1>1. FrameInv => AttachNeverForgotten
  BY DEF FrameInv
<1>2. QED
  BY <1>1, FrameInvariant, PTL

\* No port, whatever it carries, elicits two acknowledgements of one command
\* (frame-channel.js).
THEOREM AnswersOnceHolds == MCSpec => []AnswersOnce
<1>1. FrameInv => AnswersOnce
  BY DEF FrameInv
<1>2. QED
  BY <1>1, FrameInvariant, PTL

\* Once the frame showed what a newer Worker sent, nothing an older Worker left
\* on its port is displayed: the frame listens on one port (frame.js), and
\* ports only get newer.
THEOREM NeverBackToOlderWorkerHolds == MCSpec => NeverBackToOlderWorker
<1> DEFINE Forward == display' # Blank => display'.session >= display.session
<1>1. ASSUME FrameInv, [MCNext]_mcVars
      PROVE  Forward
  <2> USE BoundsAssumption
  <2>1. /\ display.session \in SessionOrNone
        /\ display.session <= receiver
    BY <1>1 DEF FrameInv, AttachNeverForgotten, FrameTypeOK, Blank,
       DisplayIsReceivers
  <2>2. CASE UNCHANGED display
    BY <2>1, <2>2
  <2>3. CASE display' = Blank
    BY <2>3
  <2>4. CASE FrameTakes
    <3>1. PICK s \in Sessions : FrameReceives(s, sent[s])
      BY <2>4 DEF FrameTakes
    <3>2. CASE \E c : display' = Shown(s, c)
      BY <2>1, <3>1, <3>2 DEF FrameReceives, ListensOn, Shown
    <3>3. QED
      BY <2>2, <2>3, <3>1, <3>2 DEF FrameReceives
  <2>5. CASE HostFrameNext
    BY <2>2, <2>3, <2>5 DEF HostFrameNext, OnLoad, OnFrameReady, OnReadyAgain,
       OnBound, BootstrapTimeout, Destroy, frameSideVars
  <2>6. CASE FrameScriptNext
    BY <2>2, <2>3, <2>6 DEF FrameScriptNext, FrameStarts, FrameNavigates,
       FrameBootstraps
  <2>7. CASE FrameDestroy
    BY <2>3, <2>7 DEF FrameDestroy, Destroy
  <2>8. CASE HostAttaches \/ SenderPosts \/ UNCHANGED mcVars
    BY <2>2, <2>8 DEF HostAttaches, HostAttachesPort, SenderPosts, mcVars,
       frameVars, frameSideVars
  <2>9. QED
    BY <1>1, <2>4, <2>5, <2>6, <2>7, <2>8 DEF MCNext
<1>2. FrameInv /\ [MCNext]_mcVars => [Forward]_frameVars
  BY <1>1
<1>3. QED
  BY <1>2, FrameInvariant, PTL DEF MCSpec, NeverBackToOlderWorker
=============================================================================
